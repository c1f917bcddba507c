----------------------------- MODULE MessagePack -----------------------------
(***************************************************************************)
(* Encoder and Decoder of signalr-protocol-msgpack.js.  A value is a pair  *)
(* of its type and its content; a string is its bytes in UTF-8, a map the  *)
(* sequence of its keys and values, and a number of 64 bits or a float is  *)
(* the bytes it is written as, which nothing here looks into.              *)
(***************************************************************************)
EXTENDS Integers, Sequences, SequencesExt

CONSTANTS
  MaxEncodeDepth,   \* maxDepth of the encoder
  MaxLengthPerKey   \* how many keys of one length CachedKeyDecoder keeps

ASSUME MaxEncodeDepthAssumption == MaxEncodeDepth \in Nat
ASSUME MaxLengthPerKeyAssumption == MaxLengthPerKey \in Nat \ {0}

Byte == 0 .. 255
MaxKeyLength == 16

Undefined == <<"undefined", 0>>
Nil == <<"nil", 0>>
Bool(b) == <<"bool", b>>
Num(n) == <<"int", n>>
Str(bytes) == <<"str", bytes>>
Bin(bytes) == <<"bin", bytes>>
Ext(type, bytes) == <<"ext", <<type, bytes>>>>
Wide(head, bytes) == <<"wide", <<head, bytes>>>>
Arr(items) == <<"array", items>>
Map(pairs) == <<"map", pairs>>

TypeOf(v) == v[1]
Content(v) == v[2]

\* What a condition of the script takes for false.
Falsy(v) == v \in {Undefined, Nil, Bool(FALSE), Num(0), Str(<<>>)}

-----------------------------------------------------------------------------
(* Encoder                                                                 *)

\* setUint8, setUint16 and setUint32 of DataView, and their signed forms.
U8(n) == <<n % 256>>
U16(n) == <<(n \div 256) % 256>> \o U8(n)
U32(n) == <<(n \div 16777216) % 256, (n \div 65536) % 256>> \o U16(n)

\* The shortest form that holds the number.
EncodeNumber(n) ==
  CASE n \in 0 .. 127 -> U8(n)
    [] n \in 128 .. 255 -> <<204>> \o U8(n)
    [] n \in 256 .. 65535 -> <<205>> \o U16(n)
    [] n > 65535 -> <<206>> \o U32(n)
    [] n \in -32 .. -1 -> U8(n)
    [] n \in -128 .. -33 -> <<208>> \o U8(n)
    [] n \in -32768 .. -129 -> <<209>> \o U16(n)
    [] n < -32768 -> <<210>> \o U32(n)

\* A head byte and a size: within the head byte below fix.limit, or in 8, 16 or 32 bits
\* where the type has that form.
SizeHeader(fix, head, size) ==
  IF size < fix.limit THEN <<fix.head + size>>
  ELSE IF head.u8 # 0 /\ size < 256 THEN <<head.u8>> \o U8(size)
  ELSE IF size < 65536 THEN <<head.u16>> \o U16(size)
  ELSE <<head.u32>> \o U32(size)

StringHeader(size) ==
  SizeHeader([limit |-> 32, head |-> 160], [u8 |-> 217, u16 |-> 218, u32 |-> 219], size)
BinaryHeader(size) ==
  SizeHeader([limit |-> 0, head |-> 0], [u8 |-> 196, u16 |-> 197, u32 |-> 198], size)
ArrayHeader(size) ==
  SizeHeader([limit |-> 16, head |-> 144], [u8 |-> 0, u16 |-> 220, u32 |-> 221], size)
MapHeader(size) ==
  SizeHeader([limit |-> 16, head |-> 128], [u8 |-> 0, u16 |-> 222, u32 |-> 223], size)

FixExt == [size \in {1, 2, 4, 8, 16} |->
             CASE size = 1 -> 212 [] size = 2 -> 213 [] size = 4 -> 214 [] size = 8 -> 215
               [] size = 16 -> 216]
ExtHeader(size) ==
  IF size \in DOMAIN FixExt THEN <<FixExt[size]>>
  ELSE SizeHeader([limit |-> 0, head |-> 0], [u8 |-> 199, u16 |-> 200, u32 |-> 201], size)

RECURSIVE DepthOf(_)
DepthOf(v) ==
  LET parts == CASE TypeOf(v) = "array" -> ToSet(Content(v))
                 [] TypeOf(v) = "map" -> {p[2] : p \in ToSet(Content(v))}
                 [] OTHER -> {}
  IN 1 + Max({0} \cup {DepthOf(p) : p \in parts})

TooDeep(v) == DepthOf(v) > MaxEncodeDepth

\* doEncode of a value that is not too deep, and the forms it has for objects.
RECURSIVE Encode(_)

EncodeString(bytes) == StringHeader(Len(bytes)) \o bytes
EncodeBinary(bytes) == BinaryHeader(Len(bytes)) \o bytes
EncodeExtension(type, data) == ExtHeader(Len(data)) \o U8(type) \o data
EncodeArray(items) ==
  ArrayHeader(Len(items)) \o FlattenSeq([i \in DOMAIN items |-> Encode(items[i])])
EncodeMap(pairs) ==
  MapHeader(Len(pairs)) \o
  FlattenSeq([i \in DOMAIN pairs |-> Encode(pairs[i][1]) \o Encode(pairs[i][2])])

EncodeObject(v) ==
  LET c == Content(v)
  IN CASE TypeOf(v) = "ext" -> EncodeExtension(c[1], c[2])
       [] TypeOf(v) = "array" -> EncodeArray(c)
       [] TypeOf(v) = "bin" -> EncodeBinary(c)
       [] TypeOf(v) = "map" -> EncodeMap(c)

Encode(v) ==
  LET c == Content(v)
  IN CASE TypeOf(v) \in {"nil", "undefined"} -> <<192>>
       [] TypeOf(v) = "bool" -> IF c THEN <<195>> ELSE <<194>>
       [] TypeOf(v) = "int" -> EncodeNumber(c)
       [] TypeOf(v) = "wide" -> <<c[1]>> \o c[2]
       [] TypeOf(v) = "str" -> EncodeString(c)
       [] OTHER -> EncodeObject(v)

-----------------------------------------------------------------------------
(* Decoder.  d is its state: bytes and pos, the head byte that was read, the *)
(* stack of arrays and maps, the keys of CachedKeyDecoder, and the object  *)
(* that the inner loop of doDecodeSync hands to the stack.                 *)

HeadByteRequired == -1

NewDecoder(keys) ==
  [bytes |-> <<>>, pos |-> 0, headByte |-> HeadByteRequired, stack |-> <<>>,
   object |-> <<>>, keys |-> keys]

HasRemaining(d, size) == Len(d.bytes) - d.pos >= size

SetBuffer(d, buffer) == [d EXCEPT !.bytes = buffer, !.pos = 0]

\* What was read is dropped.
AppendBuffer(d, buffer) ==
  IF d.headByte = HeadByteRequired /\ ~HasRemaining(d, 1) THEN SetBuffer(d, buffer)
  ELSE SetBuffer(d, SubSeq(d.bytes, d.pos + 1, Len(d.bytes)) \o buffer)

\* What a head byte says: the kind of item, the size in the byte itself, or the number of
\* bytes that hold the size or the number.
Plain(kind, size) == [kind |-> kind, size |-> size, lead |-> 0]
Led(kind, lead) == [kind |-> kind, size |-> 0, lead |-> lead]

Unrecognized == Plain("unrecognized", 0)

Format(h) ==
  CASE h < 128 -> Plain("number", h)
    [] h >= 224 -> Plain("number", h - 256)
    [] h \in 128 .. 143 -> Plain("map", h - 128)
    [] h \in 144 .. 159 -> Plain("array", h - 144)
    [] h \in 160 .. 191 -> Plain("str", h - 160)
    [] h = 192 -> Plain("nil", 0)
    [] h = 194 -> Plain("false", 0)
    [] h = 195 -> Plain("true", 0)
    [] h \in 196 .. 198 -> Led("bin", <<1, 2, 4>>[h - 195])
    [] h \in 199 .. 201 -> Led("ext", <<1, 2, 4>>[h - 198])
    [] h = 202 -> Plain("wide", 4)
    [] h \in {203, 207, 211} -> Plain("wide", 8)
    [] h \in 204 .. 206 -> Led("unsigned", <<1, 2, 4>>[h - 203])
    [] h \in 208 .. 210 -> Led("signed", <<1, 2, 4>>[h - 207])
    [] h \in 212 .. 216 -> Plain("ext", <<1, 2, 4, 8, 16>>[h - 211])
    [] h \in 217 .. 219 -> Led("str", <<1, 2, 4>>[h - 216])
    [] h \in 220 .. 221 -> Led("array", <<2, 4>>[h - 219])
    [] h \in 222 .. 223 -> Led("map", <<2, 4>>[h - 221])
    [] OTHER -> Unrecognized

\* getUint8, getUint16 and getUint32 at pos; the signed forms read the first byte so.
Signed8(b) == IF b < 128 THEN b ELSE b - 256
Number(d, lead, signed) ==
  LET at(i) == d.bytes[d.pos + i]
      first == IF signed THEN Signed8(at(1)) ELSE at(1)
  IN CASE lead = 1 -> first
       [] lead = 2 -> first * 256 + at(2)
       [] lead = 4 -> first * 16777216 + at(2) * 65536 + at(3) * 256 + at(4)

SizeOf(d, f) == IF f.lead = 0 THEN f.size ELSE Number(d, f.lead, FALSE)

Sized == {"str", "bin", "ext", "wide"}

\* The bytes of an item after its head byte; an extension has its type before its data.
ItemLength(d, f) ==
  f.lead + (IF f.kind \in Sized THEN SizeOf(d, f) ELSE 0) + (IF f.kind = "ext" THEN 1 ELSE 0)

\* readHeadByte; without a byte it throws, and nothing has changed.
ReadHeadByte(d) ==
  IF d.headByte # HeadByteRequired THEN d
  ELSE [d EXCEPT !.headByte = d.bytes[d.pos + 1], !.pos = @ + 1]

HasHeadByte(d) == d.headByte # HeadByteRequired \/ HasRemaining(d, 1)

\* Is the whole item there?  If not it throws MORE_DATA and will be read again from its
\* head byte, which is kept.
HasItem(d) ==
  LET f == Format(d.headByte)
  IN HasRemaining(d, f.lead) /\ HasRemaining(d, ItemLength(d, f))

ItemComplete(d) == [d EXCEPT !.headByte = HeadByteRequired]

StateIsMapKey(d) == d.stack # <<>> /\ Last(d.stack).type = "key"

CanBeCached(size) == size > 0 /\ size <= MaxKeyLength

\* CachedKeyDecoder: the key found, or decoded and stored, in place of any other when
\* there are enough of its length.
FoundByLength(keys, bytes) ==   \* mutant: the bytes are not compared
  {k \in ToSet(keys) : Len(k.bytes) = Len(bytes)}
Found(keys, bytes) == {k \in ToSet(keys) : Len(k.bytes) = Len(bytes) /\ k.bytes = bytes}

SameLength(keys, bytes) == {i \in DOMAIN keys : Len(keys[i].bytes) = Len(bytes)}

Stored(keys, bytes) ==
  LET record == [bytes |-> bytes, str |-> Str(bytes)]
      same == SameLength(keys, bytes)
  IN IF Cardinality(same) < MaxLengthPerKey THEN {Append(keys, record)}
     ELSE {[keys EXCEPT ![i] = record] : i \in same}

PushFrame(d, frame) == [d EXCEPT !.stack = Append(@, frame)]

PushArray(d, size) == PushFrame(d, [type |-> "array", size |-> size, items |-> <<>>, key |-> Nil])
PushMap(d, size) == PushFrame(d, [type |-> "key", size |-> size, items |-> <<>>, key |-> Nil])

\* One turn of the loop of doDecodeSync on an item that is there: the states it may leave,
\* several where a key replaces another in the cache.
DecodeItem(d) ==
  LET f == Format(d.headByte)
      size == SizeOf(d, f)
      body == SubSeq(d.bytes, d.pos + f.lead + 1, d.pos + ItemLength(d, f))
      read == ItemComplete([d EXCEPT !.pos = @ + ItemLength(d, f)])
      Is(v) == {[read EXCEPT !.object = <<v>>]}
  IN CASE f.kind = "number" -> Is(Num(f.size))
       [] f.kind = "unsigned" -> Is(Num(Number(d, f.lead, FALSE)))
       [] f.kind = "signed" -> Is(Num(Number(d, f.lead, TRUE)))
       [] f.kind = "nil" -> Is(Nil)
       [] f.kind = "false" -> Is(Bool(FALSE))
       [] f.kind = "true" -> Is(Bool(TRUE))
       [] f.kind = "wide" -> Is(Wide(d.headByte, body))
       [] f.kind = "bin" -> Is(Bin(body))
       [] f.kind = "ext" -> Is(Ext(Signed8(Head(body)), Tail(body)))
       [] f.kind = "array" -> IF size = 0 THEN Is(Arr(<<>>)) ELSE {PushArray(read, size)}
       [] f.kind = "map" -> IF size = 0 THEN Is(Map(<<>>)) ELSE {PushMap(read, size)}
       [] f.kind = "str" ->
            IF ~(StateIsMapKey(d) /\ CanBeCached(size)) THEN Is(Str(body))
            ELSE IF Found(d.keys, body) # {}
                 THEN Is((CHOOSE k \in Found(d.keys, body) : TRUE).str)
                 ELSE {[read EXCEPT !.object = <<Str(body)>>, !.keys = keys] :
                         keys \in Stored(d.keys, body)}

\* One turn of the inner loop: the topmost array or map takes the object, and is the next
\* object when it is full.
Proto == Str(<<95, 95, 112, 114, 111, 116, 111, 95, 95>>)   \* "__proto__"
KeyAllowed(v) == TypeOf(v) \in {"str", "int", "wide"} /\ v # Proto

Deliver(d) ==
  LET top == Last(d.stack)
      object == d.object[1]
      Takes(frame) == [d EXCEPT !.object = <<>>, !.stack[Len(d.stack)] = frame]
      Fills(items, value) ==
        IF Len(items) = top.size THEN [d EXCEPT !.object = <<value>>, !.stack = Front(d.stack)]
        ELSE Takes([top EXCEPT !.items = items, !.key = Nil,
                               !.type = IF top.type = "array" THEN "array" ELSE "key"])
  IN CASE top.type = "array" -> LET items == Append(top.items, object) IN Fills(items, Arr(items))
       [] top.type = "key" -> Takes([top EXCEPT !.key = object, !.type = "value"])
       [] top.type = "value" ->
            LET pairs == Append(top.items, <<top.key, object>>) IN Fills(pairs, Map(pairs))

KeyRefused(d) ==
  d.object # <<>> /\ StateIsMapKey(d) /\ ~KeyAllowed(d.object[1])

=============================================================================
