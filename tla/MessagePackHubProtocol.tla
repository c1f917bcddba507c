----------------------- MODULE MessagePackHubProtocol -----------------------
(***************************************************************************)
(* MessagePackHubProtocol of signalr-protocol-msgpack.js on one batch of   *)
(* bytes: the messages the client writes, and what parseMessages makes of  *)
(* the bytes it received, which may have been cut short.  The same decoder *)
(* also reads a stream of values that comes in chunks (decodeStream).      *)
(***************************************************************************)
EXTENDS MessagePack, BinaryMessageFormat

CONSTANT Batches   \* what is sent, see Batch

MessageType == [Invocation |-> 1, StreamItem |-> 2, Completion |-> 3, StreamInvocation |-> 4,
                CancelInvocation |-> 5, Ping |-> 6, Close |-> 7]

\* resultKind of a completion
ErrorResult == 1
VoidResult == 2
NonVoidResult == 3

-----------------------------------------------------------------------------
(* writeMessage                                                            *)

NoHeaders == Map(<<>>)

OrNull(v) == IF Falsy(v) THEN Nil ELSE v

ResultKind(m) == IF ~Falsy(m.error) THEN ErrorResult
                 ELSE IF m.result # Undefined THEN NonVoidResult ELSE VoidResult

StreamIdsOf(m) == IF m.streamIds = Undefined THEN <<>> ELSE <<m.streamIds>>

\* The array that is encoded for a message.
Payload(m) ==
  CASE m.type = MessageType.Invocation ->
         Arr(<<Num(m.type), NoHeaders, OrNull(m.invocationId), m.target, m.arguments>>
             \o StreamIdsOf(m))
    [] m.type = MessageType.StreamInvocation ->
         Arr(<<Num(m.type), NoHeaders, m.invocationId, m.target, m.arguments>>
             \o StreamIdsOf(m))
    [] m.type = MessageType.StreamItem ->
         Arr(<<Num(m.type), NoHeaders, m.invocationId, m.item>>)
    [] m.type = MessageType.Completion /\ ResultKind(m) = VoidResult ->
         Arr(<<Num(m.type), NoHeaders, m.invocationId, Num(VoidResult)>>)
    [] m.type = MessageType.Completion /\ ResultKind(m) # VoidResult ->
         Arr(<<Num(m.type), NoHeaders, m.invocationId, Num(ResultKind(m)),
               IF ResultKind(m) = ErrorResult THEN m.error ELSE m.result>>)
    [] m.type = MessageType.Ping -> Arr(<<Num(m.type)>>)
    [] m.type = MessageType.CancelInvocation ->
         Arr(<<Num(m.type), NoHeaders, m.invocationId>>)

WriteMessage(m) == Write(Encode(Payload(m)))

-----------------------------------------------------------------------------
(* _parseMessage of a decoded value                                        *)

Invalid == {[type |-> 0]}
Ignored == {}

\* typeof null is "object" too.
IsObject(v) == TypeOf(v) \in {"nil", "array", "map", "bin", "ext"}

MinLength(properties, type) ==
  CASE type = MessageType.Invocation -> 5
    [] type = MessageType.StreamItem -> 4
    [] type = MessageType.Completion ->
         IF Len(properties) >= 4 /\ properties[4] # Num(VoidResult) THEN 5 ELSE 4
    [] type = MessageType.Ping -> 1
    [] type = MessageType.Close -> 2

HasHeaders(type) ==
  type \in {MessageType.Invocation, MessageType.StreamItem, MessageType.Completion}

ReadsHeaders(properties) == Len(properties) >= 2 /\ IsObject(properties[2])

\* {} for a type this client does not know, else the message, or that it is invalid.
Created(properties, type) ==
  CASE type = MessageType.Invocation ->
         [type |-> type, target |-> properties[4], arguments |-> properties[5],
          invocationId |-> IF Falsy(properties[3]) THEN Undefined ELSE properties[3]]
    [] type = MessageType.StreamItem ->
         [type |-> type, invocationId |-> properties[3], item |-> properties[4]]
    [] type = MessageType.Completion ->
         [type |-> type, invocationId |-> properties[3],
          error |-> IF properties[4] = Num(ErrorResult) THEN properties[5] ELSE Undefined,
          result |-> IF properties[4] = Num(NonVoidResult) THEN properties[5] ELSE Undefined]
    [] type = MessageType.Ping -> [type |-> type]
    [] type = MessageType.Close ->
         [type |-> type, error |-> properties[2],
          allowReconnect |-> IF Len(properties) >= 3 THEN properties[3] ELSE Undefined]

Known == {Num(MessageType[t]) :
            t \in {"Invocation", "StreamItem", "Completion", "Ping", "Close"}}

ParseMessage(v) ==
  IF TypeOf(v) # "array" \/ Content(v) = <<>> THEN Invalid
  ELSE LET properties == Content(v)
           type == Content(properties[1])
       IN IF properties[1] \notin Known THEN Ignored
          ELSE IF HasHeaders(type) /\ ~ReadsHeaders(properties) THEN Invalid
          ELSE IF Len(properties) < MinLength(properties, type) THEN Invalid
          ELSE {Created(properties, type)}

-----------------------------------------------------------------------------
(* parseMessages and decodeStream                                          *)

\* values: what is encoded; means: what it says to this client, the messages it knows, or
\* the values themselves; framed: in messages, or one after the other for decodeStream;
\* cut: how many bytes at the end never arrive
Batch(b) ==
  /\ b.framed \in BOOLEAN /\ b.cut \in Nat
  /\ \A i \in DOMAIN b.values : ~TooDeep(b.values[i])

ASSUME BatchesAssumption == \A b \in Batches : Batch(b)

BytesOf(b) ==
  FlattenSeq([i \in DOMAIN b.values |->
                IF b.framed THEN Write(Encode(b.values[i])) ELSE Encode(b.values[i])])

VARIABLES
  parser,   \* phase, input, offset: how much of it was read, frames, and what came out
  decoder,
  batch     \* fixed

parserVars == <<parser, decoder, batch>>

ParserInit ==
  /\ batch \in Batches
  /\ parser = [phase |-> IF batch.framed THEN "framing" ELSE "decoding",
               input |-> SubSeq(BytesOf(batch), 1, Len(BytesOf(batch)) - batch.cut),
               offset |-> 0, frames |-> <<>>, out |-> <<>>]
  /\ decoder = NewDecoder(<<>>)

Phase == {"framing", "decoding", "done", "threw"}

ParserTypeOK ==
  /\ parser.phase \in Phase /\ parser.offset \in 0 .. Len(parser.input)
  /\ decoder.pos \in 0 .. Len(decoder.bytes)
  /\ decoder.headByte \in Byte \cup {HeadByteRequired}
  /\ Len(decoder.object) <= 1
  /\ \A i \in DOMAIN decoder.stack :
       /\ decoder.stack[i].type \in {"array", "key", "value"}
       /\ Len(decoder.stack[i].items) < decoder.stack[i].size
  /\ \A i \in DOMAIN decoder.keys :
       Cardinality(SameLength(decoder.keys, decoder.keys[i].bytes)) <= MaxLengthPerKey

Goes(phase) == parser' = [parser EXCEPT !.phase = phase]

Fails == Goes("threw") /\ UNCHANGED <<decoder, batch>>

\* BinaryMessageFormat.parse cuts the whole input before any message is decoded.
Frame ==
  /\ parser.phase = "framing" /\ parser.offset < Len(parser.input)
  /\ ~BadSize(parser.input, parser.offset) /\ ~Incomplete(parser.input, parser.offset)
  /\ parser' = [parser EXCEPT !.frames = Append(@, MessageAt(parser.input, parser.offset)),
                              !.offset = NextOffset(parser.input, parser.offset)]
  /\ UNCHANGED <<decoder, batch>>

FrameFails ==
  /\ parser.phase = "framing" /\ parser.offset < Len(parser.input)
  /\ BadSize(parser.input, parser.offset) \/ Incomplete(parser.input, parser.offset)
  /\ Fails

Framed ==
  /\ parser.phase = "framing" /\ parser.offset = Len(parser.input)
  /\ Goes("decoding") /\ UNCHANGED <<decoder, batch>>

\* decode of the next message: reinitializeState, setBuffer.  The keys stay.
Decoding == parser.phase = "decoding"
Fresh == decoder.object = <<>> /\ decoder.stack = <<>> /\ decoder.headByte = HeadByteRequired

NextMessage ==
  /\ Decoding /\ batch.framed /\ Fresh /\ decoder.bytes = <<>>
  /\ parser.frames # <<>> /\ Head(parser.frames) # <<>>
  /\ parser' = [parser EXCEPT !.frames = Tail(@)]
  /\ decoder' = SetBuffer(NewDecoder(decoder.keys), Head(parser.frames))
  /\ UNCHANGED batch

\* A chunk of a stream, of any size, when the decoder has run out of data.
Blocked == decoder.object = <<>> /\
  (~HasHeadByte(decoder) \/ (decoder.headByte # HeadByteRequired /\ ~HasItem(decoder)))

Chunk(n) ==
  /\ Decoding /\ ~batch.framed /\ Blocked
  /\ n \in 1 .. Len(parser.input) - parser.offset
  /\ decoder' = AppendBuffer(decoder, SubSeq(parser.input, parser.offset + 1, parser.offset + n))
  /\ parser' = [parser EXCEPT !.offset = @ + n]
  /\ UNCHANGED batch

HeadByteRead ==
  /\ Decoding /\ decoder.object = <<>>
  /\ decoder.headByte = HeadByteRequired /\ HasRemaining(decoder, 1)
  /\ decoder' = ReadHeadByte(decoder)
  /\ UNCHANGED <<parser, batch>>

ReadItem ==
  /\ Decoding /\ decoder.object = <<>> /\ decoder.headByte # HeadByteRequired
  /\ Format(decoder.headByte) # Unrecognized /\ HasItem(decoder)
  /\ decoder' \in DecodeItem(decoder)
  /\ UNCHANGED <<parser, batch>>

DeliverToStack ==
  /\ Decoding /\ decoder.object # <<>> /\ decoder.stack # <<>>
  /\ ~KeyRefused(decoder)
  /\ decoder' = Deliver(decoder) /\ UNCHANGED <<parser, batch>>

\* What makes the decoder throw: an empty message, one that is cut short, or longer than
\* its object, an unknown head byte, a key that is no string or number; and a message
\* that is not what its type says.
EmptyMessage == Fresh /\ decoder.bytes = <<>> /\ parser.frames # <<>> /\ Head(parser.frames) = <<>>
CutShort == batch.framed /\ decoder.bytes # <<>> /\ Blocked
WholeObject == decoder.object # <<>> /\ decoder.stack = <<>>
ExtraBytes == batch.framed /\ WholeObject /\ HasRemaining(decoder, 1)
UnknownHeadByte ==
  decoder.headByte # HeadByteRequired /\ Format(decoder.headByte) = Unrecognized
InvalidMessage == batch.framed /\ WholeObject /\ ParseMessage(decoder.object[1]) = Invalid

DecodeFails ==
  /\ Decoding
  /\ \/ EmptyMessage \/ CutShort \/ ExtraBytes
     \/ UnknownHeadByte \/ KeyRefused(decoder) \/ InvalidMessage
  /\ Fails

MessageDone ==
  /\ Decoding /\ batch.framed /\ WholeObject /\ ~ExtraBytes /\ ~InvalidMessage
  /\ parser' = [parser EXCEPT !.out = @ \o SetToSeq(ParseMessage(decoder.object[1]))]
  /\ decoder' = NewDecoder(decoder.keys)
  /\ UNCHANGED batch

\* decodeStream yields a value and goes on with the rest of the chunk.
Yield ==
  /\ Decoding /\ ~batch.framed /\ WholeObject
  /\ parser' = [parser EXCEPT !.out = Append(@, decoder.object[1])]
  /\ decoder' = [decoder EXCEPT !.object = <<>>]
  /\ UNCHANGED batch

\* All messages are parsed, or the stream is at its end, where what is incomplete is
\* dropped without a word.
Ends ==
  /\ Decoding
  /\ IF batch.framed THEN Fresh /\ decoder.bytes = <<>> /\ parser.frames = <<>>
     ELSE Blocked /\ ~UnknownHeadByte /\ parser.offset = Len(parser.input)
  /\ Goes("done") /\ UNCHANGED <<decoder, batch>>

ParserNext ==
  \/ Frame \/ FrameFails \/ Framed
  \/ NextMessage \/ \E n \in 1 .. Len(parser.input) : Chunk(n)
  \/ HeadByteRead \/ ReadItem \/ DeliverToStack \/ DecodeFails
  \/ MessageDone \/ Yield \/ Ends

ParserFairness == WF_parserVars(ParserNext)

ParserSpec == ParserInit /\ [][ParserNext]_parserVars /\ ParserFairness

-----------------------------------------------------------------------------
(* Properties.                                                             *)

\* Whatever the encoding of a value, the sizes of the chunks, the keys in the cache and
\* the byte at which the input ends: only what was sent comes out, in its order.  A batch
\* that arrived whole is parsed to its end; messages of a type that this client does not
\* know, and items that a later version adds, do not keep it from that.  Only a key that
\* is no string or number, or is "__proto__", does.
ReadsWhatWasSent ==
  /\ IsPrefix(parser.out, batch.means)
  /\ batch.cut = 0 /\ parser.phase = "threw" => KeyRefused(decoder)
  /\ batch.cut = 0 /\ parser.phase = "done" => parser.out = batch.means

\* Parsing ends, with the messages or an exception.
ParsingEnds == <>(parser.phase \in {"done", "threw"})

=============================================================================
