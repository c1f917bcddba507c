------------------------- MODULE BinaryMessageFormat -------------------------
(***************************************************************************)
(* BinaryMessageFormat of signalr-protocol-msgpack.js: a message on the    *)
(* wire is its size as a VarInt, in groups of seven bits, and its bytes.   *)
(* Offsets count from 0, as in the code; sequences from 1.                 *)
(***************************************************************************)
EXTENDS Integers, Sequences

\* numBitsToShift, as powers of two
Shift == <<1, 128, 128 * 128, 128 * 128 * 128, 128 * 128 * 128 * 128>>
MaxLengthPrefixSize == 5

\* The largest size: 2GB - 1, in an order that TLC's integers can follow.
MaxSize == 7 * (128 * 128 * 128 * 128) + (128 * 128 * 128 * 128 - 1)
Size == 0 .. MaxSize

\* The bytes of a size: all but the last have the high bit set.
SizeBytes(size) ==
  IF size < 128 THEN 1
  ELSE IF size < 128 * 128 THEN 2
  ELSE IF size < 128 * 128 * 128 THEN 3
  ELSE IF size < 128 * 128 * 128 * 128 THEN 4 ELSE 5

WriteSize(size) ==
  [i \in 1 .. SizeBytes(size) |->
     ((size \div Shift[i]) % 128) + (IF i < SizeBytes(size) THEN 128 ELSE 0)]

Write(output) == WriteSize(Len(output)) \o output

-----------------------------------------------------------------------------
(* parse, one turn of its loop.                                            *)

\* How many bytes of the size are read: up to one without the high bit.
PrefixAt(bytes, offset) ==
  LET limit == IF Len(bytes) - offset < MaxLengthPrefixSize THEN Len(bytes) - offset
               ELSE MaxLengthPrefixSize
      Last(k) == bytes[offset + k] < 128 \/ k = limit
  IN CHOOSE k \in 1 .. limit : Last(k) /\ \A j \in 1 .. k - 1 : ~Last(j)

\* The group of seven bits that byte i contributes.
Group(bytes, offset, i) ==
  IF i <= PrefixAt(bytes, offset) THEN (bytes[offset + i] % 128) * Shift[i] ELSE 0

SizeAt(bytes, offset) ==
  Group(bytes, offset, 1) + Group(bytes, offset, 2) + Group(bytes, offset, 3)
    + Group(bytes, offset, 4) + Group(bytes, offset, 5)

\* "Cannot read message size.", or a message bigger than 2GB.
BadSize(bytes, offset) ==
  LET k == PrefixAt(bytes, offset)
  IN IF k < MaxLengthPrefixSize THEN bytes[offset + k] >= 128 ELSE bytes[offset + k] > 7

\* "Incomplete message."
Incomplete(bytes, offset) ==
  Len(bytes) < offset + PrefixAt(bytes, offset) + SizeAt(bytes, offset)

MessageAt(bytes, offset) ==
  LET start == offset + PrefixAt(bytes, offset)
  IN SubSeq(bytes, start + 1, start + SizeAt(bytes, offset))

NextOffset(bytes, offset) == offset + PrefixAt(bytes, offset) + SizeAt(bytes, offset)

=============================================================================
