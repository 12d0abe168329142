----------------------------- MODULE Serializer -----------------------------
(***************************************************************************)
(* The binary encodings of pkg/bufferutil: what Serializer appends to a    *)
(* buffer and what Deserializer takes from one.  A byte is a number below  *)
(* Base (256 in the code), a buffer a sequence of them.                    *)
(***************************************************************************)
EXTENDS Integers, SequencesExt

CONSTANT Base

Byte == 0 .. Base - 1

\* Three values of a byte are discriminants, and a prefix may be 11.
ASSUME BaseAssumption == Base \in Nat /\ Base > 11

\* One more than math.MaxUint16, 32, 64.
Size16 == Base * Base
Size32 == Size16 * Size16
Size64 == Size32 * Size32

\* What a read gives: a value and what is left of the buffer, or an error.
Success(value, rest) == [ok |-> TRUE, value |-> value, rest |-> rest]
Failure == [ok |-> FALSE]

-----------------------------------------------------------------------------
(* Numbers, least significant byte first.                                  *)

PutUint8(v) == <<v>>
PutUint16(v) == <<v % Base, v \div Base>>
PutUint32(v) == PutUint16(v % Size16) \o PutUint16(v \div Size16)
PutUint64(v) == PutUint32(v % Size32) \o PutUint32(v \div Size32)

Number16(b) == b[1] + Base * b[2]
Number32(b) == Number16(b) + Size16 * Number16(<<b[3], b[4]>>)
Number64(b) == Number32(b) + Size32 * Number32(<<b[5], b[6], b[7], b[8]>>)

\* The buffer after its first n bytes.
After(n, buffer) == SubSeq(buffer, n + 1, Len(buffer))

\* io.ReadFull gives all the bytes asked for, or an error.
Uint8(buffer) ==
    IF Len(buffer) < 1 THEN Failure ELSE Success(buffer[1], After(1, buffer))
Uint16(buffer) ==
    IF Len(buffer) < 2 THEN Failure ELSE Success(Number16(buffer), After(2, buffer))

\* Mutant: the bytes that are missing are read as those the buffer ends with.
Uint32AtAnyLength(buffer) ==
    IF buffer = <<>> THEN Failure
    ELSE LET padded == buffer \o [i \in 1 .. 4 |-> 0]
         IN Success(Number32(padded), After(4, buffer))

Uint32(buffer) ==
    IF Len(buffer) < 4 THEN Failure ELSE Success(Number32(buffer), After(4, buffer))
Uint64(buffer) ==
    IF Len(buffer) < 8 THEN Failure ELSE Success(Number64(buffer), After(8, buffer))

-----------------------------------------------------------------------------
(* Numbers of variable length: the bytes Base - 3, Base - 2 and Base - 1   *)
(* announce 2, 4 and 8 more.                                               *)

WriteVarInt(v) ==
    CASE v < Base - 3                -> PutUint8(v)
      [] v >= Base - 3 /\ v < Size16 -> PutUint8(Base - 3) \o PutUint16(v)
      [] v >= Size16 /\ v < Size32   -> PutUint8(Base - 2) \o PutUint32(v)
      [] v >= Size32                 -> PutUint8(Base - 1) \o PutUint64(v)

\* Mutant: numbers that would fit in fewer bytes are let through.
AtLeastZero(read, least) == read

\* A number that would fit in fewer bytes is an error.
AtLeast(read, least) == IF read.ok /\ read.value < least THEN Failure ELSE read

ReadVarInt(buffer) ==
    LET first == Uint8(buffer)
    IN CASE ~first.ok -> Failure
         [] first.ok /\ first.value = Base - 1 -> AtLeast(Uint64(first.rest), Size32)
         [] first.ok /\ first.value = Base - 2 -> AtLeast(Uint32(first.rest), Size16)
         [] first.ok /\ first.value = Base - 3 -> AtLeast(Uint16(first.rest), Base - 3)
         [] first.ok /\ first.value < Base - 3 -> first

\* Mutant: the greatest number of two bytes is counted as four.
VarIntSizeOffByOne(v) ==
    CASE v < Base - 3                       -> 1
      [] v >= Base - 3 /\ v < Size16 - 1    -> 3
      [] v >= Size16 - 1 /\ v < Size32      -> 5
      [] v >= Size32                        -> 9

VarIntSerializeSize(v) ==
    CASE v < Base - 3                -> 1
      [] v >= Base - 3 /\ v < Size16 -> 3
      [] v >= Size16 /\ v < Size32   -> 5
      [] v >= Size32                 -> 9

-----------------------------------------------------------------------------
(* Slices and vectors.                                                     *)

WriteVarSlice(slice) == WriteVarInt(Len(slice)) \o slice

VarSliceSerializeSize(slice) == VarIntSerializeSize(Len(slice)) + Len(slice)

WriteVector(slices) ==
    WriteVarInt(Len(slices)) \o FlattenSeq([i \in DOMAIN slices |-> WriteVarSlice(slices[i])])

\* bytes.Buffer's Read gives what there is, and fails only when there is nothing:
\* the bytes missing from the slice stay 0.
ReadSlice(n, buffer) ==
    IF buffer = <<>> /\ n > 0 THEN Failure
    ELSE Success([i \in 1 .. n |-> IF i <= Len(buffer) THEN buffer[i] ELSE 0],
                 After(n, buffer))

ReadVarSlice(buffer) ==
    LET n == ReadVarInt(buffer)
    IN IF n.ok THEN ReadSlice(n.value, n.rest) ELSE Failure

\* The slices read so far, and the next one.
ReadVector(buffer) ==
    LET n == ReadVarInt(buffer)
        next(read) == LET slice == ReadVarSlice(read.rest)
                      IN IF read.ok /\ slice.ok
                         THEN Success(Append(read.value, slice.value), slice.rest)
                         ELSE Failure
        upTo[i \in 0 .. n.value] == IF i = 0 THEN Success(<<>>, n.rest) ELSE next(upTo[i - 1])
    IN IF n.ok THEN upTo[n.value] ELSE Failure

-----------------------------------------------------------------------------
(* Fields of an Elements output: a prefix tells how many bytes follow.     *)

\* A prefix, followed by the slice of the length that belongs to it.
ReadPrefixed(prefix, length) ==
    LET slice == ReadSlice(length, prefix.rest)
    IN IF slice.ok THEN Success(<<prefix.value>> \o slice.value, slice.rest) ELSE Failure

PrefixAlone(prefix) == Success(<<prefix.value>>, prefix.rest)

ReadElementsValue(buffer) ==
    LET version == Uint8(buffer)
    IN CASE ~version.ok                               -> Failure
         [] version.ok /\ version.value = 0           -> PrefixAlone(version)
         [] version.ok /\ version.value = 1           -> ReadPrefixed(version, 8)
         [] version.ok /\ version.value \in {8, 9}    -> ReadPrefixed(version, 32)
         [] version.ok /\ version.value \notin {0, 1, 8, 9} -> Failure

ReadElementsAsset(buffer) ==
    LET version == Uint8(buffer)
    IN IF version.ok /\ version.value \in {1, 10, 11}
       THEN ReadPrefixed(version, 32) ELSE Failure

ReadElementsNonce(buffer) ==
    LET version == Uint8(buffer)
    IN CASE ~version.ok                               -> Failure
         [] version.ok /\ version.value \in 1 .. 3    -> ReadPrefixed(version, 32)
         [] version.ok /\ version.value \notin 1 .. 3 -> PrefixAlone(version)
=============================================================================
