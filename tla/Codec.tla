-------------------------------- MODULE Codec --------------------------------
(***************************************************************************)
(* A serializer writes items to a buffer, and a deserializer that expects  *)
(* items of the same types reads them, from the whole buffer or from the   *)
(* part of it that arrived.  A number of a script is pushed alone, and     *)
(* read by the network.                                                    *)
(***************************************************************************)
EXTENDS Serializer

CONSTANTS
    Width, Narrow, \* of an int64 and an int32, see ScriptNum
    Panic,
    Items,         \* the items, see the three kinds below
    ScriptNums,    \* the numbers that are pushed to a script
    Foreign,       \* buffers that no serializer wrote
    MaxItems       \* bound: how many items are written

S == INSTANCE ScriptNum

\* A slice is not longer than an int of Go can tell.
Slices == {s \in Seq(Byte) : Len(s) < Size64}

\* How many bytes follow the prefix of a field.
AfterPrefix(type, prefix) ==
    CASE type = "value" /\ prefix = 1           -> 8
      [] type = "value" /\ prefix \in {8, 9}    -> 32
      [] type = "asset" /\ prefix \in {1, 10, 11} -> 32
      [] type = "nonce" /\ prefix \in 1 .. 3    -> 32
      [] type \in {"value", "nonce"} /\ prefix = 0 -> 0

IsItem(item) ==
    \/ item \in [type : {"uint8"}, number : Byte]
    \/ item \in [type : {"uint16"}, number : 0 .. Size16 - 1]
    \/ item \in [type : {"uint32"}, number : 0 .. Size32 - 1]
    \/ item \in [type : {"uint64", "varint"}, number : 0 .. Size64 - 1]
    \/ item \in [type : {"slice", "varslice"}, slice : Slices]
    \/ item \in [type : {"vector"}, slices : Seq(Slices)] /\ Len(item.slices) < Size64
    \/ /\ item \in [type : {"value", "asset", "nonce"}, slice : Slices]
       /\ item.slice # <<>>
       /\ \/ item.type = "value" /\ item.slice[1] \in {0, 1, 8, 9}
          \/ item.type = "asset" /\ item.slice[1] \in {1, 10, 11}
          \/ item.type = "nonce" /\ item.slice[1] \in 0 .. 3
       /\ Len(item.slice) = 1 + AfterPrefix(item.type, item.slice[1])

ASSUME ItemsAssumption == \A item \in Items : IsItem(item)
ASSUME ForeignAssumption == Foreign \subseteq Seq(Byte)

\* The sign is half of what a byte can be.  An int64 and an int32 have a sign as well;
\* the least int64 is never pushed.
ASSUME NumbersAssumption ==
    /\ Base % 2 = 0
    /\ S!Half(Narrow) \in Nat \ {0}
    /\ ScriptNums \subseteq Int \ {-S!Half(Width)}

VARIABLES
    phase,         \* of what is done to the buffer
    bytes,         \* the buffer
    whole,         \* whether all of it arrived
    written,       \* the items written
    got            \* the items read

vars == <<phase, bytes, whole, written, got>>

NumberItem(type, v) == [type |-> type, number |-> v]
BytesItem(type, slice) == [type |-> type, slice |-> slice]
VectorItem(slices) == [type |-> "vector", slices |-> slices]

Encode(item) ==
    CASE item.type = "uint8"    -> PutUint8(item.number)
      [] item.type = "uint16"   -> PutUint16(item.number)
      [] item.type = "uint32"   -> PutUint32(item.number)
      [] item.type = "uint64"   -> PutUint64(item.number)
      [] item.type = "varint"   -> WriteVarInt(item.number)
      [] item.type = "varslice" -> WriteVarSlice(item.slice)
      [] item.type = "vector"   -> WriteVector(item.slices)
      [] item.type \in {"slice", "value", "asset", "nonce"} -> item.slice

\* What is read where an item of this type, and for a slice this length, is due.
Decode(item, buffer) ==
    CASE item.type = "uint8"    -> Uint8(buffer)
      [] item.type = "uint16"   -> Uint16(buffer)
      [] item.type = "uint32"   -> Uint32(buffer)
      [] item.type = "uint64"   -> Uint64(buffer)
      [] item.type = "varint"   -> ReadVarInt(buffer)
      [] item.type = "slice"    -> ReadSlice(Len(item.slice), buffer)
      [] item.type = "varslice" -> ReadVarSlice(buffer)
      [] item.type = "vector"   -> ReadVector(buffer)
      [] item.type = "value"    -> ReadElementsValue(buffer)
      [] item.type = "asset"    -> ReadElementsAsset(buffer)
      [] item.type = "nonce"    -> ReadElementsNonce(buffer)
      [] item.type = "scriptnum" ->
            IF S!Minimal(buffer) THEN Success(S!Decode(buffer), <<>>) ELSE Failure

ItemOf(item, value) ==
    CASE item.type \in {"uint8", "uint16", "uint32", "uint64", "varint", "scriptnum"}
                                -> NumberItem(item.type, value)
      [] item.type = "vector"   -> VectorItem(value)
      [] item.type \in {"slice", "varslice", "value", "asset", "nonce"}
                                -> BytesItem(item.type, value)

Init ==
    /\ phase = "write"
    /\ bytes = <<>>
    /\ whole = TRUE
    /\ written = <<>>
    /\ got = <<>>

Write(item) ==
    /\ phase = "write"
    /\ Len(written) < MaxItems
    /\ bytes' = bytes \o Encode(item)
    /\ written' = Append(written, item)
    /\ UNCHANGED <<phase, whole, got>>

\* A push says how long it is, so that all of it arrives.
PushNumber(n) ==
    /\ phase = "write"
    /\ written = <<>>
    /\ bytes' = S!Bytes(n)
    /\ written' = <<NumberItem("scriptnum", n)>>
    /\ phase' = "read"
    /\ UNCHANGED <<whole, got>>

\* The buffer arrives, the end of it maybe not.
Carry ==
    /\ phase = "write"
    /\ written # <<>>
    /\ phase' = "read"
    /\ \E n \in 0 .. Len(bytes) :
          /\ bytes' = SubSeq(bytes, 1, n)
          /\ whole' = (n = Len(bytes))
    /\ UNCHANGED <<written, got>>

\* A buffer that something else wrote, maybe not the way a serializer would.
Receive(buffer) ==
    /\ phase = "write"
    /\ written = <<>>
    /\ bytes' = buffer
    /\ phase' = "done"
    /\ UNCHANGED <<whole, written, got>>

\* The next item is read; the first error is the last read.
Read ==
    /\ phase = "read"
    /\ LET due == written[Len(got) + 1]
           read == Decode(due, bytes)
       IN IF read.ok
          THEN /\ got' = Append(got, ItemOf(due, read.value))
               /\ bytes' = read.rest
               /\ phase' = IF Len(got') = Len(written) THEN "done" ELSE "read"
          ELSE /\ phase' = "failed"
               /\ UNCHANGED <<got, bytes>>
    /\ UNCHANGED <<whole, written>>

Next ==
    \/ \E item \in Items : Write(item)
    \/ \E n \in ScriptNums : PushNumber(n)
    \/ \E buffer \in Foreign : Receive(buffer)
    \/ Carry
    \/ Read

Spec == Init /\ [][Next]_vars

-----------------------------------------------------------------------------
\* What is read is what was written, item by item: no field leaves a byte to the
\* next one or takes one of it, at any width and any length.  Where a buffer was cut,
\* the item at the cut is an error; only slices, of which bytes.Buffer's Read gives
\* what there is, may be read with zeros at their end, and after them nothing but
\* slices of no byte.
ReadAsWritten ==
    \A i \in DOMAIN got :
        \/ got[i] = written[i]
        \/ /\ ~whole
           /\ "number" \notin DOMAIN written[i]
           /\ \A j \in i + 1 .. Len(got) : got[j] = BytesItem("slice", <<>>)

\* A buffer that arrived whole is read to its end without an error; the network
\* refuses a script number only if a byte of it is wasted, which none is.
WholeIsRead ==
    whole => /\ phase # "failed"
             /\ phase = "done" /\ written # <<>> => Len(got) = Len(written) /\ bytes = <<>>

\* There is one way to write a number of variable length: a buffer that begins
\* with one, whoever wrote it, begins as WriteVarInt would write that number.
OneEncoding ==
    LET read == ReadVarInt(bytes)
    IN read.ok => bytes = WriteVarInt(read.value) \o read.rest

\* The sizes announced are those written.
SizesAgree ==
    \A i \in DOMAIN written :
        /\ written[i].type = "varint" =>
              VarIntSerializeSize(written[i].number) = Len(Encode(written[i]))
        /\ written[i].type = "varslice" =>
              VarSliceSerializeSize(written[i].slice) = Len(Encode(written[i]))

\* The int32 that a script number becomes where one is needed is the nearest there is.
ClampedToNearest ==
    \A i \in DOMAIN written :
        written[i].type = "scriptnum" =>
            LET n == written[i].number
                distance(m) == IF m < n THEN n - m ELSE m - n
            IN /\ S!Int32(n) \in S!Ints(Narrow)
               /\ \A m \in S!Ints(Narrow) : distance(S!Int32(n)) <= distance(m)
=============================================================================
