------------------------------- MODULE MCCodec -------------------------------
(* Small instances of Codec for TLC. *)
EXTENDS Codec

\* The numbers at which the width changes, and their neighbours.
Edges == {0, 1, Base - 4, Base - 3, Base - 2, Base - 1, Base, Size16 - 1, Size16,
          Size16 + 1, Size32 - 1, Size32, Size32 + 1, Size64 - 1}

Slice(n) == [i \in 1 .. n |-> (i + 1) % Base]

Numbers(type, bound) == {NumberItem(type, v) : v \in {e \in Edges : e < bound}}

VarInts == Numbers("varint", Size64)

\* The greatest of each width.
Widths == {NumberItem("uint8", Base - 1), NumberItem("uint16", Size16 - 1),
           NumberItem("uint32", Size32 - 1), NumberItem("uint64", Size64 - 1)}

\* A witness as in ExecuteTrade, slices whose length changes width, fields.
Fields ==
    {BytesItem("slice", <<>>), BytesItem("slice", Slice(3)),
     VectorItem(<<Slice(Base), Slice(2)>>), VectorItem(<<>>)}
    \cup {BytesItem("varslice", Slice(n)) : n \in {0, 1, Base - 3}}
    \cup {BytesItem("value", <<p>> \o Slice(32)) : p \in {8, 9}}
    \cup {BytesItem("value", <<0>>), BytesItem("value", <<1>> \o Slice(8))}
    \cup {BytesItem("asset", <<p>> \o Slice(32)) : p \in {1, 10, 11}}
    \cup {BytesItem("nonce", <<p>> \o Slice(32)) : p \in 1 .. 3}
    \cup {BytesItem("nonce", <<0>>)}

AllItems == Fields \cup VarInts \cup Widths

\* A number of each width, also in more bytes than it needs, and too few bytes.
ForeignVarInts ==
    {<<Base - 3>> \o PutUint16(v) : v \in {e \in Edges : e < Size16}}
    \cup {<<Base - 2>> \o PutUint32(v) : v \in {e \in Edges : e < Size32}}
    \cup {<<Base - 1>> \o PutUint64(v) : v \in Edges}
    \cup {<<b>> : b \in 0 .. Base - 1} \cup {<<Base - 1, 0, 1>>, <<>>}

\* What the arithmetic of scripts makes of two operands, which are of Narrow bytes.
Operands == (1 - S!Half(Narrow)) .. (S!Half(Narrow) - 1)
Results == UNION {{a + b, a - b, a * b} : a, b \in Operands}
=============================================================================
