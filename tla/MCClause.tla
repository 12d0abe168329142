------------------------------- MODULE MCClause -------------------------------
(* Small instances of Clause for TLC. *)
EXTENDS Clause

\* Two programs of a length, and one that is the hash of a script below.
p1 == <<1, 2, 3>>
p2 == <<1, 2, 2>>

PubKey(head, program) == [head |-> head, program |-> program]

\* What an address stands for: witness programs of both versions, and an older
\* kind, of which no order can be made.
AddressScripts == {PubKey("OP_0", p1), PubKey("OP_1", p1), PubKey("OP_1", p2),
                   PubKey("OP_HASH160", p1)}

\* Also one whose first byte is 0x4f, which no address stands for.
AllScripts == AddressScripts \cup {PubKey("OP_1NEGATE", p1)}

Hashes == [s \in AllScripts |-> CASE s.head = "OP_HASH160" -> <<3, 3, 3>>
                                  [] s.head = "OP_1NEGATE" -> <<3, 3, 2>>
                                  [] s.head \in {"OP_0", "OP_1"} -> s.program \o <<0>>]

a1 == <<0, 1>>
a2 == <<1, 0>>

AddressOrders == [recipient : AddressScripts, amount : {0, 5}, asset : {a1, a2}]

\* Also blinded: the prefix is another, and a value is longer.
AllOutputs ==
    [script : AllScripts,
     asset  : {Plain(a1), Plain(a2), [prefix |-> 10, bytes |-> <<1, 2>>]},
     value  : {Plain(LittleEndian(v)) : v \in {0, 1, 5}}
                  \cup {[prefix |-> 8, bytes |-> <<2, 1, 2, 1>>]}]
===============================================================================
