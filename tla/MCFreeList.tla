----------------------------- MODULE MCFreeList -----------------------------
(* Small instances of FreeList for TLC. *)
EXTENDS FreeList

CONSTANTS g1, g2, b1, b2, b3

\* A short and a long number, which share no byte.
TwoNumbers == {<<1>>, <<2, 3>>}
=============================================================================
