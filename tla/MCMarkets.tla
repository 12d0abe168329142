------------------------------ MODULE MCMarkets ------------------------------
(* A small instance of Markets for TLC: the markets of the code. *)
EXTENDS Markets, TLC

CONSTANTS r1, r2

CodePairs == <<[base |-> "L-BTC", quote |-> "L-BTC"], [base |-> "L-BTC", quote |-> "USDT"]>>

RequestSymmetry == Permutations({r1, r2})
=============================================================================
