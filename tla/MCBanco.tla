------------------------------- MODULE MCBanco -------------------------------
(* Small instances of Banco for TLC. *)
EXTENDS BancoProperties, TLC

Offer(trader, inAsset, inAmount, outAsset, outAmount) ==
    [trader |-> trader, input |-> Value(inAsset, inAmount),
     output |-> Value(outAsset, outAmount)]

CONSTANTS o1, o2, d1, d2

\* The same trader both ways: the two orders have one address.
Mirrored == (o1 :> Offer("alice", "USDT", 4, LBTC, 3)) @@ (o2 :> Offer("alice", LBTC, 3, "USDT", 4))

\* The same order placed twice: again one address.
Twins == [o \in {o1, o2} |-> Offer("alice", "USDT", 4, LBTC, 3)]

\* Two sellers of one asset.
Sellers == (o1 :> Offer("alice", LBTC, 3, "USDT", 4)) @@ (o2 :> Offer("bob", LBTC, 3, "USDT", 5))

OneBuyer == o1 :> Offer("alice", "USDT", 4, LBTC, 3)

\* Exact ones for the above, one too much, and the right amount of the wrong asset.
AllPayments  == {Value("USDT", 4), Value("USDT", 5), Value(LBTC, 3), Value(LBTC, 4)}
ExactAndLess == {Value("USDT", 4), Value("USDT", 2)}
ExactUSDT    == {Value("USDT", 4)}
ExactLBTC    == {Value(LBTC, 3)}

Coin(name, asset, amount) == [id |-> <<name, "genesis">>, asset |-> asset, amount |-> amount]

\* Their changes are nothing, dust, and more than dust when FEE_AMOUNT is 2.
ThreeCoins == {Coin("c1", LBTC, 4), Coin("c2", LBTC, 3), Coin("c3", "USDT", 6)}
LargeCoins == {Coin("c1", LBTC, 6), Coin("c2", LBTC, 4)}
\* Enough for two trades at once, whichever coins they take.
FourCoins  == {Coin(c, LBTC, 5) : c \in {"c1", "c2", "c3", "c4"}}
TwoCoins   == {Coin("c1", LBTC, 6), Coin("c3", "USDT", 10)}

\* Of orders that are twins, and of deposits.
TwinSymmetry == Permutations({o1, o2}) \cup Permutations({d1, d2})
=============================================================================
