------------------------------- MODULE Wallet -------------------------------
(***************************************************************************)
(* Banco's wallet (ocean.go and the Ocean daemon behind it).  Selecting    *)
(* coins locks them, so that no later selection takes them again; the      *)
(* daemon releases a lock after a while (docker-compose.yml: 10 seconds),  *)
(* whether or not the transaction they were selected for was made.         *)
(***************************************************************************)
EXTENDS Ledger

VARIABLE locked    \* the coins that a selection has locked

NoSelection == [coins |-> {}, change |-> 0]

WalletInit == locked = {}

\* What SelectUtxos may return for a target: unlocked coins of the asset that
\* cover the amount, none of them superfluous, and the change they leave.
Selections(asset, amount) ==
    LET free == {c \in SpendableCoins \ locked : c.asset = asset}
    IN {s \in UNION {[coins : {C}, change : 0 .. TotalAmount(C)] : C \in SUBSET free} :
            /\ TotalAmount(s.coins) = amount + s.change
            /\ \A c \in s.coins : TotalAmount(s.coins \ {c}) < amount}

SelectUtxos(asset, amount, selection) ==
    /\ selection \in Selections(asset, amount)
    /\ locked' = locked \cup selection.coins

\* The daemon's lock on a coin expires, or is dropped once the coin is spent.
UnlockCoin(c) ==
    /\ c \in locked
    /\ locked' = locked \ {c}
=============================================================================
