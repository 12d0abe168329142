------------------------------- MODULE Ledger -------------------------------
(***************************************************************************)
(* The Liquid network as Banco meets it: deposits to the addresses of its  *)
(* orders, and the transactions that spend them.  The network is outside   *)
(* the repository; what it enforces on a spend is the contract of offer.go *)
(* (Contract).  A transaction is in the mempool before it is mined, and    *)
(* one that is not mined may still be replaced; a mined one is final.      *)
(***************************************************************************)
EXTENDS Contract

CONSTANTS
    Deposits,      \* outputs that traders may create at an order's address
    Payments,      \* the values [asset, amount] they may create them with
    GenesisCoins,  \* the coins [id, asset, amount] of Banco's wallet at start
    Nothing        \* a model value, the absence of a record

\* The network has no output of no value.
ASSUME PaymentsAssumption == \A p \in Payments : p.amount \in Nat \ {0}

\* The wallet starts with coins of transactions that are none of its later ones.
ASSUME GenesisAssumption ==
    /\ IsFiniteSet(GenesisCoins)
    /\ \A c \in GenesisCoins : c.amount \in Nat /\ c.id \notin Deposits \X Outputs

VARIABLES
    funding,       \* deposit -> [address, asset, amount], or Nothing
    fate,          \* deposit -> where its transaction is
    spend,         \* deposit -> the transaction that spends it, or Nothing
    spendMined     \* the deposits whose spend is mined

ledgerVars == <<funding, fate, spend, spendMined>>

Funded(d)      == fate[d] \in {"mempool", "mined"}
Unspent(d)     == Funded(d) /\ spend[d] = Nothing
DepositsAt(address) == {d \in Deposits : Funded(d) /\ funding[d].address = address}

\* A deposit as a list of unspents shows it.
Utxo(d) == [id |-> d, asset |-> funding[d].asset, amount |-> funding[d].amount]

-----------------------------------------------------------------------------
(***************************************************************************)
(* The coins of Banco's wallet: those it started with and the outputs that *)
(* its own transactions pay back to it.                                    *)
(***************************************************************************)
BancoSpends == {d \in Deposits : spend[d] # Nothing /\ spend[d].by = "banco"}

CoinsCreatedBy(d) ==
    {[id |-> <<d, o>>, asset |-> spend[d].tx[o].asset, amount |-> spend[d].tx[o].amount] :
        o \in {p \in {"proceeds", "tradeChange", "feeChange"} : spend[d].tx[p].amount > 0}}

CoinIds == {c.id : c \in GenesisCoins} \cup (Deposits \X Outputs)

CoinsIn(spends) == GenesisCoins \cup UNION {CoinsCreatedBy(d) : d \in spends}

SpentCoins == UNION {spend[d].tradeCoins \cup spend[d].feeCoins : d \in BancoSpends}

SpendableCoins == CoinsIn(BancoSpends \cap spendMined) \ SpentCoins

-----------------------------------------------------------------------------
LedgerInit ==
    /\ funding = [d \in Deposits |-> Nothing]
    /\ fate = [d \in Deposits |-> "absent"]
    /\ spend = [d \in Deposits |-> Nothing]
    /\ spendMined = {}

\* A trader pays to an order's address, with any asset and any amount.
Fund(d, address, payment) ==
    /\ fate[d] = "absent"
    /\ fate' = [fate EXCEPT ![d] = "mempool"]
    /\ funding' = [funding EXCEPT ![d] = [address |-> address,
                                          asset   |-> payment.asset,
                                          amount  |-> payment.amount]]
    /\ UNCHANGED <<spend, spendMined>>

MineFunding(d) ==
    /\ fate[d] = "mempool"
    /\ fate' = [fate EXCEPT ![d] = "mined"]
    /\ UNCHANGED <<funding, spend, spendMined>>

\* The trader replaces a funding transaction that is not mined; whatever
\* spends its output goes with it.
ReplaceFunding(d) ==
    /\ fate[d] = "mempool"
    /\ fate' = [fate EXCEPT ![d] = "replaced"]
    /\ spend' = [spend EXCEPT ![d] = Nothing]
    /\ UNCHANGED <<funding, spendMined>>

\* No clause asks for a signature: the maker, another taker or an observer
\* can spend a deposit through either leaf, by paying what the leaf asks for.
ForeignSpend(d, leaf) ==
    /\ Unspent(d)
    /\ leaf \in funding[d].address
    /\ spend' = [spend EXCEPT ![d] = [by |-> "other", tx |-> [payout |-> leaf]]]
    /\ UNCHANGED <<funding, fate, spendMined>>

MineSpend(d) ==
    /\ fate[d] = "mined"
    /\ spend[d] # Nothing
    /\ d \notin spendMined
    /\ spendMined' = spendMined \cup {d}
    /\ UNCHANGED <<funding, fate, spend>>

\* A spend that is not mined is evicted or replaced, the deposit is free again.
EvictSpend(d) ==
    /\ spend[d] # Nothing
    /\ d \notin spendMined
    /\ spend' = [spend EXCEPT ![d] = Nothing]
    /\ UNCHANGED <<funding, fate, spendMined>>

-----------------------------------------------------------------------------
(***************************************************************************)
(* What the network checks of Banco's transaction: every input exists and  *)
(* is unspent and appears once, output 0 satisfies the leaf the witness    *)
(* reveals, which belongs to the deposit's address, an output that can be  *)
(* spent has an amount, and amounts balance.                               *)
(***************************************************************************)
Valid(d, leaf, tx, tradeCoins, feeCoins, payoutAsset) ==
    /\ Unspent(d)
    /\ leaf \in funding[d].address
    /\ tx.payout = leaf
    /\ tx.payout.amount > 0 /\ tx.proceeds.amount > 0
    /\ tradeCoins \cup feeCoins \subseteq SpendableCoins
    /\ tradeCoins \cap feeCoins = {}
    /\ Balanced(Utxo(d), Value(payoutAsset, TotalAmount(tradeCoins)),
                Value(LBTC, TotalAmount(feeCoins)), tx)

Accept(d, tx, tradeCoins, feeCoins) ==
    /\ spend' = [spend EXCEPT ![d] = [by         |-> "banco",
                                      tx         |-> tx,
                                      tradeCoins |-> tradeCoins,
                                      feeCoins   |-> feeCoins]]
    /\ UNCHANGED <<funding, fate, spendMined>>
=============================================================================
