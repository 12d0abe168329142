-------------------------- MODULE BancoProperties --------------------------
(***************************************************************************)
(* What the trading core of Banco must guarantee.                          *)
(***************************************************************************)
EXTENDS Banco

Assets == {LBTC} \cup {p.asset : p \in Payments}
                 \cup UNION {{Terms[o].input.asset, Terms[o].output.asset} : o \in OrderIds}

Scripts == {Terms[o].trader : o \in OrderIds} \cup {Provider, "fee"}

Addresses == {Address(Terms[o]) : o \in OrderIds}

FundingType == [address : Addresses, asset : Assets, amount : Nat \ {0}]

OutputType == [asset : Assets, amount : Nat, script : Scripts]

TxType == [payout : OutputType, proceeds : OutputType, tradeChange : OutputType,
           feeChange : OutputType, fee : OutputType]

\* A deposit has a record exactly when it was made, and is spent by a complete
\* transaction of Banco or through one of the leaves of its address.
LedgerTypeOK ==
    /\ fate \in [Deposits -> {"absent", "mempool", "mined", "replaced"}]
    /\ DOMAIN funding = Deposits
    /\ DOMAIN spend = Deposits
    /\ \A d \in Deposits :
          /\ IF fate[d] = "absent" THEN funding[d] = Nothing ELSE funding[d] \in FundingType
          /\ \/ spend[d] = Nothing
             \/ /\ Funded(d)
                /\ \/ spend[d].by = "banco" /\ spend[d].tx \in TxType
                   \/ spend[d].by = "other" /\ spend[d].tx.payout \in funding[d].address
    /\ spendMined \subseteq {d \in Deposits : fate[d] = "mined" /\ spend[d] # Nothing}

\* Only coins whose lock can expire are ever locked.
WalletTypeOK == \A c \in locked : c.id \in CoinIds

StoreTypeOK ==
    /\ status \in [OrderIds -> Statuses \cup {"none"}]
    /\ old \subseteq Saved

\* The watcher holds an order, and an unspent of it, exactly where its code does.
WatcherTypeOK ==
    /\ pc \in PCs
    /\ todo \subseteq OrderIds
    /\ cur \in IF pc \in {"sleep", "orders"} THEN {Nothing} ELSE OrderIds
    /\ queue \subseteq Deposits
    /\ pick \in IF pc \in {"trade", "fees", "broadcast"} THEN Deposits ELSE {Nothing}
    /\ trade.change \in Nat
    /\ fees.change \in Nat
    /\ traded \subseteq OrderIds \X Deposits
    /\ faultsLeft \in 0 .. MaxFaults

\* The type of every variable of the composition.
TypeOK == LedgerTypeOK /\ WalletTypeOK /\ StoreTypeOK /\ WatcherTypeOK

-----------------------------------------------------------------------------
\* An order is Fulfilled only if a transaction that fulfills it was accepted by
\* the network (or it asks for nothing): no error path, crash or stale view of
\* watchForTrades marks an order as traded that was not.
FulfilledHasTrade ==
    \A o \in OrderIds :
        status[o] = "Fulfilled" /\ Terms[o].input.amount > 0
            => \E d \in Deposits : <<o, d>> \in traded

\* The snapshot that fetchOrdersToFulfill took at the start of a pass does not
\* go stale: an order that the pass has not reached yet is still open in the
\* database, however long the orders before it took.
SnapshotStaysCurrent == \A o \in todo : status[o] \in OpenStatuses

\* A status that ends an order stays: Fulfilled always, Expired as soon as the
\* pass that set it has left the order.
KeepClosed ==
    \A o \in OrderIds :
        status[o] = "Fulfilled" \/ (status[o] = "Expired" /\ cur # o)
            => status'[o] = status[o]

ClosedOrdersStayClosed == [][KeepClosed]_vars

\* Banco trades only deposits of exactly the asset and the amount of the order,
\* although coinsAreMoreThan compares a sum, and of any assets, with the amount.
TradedDepositsAreExact ==
    \A o \in OrderIds, d \in Deposits :
        <<o, d>> \in traded =>
            Value(funding[d].asset, funding[d].amount) = Terms[o].input

\* Whoever spends a deposit at the address of an order, output 0 pays the trader
\* of that order what it promises or gives the deposit of its terms back, and
\* Banco's own transactions always do the former for an order they were made for.
TraderIsMadeWhole ==
    \A d \in Deposits, o \in OrderIds :
        /\ spend[d] # Nothing
        /\ funding[d].address = Address(Terms[o])
        => LET paid == spend[d].tx.payout
           IN /\ paid.script = Terms[o].trader
              /\ Value(paid.asset, paid.amount) \in {Terms[o].output, Terms[o].input}
              /\ spend[d].by = "banco" =>
                    \E p \in OrderIds :
                        /\ <<p, d>> \in traded
                        /\ Value(paid.asset, paid.amount) = Terms[p].output

\* Orders that share an address, placed twice by one trader, do not share a deposit:
\* each that is Fulfilled has one of its own, which Banco's transaction spends, as
\* long as none is dropped.  The unspents of the address are listed for both orders,
\* and the list may still show what was spent for the other.
FulfilledHaveTheirOwn ==
    LET closed == {o \in OrderIds : status[o] = "Fulfilled" /\ Terms[o].input.amount > 0}
        tradedFor(o) == {d \in BancoSpends : <<o, d>> \in traded}
    IN /\ \A o \in closed : tradedFor(o) # {}
       /\ \A o, p \in closed : o # p =>
             \E d \in tradedFor(o), e \in tradedFor(p) : d # e

\* The transaction built for an exact deposit is one the network accepts as long
\* as its inputs are there and the order's payout was not truncated to nothing, and
\* it leaves no L-BTC dust to the wallet: whatever coins and changes the two
\* selections returned, the amounts add up.
ExactDepositIsTradable ==
    /\ pc = "broadcast"
    /\ Terms[cur].output.amount > 0
    /\ Unspent(pick)
    /\ Value(funding[pick].asset, funding[pick].amount) = Terms[cur].input
    /\ trade.coins \cup fees.coins \subseteq SpendableCoins
    /\ trade.coins \cap fees.coins = {}
    => /\ CanBroadcast
       /\ \A o \in {"tradeChange", "feeChange"} :
            LET out == FulfillTransaction[o]
            IN out.asset = LBTC => out.amount = 0 \/ out.amount >= FEE_AMOUNT

\* The books balance: what the wallet owns of an asset is what it started with
\* plus what its trades took in and paid out by the terms of their orders, less
\* the fees, and no trade costs three times FEE_AMOUNT.
OrderOf(d) == CHOOSE o \in OrderIds : <<o, d>> \in traded

TotalOf(asset, coins) == TotalAmount({c \in coins : c.asset = asset})

SumOver(deposits, flow) == TotalAmount({[id |-> d, amount |-> flow[d]] : d \in deposits})

BooksBalance ==
    LET owned == CoinsIn(BancoSpends) \ SpentCoins
        sum(flow) == SumOver(BancoSpends, flow)
    IN /\ \A asset \in Assets :
            TotalOf(asset, owned)
              + sum([d \in BancoSpends |-> AmountOf(asset, Terms[OrderOf(d)].output)])
              + sum([d \in BancoSpends |-> AmountOf(asset, spend[d].tx.fee)])
            = TotalOf(asset, GenesisCoins)
              + sum([d \in BancoSpends |-> AmountOf(asset, Terms[OrderOf(d)].input)])
       /\ \A d \in BancoSpends : spend[d].tx.fee.amount < 3 * FEE_AMOUNT

-----------------------------------------------------------------------------
\* What the safety properties need of the states in between: the order in hand
\* is not in the snapshot any more and not Fulfilled yet, the loop of
\* executeTrades ends with a trade behind it, the coins in hand cover the payout
\* and the fee exactly with their changes, and a traded deposit was made.
InHand ==
    /\ cur \notin todo
    /\ cur # Nothing => status[cur] \in OpenStatuses \cup {"Expired"}

LoopHasTraded ==
    pc = "fulfilled" /\ Terms[cur].input.amount > 0
        => \E d \in Deposits : <<cur, d>> \in traded

CoinsCover ==
    /\ pc \in {"fees", "broadcast"} =>
          TotalAmount(trade.coins) = Terms[cur].output.amount + trade.change
    /\ pc = "broadcast" => TotalAmount(fees.coins) = FEE_AMOUNT + fees.change

TradedExist == \A o \in OrderIds, d \in Deposits : <<o, d>> \in traded => fate[d] # "absent"

\* The inductive invariant, beside TypeOK.
SafetyInv ==
    /\ SnapshotStaysCurrent
    /\ FulfilledHasTrade
    /\ TradedDepositsAreExact
    /\ InHand
    /\ LoopHasTraded
    /\ CoinsCover
    /\ TradedExist

\* What the properties of spends need: the unspents in hand are deposits at the
\* address of the order in hand, and each of Banco's transactions pays what an order
\* promises that it was made for, through a leaf of the address it spends.
HeldAtAddress ==
    /\ \A d \in queue \cup ({pick} \ {Nothing}) :
          fate[d] # "absent" /\ funding[d].address = Address(Terms[cur])
    /\ pc \in {"sleep", "orders", "unspents"} => queue = {}

SpendsPay ==
    \A d \in BancoSpends :
        /\ \E p \in OrderIds : <<p, d>> \in traded /\ spend[d].tx.payout = FulfillLeaf(Terms[p])
        /\ spend[d].tx.payout \in funding[d].address

\* Inductive, beside TypeOK.
SpendInv == HeldAtAddress /\ SpendsPay

\* What the books need.  The coins in hand have the asset that they were selected for.
SelectedAssets ==
    /\ pc \in {"fees", "broadcast"} =>
          \A c \in trade.coins : c.asset = Terms[cur].output.asset
    /\ pc = "broadcast" => \A c \in fees.coins : c.asset = LBTC

\* A deposit was traded at the address of the order it was traded for.
TradedAtAddress ==
    \A o \in OrderIds, d \in Deposits :
        <<o, d>> \in traded => funding[d].address = Address(Terms[o])

\* A transaction of Banco spends coins that no other one spends, and that it started
\* with or a mined one of the others created: none that could vanish before it.
CoinsSpentBy(d) == spend[d].tradeCoins \cup spend[d].feeCoins

CoinsAreTraced ==
    /\ IsFiniteSet(BancoSpends)
    /\ \A d \in BancoSpends :
          CoinsSpentBy(d) \subseteq CoinsIn((BancoSpends \cap spendMined) \ {d})
    /\ \A d, e \in BancoSpends : d # e => CoinsSpentBy(d) \cap CoinsSpentBy(e) = {}

\* Each one creates of an asset what it consumes, and its fee is bounded.
SpendsBalance ==
    \A d \in BancoSpends :
        LET tx == spend[d].tx
        IN /\ tx.fee.amount < 3 * FEE_AMOUNT
           /\ \A asset \in Assets :
                TotalOf(asset, CoinsSpentBy(d)) + AmountOf(asset, funding[d])
                  = AmountOf(asset, tx.payout) + AmountOf(asset, tx.proceeds)
                    + AmountOf(asset, tx.tradeChange) + AmountOf(asset, tx.feeChange)
                    + AmountOf(asset, tx.fee)

\* Inductive, beside TypeOK, SafetyInv and SpendInv.
BooksInv == SelectedAssets /\ TradedAtAddress /\ CoinsAreTraced /\ SpendsBalance

\* Inductive without "drop": a deposit that was traded is still spent by Banco, and was
\* traded for one order only.
TradedOnce ==
    \A o \in OrderIds, d \in Deposits :
        <<o, d>> \in traded => /\ d \in BancoSpends
                               /\ \A p \in OrderIds : <<p, d>> \in traded => p = o

-----------------------------------------------------------------------------
\* The watcher, its crashes and its failing calls included, implements the life
\* cycle that OrderLifecycle promises.
Lifecycle == INSTANCE OrderLifecycle WITH
    Gifts  <- {o \in OrderIds : Terms[o].input.amount = 0},
    Nobody <- Nothing,
    paid   <- {o \in OrderIds : \E d \in Deposits : <<o, d>> \in traded},
    held   <- cur

ImplementsLifecycle == Lifecycle!Spec

\* When every deposit is exact and the wallet has the funds, each order that was
\* placed ends up Fulfilled or Expired for good, also after failures.
EveryOrderSettles ==
    \A o \in OrderIds :
        status[o] # "none" ~> [](status[o] \in {"Fulfilled", "Expired"})

-----------------------------------------------------------------------------
\* PROTOCOL.md, "Fulfill transaction": once a transaction spends the deposit as
\* the contract asks, it "is considered fulfilled, and the trade is executed".
\* Then an order of which Banco made a trade never ends as Expired.
TradedNeverExpires ==
    \A o \in OrderIds :
        status[o] = "Expired" /\ pc = "sleep" =>
            \A d \in Deposits : <<o, d>> \notin traded
=============================================================================
