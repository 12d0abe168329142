-------------------------------- MODULE Banco --------------------------------
(***************************************************************************)
(* The trading core of Banco: the loop that watches the deposits of the    *)
(* orders and trades them (main.go, app.go, trade.go), composed with the   *)
(* order database (OrderStore), the wallet (Wallet) and the network        *)
(* (Ledger).                                                               *)
(*                                                                         *)
(* The watcher is one goroutine.  Each of its actions is one call to the   *)
(* database, the explorer or the wallet, and everything else may happen    *)
(* between two of them.                                                    *)
(***************************************************************************)
EXTENDS Wallet, OrderStore

CONSTANTS
    Terms,         \* order -> its terms, see Contract
    Faults,        \* the kinds of failure that may happen
    MaxFaults      \* bound: how many failures happen in a behaviour

FaultKinds == {"crash",      \* the process stops, and is started again
               "db",         \* a database write fails (SQLITE_BUSY, disk)
               "rpc",        \* a call to the wallet or the explorer fails
               "lostReply",  \* the wallet does what it is asked, the reply is lost
               "lag",        \* the explorer answers from a late view of the mempool
               "drop"}       \* a transaction that is not mined is replaced

ASSUME FaultsAssumption == Faults \subseteq FaultKinds /\ MaxFaults \in Nat

\* Amounts are whole satoshis; NewOrder may truncate one of its terms to zero.
ASSUME TermsAssumption ==
    \A o \in OrderIds :
        /\ Terms[o].input = Value(Terms[o].input.asset, Terms[o].input.amount)
        /\ Terms[o].output = Value(Terms[o].output.asset, Terms[o].output.amount)
        /\ Terms[o].input.amount \in Nat
        /\ Terms[o].output.amount \in Nat

ASSUME NothingAssumption == Nothing \notin OrderIds \cup Deposits

VARIABLES
    pc,            \* the next call of the watcher
    todo,          \* the orders of this pass that it has not taken yet
    cur,           \* the order of watchForTrades, or Nothing
    queue,         \* the unspents of cur that executeTrades has yet to trade
    pick,          \* the unspent being traded, or Nothing
    trade, fees,   \* the coins selected for it: for the payout, for the fee
    traded,        \* history: <<order, deposit>> of the broadcasts accepted
    faultsLeft     \* bound: failures that may still happen

watcherVars == <<pc, todo, cur, queue, pick, trade, fees>>
vars == <<ledgerVars, locked, storeVars, watcherVars, traded, faultsLeft>>

PCs == {"sleep", "orders", "unspents", "check", "trade", "fees", "broadcast",
        "fulfilled"}

Fail(kind) ==
    /\ kind \in Faults
    /\ faultsLeft > 0
    /\ faultsLeft' = faultsLeft - 1

NoFault == UNCHANGED faultsLeft

Init ==
    /\ LedgerInit
    /\ WalletInit
    /\ StoreInit
    /\ pc = "sleep"
    /\ todo = {}
    /\ cur = Nothing
    /\ queue = {}
    /\ pick = Nothing
    /\ trade = NoSelection
    /\ fees = NoSelection
    /\ traded = {}
    /\ faultsLeft = MaxFaults

-----------------------------------------------------------------------------
\* POST /trade: an order with these terms is quoted and saved.
PlaceOrder(o) ==
    /\ saveOrder(o)
    /\ UNCHANGED <<ledgerVars, locked, old, watcherVars, traded, faultsLeft>>

-----------------------------------------------------------------------------
(* The watcher.                                                            *)

\* One pass of startWatching begins: the snapshot of the orders to look at.
\* A read that fails ends the pass at once, which changes nothing.
FetchOrders ==
    /\ pc = "sleep"
    /\ pc' = "orders"
    /\ todo' = OrdersToFulfill
    /\ UNCHANGED <<ledgerVars, locked, storeVars, cur, queue, pick, trade, fees,
                   traded, faultsLeft>>

\* No order is left in the snapshot, the loop sleeps until the next pass.
EndPass ==
    /\ pc = "orders"
    /\ todo = {}
    /\ pc' = "sleep"
    /\ UNCHANGED <<ledgerVars, locked, storeVars, todo, cur, queue, pick, trade,
                   fees, traded, faultsLeft>>

\* Mutant: what was being traded is not forgotten.
LeaveOrderHalfway ==
    /\ pc' = "orders"
    /\ cur' = Nothing
    /\ queue' = {}
    /\ UNCHANGED <<todo, pick, trade, fees>>

\* watchForTrades returns, with or without an error, and the loop goes on.
LeaveOrder ==
    /\ pc' = "orders"
    /\ cur' = Nothing
    /\ queue' = {}
    /\ pick' = Nothing
    /\ trade' = NoSelection
    /\ fees' = NoSelection
    /\ UNCHANGED todo

\* watchForTrades starts: an order over ten minutes old is marked Expired, and
\* is examined all the same.  It is left when the mark cannot be written.
TakeOrder(o) ==
    /\ pc = "orders"
    /\ o \in todo
    /\ todo' = todo \ {o}
    /\ \/ /\ IF o \in old THEN updateOrderStatus(o, "Expired") ELSE UNCHANGED status
          /\ pc' = "unspents"
          /\ cur' = o
          /\ NoFault
       \/ /\ o \in old
          /\ Fail("db")
          /\ UNCHANGED <<pc, cur, status>>
    /\ UNCHANGED <<ledgerVars, locked, old, queue, pick, trade, fees, traded>>

\* The explorer lists what is unspent at the order's address, mined or not; when
\* it is behind the mempool it may miss deposits, and still list spent ones.
FetchUnspents ==
    /\ pc = "unspents"
    /\ \/ /\ queue' = {d \in DepositsAt(Address(Terms[cur])) : Unspent(d)}
          /\ pc' = "check"
          /\ UNCHANGED <<todo, cur, pick, trade, fees>>
          /\ NoFault
       \/ /\ Fail("lag")
          /\ queue' \in SUBSET DepositsAt(Address(Terms[cur]))
          /\ pc' = "check"
          /\ UNCHANGED <<todo, cur, pick, trade, fees>>
       \/ /\ Fail("rpc")
          /\ LeaveOrder
    /\ UNCHANGED <<ledgerVars, locked, storeVars, traded>>

\* Mutant: the comparison is the wrong way round.
coinsAreLessThan(deposits, amount) ==
    TotalAmount({Utxo(d) : d \in deposits}) <= amount

\* The amounts are added up whatever the assets are.
coinsAreMoreThan(deposits, amount) ==
    TotalAmount({Utxo(d) : d \in deposits}) >= amount

\* The loop of executeTrades: it trades the unspents one after the other, and
\* is done when none is left.
NextTrade(rest) ==
    IF rest = {}
    THEN pc' = "fulfilled" /\ queue' = {} /\ pick' = Nothing
    ELSE \E d \in rest : pc' = "trade" /\ queue' = rest \ {d} /\ pick' = d

\* Enough was deposited: the order is marked Funded, a mark whose failure is
\* ignored, and its trades begin.  Otherwise watchForTrades is done.
CheckFunds ==
    /\ pc = "check"
    /\ \/ /\ ~coinsAreMoreThan(queue, Terms[cur].input.amount)
          /\ LeaveOrder
          /\ UNCHANGED status
          /\ NoFault
       \/ /\ coinsAreMoreThan(queue, Terms[cur].input.amount)
          /\ NextTrade(queue)
          /\ \/ updateOrderStatus(cur, "Funded") /\ NoFault
             \/ Fail("db") /\ UNCHANGED status
          /\ UNCHANGED <<todo, cur, trade, fees>>
    /\ UNCHANGED <<ledgerVars, locked, old, traded>>

\* The selections of ExecuteTrade, after it asked for three addresses.  Without
\* coins, or when a call fails, its error leaves the order; locks taken stay.
SelectionFails(asset, amount) ==
    \/ Selections(asset, amount) = {} /\ UNCHANGED locked /\ NoFault
    \/ Fail("rpc") /\ UNCHANGED locked
    \/ Fail("lostReply") /\ \E s \in Selections(asset, amount) :
                                SelectUtxos(asset, amount, s)

SelectForTrade ==
    LET wanted == Terms[cur].output
    IN /\ pc = "trade"
       /\ \/ \E s \in Selections(wanted.asset, wanted.amount) :
                /\ SelectUtxos(wanted.asset, wanted.amount, s)
                /\ trade' = s
                /\ pc' = "fees"
                /\ UNCHANGED <<todo, cur, queue, pick, fees>>
                /\ NoFault
          \/ SelectionFails(wanted.asset, wanted.amount) /\ LeaveOrder
       /\ UNCHANGED <<ledgerVars, storeVars, traded>>

SelectForFees ==
    /\ pc = "fees"
    /\ \/ \E s \in Selections(LBTC, FEE_AMOUNT) :
             /\ SelectUtxos(LBTC, FEE_AMOUNT, s)
             /\ fees' = s
             /\ pc' = "broadcast"
             /\ UNCHANGED <<todo, cur, queue, pick, trade>>
             /\ NoFault
       \/ SelectionFails(LBTC, FEE_AMOUNT) /\ LeaveOrder
    /\ UNCHANGED <<ledgerVars, storeVars, traded>>

\* Mutant: the provider takes what was deposited, not what the order asks for.
FulfillTakingTheDeposit ==
    [PrepareFulfillTransaction(Terms[cur], trade.change, fees.change)
        EXCEPT !.proceeds = Output(funding[pick].asset, funding[pick].amount, Provider)]

\* The rest of ExecuteTrade: prepare, sign, reveal the fulfill leaf, broadcast.
\* An accepted transaction lets the loop go on, unless its reply is lost; any
\* error ends the trades of the order for this pass.
FulfillTransaction ==
    PrepareFulfillTransaction(Terms[cur], trade.change, fees.change)

CanBroadcast ==
    Valid(pick, FulfillLeaf(Terms[cur]), FulfillTransaction, trade.coins,
          fees.coins, Terms[cur].output.asset)

\* Mutant: an unspent whose trade fails is passed over.
BroadcastOrSkip ==
    /\ pc = "broadcast"
    /\ NextTrade(queue)
    /\ trade' = NoSelection
    /\ fees' = NoSelection
    /\ \/ /\ CanBroadcast
          /\ Accept(pick, FulfillTransaction, trade.coins, fees.coins)
          /\ traded' = traded \cup {<<cur, pick>>}
       \/ /\ ~CanBroadcast
          /\ UNCHANGED <<ledgerVars, traded>>
    /\ NoFault
    /\ UNCHANGED <<locked, storeVars, todo, cur>>

Broadcast ==
    /\ pc = "broadcast"
    /\ \/ /\ CanBroadcast
          /\ Accept(pick, FulfillTransaction, trade.coins, fees.coins)
          /\ traded' = traded \cup {<<cur, pick>>}
          /\ \/ /\ NextTrade(queue)
                /\ trade' = NoSelection
                /\ fees' = NoSelection
                /\ UNCHANGED <<todo, cur>>
                /\ NoFault
             \/ Fail("lostReply") /\ LeaveOrder
       \/ /\ \/ ~CanBroadcast /\ NoFault
             \/ Fail("rpc")
          /\ LeaveOrder
          /\ UNCHANGED <<ledgerVars, traded>>
    /\ UNCHANGED <<locked, storeVars>>

\* Every unspent was traded: the order is marked Fulfilled, a mark whose failure
\* is ignored.
MarkFulfilled ==
    /\ pc = "fulfilled"
    /\ \/ updateOrderStatus(cur, "Fulfilled") /\ NoFault
       \/ Fail("db") /\ UNCHANGED status
    /\ LeaveOrder
    /\ UNCHANGED <<ledgerVars, locked, old, traded>>

\* The process stops and is started again: only the database is left of its
\* state.  The wallet is another process, which keeps its locks.
Crash ==
    /\ Fail("crash")
    /\ pc' = "sleep"
    /\ todo' = {}
    /\ cur' = Nothing
    /\ queue' = {}
    /\ pick' = Nothing
    /\ trade' = NoSelection
    /\ fees' = NoSelection
    /\ UNCHANGED <<ledgerVars, locked, storeVars, traded>>

Watcher ==
    \/ FetchOrders
    \/ EndPass
    \/ \E o \in OrderIds : TakeOrder(o)
    \/ FetchUnspents
    \/ CheckFunds
    \/ SelectForTrade
    \/ SelectForFees
    \/ Broadcast
    \/ MarkFulfilled

-----------------------------------------------------------------------------
(* The world around it.                                                    *)

Deposit(o, d, payment) ==
    /\ o \in Saved
    /\ Fund(d, Address(Terms[o]), payment)
    /\ UNCHANGED <<locked, storeVars, watcherVars, traded, faultsLeft>>

Mine(d) ==
    /\ MineFunding(d) \/ MineSpend(d)
    /\ UNCHANGED <<locked, storeVars, watcherVars, traded, faultsLeft>>

Drop(d) ==
    /\ Fail("drop")
    /\ ReplaceFunding(d) \/ EvictSpend(d)
    /\ UNCHANGED <<locked, storeVars, watcherVars, traded>>

SpendByOther(d) ==
    /\ Unspent(d)
    /\ \E leaf \in funding[d].address : ForeignSpend(d, leaf)
    /\ UNCHANGED <<locked, storeVars, watcherVars, traded, faultsLeft>>

ReleaseCoin(id) ==
    /\ \E c \in locked : c.id = id /\ UnlockCoin(c)
    /\ UNCHANGED <<ledgerVars, storeVars, watcherVars, traded, faultsLeft>>

TenMinutesPass(o) ==
    /\ Age(o)
    /\ UNCHANGED <<ledgerVars, locked, watcherVars, traded, faultsLeft>>

Next ==
    \/ Watcher
    \/ Crash
    \/ \E o \in OrderIds : PlaceOrder(o) \/ TenMinutesPass(o)
    \/ \E o \in OrderIds, d \in Deposits, p \in Payments : Deposit(o, d, p)
    \/ \E d \in Deposits : Mine(d) \/ Drop(d) \/ SpendByOther(d)
    \/ \E id \in CoinIds : ReleaseCoin(id)

Spec == Init /\ [][Next]_vars

\* The watcher keeps running, time passes, blocks are mined, locks expire.
Fairness ==
    /\ WF_vars(Watcher)
    /\ \A d \in Deposits : WF_vars(Mine(d))
    /\ \A o \in OrderIds : WF_vars(TenMinutesPass(o))
    /\ \A id \in CoinIds : WF_vars(ReleaseCoin(id))

FairSpec == Spec /\ Fairness
=============================================================================
