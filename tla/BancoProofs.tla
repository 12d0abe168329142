----------------------------- MODULE BancoProofs -----------------------------
(***************************************************************************)
(* Theorems about the trading core of Banco, for any orders, deposits,     *)
(* payments, coins and failures.  The books are sums, which recursive      *)
(* functions compute: what is needed of those is proved by induction over  *)
(* finite sets.                                                            *)
(***************************************************************************)
EXTENDS BancoProperties, FiniteSetTheorems, WellFoundedInduction, TLAPS

-----------------------------------------------------------------------------
(* The contract, for every asset, amount and fee.                          *)

\* The terms of an order: whole amounts.
TermsOk(terms) ==
    /\ terms.input.amount \in Nat
    /\ terms.output.amount \in Nat

\* The amounts of each output of the transaction are natural numbers: no fold
\* of a change into the fee underflows.
LEMMA PreparedAmounts ==
    ASSUME NEW terms, TermsOk(terms), NEW tradeChange \in Nat, NEW feeChange \in Nat
    PROVE  LET tx == PrepareFulfillTransaction(terms, tradeChange, feeChange)
           IN /\ tx.payout.amount \in Nat
              /\ tx.proceeds.amount \in Nat
              /\ tx.tradeChange.amount \in Nat
              /\ tx.feeChange.amount \in Nat
              /\ tx.fee.amount \in Nat
  BY FeeAmountAssumption DEF PrepareFulfillTransaction, TermsOk, Output

\* Together the two changes and the fee carry exactly what the coins leave after
\* the payout, and they leave no L-BTC dust to the wallet.
LEMMA PreparedChange ==
    ASSUME NEW terms, TermsOk(terms), NEW tradeChange \in Nat, NEW feeChange \in Nat
    PROVE  LET tx == PrepareFulfillTransaction(terms, tradeChange, feeChange)
           IN /\ tx.fee.amount < 3 * FEE_AMOUNT
              /\ tx.tradeChange.asset = LBTC =>
                    tx.tradeChange.amount = 0 \/ tx.tradeChange.amount >= FEE_AMOUNT
              /\ tx.feeChange.amount = 0 \/ tx.feeChange.amount >= FEE_AMOUNT
  BY FeeAmountAssumption DEF PrepareFulfillTransaction, TermsOk, Output

\* PrepareFulfillTransaction pays output 0 as the fulfill leaf asks, and that
\* leaf is one of the address of the order.
THEOREM PayoutSatisfiesFulfillLeaf ==
    ASSUME NEW terms, NEW tradeChange, NEW feeChange
    PROVE  /\ PrepareFulfillTransaction(terms, tradeChange, feeChange).payout
                 = FulfillLeaf(terms)
           /\ FulfillLeaf(terms) \in Address(terms)
  BY DEF PrepareFulfillTransaction, FulfillLeaf, FulfillScript, Address,
         CreateFundingOutput, Output

\* The transaction built from what the wallet selected balances exactly for the
\* deposits that have the asset and the amount of the order, so that a network
\* that checks the balance lets Banco trade those deposits and no others.
THEOREM BalancedIffExact ==
    ASSUME NEW terms, TermsOk(terms), NEW tradeChange \in Nat, NEW feeChange \in Nat,
           NEW deposit, deposit.amount \in Nat \ {0},
           NEW tradeIn, tradeIn = terms.output.amount + tradeChange,
           NEW feeIn, feeIn = FEE_AMOUNT + feeChange
    PROVE  Balanced(deposit, Value(terms.output.asset, tradeIn), Value(LBTC, feeIn),
                    PrepareFulfillTransaction(terms, tradeChange, feeChange))
             <=> /\ deposit.asset = terms.input.asset
                 /\ deposit.amount = terms.input.amount
<1> DEFINE tx == PrepareFulfillTransaction(terms, tradeChange, feeChange)
           coinsFlow(a) == AmountOf(a, tx.payout) + AmountOf(a, tx.tradeChange)
                             + AmountOf(a, tx.feeChange) + AmountOf(a, tx.fee)
                           = AmountOf(a, Value(terms.output.asset, tradeIn))
                             + AmountOf(a, Value(LBTC, feeIn))
           typed(a) == /\ AmountOf(a, tx.payout) \in Nat
                       /\ AmountOf(a, tx.tradeChange) \in Nat
                       /\ AmountOf(a, tx.feeChange) \in Nat
                       /\ AmountOf(a, tx.fee) \in Nat
                       /\ AmountOf(a, tx.proceeds) \in Nat
                       /\ AmountOf(a, deposit) \in Nat
                       /\ AmountOf(a, Value(terms.output.asset, tradeIn)) \in Nat
                       /\ AmountOf(a, Value(LBTC, feeIn)) \in Nat
           balanced(a) ==
             AmountOf(a, deposit) + AmountOf(a, Value(terms.output.asset, tradeIn))
               + AmountOf(a, Value(LBTC, feeIn))
             = AmountOf(a, tx.payout) + AmountOf(a, tx.proceeds)
               + AmountOf(a, tx.tradeChange) + AmountOf(a, tx.feeChange)
               + AmountOf(a, tx.fee)
\* The coins pay for the payout, the changes and the fee, in every asset.
<1>1. /\ tx.payout.asset = terms.output.asset /\ tx.payout.amount = terms.output.amount
      /\ tx.tradeChange.asset = terms.output.asset
      /\ tx.feeChange.asset = LBTC
      /\ tx.fee.asset = LBTC
  BY DEF PrepareFulfillTransaction, Output
<1>2. /\ tx.proceeds.asset = terms.input.asset
      /\ tx.proceeds.amount = terms.input.amount
  BY DEF PrepareFulfillTransaction, Output
<1>3. /\ tx.tradeChange.amount \in Nat /\ tx.feeChange.amount \in Nat
      /\ tx.fee.amount \in Nat
      /\ terms.output.asset # LBTC => tx.tradeChange.amount = tradeChange
      /\ tx.fee.amount = FEE_AMOUNT + (tradeChange - tx.tradeChange.amount)
                                    + (feeChange - tx.feeChange.amount)
  BY FeeAmountAssumption DEF PrepareFulfillTransaction, Output
<1>4. terms.output.amount \in Nat /\ terms.input.amount \in Nat /\ FEE_AMOUNT \in Nat
  BY FeeAmountAssumption DEF TermsOk
<1> HIDE DEF tx
<1>5. ASSUME NEW a PROVE typed(a)
  BY <1>1, <1>2, <1>3, <1>4 DEF Value, AmountOf
\* The coins pay for the payout, the changes and the fee, in every asset.
<1>6. ASSUME NEW a PROVE coinsFlow(a)
  <2>1. CASE terms.output.asset = LBTC
    BY <1>1, <1>3, <1>4, <2>1 DEF Value, AmountOf
  <2>2. CASE terms.output.asset # LBTC
    <3>1. tx.tradeChange.amount = tradeChange
          /\ tx.fee.amount = FEE_AMOUNT + (feeChange - tx.feeChange.amount)
      BY <1>3, <1>4, <2>2
    <3>2. CASE a = LBTC
      BY <1>1, <1>3, <1>4, <2>2, <3>1, <3>2 DEF Value, AmountOf
    <3>3. CASE a # LBTC
      BY <1>1, <1>3, <1>4, <3>1, <3>3 DEF Value, AmountOf
    <3>4. QED  BY <3>2, <3>3
  <2>3. QED  BY <2>1, <2>2
\* So an asset balances when the deposit brings what the proceeds take of it.
<1>7. ASSUME NEW a
      PROVE  balanced(a) <=> AmountOf(a, deposit) = AmountOf(a, tx.proceeds)
  BY <1>5, <1>6
<1>8. ASSUME deposit.asset = terms.input.asset, deposit.amount = terms.input.amount
      PROVE  \A a : balanced(a)
  <2> SUFFICES ASSUME NEW a PROVE AmountOf(a, deposit) = AmountOf(a, tx.proceeds)
    BY <1>7
  <2> QED  BY <1>2, <1>8 DEF AmountOf
<1>9. ASSUME balanced(deposit.asset)
      PROVE  deposit.asset = terms.input.asset /\ deposit.amount = terms.input.amount
  <2>1. AmountOf(deposit.asset, deposit) = AmountOf(deposit.asset, tx.proceeds)
    BY <1>7, <1>9
  <2> QED  BY <2>1, <1>2 DEF AmountOf
<1>10. Balanced(deposit, Value(terms.output.asset, tradeIn), Value(LBTC, feeIn), tx)
        => balanced(deposit.asset)
  BY DEF Balanced
<1>11. (\A a : balanced(a))
        => Balanced(deposit, Value(terms.output.asset, tradeIn), Value(LBTC, feeIn), tx)
  BY DEF Balanced
<1>12. QED  BY <1>8, <1>9, <1>10, <1>11 DEF tx

-----------------------------------------------------------------------------
(* What the actions have in common.                                        *)

\* A selection leaves a change, and its coins are coins of the wallet.
LEMMA SelectionChange ==
    ASSUME NEW asset, NEW amount, NEW s \in Selections(asset, amount)
    PROVE  /\ s.change \in Nat
           /\ TotalAmount(s.coins) = amount + s.change
           /\ s.coins \subseteq SpendableCoins
  <1>1. PICK C \in SUBSET {c \in SpendableCoins \ locked : c.asset = asset} :
           s \in [coins : {C}, change : 0 .. TotalAmount(C)]
    BY DEF Selections
  <1>2. s.change \in 0 .. TotalAmount(C) /\ s.coins = C
    BY <1>1
  <1>3. s.change \in Nat
    BY <1>2
  <1>4. QED  BY <1>1, <1>2, <1>3 DEF Selections

\* The coins of the wallet have the ids whose locks expire.
LEMMA CoinsHaveIds == \A c \in SpendableCoins : c.id \in CoinIds
  BY DEF SpendableCoins, CoinsIn, CoinsCreatedBy, CoinIds, Outputs, BancoSpends

\* Locks taken by a selection are locks that can expire.
LEMMA SelectLocks ==
    ASSUME WalletTypeOK, NEW asset, NEW amount, NEW s,
           SelectUtxos(asset, amount, s)
    PROVE  WalletTypeOK'
  <1>1. s \in Selections(asset, amount) /\ locked' = locked \cup s.coins
    BY DEF SelectUtxos
  <1>2. s.coins \subseteq SpendableCoins
    BY <1>1, SelectionChange
  <1>3. CoinIds' = CoinIds
    BY DEF CoinIds
  <1>4. QED  BY <1>1, <1>2, <1>3, CoinsHaveIds DEF WalletTypeOK

\* The transaction built for an order has the type of one.
LEMMA FulfillTransactionType ==
    ASSUME cur \in OrderIds, trade.change \in Nat, fees.change \in Nat
    PROVE  FulfillTransaction \in TxType
  <1> DEFINE t == Terms[cur]
             p == PrepareFulfillTransaction(t, trade.change, fees.change)
  <1>1. t.input.amount \in Nat /\ t.output.amount \in Nat
    BY TermsAssumption
  <1>2. t.input.asset \in Assets /\ t.output.asset \in Assets /\ LBTC \in Assets
    BY DEF Assets
  <1>3. t.trader \in Scripts /\ Provider \in Scripts /\ "fee" \in Scripts
    BY DEF Scripts
  <1> HIDE DEF t
  <1>4. p \in TxType
    BY <1>1, <1>2, <1>3, FeeAmountAssumption
    DEF PrepareFulfillTransaction, TxType, OutputType, Output
  <1>5. QED  BY <1>4 DEF FulfillTransaction, t

\* Leaving an order returns the watcher to its loop, with nothing in hand.
LEMMA LeaveOrderType ==
    ASSUME WatcherTypeOK, LeaveOrder, traded' \subseteq OrderIds \X Deposits,
           faultsLeft' \in 0 .. MaxFaults
    PROVE  WatcherTypeOK'
  BY DEF WatcherTypeOK, LeaveOrder, NoSelection, PCs

\* A failure that happens is one less that may.
LEMMA FaultsCounted ==
    ASSUME faultsLeft \in 0 .. MaxFaults,
           NoFault \/ \E kind \in FaultKinds : Fail(kind)
    PROVE  faultsLeft' \in 0 .. MaxFaults
  BY FaultsAssumption DEF Fail, NoFault

\* The loop of executeTrades goes on with one of the unspents, or is done.
LEMMA NextTradeType ==
    ASSUME NEW rest \in SUBSET Deposits, NextTrade(rest)
    PROVE  /\ pc' \in {"trade", "fulfilled"}
           /\ queue' \subseteq Deposits
           /\ pick' \in IF pc' = "trade" THEN Deposits ELSE {Nothing}
  BY DEF NextTrade
-----------------------------------------------------------------------------
(* Type correctness, one lemma for each component and then one step for     *)
(* each action.                                                            *)

\* Every step of the network keeps the deposits and their spends well formed.
LEMMA LedgerTypeStep ==
    ASSUME LedgerTypeOK,
           \/ \E o \in OrderIds, d \in Deposits, p \in Payments :
                   Fund(d, Address(Terms[o]), p)
           \/ \E d \in Deposits : MineFunding(d) \/ MineSpend(d)
           \/ \E d \in Deposits : ReplaceFunding(d) \/ EvictSpend(d)
           \/ \E d \in Deposits : \E leaf \in funding[d].address : ForeignSpend(d, leaf)
           \/ \E d \in Deposits, tx \in TxType : \E tc, fc :
                   Unspent(d) /\ Accept(d, tx, tc, fc)
           \/ UNCHANGED ledgerVars
    PROVE  LedgerTypeOK'
<1>1. CASE \E o \in OrderIds, d \in Deposits, p \in Payments :
              Fund(d, Address(Terms[o]), p)
  <2>1. PICK o \in OrderIds, d \in Deposits, p \in Payments :
            Fund(d, Address(Terms[o]), p)
    BY <1>1
  <2>2. p.amount \in Nat \ {0} /\ p.asset \in Assets /\ Address(Terms[o]) \in Addresses
    BY PaymentsAssumption DEF Assets, Addresses
  <2>3. funding'[d] \in FundingType /\ fate'[d] = "mempool" /\ d \notin spendMined
    BY <2>1, <2>2 DEF Fund, FundingType, LedgerTypeOK
  <2>4. \A e \in Deposits \ {d} : funding'[e] = funding[e] /\ fate'[e] = fate[e]
    BY <2>1 DEF Fund, LedgerTypeOK
  <2>5. spend[d] = Nothing
    BY <2>1 DEF Fund, LedgerTypeOK, Funded
  <2>6. QED  BY <2>1, <2>3, <2>4, <2>5 DEF Fund, LedgerTypeOK, Funded
<1>2. CASE \E d \in Deposits : MineFunding(d)
  BY <1>2 DEF MineFunding, LedgerTypeOK, Funded
<1>3. CASE \E d \in Deposits : MineSpend(d)
  BY <1>3 DEF MineSpend, LedgerTypeOK, Funded
<1>4. CASE \E d \in Deposits : ReplaceFunding(d)
  BY <1>4 DEF ReplaceFunding, LedgerTypeOK, Funded
<1>5. CASE \E d \in Deposits : EvictSpend(d)
  BY <1>5 DEF EvictSpend, LedgerTypeOK, Funded
<1>6. CASE \E d \in Deposits : \E leaf \in funding[d].address : ForeignSpend(d, leaf)
  BY <1>6 DEF ForeignSpend, Unspent, LedgerTypeOK, Funded
<1>7. CASE \E d \in Deposits, tx \in TxType : \E tc, fc :
              Unspent(d) /\ Accept(d, tx, tc, fc)
  BY <1>7 DEF Accept, Unspent, LedgerTypeOK, Funded
<1>8. CASE UNCHANGED ledgerVars
  BY <1>8 DEF ledgerVars, LedgerTypeOK, Funded
<1>9. QED  BY <1>1, <1>2, <1>3, <1>4, <1>5, <1>6, <1>7, <1>8

\* Every operation of the database keeps the statuses among the known ones.
LEMMA StoreTypeStep ==
    ASSUME StoreTypeOK,
           \/ \E o \in OrderIds : saveOrder(o) /\ UNCHANGED old
           \/ \E o \in OrderIds, s \in Statuses : updateOrderStatus(o, s) /\ UNCHANGED old
           \/ \E o \in OrderIds : Age(o)
           \/ UNCHANGED storeVars
    PROVE  StoreTypeOK'
  BY DEF StoreTypeOK, saveOrder, updateOrderStatus, Age, storeVars, Saved, Statuses

LEMMA TypeInit == Init => TypeOK
  BY FaultsAssumption
  DEF Init, LedgerInit, WalletInit, StoreInit, TypeOK, LedgerTypeOK, WalletTypeOK,
      StoreTypeOK, WatcherTypeOK, NoSelection, PCs, Statuses, Saved, BancoSpends

\* What is left alone keeps its type.
LEMMA UnchangedTypes ==
    ASSUME TypeOK
    PROVE  /\ UNCHANGED ledgerVars => LedgerTypeOK'
           /\ UNCHANGED locked => WalletTypeOK'
           /\ UNCHANGED storeVars => StoreTypeOK'
           /\ UNCHANGED <<watcherVars, traded, faultsLeft>> => WatcherTypeOK'
<1>1. UNCHANGED ledgerVars => LedgerTypeOK'
  BY LedgerTypeStep DEF TypeOK
<1>2. UNCHANGED locked => WalletTypeOK'
  BY DEF TypeOK, WalletTypeOK, CoinIds
<1>3. UNCHANGED storeVars => StoreTypeOK'
  BY StoreTypeStep DEF TypeOK
<1>4. UNCHANGED <<watcherVars, traded, faultsLeft>> => WatcherTypeOK'
  BY DEF TypeOK, WatcherTypeOK, watcherVars
<1>5. QED  BY <1>1, <1>2, <1>3, <1>4

\* Every step of the watcher, of its failures and of the world keeps the types.
LEMMA TypeStep == TypeOK /\ [Next]_vars => TypeOK'
<1> SUFFICES ASSUME TypeOK, [Next]_vars PROVE TypeOK'
  OBVIOUS
<1> USE DEF TypeOK
<1>a. faultsLeft \in 0 .. MaxFaults /\ traded \subseteq OrderIds \X Deposits
  BY DEF WatcherTypeOK
<1>1. ASSUME NEW o \in OrderIds, PlaceOrder(o) PROVE TypeOK'
  BY <1>1, UnchangedTypes, StoreTypeStep DEF PlaceOrder
<1>2. CASE FetchOrders
  <2>1. WatcherTypeOK'
    BY <1>2 DEF FetchOrders, WatcherTypeOK, PCs, OrdersToFulfill
  <2>2. QED  BY <1>2, <2>1, UnchangedTypes DEF FetchOrders
<1>3. CASE EndPass
  <2>1. WatcherTypeOK'
    BY <1>3 DEF EndPass, WatcherTypeOK, PCs
  <2>2. QED  BY <1>3, <2>1, UnchangedTypes DEF EndPass
<1>4. ASSUME NEW o \in OrderIds, TakeOrder(o) PROVE TypeOK'
  <2>1. faultsLeft' \in 0 .. MaxFaults
    BY <1>4, <1>a, FaultsCounted DEF TakeOrder, FaultKinds
  <2>2. WatcherTypeOK'
    BY <1>4, <2>1 DEF TakeOrder, WatcherTypeOK, PCs
  <2>3. StoreTypeOK'
    BY <1>4, StoreTypeStep DEF TakeOrder, Statuses, storeVars
  <2>4. QED  BY <1>4, <2>2, <2>3, UnchangedTypes DEF TakeOrder
<1>5. CASE FetchUnspents
  <2>1. faultsLeft' \in 0 .. MaxFaults
    BY <1>5, <1>a, FaultsCounted DEF FetchUnspents, FaultKinds
  <2>2. CASE LeaveOrder
    BY <1>5, <2>1, <2>2, <1>a, LeaveOrderType, UnchangedTypes DEF FetchUnspents
  <2>3. CASE ~LeaveOrder
    <3>1. /\ queue' \subseteq Deposits
          /\ pc = "unspents" /\ pc' = "check"
          /\ UNCHANGED <<todo, cur, pick, trade, fees, traded>>
      BY <1>5, <2>3 DEF FetchUnspents, DepositsAt
    <3>2. WatcherTypeOK'
      BY <2>1, <3>1 DEF WatcherTypeOK, PCs
    <3>3. QED  BY <1>5, <3>2, UnchangedTypes DEF FetchUnspents
  <2>4. QED  BY <2>2, <2>3
<1>6. CASE CheckFunds
  <2>1. faultsLeft' \in 0 .. MaxFaults
    BY <1>6, <1>a, FaultsCounted DEF CheckFunds, FaultKinds
  <2>2. StoreTypeOK'
    <3>1. cur \in OrderIds
      BY <1>6 DEF CheckFunds, WatcherTypeOK
    <3>2. QED  BY <1>6, <3>1, StoreTypeStep DEF CheckFunds, Statuses, storeVars
  <2>3. WatcherTypeOK'
    <3>1. CASE LeaveOrder
      BY <1>6, <2>1, <3>1, <1>a, LeaveOrderType DEF CheckFunds
    <3>2. CASE ~LeaveOrder
      <4>1. NextTrade(queue) /\ UNCHANGED <<todo, cur, trade, fees, traded>>
            /\ pc = "check"
        BY <1>6, <3>2 DEF CheckFunds
      <4>2. queue \in SUBSET Deposits
        BY DEF WatcherTypeOK
      <4>3. QED  BY <2>1, <4>1, <4>2, NextTradeType DEF WatcherTypeOK, PCs
    <3>3. QED  BY <3>1, <3>2
  <2>4. QED  BY <1>6, <2>2, <2>3, UnchangedTypes DEF CheckFunds
<1>7. CASE SelectForTrade
  <2> DEFINE wanted == Terms[cur].output
  <2>1. CASE \E s \in Selections(wanted.asset, wanted.amount) :
                /\ SelectUtxos(wanted.asset, wanted.amount, s)
                /\ trade' = s
                /\ pc' = "fees"
                /\ UNCHANGED <<todo, cur, queue, pick, fees>>
                /\ NoFault
    <3>1. PICK s \in Selections(wanted.asset, wanted.amount) :
                /\ SelectUtxos(wanted.asset, wanted.amount, s)
                /\ trade' = s
                /\ pc' = "fees"
                /\ UNCHANGED <<todo, cur, queue, pick, fees>>
                /\ NoFault
      BY <2>1
    <3>2. s.change \in Nat /\ pc = "trade" /\ UNCHANGED traded
      BY <1>7, SelectionChange DEF SelectForTrade
    <3>3. WatcherTypeOK'
      BY <3>1, <3>2 DEF WatcherTypeOK, PCs, NoFault
    <3>4. WalletTypeOK'
      BY <3>1, SelectLocks
    <3>5. QED  BY <1>7, <3>3, <3>4, UnchangedTypes DEF SelectForTrade
  <2>2. CASE SelectionFails(wanted.asset, wanted.amount) /\ LeaveOrder
    <3>1. faultsLeft' \in 0 .. MaxFaults
      BY <2>2, <1>a, FaultsCounted DEF SelectionFails, FaultKinds
    <3>2. WalletTypeOK'
      BY <2>2, SelectLocks, UnchangedTypes DEF SelectionFails
    <3>3. WatcherTypeOK'
      BY <1>7, <2>2, <3>1, <1>a, LeaveOrderType DEF SelectForTrade
    <3>4. QED  BY <1>7, <3>2, <3>3, UnchangedTypes DEF SelectForTrade
  <2>3. QED  BY <1>7, <2>1, <2>2 DEF SelectForTrade
<1>8. CASE SelectForFees
  <2>1. CASE \E s \in Selections(LBTC, FEE_AMOUNT) :
                /\ SelectUtxos(LBTC, FEE_AMOUNT, s)
                /\ fees' = s
                /\ pc' = "broadcast"
                /\ UNCHANGED <<todo, cur, queue, pick, trade>>
                /\ NoFault
    <3>1. PICK s \in Selections(LBTC, FEE_AMOUNT) :
                /\ SelectUtxos(LBTC, FEE_AMOUNT, s)
                /\ fees' = s
                /\ pc' = "broadcast"
                /\ UNCHANGED <<todo, cur, queue, pick, trade>>
                /\ NoFault
      BY <2>1
    <3>2. s.change \in Nat /\ pc = "fees" /\ UNCHANGED traded
      BY <1>8, SelectionChange DEF SelectForFees
    <3>3. WatcherTypeOK'
      BY <3>1, <3>2 DEF WatcherTypeOK, PCs, NoFault
    <3>4. WalletTypeOK'
      BY <3>1, SelectLocks
    <3>5. QED  BY <1>8, <3>3, <3>4, UnchangedTypes DEF SelectForFees
  <2>2. CASE SelectionFails(LBTC, FEE_AMOUNT) /\ LeaveOrder
    <3>1. faultsLeft' \in 0 .. MaxFaults
      BY <2>2, <1>a, FaultsCounted DEF SelectionFails, FaultKinds
    <3>2. WalletTypeOK'
      BY <2>2, SelectLocks, UnchangedTypes DEF SelectionFails
    <3>3. WatcherTypeOK'
      BY <1>8, <2>2, <3>1, <1>a, LeaveOrderType DEF SelectForFees
    <3>4. QED  BY <1>8, <3>2, <3>3, UnchangedTypes DEF SelectForFees
  <2>3. QED  BY <1>8, <2>1, <2>2 DEF SelectForFees
<1>9. CASE Broadcast
  <2>1. faultsLeft' \in 0 .. MaxFaults
    BY <1>9, <1>a, FaultsCounted DEF Broadcast, FaultKinds
  <2>2. /\ pc = "broadcast" /\ cur \in OrderIds /\ pick \in Deposits
        /\ queue \in SUBSET Deposits
    BY <1>9 DEF Broadcast, WatcherTypeOK
  <2>3. LedgerTypeOK'
    <3>1. FulfillTransaction \in TxType
      BY <2>2, FulfillTransactionType DEF WatcherTypeOK
    <3>2. CanBroadcast => Unspent(pick)
      BY DEF CanBroadcast, Valid
    <3>3. QED  BY <1>9, <2>2, <3>1, <3>2, LedgerTypeStep DEF Broadcast
  <2>4. traded' \subseteq OrderIds \X Deposits
    BY <1>9, <1>a, <2>2 DEF Broadcast
  <2>5. WatcherTypeOK'
    <3>1. CASE LeaveOrder
      BY <2>1, <2>4, <3>1, LeaveOrderType
    <3>2. CASE ~LeaveOrder
      <4>1. /\ NextTrade(queue) /\ UNCHANGED <<todo, cur>>
            /\ trade' = NoSelection /\ fees' = NoSelection
        BY <1>9, <3>2 DEF Broadcast
      <4>2. QED  BY <2>1, <2>2, <2>4, <4>1, NextTradeType
                 DEF WatcherTypeOK, PCs, NoSelection
    <3>3. QED  BY <3>1, <3>2
  <2>6. QED  BY <1>9, <2>3, <2>5, UnchangedTypes DEF Broadcast
<1>10. CASE MarkFulfilled
  <2>1. faultsLeft' \in 0 .. MaxFaults
    BY <1>10, <1>a, FaultsCounted DEF MarkFulfilled, FaultKinds
  <2>2. WatcherTypeOK'
    BY <1>10, <2>1, <1>a, LeaveOrderType DEF MarkFulfilled
  <2>3. StoreTypeOK'
    <3>1. cur \in OrderIds
      BY <1>10 DEF MarkFulfilled, WatcherTypeOK
    <3>2. QED  BY <1>10, <3>1, StoreTypeStep DEF MarkFulfilled, Statuses, storeVars
  <2>4. QED  BY <1>10, <2>2, <2>3, UnchangedTypes DEF MarkFulfilled
<1>11. CASE Crash
  <2>1. faultsLeft' \in 0 .. MaxFaults
    BY <1>11, <1>a, FaultsCounted DEF Crash, FaultKinds
  <2>2. WatcherTypeOK'
    BY <1>11, <2>1 DEF Crash, WatcherTypeOK, NoSelection, PCs
  <2>3. QED  BY <1>11, <2>2, UnchangedTypes DEF Crash
<1>12. ASSUME NEW o \in OrderIds, NEW d \in Deposits, NEW p \in Payments,
              Deposit(o, d, p)
       PROVE  TypeOK'
  BY <1>12, LedgerTypeStep, UnchangedTypes DEF Deposit
<1>13. ASSUME NEW d \in Deposits, Mine(d) PROVE TypeOK'
  BY <1>13, LedgerTypeStep, UnchangedTypes DEF Mine
<1>14. ASSUME NEW d \in Deposits, Drop(d) PROVE TypeOK'
  <2>1. faultsLeft' \in 0 .. MaxFaults
    BY <1>14, <1>a, FaultsCounted DEF Drop, FaultKinds
  <2>2. WatcherTypeOK'
    BY <1>14, <2>1 DEF Drop, WatcherTypeOK, watcherVars
  <2>3. LedgerTypeOK'
    BY <1>14, LedgerTypeStep DEF Drop
  <2>4. QED  BY <1>14, <2>2, <2>3, UnchangedTypes DEF Drop
<1>15. ASSUME NEW d \in Deposits, SpendByOther(d) PROVE TypeOK'
  BY <1>15, LedgerTypeStep, UnchangedTypes DEF SpendByOther
<1>16. ASSUME NEW id \in CoinIds, ReleaseCoin(id) PROVE TypeOK'
  <2>1. WalletTypeOK'
    BY <1>16 DEF ReleaseCoin, UnlockCoin, WalletTypeOK, CoinIds
  <2>2. QED  BY <1>16, <2>1, UnchangedTypes DEF ReleaseCoin
<1>17. ASSUME NEW o \in OrderIds, TenMinutesPass(o) PROVE TypeOK'
  BY <1>17, StoreTypeStep, UnchangedTypes DEF TenMinutesPass
<1>18. CASE UNCHANGED vars
  BY <1>18, UnchangedTypes DEF vars
<1>19. QED
  BY <1>1, <1>2, <1>3, <1>4, <1>5, <1>6, <1>7, <1>8, <1>9, <1>10, <1>11, <1>12,
     <1>13, <1>14, <1>15, <1>16, <1>17, <1>18
  DEF Next, Watcher

\* In every behaviour, whatever fails: deposits and their spends are well formed,
\* only locks that expire are taken, statuses are those of the database, and the
\* watcher holds an order and an unspent exactly where its code has them.
THEOREM TypeCorrect == Spec => []TypeOK
<1>1. Init => TypeOK
  BY TypeInit
<1>2. TypeOK /\ [Next]_vars => TypeOK'
  BY TypeStep
<1>3. QED  BY <1>1, <1>2, PTL DEF Spec
-----------------------------------------------------------------------------
(* Safety: SafetyInv is inductive, given the types.                        *)

LEMMA SafetyInit == Init => SafetyInv
  BY NothingAssumption
  DEF Init, LedgerInit, StoreInit, SafetyInv, SnapshotStaysCurrent, FulfilledHasTrade,
      TradedDepositsAreExact, InHand, LoopHasTraded, CoinsCover, TradedExist

\* A deposit that was made keeps its record, whatever happens to it.
LEMMA FundingStays ==
    ASSUME LedgerTypeOK,
           \/ \E o \in OrderIds, d \in Deposits, p \in Payments :
                   Fund(d, Address(Terms[o]), p)
           \/ \E d \in Deposits : MineFunding(d) \/ MineSpend(d)
           \/ \E d \in Deposits : ReplaceFunding(d) \/ EvictSpend(d)
           \/ \E d \in Deposits : \E leaf \in funding[d].address : ForeignSpend(d, leaf)
           \/ \E d \in Deposits : \E tx, tc, fc : Accept(d, tx, tc, fc)
           \/ UNCHANGED ledgerVars,
           NEW d \in Deposits, fate[d] # "absent"
    PROVE  fate'[d] # "absent" /\ funding'[d] = funding[d]
  BY DEF LedgerTypeOK, Fund, MineFunding, MineSpend, ReplaceFunding, EvictSpend,
         ForeignSpend, Accept, ledgerVars

\* The invariant speaks of the watcher, the statuses and the trades, and of the
\* records of traded deposits: steps that leave these alone preserve it.
LEMMA SafetyFrame ==
    ASSUME SafetyInv, UNCHANGED <<watcherVars, traded, status>>,
           \A d \in Deposits : fate[d] # "absent" =>
                fate'[d] # "absent" /\ funding'[d] = funding[d]
    PROVE  SafetyInv'
  BY DEF SafetyInv, SnapshotStaysCurrent, FulfilledHasTrade, TradedDepositsAreExact,
         InHand, LoopHasTraded, CoinsCover, TradedExist, watcherVars

\* When an order is left, only what is kept about the others matters.
LEMMA SafetyLeave ==
    ASSUME TypeOK, SafetyInv, LeaveOrder, UNCHANGED status,
           NEW fresh, traded' = traded \cup fresh,
           TradedDepositsAreExact', TradedExist'
    PROVE  SafetyInv'
<1>1. CoinsCover' /\ LoopHasTraded'
  BY DEF LeaveOrder, CoinsCover, LoopHasTraded
<1>2. InHand' /\ SnapshotStaysCurrent'
  <2>1. Nothing \notin todo
    BY NothingAssumption DEF TypeOK, WatcherTypeOK
  <2>2. QED  BY <2>1 DEF LeaveOrder, SafetyInv, SnapshotStaysCurrent, InHand
<1>3. FulfilledHasTrade'
  BY DEF SafetyInv, FulfilledHasTrade
<1>4. QED  BY <1>1, <1>2, <1>3 DEF SafetyInv

\* When the network accepts Banco's transaction, the deposit it spends is exact:
\* the coins in hand cover what they must, so only then do the amounts balance.
LEMMA BroadcastIsExact ==
    ASSUME TypeOK, SafetyInv, pc = "broadcast", CanBroadcast
    PROVE  /\ fate[pick] # "absent"
           /\ Value(funding[pick].asset, funding[pick].amount) = Terms[cur].input
<1>1. cur \in OrderIds /\ pick \in Deposits /\ trade.change \in Nat /\ fees.change \in Nat
  BY DEF TypeOK, WatcherTypeOK
<1>2. fate[pick] # "absent"
  BY DEF CanBroadcast, Valid, Unspent, Funded
<1>3. funding[pick].amount \in Nat \ {0}
  BY <1>1, <1>2 DEF TypeOK, LedgerTypeOK, FundingType
<1>4. /\ TermsOk(Terms[cur])
      /\ Terms[cur].input = Value(Terms[cur].input.asset, Terms[cur].input.amount)
  BY <1>1, TermsAssumption DEF TermsOk
<1>5. /\ TotalAmount(trade.coins) = Terms[cur].output.amount + trade.change
      /\ TotalAmount(fees.coins) = FEE_AMOUNT + fees.change
  BY DEF SafetyInv, CoinsCover
<1>6. Utxo(pick).asset = funding[pick].asset /\ Utxo(pick).amount = funding[pick].amount
  BY DEF Utxo
<1>7. Balanced(Utxo(pick), Value(Terms[cur].output.asset, TotalAmount(trade.coins)),
               Value(LBTC, TotalAmount(fees.coins)),
               PrepareFulfillTransaction(Terms[cur], trade.change, fees.change))
  BY DEF CanBroadcast, Valid, FulfillTransaction
<1>8. funding[pick].asset = Terms[cur].input.asset
      /\ funding[pick].amount = Terms[cur].input.amount
  BY <1>1, <1>3, <1>4, <1>5, <1>6, <1>7, BalancedIffExact
<1>9. QED  BY <1>2, <1>4, <1>8 DEF Value

\* Every step preserves the safety invariant.
LEMMA SafetyStep == TypeOK /\ SafetyInv /\ [Next]_vars => SafetyInv'
<1> SUFFICES ASSUME TypeOK, SafetyInv, [Next]_vars PROVE SafetyInv'
  OBVIOUS
<1>a. /\ status \in [OrderIds -> Statuses \cup {"none"}]
      /\ todo \subseteq OrderIds /\ Nothing \notin todo
      /\ cur \in IF pc \in {"sleep", "orders"} THEN {Nothing} ELSE OrderIds
  BY NothingAssumption DEF TypeOK, StoreTypeOK, WatcherTypeOK
<1>b. LedgerTypeOK
  BY DEF TypeOK
\* A step that keeps the deposits, the trades and what the watcher has in hand.
<1>c. UNCHANGED <<ledgerVars, traded>> =>
        TradedDepositsAreExact' /\ TradedExist'
  BY DEF ledgerVars, SafetyInv, TradedDepositsAreExact, TradedExist
<1>d. UNCHANGED <<ledgerVars, traded, status>> /\ LeaveOrder => SafetyInv'
  <2> SUFFICES ASSUME UNCHANGED <<ledgerVars, traded, status>>, LeaveOrder
               PROVE  SafetyInv'
    OBVIOUS
  <2>1. traded' = traded \cup {}
    OBVIOUS
  <2>2. QED  BY <2>1, <1>c, SafetyLeave
<1>e. UNCHANGED <<ledgerVars, watcherVars, traded, status>> => SafetyInv'
  BY SafetyFrame DEF ledgerVars
<1>1. ASSUME NEW o \in OrderIds, PlaceOrder(o) PROVE SafetyInv'
  <2>1. /\ status[o] = "none" /\ status' = [status EXCEPT ![o] = "Pending"]
        /\ UNCHANGED <<ledgerVars, watcherVars, traded>>
    BY <1>1 DEF PlaceOrder, saveOrder
  <2>2. SnapshotStaysCurrent' /\ InHand' /\ FulfilledHasTrade'
    BY <2>1, <1>a DEF SafetyInv, SnapshotStaysCurrent, InHand, FulfilledHasTrade,
                      OpenStatuses, watcherVars
  <2>3. LoopHasTraded' /\ CoinsCover'
    BY <2>1 DEF SafetyInv, LoopHasTraded, CoinsCover, watcherVars
  <2>4. QED  BY <2>1, <2>2, <2>3, <1>c DEF SafetyInv
<1>2. CASE FetchOrders
  <2>1. /\ pc' = "orders" /\ cur = Nothing /\ todo' = OrdersToFulfill
        /\ UNCHANGED <<ledgerVars, status, cur, trade, fees, traded>>
    BY <1>2, <1>a DEF FetchOrders, storeVars
  <2>2. SnapshotStaysCurrent' /\ InHand' /\ FulfilledHasTrade'
    BY <2>1, <1>a, NothingAssumption
    DEF SafetyInv, SnapshotStaysCurrent, InHand, FulfilledHasTrade, OrdersToFulfill
  <2>3. LoopHasTraded' /\ CoinsCover'
    BY <2>1 DEF LoopHasTraded, CoinsCover
  <2>4. QED  BY <2>1, <2>2, <2>3, <1>c DEF SafetyInv
<1>3. CASE EndPass
  <2>1. /\ pc' = "sleep"
        /\ UNCHANGED <<ledgerVars, status, todo, cur, trade, fees, traded>>
    BY <1>3 DEF EndPass, storeVars
  <2>2. SnapshotStaysCurrent' /\ InHand' /\ FulfilledHasTrade'
    BY <2>1 DEF SafetyInv, SnapshotStaysCurrent, InHand, FulfilledHasTrade
  <2>3. LoopHasTraded' /\ CoinsCover'
    BY <2>1 DEF LoopHasTraded, CoinsCover
  <2>4. QED  BY <2>1, <2>2, <2>3, <1>c DEF SafetyInv
<1>4. ASSUME NEW o \in OrderIds, TakeOrder(o) PROVE SafetyInv'
  <2>1. /\ pc = "orders" /\ cur = Nothing /\ o \in todo /\ todo' = todo \ {o}
        /\ status' \in {status, [status EXCEPT ![o] = "Expired"]}
        /\ \/ pc' = "unspents" /\ cur' = o
           \/ pc' = "orders" /\ cur' = Nothing /\ status' = status
        /\ UNCHANGED <<ledgerVars, traded>>
    BY <1>4, <1>a DEF TakeOrder, updateOrderStatus
  <2>2. status[o] \in OpenStatuses
    BY <2>1 DEF SafetyInv, SnapshotStaysCurrent
  <2>3. SnapshotStaysCurrent' /\ InHand' /\ FulfilledHasTrade'
    BY <2>1, <2>2, <1>a DEF SafetyInv, SnapshotStaysCurrent, InHand, FulfilledHasTrade,
                            OpenStatuses
  <2>4. LoopHasTraded' /\ CoinsCover'
    BY <2>1 DEF LoopHasTraded, CoinsCover
  <2>5. QED  BY <2>1, <2>3, <2>4, <1>c DEF SafetyInv
<1>5. CASE FetchUnspents
  <2>1. CASE LeaveOrder
    BY <1>5, <2>1, <1>d DEF FetchUnspents, storeVars
  <2>2. CASE ~LeaveOrder
    <3>1. pc' = "check" /\ UNCHANGED <<ledgerVars, status, todo, cur, traded>>
      BY <1>5, <2>2 DEF FetchUnspents, storeVars
    <3>2. SnapshotStaysCurrent' /\ InHand' /\ FulfilledHasTrade'
      BY <3>1 DEF SafetyInv, SnapshotStaysCurrent, InHand, FulfilledHasTrade
    <3>3. LoopHasTraded' /\ CoinsCover'
      BY <3>1 DEF LoopHasTraded, CoinsCover
    <3>4. QED  BY <3>1, <3>2, <3>3, <1>c DEF SafetyInv
  <2>3. QED  BY <2>1, <2>2
<1>6. CASE CheckFunds
  <2>1. CASE LeaveOrder /\ UNCHANGED status
    BY <1>6, <2>1, <1>d DEF CheckFunds
  <2>2. CASE ~(LeaveOrder /\ UNCHANGED status)
    <3>1. /\ pc = "check" /\ cur \in OrderIds
          /\ coinsAreMoreThan(queue, Terms[cur].input.amount)
          /\ NextTrade(queue)
          /\ status' \in {status, [status EXCEPT ![cur] = "Funded"]}
          /\ UNCHANGED <<ledgerVars, todo, cur, trade, fees, traded>>
      BY <1>6, <2>2, <1>a DEF CheckFunds, updateOrderStatus
    <3>2. status[cur] \in OpenStatuses \cup {"Expired"} /\ cur \notin todo /\ cur # Nothing
      BY <3>1, NothingAssumption DEF SafetyInv, InHand
    <3>3. SnapshotStaysCurrent' /\ InHand' /\ FulfilledHasTrade'
      BY <3>1, <3>2, <1>a DEF SafetyInv, SnapshotStaysCurrent, InHand,
                              FulfilledHasTrade, OpenStatuses
    \* Without any unspent, only an order that asks for nothing is funded.
    <3>4. LoopHasTraded'
      <4>1. queue = {} => {Utxo(d) : d \in queue} = {}
        OBVIOUS
      <4>2. queue = {} => ~(Terms[cur].input.amount > 0)
        BY <3>1, <4>1, TermsAssumption DEF coinsAreMoreThan, TotalAmount
      <4>3. queue # {} => pc' = "trade"
        BY <3>1 DEF NextTrade
      <4>4. QED  BY <3>1, <4>2, <4>3 DEF LoopHasTraded
    <3>5. CoinsCover'
      BY <3>1 DEF NextTrade, CoinsCover
    <3>6. QED  BY <3>1, <3>3, <3>4, <3>5, <1>c DEF SafetyInv
  <2>3. QED  BY <2>1, <2>2
<1>7. CASE SelectForTrade
  <2>1. CASE LeaveOrder
    BY <1>7, <2>1, <1>d DEF SelectForTrade, storeVars
  <2>2. CASE ~LeaveOrder
    <3>1. PICK s \in Selections(Terms[cur].output.asset, Terms[cur].output.amount) :
             /\ trade' = s /\ pc' = "fees"
             /\ UNCHANGED <<todo, cur, fees, ledgerVars, status, traded>>
      BY <1>7, <2>2 DEF SelectForTrade, storeVars
    <3>2. CoinsCover' /\ LoopHasTraded'
      BY <3>1, SelectionChange DEF CoinsCover, LoopHasTraded
    <3>3. SnapshotStaysCurrent' /\ InHand' /\ FulfilledHasTrade'
      BY <3>1 DEF SafetyInv, SnapshotStaysCurrent, InHand, FulfilledHasTrade
    <3>4. QED  BY <3>1, <3>2, <3>3, <1>c DEF SafetyInv
  <2>3. QED  BY <2>1, <2>2
<1>8. CASE SelectForFees
  <2>1. CASE LeaveOrder
    BY <1>8, <2>1, <1>d DEF SelectForFees, storeVars
  <2>2. CASE ~LeaveOrder
    <3>1. PICK s \in Selections(LBTC, FEE_AMOUNT) :
             /\ fees' = s /\ pc = "fees" /\ pc' = "broadcast"
             /\ UNCHANGED <<todo, cur, trade, ledgerVars, status, traded>>
      BY <1>8, <2>2 DEF SelectForFees, storeVars
    <3>2. CoinsCover' /\ LoopHasTraded'
      BY <3>1, SelectionChange DEF SafetyInv, CoinsCover, LoopHasTraded
    <3>3. SnapshotStaysCurrent' /\ InHand' /\ FulfilledHasTrade'
      BY <3>1 DEF SafetyInv, SnapshotStaysCurrent, InHand, FulfilledHasTrade
    <3>4. QED  BY <3>1, <3>2, <3>3, <1>c DEF SafetyInv
  <2>3. QED  BY <2>1, <2>2
<1>9. CASE Broadcast
  <2>1. CASE UNCHANGED <<ledgerVars, traded>> /\ LeaveOrder
    BY <1>9, <2>1, <1>d DEF Broadcast, storeVars
  <2>2. CASE /\ CanBroadcast
             /\ Accept(pick, FulfillTransaction, trade.coins, fees.coins)
             /\ traded' = traded \cup {<<cur, pick>>}
    <3>1. pc = "broadcast" /\ cur \in OrderIds /\ pick \in Deposits /\ UNCHANGED status
      BY <1>9 DEF Broadcast, TypeOK, WatcherTypeOK, storeVars
    <3>2. /\ fate[pick] # "absent"
          /\ Value(funding[pick].asset, funding[pick].amount) = Terms[cur].input
      BY <2>2, <3>1, BroadcastIsExact
    <3>3. UNCHANGED <<funding, fate>>
      BY <2>2 DEF Accept
    <3>4. TradedDepositsAreExact' /\ TradedExist'
      BY <2>2, <3>1, <3>2, <3>3 DEF SafetyInv, TradedDepositsAreExact, TradedExist
    <3>5. CASE LeaveOrder
      BY <2>2, <3>1, <3>4, <3>5, SafetyLeave
    <3>6. CASE ~LeaveOrder
      <4>1. NextTrade(queue) /\ UNCHANGED <<todo, cur>>
        BY <1>9, <2>2, <3>6 DEF Broadcast
      <4>2. SnapshotStaysCurrent' /\ InHand' /\ FulfilledHasTrade'
        BY <2>2, <3>1, <4>1 DEF SafetyInv, SnapshotStaysCurrent, InHand, FulfilledHasTrade
      <4>3. LoopHasTraded'
        BY <2>2, <3>1, <4>1 DEF LoopHasTraded
      <4>4. CoinsCover'
        BY <4>1 DEF NextTrade, CoinsCover
      <4>5. QED  BY <3>4, <4>2, <4>3, <4>4 DEF SafetyInv
    <3>7. QED  BY <3>5, <3>6
  <2>3. QED  BY <1>9, <2>1, <2>2 DEF Broadcast
<1>10. CASE MarkFulfilled
  <2>1. /\ pc = "fulfilled" /\ cur \in OrderIds /\ cur \notin todo /\ LeaveOrder
        /\ status' \in {status, [status EXCEPT ![cur] = "Fulfilled"]}
        /\ UNCHANGED <<ledgerVars, traded>>
    BY <1>10, <1>a DEF MarkFulfilled, updateOrderStatus, SafetyInv, InHand
  <2>2. FulfilledHasTrade'
    BY <2>1, <1>a DEF SafetyInv, FulfilledHasTrade, LoopHasTraded
  <2>3. SnapshotStaysCurrent' /\ InHand'
    BY <2>1, <1>a DEF SafetyInv, SnapshotStaysCurrent, InHand, LeaveOrder
  <2>4. CoinsCover' /\ LoopHasTraded'
    BY <2>1 DEF LeaveOrder, CoinsCover, LoopHasTraded
  <2>5. QED  BY <2>1, <2>2, <2>3, <2>4, <1>c DEF SafetyInv
<1>11. CASE Crash
  <2>1. /\ pc' = "sleep" /\ todo' = {} /\ cur' = Nothing
        /\ UNCHANGED <<ledgerVars, status, traded>>
    BY <1>11 DEF Crash, storeVars
  <2>2. SnapshotStaysCurrent' /\ InHand' /\ FulfilledHasTrade'
    BY <2>1 DEF SafetyInv, SnapshotStaysCurrent, InHand, FulfilledHasTrade
  <2>3. LoopHasTraded' /\ CoinsCover'
    BY <2>1 DEF LoopHasTraded, CoinsCover
  <2>4. QED  BY <2>1, <2>2, <2>3, <1>c DEF SafetyInv
<1>12. ASSUME NEW o \in OrderIds, NEW d \in Deposits, NEW p \in Payments,
              Deposit(o, d, p)
       PROVE  SafetyInv'
  BY <1>12, <1>b, FundingStays, SafetyFrame DEF Deposit, storeVars
<1>13. ASSUME NEW d \in Deposits, Mine(d) PROVE SafetyInv'
  BY <1>13, <1>b, FundingStays, SafetyFrame DEF Mine, storeVars
<1>14. ASSUME NEW d \in Deposits, Drop(d) PROVE SafetyInv'
  BY <1>14, <1>b, FundingStays, SafetyFrame DEF Drop, storeVars
<1>15. ASSUME NEW d \in Deposits, SpendByOther(d) PROVE SafetyInv'
  BY <1>15, <1>b, FundingStays, SafetyFrame DEF SpendByOther, storeVars
<1>16. ASSUME NEW id \in CoinIds, ReleaseCoin(id) PROVE SafetyInv'
  BY <1>16, <1>e DEF ReleaseCoin, storeVars
<1>17. ASSUME NEW o \in OrderIds, TenMinutesPass(o) PROVE SafetyInv'
  BY <1>17, <1>e DEF TenMinutesPass, Age
<1>18. CASE UNCHANGED vars
  BY <1>18, <1>e DEF vars, storeVars
<1>19. QED
  BY <1>1, <1>2, <1>3, <1>4, <1>5, <1>6, <1>7, <1>8, <1>9, <1>10, <1>11, <1>12,
     <1>13, <1>14, <1>15, <1>16, <1>17, <1>18
  DEF Next, Watcher

LEMMA SafetyInvariant == Spec => [](TypeOK /\ SafetyInv)
<1>1. Init => TypeOK /\ SafetyInv
  BY TypeInit, SafetyInit
<1>2. (TypeOK /\ SafetyInv) /\ [Next]_vars => (TypeOK /\ SafetyInv)'
  BY TypeStep, SafetyStep
<1>3. QED  BY <1>1, <1>2, PTL DEF Spec

\* However many orders, deposits, coins and failures there are: watchForTrades
\* marks no order Fulfilled without a trade the network accepted for it.
THEOREM FulfilledIsEarned == Spec => []FulfilledHasTrade
<1>1. TypeOK /\ SafetyInv => FulfilledHasTrade
  BY DEF SafetyInv
<1>2. QED  BY <1>1, SafetyInvariant, PTL

\* The snapshot a pass works on names open orders only, to the end of the pass.
THEOREM SnapshotIsCurrent == Spec => []SnapshotStaysCurrent
<1>1. TypeOK /\ SafetyInv => SnapshotStaysCurrent
  BY DEF SafetyInv
<1>2. QED  BY <1>1, SafetyInvariant, PTL

\* Every deposit Banco trades has exactly the asset and amount of its order.
THEOREM TradesAreExact == Spec => []TradedDepositsAreExact
<1>1. TypeOK /\ SafetyInv => TradedDepositsAreExact
  BY DEF SafetyInv
<1>2. QED  BY <1>1, SafetyInvariant, PTL

-----------------------------------------------------------------------------
(* What a step does to the statuses and the order in hand.                 *)

\* Only these steps of the watcher touch a status, all of the order in hand or
\* taken; every other step leaves all statuses and the order in hand alone, or
\* lets go of it.
LEMMA LifecycleStep ==
    ASSUME TypeOK, SafetyInv, [Next]_vars
    PROVE  \/ Lifecycle!Next
           \/ UNCHANGED Lifecycle!vars
<1> DEFINE paid == {o \in OrderIds : \E d \in Deposits : <<o, d>> \in traded}
<1>a. cur \in IF pc \in {"sleep", "orders"} THEN {Nothing} ELSE OrderIds
  BY DEF TypeOK, WatcherTypeOK
<1>b. UNCHANGED traded => UNCHANGED paid
  OBVIOUS
<1>c. UNCHANGED <<status, traded>> /\ cur' \in {cur, Nothing}
        => Lifecycle!Next \/ UNCHANGED Lifecycle!vars
  BY <1>b DEF Lifecycle!Next, Lifecycle!Release, Lifecycle!vars
<1>1. ASSUME NEW o \in OrderIds, PlaceOrder(o) PROVE Lifecycle!Next
  <2>1. Lifecycle!Place(o)
    BY <1>1, <1>b DEF PlaceOrder, saveOrder, watcherVars, Lifecycle!Place
  <2>2. QED  BY <2>1 DEF Lifecycle!Next
<1>2. ASSUME NEW o \in OrderIds, TakeOrder(o)
      PROVE  Lifecycle!Next \/ UNCHANGED Lifecycle!vars
  <2>1. /\ cur = Nothing /\ status[o] \in OpenStatuses /\ UNCHANGED traded
        /\ \/ cur' = o /\ status' \in {status, [status EXCEPT ![o] = "Expired"]}
           \/ cur' = cur /\ status' = status
    BY <1>2, <1>a DEF TakeOrder, updateOrderStatus, SafetyInv, SnapshotStaysCurrent
  <2>2. CASE cur' = cur /\ status' = status
    BY <2>1, <2>2, <1>c
  <2>3. CASE cur' = o /\ status' \in {status, [status EXCEPT ![o] = "Expired"]}
    <3>1. Lifecycle!Take(o)
      BY <2>1, <2>3, <1>b DEF Lifecycle!Take, OpenStatuses
    <3>2. QED  BY <3>1 DEF Lifecycle!Next
  <2>4. QED  BY <2>1, <2>2, <2>3
<1>3. CASE CheckFunds
  <2>1. CASE UNCHANGED status
    BY <1>3, <2>1, <1>c DEF CheckFunds, LeaveOrder
  <2>2. CASE ~UNCHANGED status
    <3>1. /\ cur \in OrderIds /\ status' = [status EXCEPT ![cur] = "Funded"]
          /\ UNCHANGED <<cur, traded>>
      BY <1>3, <2>2, <1>a DEF CheckFunds, updateOrderStatus
    <3>2. Lifecycle!Fund(cur)
      BY <3>1, <1>b DEF Lifecycle!Fund
    <3>3. QED  BY <3>1, <3>2 DEF Lifecycle!Next
  <2>3. QED  BY <2>1, <2>2
<1>4. CASE Broadcast
  <2>1. CASE UNCHANGED traded
    BY <1>4, <2>1, <1>c DEF Broadcast, LeaveOrder, storeVars
  <2>2. CASE ~UNCHANGED traded
    <3>1. /\ cur \in OrderIds /\ pick \in Deposits /\ cur' \in {cur, Nothing}
          /\ traded' = traded \cup {<<cur, pick>>} /\ UNCHANGED status
      BY <1>4, <2>2 DEF Broadcast, LeaveOrder, storeVars, TypeOK, WatcherTypeOK
    <3>2. paid' = paid \cup {cur}
      BY <3>1
    <3>3. \E o \in OrderIds : Lifecycle!Pay(o)
      BY <3>1, <3>2 DEF Lifecycle!Pay
    <3>4. QED  BY <3>3 DEF Lifecycle!Next
  <2>3. QED  BY <2>1, <2>2
<1>5. CASE MarkFulfilled
  <2>1. CASE UNCHANGED status
    BY <1>5, <2>1, <1>c DEF MarkFulfilled, LeaveOrder
  <2>2. CASE ~UNCHANGED status
    <3>1. /\ cur \in OrderIds /\ pc = "fulfilled"
          /\ status' = [status EXCEPT ![cur] = "Fulfilled"]
          /\ cur' = Nothing /\ UNCHANGED traded
      BY <1>5, <2>2, <1>a DEF MarkFulfilled, LeaveOrder, updateOrderStatus
    <3>2. cur \in paid \cup {o \in OrderIds : Terms[o].input.amount = 0}
      BY <3>1, TermsAssumption DEF SafetyInv, LoopHasTraded
    <3>3. Lifecycle!Fulfill(cur)
      BY <3>1, <3>2, <1>b DEF Lifecycle!Fulfill
    <3>4. QED  BY <3>1, <3>3 DEF Lifecycle!Next
  <2>3. QED  BY <2>1, <2>2
<1>6. CASE \/ FetchOrders \/ EndPass \/ FetchUnspents \/ SelectForTrade
           \/ SelectForFees \/ Crash
  BY <1>6, <1>c DEF FetchOrders, EndPass, FetchUnspents, SelectForTrade,
                    SelectForFees, Crash, LeaveOrder, storeVars
<1>7. CASE \/ \E o \in OrderIds : TenMinutesPass(o)
           \/ \E o \in OrderIds, d \in Deposits, p \in Payments : Deposit(o, d, p)
           \/ \E d \in Deposits : Mine(d) \/ Drop(d) \/ SpendByOther(d)
           \/ \E id \in CoinIds : ReleaseCoin(id)
           \/ UNCHANGED vars
  BY <1>7, <1>c DEF TenMinutesPass, Age, Deposit, Mine, Drop, SpendByOther,
                    ReleaseCoin, vars, watcherVars, storeVars
<1>8. QED
  BY <1>1, <1>2, <1>3, <1>4, <1>5, <1>6, <1>7 DEF Next, Watcher

\* The watcher implements the life cycle of orders: each of its steps, failures
\* and interleavings is a step of OrderLifecycle or leaves its state alone.
THEOREM WatcherImplementsLifecycle == Spec => ImplementsLifecycle
<1>1. Init => Lifecycle!Init
  BY DEF Init, StoreInit, Lifecycle!Init
<1>2. TypeOK /\ SafetyInv /\ [Next]_vars => [Lifecycle!Next]_(Lifecycle!vars)
  BY LifecycleStep
<1>3. QED  BY <1>1, <1>2, SafetyInvariant, PTL DEF Spec, Lifecycle!Spec, ImplementsLifecycle

\* A Fulfilled order keeps its status for ever, and an Expired one from the end
\* of the watchForTrades that expired it.
THEOREM ClosedStayClosed == Spec => ClosedOrdersStayClosed
<1>1. TypeOK /\ SafetyInv /\ [Next]_vars => [KeepClosed]_vars
  <2> SUFFICES ASSUME TypeOK, SafetyInv, [Next]_vars, NEW o \in OrderIds,
                      status[o] = "Fulfilled" \/ (status[o] = "Expired" /\ cur # o)
               PROVE  status'[o] = status[o]
    BY DEF KeepClosed
  <2>1. CASE UNCHANGED Lifecycle!vars
    BY <2>1 DEF Lifecycle!vars
  <2>2. CASE Lifecycle!Next
    <3>1. cur = o => status[o] # "Fulfilled"
      BY NothingAssumption DEF SafetyInv, InHand, OpenStatuses
    <3>2. DOMAIN status = OrderIds
      BY DEF TypeOK, StoreTypeOK
    <3>3. QED
      BY <2>2, <3>1, <3>2
      DEF Lifecycle!Next, Lifecycle!Place, Lifecycle!Take, Lifecycle!Fund,
          Lifecycle!Pay, Lifecycle!Fulfill, Lifecycle!Release
  <2>3. QED  BY <2>1, <2>2, LifecycleStep
<1>2. QED  BY <1>1, SafetyInvariant, PTL DEF Spec, ClosedOrdersStayClosed

-----------------------------------------------------------------------------
(* The transactions that spend deposits.                                   *)

\* Where the watcher goes on to the next unspent, it holds fewer of the same order.
LEMMA NextTradeHolds ==
    ASSUME TypeOK, SpendInv, cur \in OrderIds, NextTrade(queue), cur' = cur,
           UNCHANGED <<fate, funding>>, pc' \notin {"sleep", "orders", "unspents"}
    PROVE  HeldAtAddress'
  <1>1. queue' \subseteq queue /\ pick' \in queue \cup {Nothing}
    BY DEF NextTrade
  <1> QED
    BY <1>1 DEF SpendInv, HeldAtAddress

\* An order that is left leaves nothing in hand.
LEMMA LeaveHolds ==
    ASSUME queue' = {}, pick' = Nothing
    PROVE  HeldAtAddress'
  BY DEF HeldAtAddress

\* Steps of others take nothing out of the watcher's hands.
LEMMA HeldStays ==
    ASSUME TypeOK, SpendInv, UNCHANGED <<pc, queue, pick, cur>>,
           \A d \in Deposits : fate[d] # "absent" =>
                fate'[d] # "absent" /\ funding'[d] = funding[d]
    PROVE  HeldAtAddress'
  <1>1. \A d \in queue \cup ({pick} \ {Nothing}) : d \in Deposits
    BY DEF TypeOK, WatcherTypeOK
  <1> QED
    BY <1>1 DEF SpendInv, HeldAtAddress

\* A step after which Banco's spends are some of those there were.
LEMMA SpendsStay ==
    ASSUME TypeOK, SpendInv, traded \subseteq traded',
           \A d \in Deposits : fate[d] # "absent" =>
                fate'[d] # "absent" /\ funding'[d] = funding[d],
           \A d \in Deposits : spend'[d] # Nothing /\ spend'[d].by = "banco" =>
                                  spend'[d] = spend[d]
    PROVE  SpendsPay'
  <1> SUFFICES ASSUME NEW d \in Deposits, spend'[d] # Nothing, spend'[d].by = "banco"
               PROVE  /\ \E p \in OrderIds :
                             <<p, d>> \in traded' /\ spend'[d].tx.payout = FulfillLeaf(Terms[p])
                      /\ spend'[d].tx.payout \in funding'[d].address
    BY DEF SpendsPay, BancoSpends
  <1>1. d \in BancoSpends /\ spend'[d] = spend[d]
    BY DEF BancoSpends
  <1>2. funding'[d] = funding[d]
    BY <1>1 DEF TypeOK, LedgerTypeOK, Funded, BancoSpends
  <1> QED
    BY <1>1, <1>2 DEF SpendInv, SpendsPay

\* What the network accepts of Banco pays the order in hand.
LEMMA BroadcastPays ==
    ASSUME TypeOK, SpendInv, cur \in OrderIds, pick \in Deposits, CanBroadcast,
           Accept(pick, FulfillTransaction, trade.coins, fees.coins),
           traded' = traded \cup {<<cur, pick>>}
    PROVE  SpendsPay'
  <1>1. /\ FulfillTransaction.payout = FulfillLeaf(Terms[cur])
        /\ FulfillLeaf(Terms[cur]) \in funding[pick].address
    BY PayoutSatisfiesFulfillLeaf DEF CanBroadcast, Valid, FulfillTransaction
  <1>2. UNCHANGED <<funding, fate>> /\ DOMAIN spend = Deposits
    BY DEF Accept, TypeOK, LedgerTypeOK
  <1>3. spend'[pick].tx = FulfillTransaction /\ \A d \in Deposits \ {pick} : spend'[d] = spend[d]
    BY <1>2 DEF Accept
  <1> SUFFICES ASSUME NEW d \in Deposits, spend'[d] # Nothing, spend'[d].by = "banco"
               PROVE  /\ \E p \in OrderIds :
                             <<p, d>> \in traded' /\ spend'[d].tx.payout = FulfillLeaf(Terms[p])
                      /\ spend'[d].tx.payout \in funding'[d].address
    BY DEF SpendsPay, BancoSpends
  <1>4. CASE d = pick
    BY <1>1, <1>2, <1>3, <1>4
  <1>5. CASE d # pick
    <2>1. d \in BancoSpends /\ spend'[d] = spend[d]
      BY <1>3, <1>5 DEF BancoSpends
    <2> QED
      BY <1>2, <2>1 DEF SpendInv, SpendsPay
  <1> QED
    BY <1>4, <1>5

-----------------------------------------------------------------------------
LEMMA SpendInit == Init => SpendInv
  BY DEF Init, LedgerInit, SpendInv, HeldAtAddress, SpendsPay, BancoSpends

LEMMA SpendStep == TypeOK /\ SpendInv /\ [Next]_vars => SpendInv'
  <1> SUFFICES ASSUME TypeOK, SpendInv, [Next]_vars PROVE SpendInv'
    OBVIOUS
  <1>a. LedgerTypeOK
    BY DEF TypeOK
  <1>b. UNCHANGED <<ledgerVars, traded>> => SpendsPay'
    BY SpendsStay DEF ledgerVars
  <1>c. UNCHANGED <<ledgerVars, pc, queue, pick, cur>> => HeldAtAddress'
    BY HeldStays DEF ledgerVars
  <1>d. LeaveOrder => HeldAtAddress'
    BY LeaveHolds DEF LeaveOrder
  <1>1. CASE FetchOrders \/ EndPass
    <2>1. UNCHANGED <<ledgerVars, queue, pick, cur, traded>>
      BY <1>1 DEF FetchOrders, EndPass
    <2>2. queue = {} /\ pick = Nothing
      BY <1>1 DEF FetchOrders, EndPass, SpendInv, HeldAtAddress, TypeOK, WatcherTypeOK
    <2> QED
      BY <2>1, <2>2, <1>b, LeaveHolds DEF SpendInv
  <1>2. ASSUME NEW o \in OrderIds, TakeOrder(o) PROVE SpendInv'
    <2>1. UNCHANGED <<ledgerVars, queue, pick, traded>>
      BY <1>2 DEF TakeOrder
    <2>2. queue = {} /\ pick = Nothing
      BY <1>2 DEF TakeOrder, SpendInv, HeldAtAddress, TypeOK, WatcherTypeOK
    <2> QED
      BY <2>1, <2>2, <1>b, LeaveHolds DEF SpendInv
  <1>3. CASE FetchUnspents
    <2>1. UNCHANGED <<ledgerVars, traded>>
      BY <1>3 DEF FetchUnspents
    <2>2. CASE LeaveOrder
      BY <2>1, <2>2, <1>b, <1>d DEF SpendInv
    <2>3. CASE ~LeaveOrder
      <3>1. /\ queue' \subseteq DepositsAt(Address(Terms[cur])) /\ pc' = "check"
            /\ cur' = cur /\ pick' = pick /\ pick = Nothing
        BY <1>3, <2>3 DEF FetchUnspents, TypeOK, WatcherTypeOK
      <3>2. HeldAtAddress'
        BY <2>1, <3>1 DEF HeldAtAddress, DepositsAt, Funded, ledgerVars
      <3> QED
        BY <2>1, <3>2, <1>b DEF SpendInv
    <2> QED
      BY <2>2, <2>3
  <1>4. CASE CheckFunds
    <2>1. UNCHANGED <<ledgerVars, traded>>
      BY <1>4 DEF CheckFunds
    <2>2. CASE LeaveOrder
      BY <2>1, <2>2, <1>b, <1>d DEF SpendInv
    <2>3. CASE ~LeaveOrder
      <3>1. NextTrade(queue) /\ cur' = cur /\ cur \in OrderIds
        BY <1>4, <2>3 DEF CheckFunds, TypeOK, WatcherTypeOK
      <3>2. pc' \in {"fulfilled", "trade"}
        BY <3>1 DEF NextTrade
      <3>3. HeldAtAddress'
        BY <2>1, <3>1, <3>2, NextTradeHolds DEF ledgerVars
      <3> QED
        BY <2>1, <3>3, <1>b DEF SpendInv
    <2> QED
      BY <2>2, <2>3
  <1>5. CASE SelectForTrade \/ SelectForFees
    <2>1. UNCHANGED <<ledgerVars, traded>>
      BY <1>5 DEF SelectForTrade, SelectForFees
    <2>2. CASE LeaveOrder
      BY <2>1, <2>2, <1>b, <1>d DEF SpendInv
    <2>3. CASE ~LeaveOrder
      <3>1. pc' \in {"fees", "broadcast"} /\ UNCHANGED <<cur, queue, pick>>
        BY <1>5, <2>3 DEF SelectForTrade, SelectForFees
      <3>2. HeldAtAddress'
        BY <2>1, <3>1 DEF SpendInv, HeldAtAddress, ledgerVars
      <3> QED
        BY <2>1, <3>2, <1>b DEF SpendInv
    <2> QED
      BY <2>2, <2>3
  <1>6. CASE Broadcast
    <2>1. CASE UNCHANGED <<ledgerVars, traded>> /\ LeaveOrder
      BY <2>1, <1>b, <1>d DEF SpendInv
    <2>2. CASE /\ CanBroadcast
               /\ Accept(pick, FulfillTransaction, trade.coins, fees.coins)
               /\ traded' = traded \cup {<<cur, pick>>}
      <3>1. cur \in OrderIds /\ pick \in Deposits
        BY <1>6 DEF Broadcast, TypeOK, WatcherTypeOK
      <3>2. SpendsPay'
        BY <2>2, <3>1, BroadcastPays
      <3>3. CASE LeaveOrder
        BY <3>2, <3>3, <1>d DEF SpendInv
      <3>4. CASE ~LeaveOrder
        <4>1. NextTrade(queue) /\ cur' = cur /\ UNCHANGED <<fate, funding>>
          BY <1>6, <2>2, <3>4 DEF Broadcast, Accept
        <4>2. pc' \in {"fulfilled", "trade"}
          BY <4>1 DEF NextTrade
        <4> QED
          BY <3>1, <3>2, <4>1, <4>2, NextTradeHolds DEF SpendInv
      <3> QED
        BY <3>3, <3>4
    <2> QED
      BY <1>6, <2>1, <2>2 DEF Broadcast
  <1>7. CASE MarkFulfilled
    BY <1>7, <1>b, <1>d DEF MarkFulfilled, SpendInv
  <1>8. CASE Crash
    BY <1>8, <1>b, LeaveHolds DEF Crash, SpendInv
  \* What others do: no deposit that was made changes its record, and Banco's spends
  \* become fewer at most.
  <1>9. CASE \/ \E o \in OrderIds : PlaceOrder(o) \/ TenMinutesPass(o)
             \/ \E id \in CoinIds : ReleaseCoin(id)
             \/ UNCHANGED vars
    <2>1. UNCHANGED <<ledgerVars, traded, pc, queue, pick, cur>>
      BY <1>9 DEF PlaceOrder, TenMinutesPass, ReleaseCoin, vars, watcherVars
    <2> QED
      BY <2>1, <1>b, <1>c DEF SpendInv
  <1>10. CASE \/ \E o \in OrderIds, d \in Deposits, p \in Payments : Deposit(o, d, p)
              \/ \E d \in Deposits : Mine(d) \/ Drop(d) \/ SpendByOther(d)
    <2>1. UNCHANGED <<traded, pc, queue, pick, cur>>
      BY <1>10 DEF Deposit, Mine, Drop, SpendByOther, watcherVars
    <2>2. \A d \in Deposits : fate[d] # "absent" =>
              fate'[d] # "absent" /\ funding'[d] = funding[d]
      BY <1>10, <1>a, FundingStays DEF Deposit, Mine, Drop, SpendByOther
    <2>3. \A d \in Deposits : spend'[d] # Nothing /\ spend'[d].by = "banco" =>
              spend'[d] = spend[d]
      BY <1>10, <1>a DEF Deposit, Mine, Drop, SpendByOther, LedgerTypeOK, Fund,
         MineFunding, MineSpend, ReplaceFunding, EvictSpend, ForeignSpend
    <2> QED
      BY <2>1, <2>2, <2>3, HeldStays, SpendsStay DEF SpendInv
  <1> QED
    BY <1>1, <1>2, <1>3, <1>4, <1>5, <1>6, <1>7, <1>8, <1>9, <1>10 DEF Next, Watcher

-----------------------------------------------------------------------------
\* What the two properties need, in one invariant.
LEMMA SpendInvariant == Spec => [](TypeOK /\ SafetyInv /\ SpendInv)
  <1>1. Init => SpendInv
    BY SpendInit
  <1>2. TypeOK /\ SpendInv /\ [Next]_vars => SpendInv'
    BY SpendStep
  <1> QED
    BY <1>1, <1>2, SafetyInvariant, PTL DEF Spec

\* Whoever spends a deposit, in whatever order things fail: the trader of the order
\* receives what it promises or has the deposit of its terms back.
THEOREM TradersAreMadeWhole == Spec => []TraderIsMadeWhole
  <1>1. TypeOK /\ SpendInv => TraderIsMadeWhole
    <2> SUFFICES ASSUME TypeOK, SpendInv, NEW d \in Deposits, NEW o \in OrderIds,
                        spend[d] # Nothing, funding[d].address = Address(Terms[o])
                 PROVE  LET paid == spend[d].tx.payout
                        IN /\ paid.script = Terms[o].trader
                           /\ Value(paid.asset, paid.amount) \in
                                  {Terms[o].output, Terms[o].input}
                           /\ spend[d].by = "banco" =>
                                  \E p \in OrderIds :
                                      /\ <<p, d>> \in traded
                                      /\ Value(paid.asset, paid.amount) = Terms[p].output
      BY DEF TraderIsMadeWhole
    <2>1. spend[d].tx.payout \in Address(Terms[o])
      BY DEF TypeOK, LedgerTypeOK, SpendInv, SpendsPay, BancoSpends
    <2>2. spend[d].tx.payout \in {FulfillLeaf(Terms[o]), RefundLeaf(Terms[o])}
      BY <2>1 DEF Address, CreateFundingOutput
    <2>3. \A p \in OrderIds :
             /\ FulfillLeaf(Terms[p]).script = Terms[p].trader
             /\ Value(FulfillLeaf(Terms[p]).asset, FulfillLeaf(Terms[p]).amount) = Terms[p].output
             /\ RefundLeaf(Terms[p]).script = Terms[p].trader
             /\ Value(RefundLeaf(Terms[p]).asset, RefundLeaf(Terms[p]).amount) = Terms[p].input
      BY TermsAssumption
      DEF FulfillLeaf, RefundLeaf, FulfillScript, RefundScript, Output, Value
    <2>4. spend[d].by = "banco" =>
            \E p \in OrderIds : <<p, d>> \in traded
                                /\ spend[d].tx.payout = FulfillLeaf(Terms[p])
      BY DEF SpendInv, SpendsPay, BancoSpends
    <2> QED
      BY <2>2, <2>3, <2>4
  <1> QED
    BY <1>1, SpendInvariant, PTL

\* The transaction for an exact deposit is one that the network accepts, whatever
\* coins and changes were selected, and it leaves no dust.
THEOREM ExactDepositsAreTradable == Spec => []ExactDepositIsTradable
  <1>1. TypeOK /\ SafetyInv /\ SpendInv => ExactDepositIsTradable
    <2> SUFFICES ASSUME TypeOK, SafetyInv, SpendInv, pc = "broadcast", Unspent(pick),
                        Terms[cur].output.amount > 0,
                        Value(funding[pick].asset, funding[pick].amount) = Terms[cur].input,
                        trade.coins \cup fees.coins \subseteq SpendableCoins,
                        trade.coins \cap fees.coins = {}
                 PROVE  /\ CanBroadcast
                        /\ \A o \in {"tradeChange", "feeChange"} :
                             LET out == FulfillTransaction[o]
                             IN out.asset = LBTC => out.amount = 0 \/ out.amount >= FEE_AMOUNT
      BY DEF ExactDepositIsTradable
    <2>1. cur \in OrderIds /\ pick \in Deposits /\ trade.change \in Nat /\ fees.change \in Nat
      BY DEF TypeOK, WatcherTypeOK
    <2>2. /\ TermsOk(Terms[cur])
          /\ Terms[cur].input = Value(Terms[cur].input.asset, Terms[cur].input.amount)
      BY <2>1, TermsAssumption DEF TermsOk
    <2>3. /\ Utxo(pick).asset = Terms[cur].input.asset
          /\ Utxo(pick).amount = Terms[cur].input.amount
      BY <2>2 DEF Value, Utxo
    <2>4. Utxo(pick).amount \in Nat \ {0}
      BY <2>1 DEF Utxo, TypeOK, LedgerTypeOK, FundingType, Unspent, Funded
    <2>5. /\ TotalAmount(trade.coins) = Terms[cur].output.amount + trade.change
          /\ TotalAmount(fees.coins) = FEE_AMOUNT + fees.change
      BY DEF SafetyInv, CoinsCover
    <2>6. Balanced(Utxo(pick), Value(Terms[cur].output.asset, TotalAmount(trade.coins)),
                   Value(LBTC, TotalAmount(fees.coins)),
                   PrepareFulfillTransaction(Terms[cur], trade.change, fees.change))
      BY <2>1, <2>2, <2>3, <2>4, <2>5, BalancedIffExact
    <2>7. funding[pick].address = Address(Terms[cur])
      BY <2>1, NothingAssumption DEF SpendInv, HeldAtAddress
    <2>8. CanBroadcast
      <3>1. FulfillTransaction.payout.amount > 0 /\ FulfillTransaction.proceeds.amount > 0
        BY <2>3, <2>4 DEF FulfillTransaction, PrepareFulfillTransaction, Output
      <3> QED
        BY <2>6, <2>7, <3>1, PayoutSatisfiesFulfillLeaf
           DEF CanBroadcast, Valid, FulfillTransaction
    <2>9. FulfillTransaction.feeChange.asset = LBTC
          /\ (FulfillTransaction.tradeChange.asset = LBTC =>
                 FulfillTransaction.tradeChange.amount = 0
                   \/ FulfillTransaction.tradeChange.amount >= FEE_AMOUNT)
          /\ (FulfillTransaction.feeChange.amount = 0
                 \/ FulfillTransaction.feeChange.amount >= FEE_AMOUNT)
      <3>1. FulfillTransaction.feeChange.asset = LBTC
        BY DEF FulfillTransaction, PrepareFulfillTransaction, Output
      <3> QED
        BY <2>1, <2>2, <3>1, PreparedChange DEF FulfillTransaction
    <2> QED
      BY <2>8, <2>9
  <1> QED
    BY <1>1, SpendInvariant, PTL

-----------------------------------------------------------------------------
\* A step that takes no spend of Banco away and records no trade.
LEMMA TradedOnceStays ==
    ASSUME TradedOnce, traded' = traded,
           \A d \in Deposits : spend[d] # Nothing => spend'[d] = spend[d]
    PROVE  TradedOnce'
  BY DEF TradedOnce, BancoSpends

\* The absence of a spend is no spend.
NothingIsNoSpend ==
    \A tx, tradeCoins, feeCoins :
        Nothing # [by         |-> "banco",
                   tx         |-> tx,
                   tradeCoins |-> tradeCoins,
                   feeCoins   |-> feeCoins]

\* What the network accepts was unspent, so that no order had traded it before.
LEMMA BroadcastTradesOnce ==
    ASSUME NothingIsNoSpend, TypeOK, TradedOnce, cur \in OrderIds, pick \in Deposits,
           CanBroadcast,
           Accept(pick, FulfillTransaction, trade.coins, fees.coins),
           traded' = traded \cup {<<cur, pick>>}
    PROVE  TradedOnce'
  <1>1. spend[pick] = Nothing
    BY DEF CanBroadcast, Valid, Unspent
  <1>2. \A p \in OrderIds : <<p, pick>> \notin traded
    BY <1>1 DEF TradedOnce, BancoSpends
  <1>3. DOMAIN spend = Deposits
    BY DEF TypeOK, LedgerTypeOK
  <1>4. /\ \A d \in Deposits \ {pick} : spend'[d] = spend[d]
        /\ spend'[pick] # Nothing
        /\ spend'[pick].by = "banco"
    BY <1>3 DEF Accept, NothingIsNoSpend
  <1> QED
    BY <1>1, <1>2, <1>3, <1>4 DEF TradedOnce, BancoSpends

LEMMA TradedOnceStep ==
    ASSUME NothingIsNoSpend, "drop" \notin Faults, TypeOK, TradedOnce, [Next]_vars
    PROVE  TradedOnce'
  <1>1. CASE Watcher /\ ~Broadcast
    <2>1. UNCHANGED <<spend, traded>>
      BY <1>1 DEF Watcher, FetchOrders, EndPass, TakeOrder, FetchUnspents, CheckFunds,
         SelectForTrade, SelectForFees, MarkFulfilled, ledgerVars
    <2> QED
      BY <2>1, TradedOnceStays
  <1>2. CASE Broadcast
    <2>1. CASE UNCHANGED <<ledgerVars, traded>>
      BY <2>1, TradedOnceStays DEF ledgerVars
    <2>2. CASE /\ CanBroadcast
               /\ Accept(pick, FulfillTransaction, trade.coins, fees.coins)
               /\ traded' = traded \cup {<<cur, pick>>}
      <3>1. cur \in OrderIds /\ pick \in Deposits
        BY <1>2 DEF Broadcast, TypeOK, WatcherTypeOK
      <3> QED
        BY <2>2, <3>1, BroadcastTradesOnce
    <2> QED
      BY <1>2, <2>1, <2>2 DEF Broadcast
  <1>3. CASE \/ Crash
             \/ \E o \in OrderIds : PlaceOrder(o) \/ TenMinutesPass(o)
             \/ \E id \in CoinIds : ReleaseCoin(id)
             \/ UNCHANGED vars
    <2>1. UNCHANGED <<spend, traded>>
      BY <1>3 DEF Crash, PlaceOrder, TenMinutesPass, ReleaseCoin, vars, ledgerVars
    <2> QED
      BY <2>1, TradedOnceStays
  <1>4. CASE \/ \E o \in OrderIds, d \in Deposits, p \in Payments : Deposit(o, d, p)
             \/ \E d \in Deposits : Mine(d) \/ Drop(d) \/ SpendByOther(d)
    <2>1. traded' = traded
      BY <1>4 DEF Deposit, Mine, Drop, SpendByOther
    <2>2. \A d \in Deposits : spend[d] # Nothing => spend'[d] = spend[d]
      BY <1>4 DEF Deposit, Mine, Drop, Fail, SpendByOther, Fund, MineFunding, MineSpend,
         ForeignSpend, Unspent, TypeOK, LedgerTypeOK
    <2> QED
      BY <2>1, <2>2, TradedOnceStays
  <1> QED
    BY <1>1, <1>2, <1>3, <1>4 DEF Next

\* As long as no transaction is dropped, each order that is Fulfilled has a deposit of
\* its own that Banco spends for it, also when orders share their address and its
\* unspents: the mark of one is never earned with the trade of another.
THEOREM FulfilledOrdersHaveTheirOwn ==
    ASSUME NothingIsNoSpend, "drop" \notin Faults
    PROVE  Spec => []FulfilledHaveTheirOwn
  <1>1. Init => TradedOnce
    BY DEF Init, TradedOnce
  <1>2. TypeOK /\ TradedOnce /\ [Next]_vars => TradedOnce'
    BY TradedOnceStep
  <1>3. SafetyInv /\ TradedOnce => FulfilledHaveTheirOwn
    <2> SUFFICES ASSUME SafetyInv, TradedOnce PROVE FulfilledHaveTheirOwn
      OBVIOUS
    <2> DEFINE closed == {o \in OrderIds : status[o] = "Fulfilled" /\ Terms[o].input.amount > 0}
               tradedFor(o) == {d \in BancoSpends : <<o, d>> \in traded}
    <2>1. ASSUME NEW o \in closed PROVE \E d \in Deposits : d \in tradedFor(o)
      BY <2>1 DEF SafetyInv, FulfilledHasTrade, TradedOnce
    <2>2. ASSUME NEW o \in closed, NEW p \in closed, o # p
          PROVE  \E d \in tradedFor(o), e \in tradedFor(p) : d # e
      <3>1. PICK d \in Deposits, e \in Deposits : d \in tradedFor(o) /\ e \in tradedFor(p)
        BY <2>1
      <3>2. d # e
        BY <2>2, <3>1 DEF TradedOnce
      <3> QED
        BY <3>1, <3>2
    <2>3. \A o \in closed : tradedFor(o) # {}
      BY <2>1
    <2> HIDE DEF tradedFor
    <2>4. \A o, p \in closed : o # p => \E d \in tradedFor(o), e \in tradedFor(p) : d # e
      BY <2>2
    <2> QED
      BY <2>3, <2>4 DEF FulfilledHaveTheirOwn, tradedFor
  <1> QED
    BY <1>1, <1>2, <1>3, SafetyInvariant, PTL DEF Spec

-----------------------------------------------------------------------------
(* Totals of coins, which recursive functions compute.                     *)

\* Induction over the natural numbers, with a set for the predicate.
LEMMA NaturalsByInduction ==
    ASSUME NEW Holds, 0 \in Holds, \A n \in Nat : n \in Holds => n + 1 \in Holds
    PROVE  Nat \subseteq Holds
  <1> DEFINE less == OpToRel(<, Nat)
             T == Nat \ Holds
  <1>1. IsWellFoundedOn(less, Nat)
    BY NatLessThanWellFounded
  <1>2. \A m, n \in Nat : m < n => <<m, n>> \in less
    BY DEF OpToRel
  <1> HIDE DEF less
  <1> SUFFICES ASSUME T # {} PROVE FALSE
    OBVIOUS
  <1>3. PICK n \in T : \A m \in T : <<m, n>> \notin less
    BY <1>1, WFMin
  <1>4. n \in Nat /\ n # 0
    OBVIOUS
  <1>5. n - 1 \in Nat /\ n - 1 < n /\ (n - 1) + 1 = n
    BY <1>4
  <1>6. n - 1 \notin T
    BY <1>2, <1>3, <1>4, <1>5
  <1> QED
    BY <1>4, <1>5, <1>6

\* Induction over the subsets of a finite set.
LEMMA SubsetsByInduction ==
    ASSUME NEW S, IsFiniteSet(S), NEW Holds,
           \A T \in SUBSET S : (\A U \in SUBSET T : U # T => U \in Holds) => T \in Holds
    PROVE  SUBSET S \subseteq Holds
  <1> DEFINE less == StrictSubsetOrdering(S)
             T == (SUBSET S) \ Holds
  <1>1. IsWellFoundedOn(less, SUBSET S)
    BY FS_StrictSubsetOrderingWellFounded, FS_FiniteSubsetsOfFinite
  <1>2. \A U, V \in SUBSET S : U \subseteq V /\ U # V => <<U, V>> \in less
    BY DEF StrictSubsetOrdering
  <1> HIDE DEF less
  <1> SUFFICES ASSUME T # {} PROVE FALSE
    OBVIOUS
  <1>3. T \subseteq SUBSET S /\ T # {} /\ \A U \in SUBSET S : U \in T <=> U \notin Holds
    OBVIOUS
  <1> HIDE DEF T
  <1>4. PICK V \in T : \A U \in T : <<U, V>> \notin less
    BY <1>1, <1>3, WFMin
  <1>5. ASSUME NEW U \in SUBSET V, U # V PROVE U \in Holds
    <2>1. U \in SUBSET S /\ V \in SUBSET S
      BY <1>3
    <2>2. <<U, V>> \in less
      BY <2>1, <1>2, <1>5
    <2> QED
      BY <2>1, <2>2, <1>3, <1>4
  <1> QED
    BY <1>3, <1>5

\* The coin that a total takes next.
Chosen(s) == CHOOSE x \in s : TRUE

\* f computes the totals of the sets in it.
IsTotal(f, sets) ==
    f = [s \in sets |-> IF s = {} THEN 0 ELSE Chosen(s).amount + f[s \ {Chosen(s)}]]

\* The function that TotalAmount evaluates.
TotalFcn(S) == CHOOSE f : IsTotal(f, SUBSET S)

\* TotalAmount is defined by such a function.
LEMMA TotalIsTotalFcn ==
    ASSUME NEW S, S # {} PROVE TotalAmount(S) = TotalFcn(S)[S]
  BY Zenon DEF TotalAmount, MapThenSumSet, MapThenFoldSet, TotalFcn, IsTotal, Chosen

\* There is one, for a finite set: it is extended from the sets of up to n coins to
\* those of up to n + 1.
LEMMA TotalExists ==
    ASSUME NEW S, IsFiniteSet(S)
    PROVE  IsTotal(TotalFcn(S), SUBSET S)
  <1> DEFINE upTo(n) == {s \in SUBSET S : Cardinality(s) <= n}
             Holds == {n \in Nat : \E f : IsTotal(f, upTo(n))}
  <1>1. \A s \in SUBSET S : IsFiniteSet(s) /\ Cardinality(s) \in Nat
    BY FS_Subset, FS_CardinalityType
  <1>2. \A s \in SUBSET S : s # {} => /\ Chosen(s) \in s
                                      /\ Cardinality(s \ {Chosen(s)}) = Cardinality(s) - 1
    BY <1>1, FS_RemoveElement DEF Chosen
  <1>3. 0 \in Holds
    <2>1. \A s \in upTo(0) : s = {}
      BY <1>1, FS_EmptySet
    <2>2. IsTotal([s \in upTo(0) |-> 0], upTo(0))
      BY <2>1 DEF IsTotal
    <2> QED
      BY <2>2
  <1>4. ASSUME NEW n \in Nat, n \in Holds PROVE n + 1 \in Holds
    <2>1. PICK f : IsTotal(f, upTo(n))
      BY <1>4
    <2> DEFINE total(s) == IF s = {} THEN 0 ELSE Chosen(s).amount + f[s \ {Chosen(s)}]
               g == [s \in upTo(n + 1) |-> total(s)]
    <2>2. \A s \in upTo(n) : g[s] = f[s]
      <3>1. \A s \in upTo(n) : s \in upTo(n + 1)
        BY <1>1
      <3> QED
        BY <2>1, <3>1 DEF IsTotal
    <2>3. \A s \in upTo(n + 1) : s # {} => s \ {Chosen(s)} \in upTo(n)
      BY <1>1, <1>2
    <2>4. \A s \in upTo(n + 1) :
             total(s) = IF s = {} THEN 0 ELSE Chosen(s).amount + g[s \ {Chosen(s)}]
      BY <2>2, <2>3
    <2>5. IsTotal(g, upTo(n + 1))
      BY <2>4 DEF IsTotal
    <2> QED
      BY <2>5
  <1>5. Cardinality(S) \in Holds
    <2> HIDE DEF Holds
    <2> QED
      BY <1>1, <1>3, <1>4, NaturalsByInduction
  <1>6. upTo(Cardinality(S)) = SUBSET S
    BY FS_Subset
  <1>7. \E f : IsTotal(f, SUBSET S)
    BY <1>5, <1>6
  <1> QED
    BY <1>7 DEF TotalFcn

\* The equation of a total, for any of the coins taken first.
LEMMA TotalOfAny ==
    ASSUME NEW S, IsFiniteSet(S), \A c \in S : c.amount \in Nat
    PROVE  \A s \in SUBSET S :
              /\ TotalFcn(S)[s] \in Nat
              /\ s = {} => TotalFcn(S)[s] = 0
              /\ \A x \in s : TotalFcn(S)[s] = x.amount + TotalFcn(S)[s \ {x}]
  <1> DEFINE f == TotalFcn(S)
             good(s) == /\ f[s] \in Nat
                        /\ s = {} => f[s] = 0
                        /\ \A x \in s : f[s] = x.amount + f[s \ {x}]
             Holds == {s \in SUBSET S : good(s)}
  <1>1. \A s \in SUBSET S :
           f[s] = IF s = {} THEN 0 ELSE Chosen(s).amount + f[s \ {Chosen(s)}]
    BY TotalExists DEF IsTotal
  <1> HIDE DEF f
  <1>2. ASSUME NEW s \in SUBSET S, \A t \in SUBSET s : t # s => t \in Holds
        PROVE  s \in Holds
    <2>1. CASE s = {}
      <3>1. f[s] = 0
        BY <1>1, <2>1
      <3> QED
        BY <2>1, <3>1
    <2>2. CASE s # {}
      <3>1. Chosen(s) \in s
        BY <2>2 DEF Chosen
      <3>2. PICK y \in s : y = Chosen(s)
        BY <3>1
      <3>3. f[s] = y.amount + f[s \ {y}]
        BY <1>1, <2>2, <3>2
      <3>4. good(s \ {y}) /\ y.amount \in Nat
        BY <1>2, <3>2
      <3>5. ASSUME NEW x \in s, x # y PROVE f[s] = x.amount + f[s \ {x}]
        <4>1. x.amount \in Nat /\ good(s \ {x})
          BY <1>2
        <4>2. f[s \ {y}] = x.amount + f[(s \ {y}) \ {x}]
          BY <3>4, <3>5
        <4>3. f[s \ {x}] = y.amount + f[(s \ {x}) \ {y}]
          BY <4>1, <3>5
        <4>4. (s \ {y}) \ {x} = (s \ {x}) \ {y}
          OBVIOUS
        <4>5. f[(s \ {x}) \ {y}] \in Nat
          BY <1>2
        <4>6. f[s \ {y}] = x.amount + f[(s \ {x}) \ {y}]
          BY <4>2, <4>4
        <4> DEFINE r == f[(s \ {x}) \ {y}]
        <4>7. \A a, b \in Nat : a + (b + r) = b + (a + r)
          BY <4>5
        <4> HIDE DEF r, good
        <4> QED
          BY <3>3, <3>4, <4>1, <4>3, <4>6, <4>7 DEF r
      <3>6. f[s] \in Nat
        BY <3>3, <3>4
      <3>7. good(s)
        BY <2>2, <3>3, <3>5, <3>6
      <3> QED
        BY <3>7
    <2> QED
      BY <2>1, <2>2
  <1>3. SUBSET S \subseteq Holds
    <2> HIDE DEF Holds
    <2> QED
      BY <1>2, SubsetsByInduction
  <1> QED
    BY <1>3 DEF f

\* The total of a set is the same wherever it is computed.
LEMMA TotalOfSubset ==
    ASSUME NEW S, IsFiniteSet(S), \A c \in S : c.amount \in Nat, NEW T \in SUBSET S
    PROVE  TotalAmount(T) = TotalFcn(S)[T]
  <1> DEFINE Holds == {s \in SUBSET T : TotalFcn(T)[s] = TotalFcn(S)[s]}
  <1>1. IsFiniteSet(T) /\ \A c \in T : c.amount \in Nat
    BY FS_Subset
  <1>2. \A s \in SUBSET T : /\ s = {} => TotalFcn(T)[s] = 0
                            /\ \A x \in s : TotalFcn(T)[s] = x.amount + TotalFcn(T)[s \ {x}]
    BY <1>1, TotalOfAny
  <1>3. \A s \in SUBSET T : /\ s = {} => TotalFcn(S)[s] = 0
                            /\ \A x \in s : TotalFcn(S)[s] = x.amount + TotalFcn(S)[s \ {x}]
    BY TotalOfAny
  <1>4. ASSUME NEW s \in SUBSET T, \A t \in SUBSET s : t # s => t \in Holds
        PROVE  s \in Holds
    <2>1. CASE s = {}
      BY <1>2, <1>3, <2>1
    <2>2. CASE s # {}
      <3>1. PICK x \in s : TRUE
        BY <2>2
      <3>2. s \ {x} \in Holds
        BY <1>4
      <3> QED
        BY <1>2, <1>3, <3>2
    <2> QED
      BY <2>1, <2>2
  <1>5. T \in Holds
    <2> HIDE DEF Holds
    <2>1. SUBSET T \subseteq Holds
      BY <1>1, <1>4, SubsetsByInduction
    <2> QED
      BY <2>1
  <1>6. T # {} => TotalAmount(T) = TotalFcn(T)[T]
    BY TotalIsTotalFcn
  <1>7. T = {} => TotalAmount(T) = TotalFcn(T)[T]
    BY <1>2 DEF TotalAmount
  <1> QED
    BY <1>5, <1>6, <1>7

\* A total is a natural number, and any coin of the set may be counted first.
LEMMA TotalTakesAny ==
    ASSUME NEW S, IsFiniteSet(S), \A c \in S : c.amount \in Nat
    PROVE  /\ TotalAmount({}) = 0
           /\ TotalAmount(S) \in Nat
           /\ \A x \in S : TotalAmount(S) = x.amount + TotalAmount(S \ {x})
  <1>1. \A s \in SUBSET S : TotalAmount(s) = TotalFcn(S)[s]
    BY TotalOfSubset
  <1>2. \A x \in S : S \ {x} \in SUBSET S
    OBVIOUS
  <1>3. {} \in SUBSET S /\ S \in SUBSET S
    OBVIOUS
  <1> QED
    BY <1>1, <1>2, <1>3, TotalOfAny

\* The total of two sets that share no coin is the sum of theirs.
LEMMA TotalOfDisjoint ==
    ASSUME NEW S, IsFiniteSet(S), \A c \in S : c.amount \in Nat,
           NEW T, IsFiniteSet(T), \A c \in T : c.amount \in Nat,
           S \cap T = {}
    PROVE  TotalAmount(S \cup T) = TotalAmount(S) + TotalAmount(T)
  <1> DEFINE Holds == {s \in SUBSET S : TotalAmount(s \cup T) = TotalAmount(s) + TotalAmount(T)}
  <1>1. ASSUME NEW s \in SUBSET S, \A t \in SUBSET s : t # s => t \in Holds
        PROVE  s \in Holds
    <2>1. /\ IsFiniteSet(s) /\ IsFiniteSet(s \cup T)
          /\ \A c \in s \cup T : c.amount \in Nat
      BY FS_Subset, FS_Union
    <2>2. TotalAmount(T) \in Nat /\ TotalAmount({}) = 0
      BY TotalTakesAny
    <2>3. CASE s = {}
      <3>1. s \cup T = T
        BY <2>3
      <3> QED
        BY <2>2, <2>3, <3>1
    <2>4. CASE s # {}
      <3>1. PICK x \in s : TRUE
        BY <2>4
      <3>2. TotalAmount(s) = x.amount + TotalAmount(s \ {x})
        BY <2>1, TotalTakesAny
      <3>3. TotalAmount(s \cup T) = x.amount + TotalAmount((s \cup T) \ {x})
        BY <2>1, TotalTakesAny
      <3>4. (s \cup T) \ {x} = (s \ {x}) \cup T
        OBVIOUS
      <3>5. TotalAmount((s \ {x}) \cup T) = TotalAmount(s \ {x}) + TotalAmount(T)
        <4>1. s \ {x} \in Holds
          BY <1>1
        <4> QED
          BY <4>1
      <3>6. TotalAmount(s \ {x}) \in Nat /\ x.amount \in Nat
        BY <2>1, TotalTakesAny, FS_Subset
      <3>7. TotalAmount(s \cup T) = x.amount + (TotalAmount(s \ {x}) + TotalAmount(T))
        BY <3>3, <3>4, <3>5
      <3>8. TotalAmount(s \cup T) = TotalAmount(s) + TotalAmount(T)
        BY <2>2, <3>2, <3>6, <3>7
      <3> QED
        BY <3>8
    <2> QED
      BY <2>3, <2>4
  <1>2. SUBSET S \subseteq Holds
    <2> HIDE DEF Holds
    <2> QED
      BY <1>1, SubsetsByInduction
  <1> QED
    BY <1>2

\* What a function makes of the elements of a finite set is a finite set.
LEMMA ImageIsFinite ==
    ASSUME NEW S, IsFiniteSet(S), NEW f
    PROVE  IsFiniteSet({f[x] : x \in S})
  <1> DEFINE Holds == {s \in SUBSET S : IsFiniteSet({f[x] : x \in s})}
  <1>1. ASSUME NEW s \in SUBSET S, \A t \in SUBSET s : t # s => t \in Holds
        PROVE  s \in Holds
    <2>1. CASE s = {}
      <3>1. {f[x] : x \in s} = {}
        BY <2>1
      <3> QED
        BY <3>1, FS_EmptySet
    <2>2. CASE s # {}
      <3>1. PICK y \in s : TRUE
        BY <2>2
      <3>2. s \ {y} \in Holds
        BY <1>1
      <3> DEFINE image(t) == {f[x] : x \in t}
      <3>3. image(s) = image(s \ {y}) \cup {f[y]}
        OBVIOUS
      <3>4. IsFiniteSet(image(s \ {y}))
        BY <3>2
      <3>5. IsFiniteSet(image(s))
        <4>1. \A T, x : IsFiniteSet(T) => IsFiniteSet(T \cup {x})
          BY FS_AddElement
        <4> HIDE DEF image
        <4> QED
          BY <3>3, <3>4, <4>1
      <3> QED
        BY <3>5
    <2> QED
      BY <2>1, <2>2
  <1>2. SUBSET S \subseteq Holds
    <2> HIDE DEF Holds
    <2> QED
      BY <1>1, SubsetsByInduction
  <1> QED
    BY <1>2

\* What holds of a total holds of the total of one asset.
LEMMA TotalOfAsset ==
    ASSUME NEW asset, NEW S, IsFiniteSet(S), \A c \in S : c.amount \in Nat
    PROVE  /\ TotalOf(asset, S) \in Nat
           /\ \A T \in SUBSET S :
                 TotalOf(asset, S) = TotalOf(asset, T) + TotalOf(asset, S \ T)
           /\ \A b : (\A c \in S : c.asset = b) =>
                         TotalOf(asset, S) = AmountOf(asset, Value(b, TotalAmount(S)))
  <1> DEFINE of(T) == {c \in T : c.asset = asset}
  <1>1. \A T \in SUBSET S : IsFiniteSet(of(T)) /\ \A c \in of(T) : c.amount \in Nat
    BY FS_Subset
  <1>2. TotalOf(asset, S) \in Nat
    BY <1>1, TotalTakesAny DEF TotalOf
  <1>3. ASSUME NEW T \in SUBSET S
        PROVE  TotalOf(asset, S) = TotalOf(asset, T) + TotalOf(asset, S \ T)
    <2>1. of(S) = of(T) \cup of(S \ T) /\ of(T) \cap of(S \ T) = {}
      OBVIOUS
    <2> HIDE DEF of
    <2>2. TotalAmount(of(T) \cup of(S \ T)) = TotalAmount(of(T)) + TotalAmount(of(S \ T))
      BY <1>1, <2>1, TotalOfDisjoint
    <2> QED
      BY <2>1, <2>2 DEF TotalOf, of
  <1>4. ASSUME NEW b, \A c \in S : c.asset = b
        PROVE  TotalOf(asset, S) = AmountOf(asset, Value(b, TotalAmount(S)))
    <2>1. CASE b = asset
      <3>1. of(S) = S
        BY <1>4, <2>1
      <3> QED
        BY <2>1, <3>1 DEF TotalOf, AmountOf, Value
    <2>2. CASE b # asset
      <3>1. of(S) = {}
        BY <1>4, <2>2
      <3> QED
        BY <2>2, <3>1, TotalTakesAny DEF TotalOf, AmountOf, Value
    <2> QED
      BY <2>1, <2>2
  <1> QED
    BY <1>2, <1>3, <1>4

-----------------------------------------------------------------------------
(* The books.                                                              *)

\* A transaction creates up to three coins for the wallet, of natural amounts, and
\* all of them have ids of its own.
LEMMA CoinsCreated ==
    ASSUME TypeOK, NEW d \in BancoSpends
    PROVE  /\ IsFiniteSet(CoinsCreatedBy(d))
           /\ \A c \in CoinsCreatedBy(d) : c.amount \in Nat /\ c.id[1] = d
           /\ \A c \in CoinsCreatedBy(d) : c.id \in Deposits \X Outputs
           /\ \A asset :
                 TotalOf(asset, CoinsCreatedBy(d))
                   = AmountOf(asset, spend[d].tx.proceeds)
                     + AmountOf(asset, spend[d].tx.tradeChange)
                     + AmountOf(asset, spend[d].tx.feeChange)
  <1> DEFINE tx == spend[d].tx
             coin(o) == [id |-> <<d, o>>, asset |-> tx[o].asset, amount |-> tx[o].amount]
             part(o) == IF tx[o].amount > 0 THEN {coin(o)} ELSE {}
  <1>1. d \in Deposits /\ tx \in TxType
    BY DEF TypeOK, LedgerTypeOK, BancoSpends
  <1>2. /\ tx["proceeds"].amount \in Nat
        /\ tx["tradeChange"].amount \in Nat
        /\ tx["feeChange"].amount \in Nat
    BY <1>1 DEF TxType, OutputType
  <1>3. CoinsCreatedBy(d) = part("proceeds") \cup part("tradeChange") \cup part("feeChange")
    BY DEF CoinsCreatedBy
  <1>4. ASSUME NEW o \in {"proceeds", "tradeChange", "feeChange"}
        PROVE  /\ IsFiniteSet(part(o))
               /\ \A c \in part(o) : c.amount \in Nat /\ c.id = <<d, o>>
               /\ \A asset : TotalOf(asset, part(o)) = AmountOf(asset, tx[o])
    <2>1. IsFiniteSet({}) /\ IsFiniteSet({coin(o)})
      BY FS_EmptySet, FS_Singleton
    <2>2. IsFiniteSet(part(o)) /\ \A c \in part(o) : c.amount \in Nat /\ c.id = <<d, o>>
      BY <1>2, <2>1
    <2>3. ASSUME NEW asset PROVE TotalOf(asset, part(o)) = AmountOf(asset, tx[o])
      <3>1. TotalAmount({}) = 0 /\ TotalAmount({coin(o)}) = tx[o].amount
        <4>1. PICK c : c = coin(o)
          OBVIOUS
        <4>2. c.amount = tx[o].amount /\ c.amount \in Nat
          BY <1>2, <4>1
        <4>3. IsFiniteSet({c}) /\ {c} \ {c} = {}
          BY FS_Singleton
        <4>4. TotalAmount({c}) = c.amount + TotalAmount({c} \ {c}) /\ TotalAmount({}) = 0
          <5> HIDE DEF coin
          <5> QED
            BY <4>2, <4>3, TotalTakesAny
        <4>5. TotalAmount({c}) = c.amount
          BY <4>2, <4>3, <4>4
        <4> QED
          BY <4>1, <4>2, <4>4, <4>5
      <3>2. \A c \in part(o) : c.asset = tx[o].asset
        OBVIOUS
      <3>3. TotalOf(asset, part(o))
              = AmountOf(asset, Value(tx[o].asset, TotalAmount(part(o))))
        BY <2>2, <3>2, TotalOfAsset
      <3>4. TotalAmount(part(o)) = tx[o].amount
        BY <1>2, <3>1
      <3> QED
        BY <3>3, <3>4 DEF AmountOf, Value
    <2> QED
      BY <2>2, <2>3
  <1> HIDE DEF part
  <1>5. /\ IsFiniteSet(CoinsCreatedBy(d))
        /\ \A c \in CoinsCreatedBy(d) : c.amount \in Nat
    BY <1>3, <1>4, FS_Union
  <1>6. ASSUME NEW c \in CoinsCreatedBy(d)
        PROVE  c.id[1] = d /\ c.id \in Deposits \X Outputs
    <2>1. PICK o \in {"proceeds", "tradeChange", "feeChange"} : c \in part(o)
      BY <1>3
    <2>2. c.id = <<d, o>>
      BY <1>4, <2>1
    <2> QED
      BY <1>1, <2>2 DEF Outputs
  <1>7. ASSUME NEW asset
        PROVE  TotalOf(asset, CoinsCreatedBy(d))
                 = AmountOf(asset, tx.proceeds) + AmountOf(asset, tx.tradeChange)
                   + AmountOf(asset, tx.feeChange)
    <2> DEFINE both == part("proceeds") \cup part("tradeChange")
    <2>1. /\ part("proceeds") \cap part("tradeChange") = {}
          /\ both \cap part("feeChange") = {}
      BY <1>4
    <2>2. both \ part("proceeds") = part("tradeChange")
          /\ CoinsCreatedBy(d) \ both = part("feeChange")
          /\ part("proceeds") \subseteq both
          /\ both \subseteq CoinsCreatedBy(d)
      BY <1>3, <2>1
    <2>3. IsFiniteSet(both) /\ \A c \in both : c.amount \in Nat
      BY <1>4, FS_Union
    <2>4. TotalOf(asset, both)
            = TotalOf(asset, part("proceeds")) + TotalOf(asset, part("tradeChange"))
      <3> HIDE DEF both
      <3> QED
        BY <2>2, <2>3, TotalOfAsset
    <2>5. TotalOf(asset, CoinsCreatedBy(d))
            = TotalOf(asset, both) + TotalOf(asset, part("feeChange"))
      <3> HIDE DEF both
      <3> QED
        BY <1>5, <2>2, TotalOfAsset
    <2> QED
      BY <1>4, <2>4, <2>5
  <1> QED
    BY <1>5, <1>6, <1>7

\* The coins of some of Banco's transactions, with those of the start, are finitely
\* many, and none of them is a coin of another transaction.
LEMMA WalletCoins ==
    ASSUME TypeOK, NEW D \in SUBSET BancoSpends, IsFiniteSet(D)
    PROVE  /\ IsFiniteSet(CoinsIn(D))
           /\ \A c \in CoinsIn(D) : c.amount \in Nat
           /\ \A e \in BancoSpends \ D : CoinsCreatedBy(e) \cap CoinsIn(D) = {}
  <1> DEFINE created == [d \in Deposits |-> CoinsCreatedBy(d)]
             sets == {created[d] : d \in D}
  <1>1. D \subseteq Deposits
    BY DEF BancoSpends
  <1>2. IsFiniteSet(sets)
    <2> HIDE DEF created
    <2> QED
      BY ImageIsFinite
  <1>3. sets = {CoinsCreatedBy(d) : d \in D}
    BY <1>1
  <1>4. ASSUME NEW s \in sets PROVE IsFiniteSet(s) /\ \A c \in s : c.amount \in Nat
    <2>1. PICK d \in D : s = CoinsCreatedBy(d)
      BY <1>3
    <2> QED
      BY <2>1, CoinsCreated
  <1>5. IsFiniteSet(UNION sets)
    <2> HIDE DEF sets
    <2> QED
      BY <1>2, <1>4, FS_UNION
  <1>6. CoinsIn(D) = GenesisCoins \cup UNION sets
    BY <1>3 DEF CoinsIn
  <1> HIDE DEF sets
  <1>7. IsFiniteSet(CoinsIn(D)) /\ \A c \in CoinsIn(D) : c.amount \in Nat
    BY <1>4, <1>5, <1>6, GenesisAssumption, FS_Union
  <1>8. ASSUME NEW e \in BancoSpends \ D, NEW c \in CoinsCreatedBy(e), c \in CoinsIn(D)
        PROVE  FALSE
    <2>1. c.id[1] = e /\ c.id \in Deposits \X Outputs
      BY CoinsCreated
    <2>2. c \notin GenesisCoins
      BY <2>1, GenesisAssumption
    <2>3. PICK d \in D : c \in CoinsCreatedBy(d)
      BY <1>8, <2>2 DEF CoinsIn
    <2>4. c.id[1] = d
      BY <2>3, CoinsCreated
    <2> QED
      BY <2>1, <2>4
  <1> QED
    BY <1>7, <1>8

LEMMA BooksInit == Init => BooksInv
  <1> SUFFICES ASSUME Init PROVE BooksInv
    OBVIOUS
  <1>1. BancoSpends = {}
    BY DEF Init, LedgerInit, BancoSpends
  <1> QED
    BY <1>1, FS_EmptySet
    DEF Init, BooksInv, SelectedAssets, TradedAtAddress, CoinsAreTraced, SpendsBalance

\* What a step that takes transactions away that are not mined, if any, leaves of the
\* books: no transaction stays that spends a coin of one that goes.
LEMMA BooksStay ==
    ASSUME TypeOK, SafetyInv, BooksInv, traded' = traded,
           \A d \in Deposits : fate[d] # "absent" => funding'[d] = funding[d],
           \A d \in Deposits : spend'[d] # Nothing /\ spend'[d].by = "banco" =>
                                  spend'[d] = spend[d],
           \A d \in spendMined : d \in spendMined' /\ spend'[d] = spend[d]
    PROVE  TradedAtAddress' /\ CoinsAreTraced' /\ SpendsBalance'
  <1>1. /\ BancoSpends' \subseteq BancoSpends
        /\ \A d \in BancoSpends' : spend'[d] = spend[d] /\ CoinsSpentBy(d)' = CoinsSpentBy(d)
    BY DEF BancoSpends, CoinsSpentBy
  <1>2. BancoSpends \cap spendMined \subseteq (BancoSpends \cap spendMined)'
    BY DEF BancoSpends
  <1>3. TradedAtAddress'
    BY DEF BooksInv, TradedAtAddress, SafetyInv, TradedExist
  <1>4. ASSUME NEW d \in BancoSpends'
        PROVE  CoinsSpentBy(d)' \subseteq CoinsIn((BancoSpends \cap spendMined) \ {d})'
    <2>1. CoinsSpentBy(d) \subseteq CoinsIn((BancoSpends \cap spendMined) \ {d})
      BY <1>1 DEF BooksInv, CoinsAreTraced
    <2>2. \A e \in BancoSpends \cap spendMined : CoinsCreatedBy(e)' = CoinsCreatedBy(e)
      BY DEF CoinsCreatedBy
    <2>3. CoinsIn((BancoSpends \cap spendMined) \ {d})
            \subseteq CoinsIn((BancoSpends \cap spendMined) \ {d})'
      BY <1>2, <2>2 DEF CoinsIn
    <2> QED
      BY <1>1, <2>1, <2>3
  <1>5. IsFiniteSet(BancoSpends')
    BY <1>1, FS_Subset DEF BooksInv, CoinsAreTraced
  <1>6. CoinsAreTraced'
    BY <1>1, <1>4, <1>5 DEF BooksInv, CoinsAreTraced
  <1>7. SpendsBalance'
    <2>1. \A d \in BancoSpends' : funding'[d] = funding[d]
      BY <1>1 DEF BancoSpends, TypeOK, LedgerTypeOK, Funded
    <2>2. \A asset, d : d \in BancoSpends' =>
             TotalOf(asset, CoinsSpentBy(d))' = TotalOf(asset, CoinsSpentBy(d))
      BY <1>1 DEF TotalOf
    <2> QED
      BY <1>1, <2>1, <2>2 DEF BooksInv, SpendsBalance
  <1> QED
    BY <1>3, <1>6, <1>7

\* The transaction that the network accepts spends coins of mined transactions that no
\* other spends, and creates what it consumes.
LEMMA BooksTakeBroadcast ==
    ASSUME TypeOK, SpendInv, BooksInv, cur \in OrderIds, pick \in Deposits,
           pc = "broadcast", CanBroadcast,
           Accept(pick, FulfillTransaction, trade.coins, fees.coins),
           traded' = traded \cup {<<cur, pick>>}
    PROVE  TradedAtAddress' /\ CoinsAreTraced' /\ SpendsBalance'
  <1> DEFINE coins == trade.coins \cup fees.coins
             mined == BancoSpends \cap spendMined
             tx == FulfillTransaction
  <1>0. PICK p \in Deposits : p = pick
    OBVIOUS
  <1>1. UNCHANGED <<funding, fate, spendMined>> /\ DOMAIN spend = Deposits
    BY DEF Accept, TypeOK, LedgerTypeOK
  <1>2. /\ \A d \in Deposits \ {pick} : spend'[d] = spend[d]
        /\ spend'[pick].tx = tx
        /\ CoinsSpentBy(p)' = coins
    BY <1>0, <1>1 DEF Accept, CoinsSpentBy
  <1>3. pick \notin BancoSpends
    BY DEF CanBroadcast, Valid, Unspent, BancoSpends
  <1>4. /\ BancoSpends \subseteq BancoSpends'
        /\ BancoSpends' \subseteq BancoSpends \cup {pick}
    BY <1>2, <1>3 DEF BancoSpends
  <1>5. \A d \in BancoSpends : spend'[d] = spend[d] /\ CoinsSpentBy(d)' = CoinsSpentBy(d)
    BY <1>2, <1>3 DEF BancoSpends, CoinsSpentBy
  <1>6. coins \subseteq CoinsIn(mined) /\ coins \cap SpentCoins = {}
    BY DEF CanBroadcast, Valid, SpendableCoins
  <1> HIDE DEF coins, tx
  <1>7. TradedAtAddress'
    <2>1. funding[pick].address = Address(Terms[cur])
      BY NothingAssumption DEF SpendInv, HeldAtAddress
    <2> QED
      BY <1>1, <2>1 DEF BooksInv, TradedAtAddress
  <1>8. CoinsAreTraced'
    <2>1. IsFiniteSet(BancoSpends')
      <3>1. IsFiniteSet(BancoSpends \cup {pick})
        BY FS_AddElement DEF BooksInv, CoinsAreTraced
      <3> QED
        BY <1>4, <3>1, FS_Subset
    <2>2. ASSUME NEW D \in SUBSET BancoSpends, NEW E, D \subseteq E
          PROVE  CoinsIn(D) \subseteq CoinsIn(E)'
      <3>1. \A e \in D : CoinsCreatedBy(e)' = CoinsCreatedBy(e)
        BY <1>5 DEF CoinsCreatedBy
      <3> QED
        BY <2>2, <3>1 DEF CoinsIn
    <2>3. ASSUME NEW d \in BancoSpends'
          PROVE  CoinsSpentBy(d)' \subseteq CoinsIn((BancoSpends \cap spendMined) \ {d})'
      <3>1. mined \ {d} \subseteq ((BancoSpends \cap spendMined) \ {d})'
        BY <1>1, <1>4
      <3>2. CoinsIn(mined \ {d}) \subseteq CoinsIn((BancoSpends \cap spendMined) \ {d})'
        BY <2>2, <3>1
      <3>3. CASE d = pick
        <4>1. mined \ {d} = mined
          BY <1>3, <3>3
        <4> QED
          BY <1>0, <1>2, <1>6, <3>2, <3>3, <4>1
      <3>4. CASE d # pick
        BY <1>4, <1>5, <3>2, <3>4 DEF BooksInv, CoinsAreTraced
      <3> QED
        BY <3>3, <3>4
    <2>4. \A d \in BancoSpends : CoinsSpentBy(d) \cap coins = {}
      BY <1>6 DEF SpentCoins, CoinsSpentBy
    <2>5. ASSUME NEW d \in BancoSpends', NEW e \in BancoSpends', d # e
          PROVE  CoinsSpentBy(d)' \cap CoinsSpentBy(e)' = {}
      <3>1. CASE d # pick /\ e # pick
        BY <1>4, <1>5, <2>5, <3>1 DEF BooksInv, CoinsAreTraced
      <3>2. CASE d = pick
        BY <1>0, <1>2, <1>4, <1>5, <2>4, <2>5, <3>2
      <3>3. CASE e = pick
        BY <1>0, <1>2, <1>4, <1>5, <2>4, <2>5, <3>3
      <3> QED
        BY <3>1, <3>2, <3>3
    <2> QED
      BY <2>1, <2>3, <2>5 DEF CoinsAreTraced
  <1>9. tx \in TxType /\ tx.fee.amount < 3 * FEE_AMOUNT
    <2>1. TermsOk(Terms[cur]) /\ trade.change \in Nat /\ fees.change \in Nat
      BY TermsAssumption DEF TermsOk, TypeOK, WatcherTypeOK
    <2> QED
      BY <2>1, FulfillTransactionType, PreparedChange DEF tx, FulfillTransaction
  <1>10. ASSUME NEW asset
         PROVE  TotalOf(asset, coins) + AmountOf(asset, funding[pick])
                  = AmountOf(asset, tx.payout) + AmountOf(asset, tx.proceeds)
                    + AmountOf(asset, tx.tradeChange) + AmountOf(asset, tx.feeChange)
                    + AmountOf(asset, tx.fee)
    <2> DEFINE tradeIn == Value(Terms[cur].output.asset, TotalAmount(trade.coins))
               feeIn == Value(LBTC, TotalAmount(fees.coins))
    <2>1. /\ IsFiniteSet(coins) /\ IsFiniteSet(trade.coins) /\ IsFiniteSet(fees.coins)
          /\ \A c \in coins : c.amount \in Nat
      <3>1. IsFiniteSet(mined)
        BY FS_Subset DEF BooksInv, CoinsAreTraced
      <3>2. IsFiniteSet(CoinsIn(mined)) /\ \A c \in CoinsIn(mined) : c.amount \in Nat
        BY <3>1, WalletCoins
      <3> QED
        BY <1>6, <3>2, FS_Subset DEF coins
    <2>2. coins \ trade.coins = fees.coins /\ trade.coins \subseteq coins
          /\ \A c \in fees.coins : c.amount \in Nat
      BY <2>1 DEF CanBroadcast, Valid, coins
    <2>3. TotalOf(asset, coins) = TotalOf(asset, trade.coins) + TotalOf(asset, fees.coins)
      BY <2>1, <2>2, TotalOfAsset
    <2>4. TotalOf(asset, trade.coins) = AmountOf(asset, tradeIn)
          /\ TotalOf(asset, fees.coins) = AmountOf(asset, feeIn)
      BY <2>1, <2>2, TotalOfAsset DEF BooksInv, SelectedAssets
    <2>5. TotalAmount(trade.coins) \in Nat /\ TotalAmount(fees.coins) \in Nat
      BY <2>1, <2>2, TotalTakesAny
    <2>6. AmountOf(asset, tradeIn) \in Nat /\ AmountOf(asset, feeIn) \in Nat
      BY <2>5 DEF AmountOf, Value
    <2>7. AmountOf(asset, funding[pick]) \in Nat
          /\ AmountOf(asset, Utxo(pick)) = AmountOf(asset, funding[pick])
      BY DEF AmountOf, Utxo, CanBroadcast, Valid, Unspent, Funded, TypeOK, LedgerTypeOK,
             FundingType
    <2>8. Balanced(Utxo(pick), tradeIn, feeIn, tx)
      BY DEF CanBroadcast, Valid, tx
    <2>9. AmountOf(asset, Utxo(pick)) + AmountOf(asset, tradeIn) + AmountOf(asset, feeIn)
            = AmountOf(asset, tx.payout) + AmountOf(asset, tx.proceeds)
              + AmountOf(asset, tx.tradeChange) + AmountOf(asset, tx.feeChange)
              + AmountOf(asset, tx.fee)
      <3> DEFINE assets == {Utxo(pick).asset, tradeIn.asset, feeIn.asset}
                             \cup {tx[o].asset : o \in Outputs}
      <3>1. CASE asset \in assets
        BY <2>8, <3>1 DEF Balanced
      <3>2. CASE asset \notin assets
        BY <3>2 DEF AmountOf, Outputs
      <3> QED
        BY <3>1, <3>2
    <2> DEFINE created == AmountOf(asset, tx.payout) + AmountOf(asset, tx.proceeds)
                          + AmountOf(asset, tx.tradeChange) + AmountOf(asset, tx.feeChange)
                          + AmountOf(asset, tx.fee)
    <2> HIDE DEF tradeIn, feeIn, created
    <2> QED
      BY <2>3, <2>4, <2>6, <2>7, <2>9 DEF created
  <1>11. SpendsBalance'
    <2>1. ASSUME NEW d \in BancoSpends', NEW asset
          PROVE  TotalOf(asset, CoinsSpentBy(d))'
                   = TotalOf(asset, IF d = pick THEN coins ELSE CoinsSpentBy(d))
      BY <1>0, <1>2, <1>4, <1>5 DEF TotalOf
    <2>2. ASSUME NEW d \in BancoSpends', d # pick
          PROVE  d \in BancoSpends /\ spend'[d] = spend[d] /\ funding'[d] = funding[d]
      BY <1>1, <1>4, <1>5, <2>2
    <2>3. SpendsBalance
      BY DEF BooksInv
    <2> SUFFICES ASSUME NEW d \in BancoSpends'
                 PROVE  LET t == spend'[d].tx
                        IN /\ t.fee.amount < 3 * FEE_AMOUNT
                           /\ \A asset \in Assets :
                                TotalOf(asset, CoinsSpentBy(d))' + AmountOf(asset, funding'[d])
                                  = AmountOf(asset, t.payout) + AmountOf(asset, t.proceeds)
                                    + AmountOf(asset, t.tradeChange)
                                    + AmountOf(asset, t.feeChange) + AmountOf(asset, t.fee)
      BY DEF SpendsBalance
    <2>4. CASE d = pick
      BY <1>1, <1>2, <1>9, <1>10, <2>1, <2>4
    <2>5. CASE d # pick
      BY <2>1, <2>2, <2>3, <2>5 DEF SpendsBalance
    <2> QED
      BY <2>4, <2>5
  <1> QED
    BY <1>7, <1>8, <1>11

\* The wallet selects coins of the asset it is asked for.
LEMMA SelectedStep ==
    ASSUME TypeOK, SelectedAssets, [Next]_vars
    PROVE  SelectedAssets'
  <1>a. \A asset, amount : \A s \in Selections(asset, amount) :
           \A c \in s.coins : c.asset = asset
    BY DEF Selections
  <1>b. pc' \notin {"fees", "broadcast"} => SelectedAssets'
    BY DEF SelectedAssets
  <1>c. UNCHANGED <<pc, cur, trade, fees>> => SelectedAssets'
    BY DEF SelectedAssets
  <1>1. CASE \/ FetchOrders \/ EndPass \/ FetchUnspents \/ CheckFunds \/ Broadcast
             \/ MarkFulfilled \/ Crash
             \/ \E o \in OrderIds : TakeOrder(o)
    <2>1. pc' \notin {"fees", "broadcast"}
      BY <1>1 DEF FetchOrders, EndPass, FetchUnspents, CheckFunds, Broadcast, MarkFulfilled,
         Crash, TakeOrder, LeaveOrder, NextTrade
    <2> QED
      BY <2>1, <1>b
  <1>2. CASE SelectForTrade
    <2>1. CASE pc' = "orders"
      BY <2>1, <1>b
    <2>2. CASE pc' # "orders"
      <3>1. PICK s \in Selections(Terms[cur].output.asset, Terms[cur].output.amount) :
               trade' = s /\ pc' = "fees" /\ cur' = cur
        BY <1>2, <2>2 DEF SelectForTrade, LeaveOrder
      <3> QED
        BY <3>1, <1>a DEF SelectedAssets
    <2> QED
      BY <2>1, <2>2
  <1>3. CASE SelectForFees
    <2>1. CASE pc' = "orders"
      BY <2>1, <1>b
    <2>2. CASE pc' # "orders"
      <3>1. PICK s \in Selections(LBTC, FEE_AMOUNT) :
               fees' = s /\ pc = "fees" /\ UNCHANGED <<cur, trade>>
        BY <1>3, <2>2 DEF SelectForFees, LeaveOrder
      <3> QED
        BY <3>1, <1>a DEF SelectedAssets
    <2> QED
      BY <2>1, <2>2
  <1>4. CASE \/ \E o \in OrderIds : PlaceOrder(o) \/ TenMinutesPass(o)
             \/ \E o \in OrderIds, d \in Deposits, p \in Payments : Deposit(o, d, p)
             \/ \E d \in Deposits : Mine(d) \/ Drop(d) \/ SpendByOther(d)
             \/ \E id \in CoinIds : ReleaseCoin(id)
             \/ UNCHANGED vars
    <2>1. UNCHANGED <<pc, cur, trade, fees>>
      BY <1>4 DEF PlaceOrder, TenMinutesPass, Deposit, Mine, Drop, SpendByOther, ReleaseCoin,
         vars, watcherVars
    <2> QED
      BY <2>1, <1>c
  <1> QED
    BY <1>1, <1>2, <1>3, <1>4 DEF Next, Watcher

LEMMA BooksStep == TypeOK /\ SafetyInv /\ SpendInv /\ BooksInv /\ [Next]_vars => BooksInv'
  <1> SUFFICES ASSUME TypeOK, SafetyInv, SpendInv, BooksInv, [Next]_vars PROVE BooksInv'
    OBVIOUS
  <1> DEFINE rest == TradedAtAddress /\ CoinsAreTraced /\ SpendsBalance
  <1>a. SelectedAssets'
    BY SelectedStep DEF BooksInv
  <1>b. UNCHANGED <<ledgerVars, traded>> => rest'
    BY BooksStay DEF ledgerVars
  <1>1. CASE Watcher /\ ~Broadcast
    <2>1. UNCHANGED <<ledgerVars, traded>>
      BY <1>1 DEF Watcher, FetchOrders, EndPass, TakeOrder, FetchUnspents, CheckFunds,
         SelectForTrade, SelectForFees, MarkFulfilled
    <2> QED
      BY <2>1, <1>a, <1>b DEF BooksInv
  <1>2. CASE Broadcast
    <2>1. CASE UNCHANGED <<ledgerVars, traded>>
      BY <2>1, <1>a, <1>b DEF BooksInv
    <2>2. CASE /\ CanBroadcast
               /\ Accept(pick, FulfillTransaction, trade.coins, fees.coins)
               /\ traded' = traded \cup {<<cur, pick>>}
      <3>1. cur \in OrderIds /\ pick \in Deposits /\ pc = "broadcast"
        BY <1>2 DEF Broadcast, TypeOK, WatcherTypeOK
      <3> QED
        BY <2>2, <3>1, <1>a, BooksTakeBroadcast DEF BooksInv
    <2> QED
      BY <1>2, <2>1, <2>2 DEF Broadcast
  <1>3. CASE \/ Crash
             \/ \E o \in OrderIds : PlaceOrder(o) \/ TenMinutesPass(o)
             \/ \E id \in CoinIds : ReleaseCoin(id)
             \/ UNCHANGED vars
    <2>1. UNCHANGED <<ledgerVars, traded>>
      BY <1>3 DEF Crash, PlaceOrder, TenMinutesPass, ReleaseCoin, vars
    <2> QED
      BY <2>1, <1>a, <1>b DEF BooksInv
  <1>4. CASE \/ \E o \in OrderIds, d \in Deposits, p \in Payments : Deposit(o, d, p)
             \/ \E d \in Deposits : Mine(d) \/ Drop(d) \/ SpendByOther(d)
    <2>a. LedgerTypeOK
      BY DEF TypeOK
    <2>1. traded' = traded
      BY <1>4 DEF Deposit, Mine, Drop, SpendByOther
    <2>2. \A d \in Deposits : fate[d] # "absent" => funding'[d] = funding[d]
      BY <1>4, <2>a, FundingStays DEF Deposit, Mine, Drop, SpendByOther
    <2>3. \A d \in Deposits : spend'[d] # Nothing /\ spend'[d].by = "banco" =>
              spend'[d] = spend[d]
      BY <1>4, <2>a DEF Deposit, Mine, Drop, SpendByOther, LedgerTypeOK, Fund,
         MineFunding, MineSpend, ReplaceFunding, EvictSpend, ForeignSpend
    <2>4. \A d \in spendMined : d \in spendMined' /\ spend'[d] = spend[d]
      BY <1>4, <2>a DEF Deposit, Mine, Drop, SpendByOther, LedgerTypeOK, Fund, Unspent,
         MineFunding, MineSpend, ReplaceFunding, EvictSpend, ForeignSpend
    <2> QED
      BY <2>1, <2>2, <2>3, <2>4, <1>a, BooksStay DEF BooksInv
  <1> QED
    BY <1>1, <1>2, <1>3, <1>4 DEF Next

LEMMA BooksInvariant == Spec => [](TypeOK /\ SafetyInv /\ SpendInv /\ BooksInv)
  <1>1. Init => BooksInv
    BY BooksInit
  <1>2. TypeOK /\ SafetyInv /\ SpendInv /\ BooksInv /\ [Next]_vars => BooksInv'
    BY BooksStep
  <1> QED
    BY <1>1, <1>2, SpendInvariant, PTL DEF Spec

-----------------------------------------------------------------------------
\* A sum over deposits may count any of them first.
LEMMA SumTakesAny ==
    ASSUME NEW D, IsFiniteSet(D), NEW flow, \A d \in D : flow[d] \in Nat
    PROVE  /\ SumOver({}, flow) = 0
           /\ SumOver(D, flow) \in Nat
           /\ \A d \in D : SumOver(D, flow) = flow[d] + SumOver(D \ {d}, flow)
  <1> DEFINE item(d) == [id |-> d, amount |-> flow[d]]
             items(E) == {item(d) : d \in E}
             f == [d \in D |-> item(d)]
  <1>1. IsFiniteSet(items(D))
    <2>1. {f[d] : d \in D} = items(D)
      OBVIOUS
    <2>2. IsFiniteSet({f[d] : d \in D})
      <3> HIDE DEF f
      <3> QED
        BY ImageIsFinite
    <2> QED
      BY <2>1, <2>2
  <1>2. \A c \in items(D) : c.amount \in Nat
    OBVIOUS
  <1>3. \A d \in D : items(D) \ {item(d)} = items(D \ {d})
    OBVIOUS
  <1>4. \A d \in D : item(d) \in items(D) /\ item(d).amount = flow[d]
    OBVIOUS
  <1>5. items({}) = {}
    OBVIOUS
  <1>6. \A E : SumOver(E, flow) = TotalAmount(items(E))
    BY DEF SumOver
  <1> HIDE DEF items, item
  <1>7. /\ TotalAmount({}) = 0
        /\ TotalAmount(items(D)) \in Nat
        /\ \A c \in items(D) : TotalAmount(items(D)) = c.amount + TotalAmount(items(D) \ {c})
    BY <1>1, <1>2, TotalTakesAny
  <1>8. \A d \in D : TotalAmount(items(D)) = flow[d] + TotalAmount(items(D \ {d}))
    BY <1>3, <1>4, <1>7
  <1> QED
    BY <1>5, <1>6, <1>7, <1>8

\* A trade of Banco takes in and pays out what the terms of an order say that it was
\* made for, whichever of those that share the deposit OrderOf chooses.
LEMMA TradesFollowTerms ==
    ASSUME TypeOK, SafetyInv, SpendInv, TradedAtAddress, NEW d \in BancoSpends, NEW asset
    PROVE  /\ AmountOf(asset, Terms[OrderOf(d)].input) = AmountOf(asset, funding[d])
           /\ AmountOf(asset, Terms[OrderOf(d)].output) = AmountOf(asset, spend[d].tx.payout)
           /\ AmountOf(asset, Terms[OrderOf(d)].input) \in Nat
           /\ AmountOf(asset, Terms[OrderOf(d)].output) \in Nat
           /\ AmountOf(asset, spend[d].tx.fee) \in Nat
  <1> DEFINE o == OrderOf(d)
             paid == spend[d].tx.payout
  <1>1. d \in Deposits
    BY DEF BancoSpends
  <1>2. PICK p \in OrderIds : <<p, d>> \in traded /\ paid = FulfillLeaf(Terms[p])
    BY DEF SpendInv, SpendsPay
  <1>3. o \in OrderIds /\ <<o, d>> \in traded
    BY <1>2 DEF OrderOf
  <1> HIDE DEF o
  <1>4. /\ Terms[o].input = Value(funding[d].asset, funding[d].amount)
        /\ Terms[p].input = Terms[o].input
    BY <1>1, <1>2, <1>3 DEF SafetyInv, TradedDepositsAreExact
  <1>5. Address(Terms[p]) = Address(Terms[o])
    BY <1>1, <1>2, <1>3 DEF TradedAtAddress
  <1>6. FulfillLeaf(Terms[p]) = FulfillLeaf(Terms[o])
    <2>1. FulfillLeaf(Terms[p]) \in {FulfillLeaf(Terms[o]), RefundLeaf(Terms[o])}
          /\ FulfillLeaf(Terms[o]) \in {FulfillLeaf(Terms[p]), RefundLeaf(Terms[p])}
      BY <1>5 DEF Address, CreateFundingOutput
    <2>2. CASE FulfillLeaf(Terms[p]) = RefundLeaf(Terms[o])
               /\ FulfillLeaf(Terms[o]) = RefundLeaf(Terms[p])
      <3>1. Terms[o].trader = Terms[p].trader
        BY <2>2 DEF FulfillLeaf, RefundLeaf, FulfillScript, RefundScript, Output
      <3>2. RefundLeaf(Terms[o]) = RefundLeaf(Terms[p])
        BY <1>4, <3>1 DEF RefundLeaf, RefundScript, Output
      <3> QED
        BY <2>2, <3>2
    <2> QED
      BY <2>1, <2>2
  <1>7. paid = FulfillLeaf(Terms[o])
    BY <1>2, <1>6
  <1>8. AmountOf(asset, Terms[o].output) = AmountOf(asset, paid)
    BY <1>7 DEF AmountOf, FulfillLeaf, FulfillScript, Output
  <1>9. AmountOf(asset, Terms[o].input) = AmountOf(asset, funding[d])
    BY <1>4 DEF AmountOf, Value
  <1>10. /\ AmountOf(asset, Terms[o].input) \in Nat
         /\ AmountOf(asset, Terms[o].output) \in Nat
    BY <1>3, TermsAssumption DEF AmountOf
  <1>11. AmountOf(asset, spend[d].tx.fee) \in Nat
    <2>1. spend[d].tx \in TxType
      BY <1>1 DEF TypeOK, LedgerTypeOK, BancoSpends
    <2> QED
      BY <2>1 DEF TxType, OutputType, AmountOf
  <1> QED
    BY <1>8, <1>9, <1>10, <1>11 DEF o

\* What some of Banco's transactions spend are coins of the wallet.
LEMMA SpentAreWalletCoins ==
    ASSUME CoinsAreTraced, NEW d \in BancoSpends
    PROVE  CoinsSpentBy(d) \subseteq CoinsIn(BancoSpends)
  BY DEF CoinsAreTraced, CoinsIn

\* The books of some of the transactions balance, counting the coins they spend, by
\* induction over the transactions.
LEMMA SpendsBalanceTogether ==
    ASSUME TypeOK, SafetyInv, SpendInv, BooksInv, NEW asset \in Assets
    PROVE  TotalOf(asset, CoinsIn(BancoSpends))
             + SumOver(BancoSpends, [d \in BancoSpends |-> AmountOf(asset, Terms[OrderOf(d)].output)])
             + SumOver(BancoSpends, [d \in BancoSpends |-> AmountOf(asset, spend[d].tx.fee)])
           = TotalOf(asset, GenesisCoins)
             + SumOver(BancoSpends, [d \in BancoSpends |-> AmountOf(asset, Terms[OrderOf(d)].input)])
             + TotalOf(asset, SpentCoins)
  <1> DEFINE paidOut == [d \in BancoSpends |-> AmountOf(asset, Terms[OrderOf(d)].output)]
             feesOf == [d \in BancoSpends |-> AmountOf(asset, spend[d].tx.fee)]
             takenIn == [d \in BancoSpends |-> AmountOf(asset, Terms[OrderOf(d)].input)]
             spentIn(D) == UNION {CoinsSpentBy(d) : d \in D}
             balance(D) == TotalOf(asset, CoinsIn(D)) + SumOver(D, paidOut) + SumOver(D, feesOf)
                           = TotalOf(asset, GenesisCoins) + SumOver(D, takenIn)
                             + TotalOf(asset, spentIn(D))
             Holds == {D \in SUBSET BancoSpends : balance(D)}
  <1>1. IsFiniteSet(BancoSpends) /\ \A D \in SUBSET BancoSpends : IsFiniteSet(D)
    BY FS_Subset DEF BooksInv, CoinsAreTraced
  <1>2. \A d \in BancoSpends : /\ paidOut[d] \in Nat /\ feesOf[d] \in Nat /\ takenIn[d] \in Nat
                               /\ paidOut[d] = AmountOf(asset, spend[d].tx.payout)
                               /\ feesOf[d] = AmountOf(asset, spend[d].tx.fee)
                               /\ takenIn[d] = AmountOf(asset, funding[d])
    BY TradesFollowTerms DEF BooksInv
  <1> HIDE DEF paidOut, feesOf, takenIn
  <1>3. ASSUME NEW D \in SUBSET BancoSpends
        PROVE  /\ IsFiniteSet(CoinsIn(D)) /\ \A c \in CoinsIn(D) : c.amount \in Nat
               /\ IsFiniteSet(spentIn(D)) /\ \A c \in spentIn(D) : c.amount \in Nat
    <2>1. \A E \in SUBSET BancoSpends :
             IsFiniteSet(CoinsIn(E)) /\ \A c \in CoinsIn(E) : c.amount \in Nat
      BY <1>1, WalletCoins
    <2>2. spentIn(D) \subseteq CoinsIn(BancoSpends)
      BY SpentAreWalletCoins DEF BooksInv
    <2> QED
      BY <2>1, <2>2, FS_Subset
  <1>4. ASSUME NEW D \in SUBSET BancoSpends
        PROVE  /\ TotalOf(asset, CoinsIn(D)) \in Nat
               /\ TotalOf(asset, spentIn(D)) \in Nat
               /\ SumOver(D, paidOut) \in Nat
               /\ SumOver(D, feesOf) \in Nat
               /\ SumOver(D, takenIn) \in Nat
    <2>1. TotalOf(asset, CoinsIn(D)) \in Nat /\ TotalOf(asset, spentIn(D)) \in Nat
      BY <1>3, TotalOfAsset
    <2> QED
      BY <1>1, <1>2, <2>1, SumTakesAny
  <1>5. ASSUME NEW D \in SUBSET BancoSpends, \A E \in SUBSET D : E # D => E \in Holds
        PROVE  D \in Holds
    <2>1. CASE D = {}
      <3>1. CoinsIn(D) = GenesisCoins /\ spentIn(D) = {}
        BY <2>1 DEF CoinsIn
      <3>2. SumOver(D, paidOut) = 0 /\ SumOver(D, feesOf) = 0 /\ SumOver(D, takenIn) = 0
        BY <1>1, <1>2, <2>1, SumTakesAny
      <3>3. TotalOf(asset, {}) = 0
        BY FS_EmptySet, TotalTakesAny DEF TotalOf
      <3>4. TotalOf(asset, GenesisCoins) \in Nat
        BY <1>4, <3>1
      <3> QED
        BY <3>1, <3>2, <3>3, <3>4
    <2>2. CASE D # {}
      <3>1. PICK d \in D : TRUE
        BY <2>2
      <3> DEFINE E == D \ {d}
                 created == TotalOf(asset, CoinsCreatedBy(d))
                 consumed == TotalOf(asset, CoinsSpentBy(d))
      <3>2. balance(E)
        BY <1>5
      <3>3. TotalOf(asset, CoinsIn(D)) = TotalOf(asset, CoinsIn(E)) + created
        <4>1. CoinsIn(D) = CoinsIn(E) \cup CoinsCreatedBy(d)
          BY DEF CoinsIn
        <4>2. CoinsCreatedBy(d) \cap CoinsIn(E) = {}
          BY <1>1, WalletCoins
        <4>3. CoinsIn(D) \ CoinsIn(E) = CoinsCreatedBy(d) /\ CoinsIn(E) \subseteq CoinsIn(D)
          BY <4>1, <4>2
        <4>4. IsFiniteSet(CoinsIn(D)) /\ \A c \in CoinsIn(D) : c.amount \in Nat
          BY <1>3
        <4> HIDE DEF E
        <4>5. TotalOf(asset, CoinsIn(D))
                = TotalOf(asset, CoinsIn(E)) + TotalOf(asset, CoinsIn(D) \ CoinsIn(E))
          BY <4>3, <4>4, TotalOfAsset
        <4> QED
          BY <4>3, <4>5
      <3>4. TotalOf(asset, spentIn(D)) = TotalOf(asset, spentIn(E)) + consumed
        <4>1. spentIn(D) = spentIn(E) \cup CoinsSpentBy(d)
          OBVIOUS
        <4>2. CoinsSpentBy(d) \cap spentIn(E) = {}
          BY DEF BooksInv, CoinsAreTraced
        <4>3. spentIn(D) \ spentIn(E) = CoinsSpentBy(d) /\ spentIn(E) \subseteq spentIn(D)
          BY <4>1, <4>2
        <4> HIDE DEF E, spentIn
        <4> QED
          BY <1>3, <4>3, TotalOfAsset
      <3>5. /\ SumOver(D, paidOut) = paidOut[d] + SumOver(E, paidOut)
            /\ SumOver(D, feesOf) = feesOf[d] + SumOver(E, feesOf)
            /\ SumOver(D, takenIn) = takenIn[d] + SumOver(E, takenIn)
        BY <1>1, <1>2, SumTakesAny
      <3>6. consumed + takenIn[d] = paidOut[d] + created + feesOf[d]
        <4> DEFINE tx == spend[d].tx
        <4>1. consumed + AmountOf(asset, funding[d])
                = AmountOf(asset, tx.payout) + AmountOf(asset, tx.proceeds)
                  + AmountOf(asset, tx.tradeChange) + AmountOf(asset, tx.feeChange)
                  + AmountOf(asset, tx.fee)
          BY DEF BooksInv, SpendsBalance
        <4>2. created = AmountOf(asset, tx.proceeds) + AmountOf(asset, tx.tradeChange)
                          + AmountOf(asset, tx.feeChange)
          BY CoinsCreated
        <4>3. tx \in TxType
          BY DEF TypeOK, LedgerTypeOK, BancoSpends
        <4>4. /\ AmountOf(asset, tx.proceeds) \in Nat
              /\ AmountOf(asset, tx.tradeChange) \in Nat
              /\ AmountOf(asset, tx.feeChange) \in Nat
          BY <4>3 DEF TxType, OutputType, AmountOf
        <4> HIDE DEF tx, created, consumed
        <4> QED
          BY <1>2, <4>1, <4>2, <4>4 DEF tx
      <3>7. created \in Nat /\ consumed \in Nat
        <4>1. CoinsSpentBy(d) \subseteq spentIn(D)
          OBVIOUS
        <4>2. IsFiniteSet(CoinsSpentBy(d)) /\ \A c \in CoinsSpentBy(d) : c.amount \in Nat
          BY <1>3, <4>1, FS_Subset
        <4>3. IsFiniteSet(CoinsCreatedBy(d)) /\ \A c \in CoinsCreatedBy(d) : c.amount \in Nat
          BY CoinsCreated
        <4> QED
          BY <4>2, <4>3, TotalOfAsset
      <3>8. E \in SUBSET BancoSpends /\ {} \in SUBSET BancoSpends /\ d \in BancoSpends
            /\ CoinsIn({}) = GenesisCoins
        BY DEF CoinsIn
      <3>9. TotalOf(asset, GenesisCoins) \in Nat
        BY <1>4, <3>8
      <3> HIDE DEF E, created, consumed, spentIn
      <3>10. /\ TotalOf(asset, CoinsIn(E)) \in Nat
             /\ TotalOf(asset, spentIn(E)) \in Nat
             /\ SumOver(E, paidOut) \in Nat
             /\ SumOver(E, feesOf) \in Nat
             /\ SumOver(E, takenIn) \in Nat
             /\ paidOut[d] \in Nat /\ feesOf[d] \in Nat /\ takenIn[d] \in Nat
        BY <1>2, <1>4, <3>8
      <3>11. TotalOf(asset, CoinsIn(D)) + SumOver(D, paidOut) + SumOver(D, feesOf)
               = (TotalOf(asset, CoinsIn(E)) + SumOver(E, paidOut) + SumOver(E, feesOf))
                 + (paidOut[d] + created + feesOf[d])
        BY <3>3, <3>5, <3>7, <3>10
      <3>12. TotalOf(asset, GenesisCoins) + SumOver(D, takenIn) + TotalOf(asset, spentIn(D))
               = (TotalOf(asset, GenesisCoins) + SumOver(E, takenIn)
                    + TotalOf(asset, spentIn(E)))
                 + (consumed + takenIn[d])
        BY <3>4, <3>5, <3>7, <3>9, <3>10
      <3>13. balance(D)
        BY <3>2, <3>6, <3>11, <3>12
      <3> QED
        BY <3>13
    <2> QED
      BY <2>1, <2>2
  <1>6. BancoSpends \in Holds
    <2> HIDE DEF Holds
    <2>1. SUBSET BancoSpends \subseteq Holds
      BY <1>1, <1>5, SubsetsByInduction
    <2> QED
      BY <2>1
  <1>7. spentIn(BancoSpends) = SpentCoins
    BY DEF SpentCoins, CoinsSpentBy
  <1> QED
    BY <1>6, <1>7 DEF paidOut, feesOf, takenIn

\* Whatever happens to them, Banco's trades leave in its wallet what the terms of
\* their orders say, less the fees, none of which reaches three times FEE_AMOUNT.
THEOREM BooksAlwaysBalance == Spec => []BooksBalance
  <1>1. TypeOK /\ SafetyInv /\ SpendInv /\ BooksInv => BooksBalance
    <2> SUFFICES ASSUME TypeOK, SafetyInv, SpendInv, BooksInv PROVE BooksBalance
      OBVIOUS
    <2> DEFINE sum(flow) == SumOver(BancoSpends, flow)
               paidOut(asset) == [d \in BancoSpends |-> AmountOf(asset, Terms[OrderOf(d)].output)]
               feesOf(asset) == [d \in BancoSpends |-> AmountOf(asset, spend[d].tx.fee)]
               takenIn(asset) == [d \in BancoSpends |-> AmountOf(asset, Terms[OrderOf(d)].input)]
               owned == CoinsIn(BancoSpends) \ SpentCoins
    <2>1. IsFiniteSet(BancoSpends)
      BY DEF BooksInv, CoinsAreTraced
    <2>2. IsFiniteSet(CoinsIn(BancoSpends)) /\ \A c \in CoinsIn(BancoSpends) : c.amount \in Nat
      BY <2>1, WalletCoins
    <2>3. SpentCoins \subseteq CoinsIn(BancoSpends)
      BY SpentAreWalletCoins DEF SpentCoins, CoinsSpentBy, BooksInv
    <2>4. ASSUME NEW asset \in Assets
          PROVE  TotalOf(asset, owned) + sum(paidOut(asset)) + sum(feesOf(asset))
                   = TotalOf(asset, GenesisCoins) + sum(takenIn(asset))
      <3>1. TotalOf(asset, CoinsIn(BancoSpends)) + sum(paidOut(asset)) + sum(feesOf(asset))
              = TotalOf(asset, GenesisCoins) + sum(takenIn(asset)) + TotalOf(asset, SpentCoins)
        BY SpendsBalanceTogether
      <3>2. TotalOf(asset, CoinsIn(BancoSpends))
              = TotalOf(asset, SpentCoins) + TotalOf(asset, owned)
        BY <2>2, <2>3, TotalOfAsset
      <3>3. TotalOf(asset, SpentCoins) \in Nat /\ TotalOf(asset, owned) \in Nat
            /\ TotalOf(asset, GenesisCoins) \in Nat
        <4>1. \A S \in SUBSET CoinsIn(BancoSpends) :
                 IsFiniteSet(S) /\ \A c \in S : c.amount \in Nat
          BY <2>2, FS_Subset
        <4>2. GenesisCoins \subseteq CoinsIn(BancoSpends)
          BY DEF CoinsIn
        <4> QED
          BY <2>3, <4>1, <4>2, TotalOfAsset
      <3>4. /\ sum(paidOut(asset)) \in Nat
            /\ sum(feesOf(asset)) \in Nat
            /\ sum(takenIn(asset)) \in Nat
        <4>1. \A d \in BancoSpends : /\ paidOut(asset)[d] \in Nat
                                     /\ feesOf(asset)[d] \in Nat
                                     /\ takenIn(asset)[d] \in Nat
          BY TradesFollowTerms DEF BooksInv
        <4> HIDE DEF paidOut, feesOf, takenIn
        <4> QED
          BY <2>1, <4>1, SumTakesAny
      <3> HIDE DEF sum, owned, paidOut, feesOf, takenIn
      <3> QED
        BY <3>1, <3>2, <3>3, <3>4
    <2>5. \A d \in BancoSpends : spend[d].tx.fee.amount < 3 * FEE_AMOUNT
      BY DEF BooksInv, SpendsBalance
    <2> QED
      BY <2>4, <2>5 DEF BooksBalance
  <1> QED
    BY <1>1, BooksInvariant, PTL
=============================================================================
