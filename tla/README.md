# Banco in TLA+

A verification project for Banco, a server that takes one side of non-interactive
atomic swaps on Liquid. A trader places an order; the order's terms fix a taproot
address; the trader pays to it; Banco's *watcher* sees the deposit and spends it
with a *fulfill transaction* that pays the trader from Banco's wallet.

The modules are translated from the Go source; comments there name the functions.

## 1. Inventory

| Component (source) | State | Operations | Interacts with |
|---|---|---|---|
| Trade contract and fulfill transaction (`offer.go`, `order.go`, `trade.go`) | none, pure | `FulfillScript`, `RefundScript`, `CreateFundingOutput`, `PrepareFulfillTransaction` | the network validates it |
| Watcher (`main.go` 66-88 and 459-465, `app.go` 131-201, `trade.go` 191-318) | the snapshot of a pass, the order in hand, the unspents left, the coins selected | `startWatching`, `watchForTrades`, `executeTrades`, `ExecuteTrade` | database, explorer, wallet, one blocking call after the other |
| Order database (`db.go`, SQLite) | orders, one status for each | `saveOrder`, `updateOrderStatus`, `fetchOrdersToFulfill`, two reads for pages | watcher and HTTP handlers, each on a connection of its own |
| Wallet client (`ocean.go`) and the Ocean daemon | coins, locks (held by the daemon) | `SelectUtxos`, `GetAddress`, `SignPset`, `BroadcastTransaction`, `WatchScript`, `TransactionNotifications` | watcher, handlers |
| Explorer client (`esplora.go`) and the Liquid network | deposits, spends, mempool, blocks | `FetchUnspents`, `FetchPrevout`, history | watcher |
| Quote (`order.go` 34-82, `main.go` 154-284) | that of a request | `POST /trade`, `NewOrder` | rates, database |
| Rates (`rates.go`) | last prices, channels, websocket | `Subscribe`, `MarketPrice` | its own goroutines, handlers |
| Notifications (`ocean.go` 238-286, `main.go` 379-436) | a goroutine and a channel for each stream | SSE handler, `WatchScript` | wallet daemon, browsers |
| Serialization (`pkg/bufferutil`) | the free list of buffers | readers and writers of integers and slices | fulfill transaction |
| Script numbers (`scriptnum.go`) | none | `Bytes`, `Int32` | contract |
| Markets (`app.go` 46-116, `main.go` 105-152, 286-296) | a table for each request | two pages that show limits | wallet |
| Startup (`main.go` 23-102, `db.go` 30-80, `ocean.go` 104-154) | configuration, tables, the wallet's account | `main`, `initDB`, `NewWalletService` | database, wallet daemon, operator |
| Pages (`main.go`, `web/`) | none | display | database, explorer |

What is hard here: the watcher works on a snapshot of the orders and on lists of
unspents that age while it talks to others; each of its calls may fail, be lost after
it took effect, or be the last before a crash; status writes come after the effects
they record, and two of them are not checked; a deposit may be of any asset and
amount, may be spent by others, may be replaced; several deposits for one order are
traded one by one; two orders may share an address; coin locks outlive failed trades.
`PROJECT.json` lists these hazards at their lines with the properties about them.

What makes each part correct, in short:

- contract: whoever spends a deposit pays the trader; what Banco builds for an exact
  deposit is valid, leaves no dust, costs a bounded fee;
- watcher and database: Fulfilled means traded; closed orders stay closed; the
  snapshot is never stale; every order eventually closes;
- wallet: coins are neither lost nor counted twice, a failed trade delays others only;
- quote: the terms saved are those shown, as far as the page shows them, and pay Banco its fee; rates: the price is
  recent; notifications: a page sees what was sent, in order, and no page outlives
  its client; serialization: what is written is read back, a buffer has one user;
- markets: a limit shown was held; startup: an interrupted start hinders no later one.

## 2. Modules

Built in this order; a module EXTENDS those above it that it composes.

| Module | Models | Status |
|---|---|---|
| `Contract` | leaves, address, the fulfill transaction, balance | done |
| `Ledger` | the Liquid network seen from Banco (environment) | done |
| `Wallet` | coin selection and locks | done |
| `OrderStore` | the order database | done |
| `Banco` | the watcher, composed with the four above | done |
| `BancoProperties` | what the composition must satisfy | done |
| `OrderLifecycle` | abstract specification: the life of an order | done |
| `MCBanco` | small instances for TLC | done |
| `BancoProofs` | theorems about the contract, the watcher, the spends of deposits and the books | done |
| `Rates` | the two price feeds and the map they write | done |
| `Quote` | preview, terms of an order, slippage check, composed with `Rates` | done |
| `MCQuote`, `QuoteProofs` | small instances, theorems | done |
| `ScriptNum` | script numbers, operators only | done |
| `Clause`, `MCClause`, `ClauseProofs` | the two clauses as scripts and the network that runs them, composed with `ScriptNum`; shows that `Contract` is right about them | done |
| `Subscription` | abstract specification: what a listener to notifications may rely on | done |
| `Notifications`, `MCNotifications` | a stream's goroutine, channel and handler; implements `Subscription` | done |
| `FreeList`, `MCFreeList` | the pool of buffers, for any number of goroutines | done |
| `Serializer` | the encodings of `bufferutil`, operators only | done |
| `Codec`, `MCCodec`, `CodecProofs` | a serializer, a buffer on its way, a deserializer; pushes of script numbers; theorems | done |
| `Markets`, `MCMarkets` | limits read for pages while balances change | done |
| `Startup` | the order of `main`, failures and restarts | done |
| `NotificationsProofs`, `FreeListProofs`, `MarketsProofs`, `StartupProofs` | theorems | done |

### How state and actions correspond to the code

**Contract.** A script that inspects output 0 is represented by the one output it
accepts, `[asset, amount, script]`. A taproot branch hashes its leaves in sorted order
and the internal key is unspendable, so an address *is* the set of its two leaves.
Transactions have the five output roles that `PrepareFulfillTransaction` writes; an
output it does not add has amount 0.

**Ledger.** `funding`, `fate`, `spend` and `spendMined` say of each deposit what it is,
where its transaction is, what spends it, and whether that is mined. The actions are
those of other people and of the network: fund, replace, mine, spend through either
leaf (neither asks for a signature), evict. A mined transaction is final: a block
reorganization is not modelled. Confidential deposits, whose value the explorer does
not list, are not modelled. `Valid` is what the network checks of Banco's transaction: that
the leaf is satisfied, payout and proceeds are not empty, and every asset balances.

**Wallet.** `Selections` are the answers `SelectUtxos` may get: unlocked spendable coins
of the asset that cover the target, none superfluous. The daemon spends only mined coins.
`UnlockCoin` is the expiry of a lock (10 s in `docker-compose.yml`); time is not measured,
so a lock may expire at any moment, also between the two selections of a trade.

**OrderStore.** `status` is the row of `order_statuses`; `old` the orders whose timestamp
is over ten minutes ago, the only thing the code asks of time.

**Banco.** One action per call of the watcher, with its error path: `FetchOrders`
(`fetchOrdersToFulfill`), `TakeOrder` (`watchForTrades` begins, expiry is written),
`FetchUnspents`, `CheckFunds` (`coinsAreMoreThan`, Funded is written), `SelectForTrade`,
`SelectForFees`, `Broadcast` (prepare, sign, broadcast), `MarkFulfilled`, `EndPass`.
`pc` is the next call; `todo`, `cur`, `queue`, `pick`, `trade` and `fees` are the locals.
`queue` is a set: the order in which the explorer lists unspents is not the code's, so
any is allowed; likewise `todo`. `PlaceOrder` is `POST /trade`; the page handlers change
nothing. `traded` is a history variable: the broadcasts that the network accepted.
Orders' terms are the constant `Terms`, any whole amounts: `QuoteProofs` proves that what
`Quote` computes are such (`QuoteTypeCorrect`), so the two models need not run together.

Failures are alternatives of the actions, each of a kind in `Faults`: the process
crashes (`crash`; the wallet daemon keeps its locks), a database write fails (`db`), a
call fails without effect (`rpc`), or with its effect (`lostReply`), the explorer answers
from an old view (`lag`), an unconfirmed transaction is replaced or evicted (`drop`).
`MaxFaults` bounds how many occur in a behaviour; the theorems hold for every bound.

**Rates.** One action per step of the four goroutines of `Subscribe`; a send on an
unbuffered channel and its receive are one. `LastPrices` is a partial function. Its writes
are not atomic: `Assign` finds or makes the entry, `Store` stores the price. An access
that collides with `Assign` may end the process (`Throw`, followed by a restart) or not.
What the exchange sends is any sequence of asks, unparsable asks and other updates. Each
price carries the position in the feed where it was heard, which the code does not have.

**Quote.** A client previews (`Preview`) and posts (`Post` reads the price, then `Save`,
`SaveFails` or `Refuse`) while the feeds go on. Amounts and prices are the decimal numbers that
the form and the exchange send: a satoshi has `Parts` parts and a price of 1 has `Ticks`
ticks, and a value is counted in per cents of a part at the price of a tick, so products and
comparisons are exact. The error of the code's floating point is taken to be less than such a
unit; it shows where a value is cut or rounded. `uint64(x * 10^8)` may lose a satoshi when the
float product falls just below a whole number: `Satoshis` is the set of both results. The page
shows six decimals, of eight that the assets have: `Shown` is a nearest multiple of 100
satoshis, either one in the middle. In the slippage check the amount cancels, except that 0/0
is NaN, which passes its comparisons. A missing price is an error page, no step. `NewOrder`'s
errors for the trader's script, and those of the database, are `SaveFails`.

**Clause.** `compileFulfillClause` and `compileRefundClause` give the list of opcodes that
`offer.go` adds to its builder. `Compile` is the choice of clause and `FulfillScript`'s
switch on the first byte of the trader's script; `Push`, `Inspect`, `Drop`, `EqualVerify`,
`Equal`, `End` are the interpreter of the network (external), one instruction a step, on a
transaction of two outputs. An output's fields are a prefix and bytes, so a blinded one
differs from an explicit one in its prefix, which the clauses drop without a look, and in
its bytes: `OutputsAssumption` says that a commitment is never equal to an asset (both have
32 bytes, but nobody can choose a point of the curve to look like a tag) or to an amount,
which is shorter.
`OrdersAssumption` leaves out scripts that no address has (section 4).

**ScriptNum.** `Bytes` and `Int32` as in `scriptnum.go`, on words of `Width` bytes of `Base`
values; `Negate` wraps, indexing an empty slice is `Panic`. `Decode` and `Minimal` are the
network's reading of such bytes and its rule against superfluous ones. `Clause` uses
few of these numbers; `Codec` pushes all that the arithmetic of scripts can make
(`PushNumber`) and has the network read them.

**Notifications.** `handler` is the SSE handler: waiting in its `select`, writing an event
(`Take`, then `Write` or `WriteFails`), or gone. `pump` is the goroutine of
`TransactionNotifications`: in `Recv` or sending on the channel; the channel has no buffer,
so a send and its receive are one step, `Take`. `inbox` is what the gRPC stream holds.
`gone` is the cancelled context of the request. Neither the handler nor the request for
the stream reads the offer's id. `sent` and `shown` are history variables. The stream's
route is served; `web/offer.html:54`, which connects a page to it, is commented out at
this commit, so its clients are others. `Subscription` has no goroutine and no channel:
a listener sees the next of what was sent to it, or its listening ends.

**FreeList.** `free` is the channel. `PutUintN` and `UintN` are the same five steps, borrow
(`Start`), `Fill`, `Pass`, `Finish` and, for a reader, `ReadFails`, and interleave with those
of other goroutines at every step. Buffers keep what the last user wrote. A buffer that
the full list refused may be allocated again. The only caller today is the watcher
(`trade.go:285`), so the list's promise, `bufferutil.go:39` "concurrent safe", is what is
checked.

**Serializer, Codec.** Each function is an operator from a buffer to a value and the rest,
or to `Failure`. A byte has `Base` values; discriminants are `Base - 3` to `Base - 1` and a
32-bit word is four such digits, so the code's case distinctions are all there. `Write`
appends items, `Carry` hands the buffer over, whole or cut, `Read` expects the same types
again, `Receive` is a buffer of somebody else. `WriteSlice` writes no length, so the reader
must know it, as in the code. `ReadVector` is a recursive function, not an operator.

**Markets.** `mkts` is the table a request made and `limit` what is in it: `GetMarkets` makes a
new one each time, which the model could get wrong and a mutant does. `ReadBase` and
`ReadQuote` are the two blocking calls of `GetMarketWithLimits`, for market `at`. `Error` is
the first failure, of any kind. `since` is a history variable, the balances since the
request began.

**Startup.** `pc` is the next step of `main`; `tables` and `accounts` outlive the process.
`CreateAccount` may take effect and lose its reply; `Abort` is a failure or a kill at any
step. The configuration may change between starts. By default no watcher is started
(`WATCH_INTERVAL_SECONDS` is -1).

**OrderLifecycle.** What users of an order may rely on: one order at a time is held,
only open orders are taken, only the held order changes, Fulfilled needs a payment
unless the order asks for nothing. Refinement: `held` is `cur`, `paid` the orders in
`traded`. Everything else of Banco, its failures included, is invisible there.

## 3. Runs

`o1`, `o2` are orders, `d1`, `d2` deposits, FEE_AMOUNT is 2. So a change can be nothing,
dust (1) or kept (2 and more), and the amounts 3, 4, 5 reach each case. Operators whose
name follows a `Mutant:` comment are wrong variants that show a property can fail;
no specification uses them.

| Run | Instance | Question and result |
|---|---|---|
| `faults` | one trader's two opposite orders, which share an address, one deposit of 4 possible values, three coins, two failures of all six kinds | Do statuses stay truthful, is the trader paid, are only exact deposits traded, and does the watcher follow `OrderLifecycle`, whatever fails whenever? Yes. One deposit suffices to interleave two orders; two failures allow a failing recovery. 620 000 states. |
| `deposits` | one order placed twice, two exact deposits, one failure other than `drop` | Can one deposit make both orders Fulfilled, and do the books balance over two trades, the second with change of the first? It cannot, and they do. One coin is used up exactly, the other leaves change. 820 000 states; orders and deposits are symmetric. |
| `live` | one order, two exact deposits, one coin of each asset, one failure | Does the order settle for good? Yes, also when its second trade must wait for the first one's change to be mined and for locks to expire. 55 000 states. |
| `partial_trade` | one order, an exact and a smaller deposit, four coins, enough for two trades whichever are selected, no failure | Fails: the exact deposit is traded, the network refuses the transaction for the other one, and the order expires (finding 1). |
| `terms` | one client, amounts of 0, 1, 1.99 and 350 satoshis, prices 1.02, 1.5 and the constant 1, two updates, one fatal error | Do saved terms agree with what the page showed, is Banco paid, does every ask reach the quotes, are orders priced no earlier than previews? Yes, up to the last digit shown and the satoshi of a truncation; the fee of the two smallest amounts does not cover that satoshi, and a preview of 350 satoshis is rounded, up or down. At 1.02 a Sell passes the check. Clients do not interact, so one suffices; two updates let the price move between preview and post, and one be heard while the other is stored. 1 990 000 states. |
| `sell` | one client, one satoshi, one update to price 3 | Fails: a Sell is refused (finding 2). |
| `pages` | two pages, one offer, two transactions | Does a page see what was sent to it, all of it and in order, and does its handler end? Yes. Two events are enough to be in two of the places at once, or overtake; offers differ only in whether they are watched. 25 000 states. |
| `pool` | two goroutines, three buffers, a list of one, numbers of one and two bytes | Has a buffer one user, is a call's result its own, does each call return? Yes. Two goroutines find a list of one empty and full. No symmetry, as one check is of liveness. 135 000 states. |
| `codec` | two items of every type, `Base` 14, numbers on both sides of every width, buffers cut anywhere; script numbers of 4 digits made from 2-digit operands | Is what is written read, in full, is there one encoding, is a cut number an error? Yes. Items do not influence each other except through where they begin, so two suffice. A cut slice is read padded with zeros (section 4). 96 000 states. |
| `clause` | both clauses, four recipients, two amounts and assets, two outputs of 60 kinds, `Base` 4 | Is `Contract` right to take a clause for one output? Yes, for whatever can be an address. Amounts and programs are two or three digits: the clauses only compare them. 380 000 states. |
| `markets` | two requests, the two markets of the code, one change | Was a limit held when it is shown? Yes. One change suffices to make two reads differ. |
| `startup` | three failures | Do tables and account exist when they are used, is there one account, does Banco serve again? Yes. Three failures hit a start, its repetition, and the wallet. |

Deadlock is checked where the system should go on: Banco, quotes, free list, markets. It is
not where the system may really stop: pages whose clients have all left (`pages`), a clause
that has a verdict (`clause`), a buffer that is read (`codec`), and a started process to
which nothing happens (`startup`).

**Fairness** (`live`). The watcher is a loop that no condition stops, so a step it can take
is taken (`WF` of `Watcher`); this assumes that every call returns, which the code does
not enforce: no call has a timeout. Ten minutes pass, blocks are mined, a lock expires:
one weak fairness each. Failures and other people's actions are not fair. The instance
has exact deposits and enough funds, which the property needs: with an inexact deposit
the status alternates between Expired and Funded for ever. It also has payouts in an
asset other than L-BTC: in one asset, a lock that expires between the two selections may
let both take the same coin, and without a measure of time nothing stops this repeating.
In `pages` the goroutine and the
handler are, and so is the handler's exit: Go's `select` chooses among ready cases at
random, so a case that stays ready is taken some time, and gin's `Stream` looks at the
client between two calls. What the daemon and clients do is not fair. In `pool` the
steps of a call are fair: readers and writers answer, and goroutines are scheduled; a call
is never obliged to begin. In `startup` `main` goes on, the operator unlocks a locked wallet
(weak fairness) and, each time it is down, starts the process again, once in a while with a
known network (strong, since starts with another network come between).

## 4. Findings

Shown by a run, which states what a document says and finds it violated:

1. `app.go:194` (`partial_trade`): the first failing trade ends `executeTrades` with an error,
   trades made before it are forgotten, and the order ends as Expired, though
   `PROTOCOL.md:96` calls such a contract "considered fulfilled, and the trade is executed".
   In the run the trade that fails is that of a deposit with another amount than the order's,
   which the network refuses; any other error of a later trade has the same effect.
2. `order.go:75` (`sell`): the slippage check compares input/output with the price, which is
   the inverse of it when the trader sells: unless the price is about 1, no Sell is accepted
   (`order.go:74`, `76`: "expected output value with the slippage tolerance", "3%").

Observed while modelling. The models do these things too, and the properties are stated so
that they hold of them:

- `app.go:144`: deposits of any asset count towards Funded (the TODO at `app.go:143`). The
  network refuses the trade, so no funds move, but every pass tries again.
- `order.go:52`, `69`: input and output are truncated each for itself, and the rate check looks
  at what they were before. Below 100 satoshis this may cost Banco more than its fee: to buy 1 satoshi at 1.5 one pays 1, and
  1.99 satoshis sold at 1.02 are an order to pay 2 for 1. `BancoIsPaid` allows for
  that satoshi and for no more.
- `main.go:199`: a preview shows six decimals of eight, so it may differ by half a hundred
  satoshis from the order that follows; a small amount is shown as 0. `SavedAsPreviewed` says so.
- `order.go:52`: amounts truncated to 0 make an order that is Fulfilled
  at once, without a transaction. `FulfilledHasTrade` leaves such orders out.
- `rates.go:66`: the map is written without a lock, so a request may read a market's first
  entry before its price is stored; it gets 0 instead of the error of `rates.go:49`, and the
  check lets an order with nothing to pay be saved.
- `app.go:161`: Fulfilled is written when the transaction is accepted and never reconsidered;
  after a `drop` the order may be left without one. `FulfilledHaveTheirOwn` is checked and
  proved without that failure.
- `app.go:80`: the limit shown is the whole balance, but payout and fee are selected from
  different coins, so an order within it may fail as often as it is tried.
- `ocean.go:272`: a goroutine stays in its send for ever when the client leaves while it
  holds an event. `HandlersEnd` says that its page ends all the same.
- `main.go:380`: the route of an offer's transactions ignores the offer.
- `deserializer.go:51`: `ReadSlice` may read fewer than n bytes and pads with zeros, without
  an error; `ReadAsWritten` allows it where a buffer was cut. After such a slice, slices of no
  byte are still read (`NothingLeft` shows that nothing else is). Banco only writes.
- `scriptnum.go:68`: `Bytes` of the least int64 panics. Banco only serializes -1, 0 and 1.
- `offer.go:54`: a clause for a script that starts with 0x4f, which no address has, cannot be
  satisfied: the network pushes the hash of such a script, not a part of it.

The documents say both that only the maker can cancel (`README.md:26`) and that anyone can
use the cancel clause (`PROTOCOL.md:122`); the code, and so `ForeignSpend`, does the latter.

## 5. Theorems

Proved by TLAPS for all values of the constants, under the assumptions named in the
modules: FEE_AMOUNT is positive, terms are whole amounts, a deposit has a positive
amount (the network has no empty outputs), `Nothing` is no order and no deposit.

- `BancoProofs!BalancedIffExact`: the transaction balances in every asset iff the
  deposit has the asset and amount of the order. The coins pay for payout, changes and fee
  in each asset (the dust folds cancel out), so the deposit must be what the proceeds take.
- `BancoProofs!PayoutSatisfiesFulfillLeaf`.
- `BancoProofs!TypeCorrect`: `TypeOK` is inductive; one lemma per component, then one step
  per action.
- `FulfilledIsEarned`, `SnapshotIsCurrent`, `TradesAreExact`: from `SafetyInv`, inductive
  given `TypeOK`. The three are not inductive alone. Added are: the order in hand is out
  of the snapshot and not Fulfilled (`InHand`); at the end of the loop a trade was made,
  as an empty list covers only an amount of 0 (`LoopHasTraded`); the coins in hand equal
  target plus change (`CoinsCover`, which lets `BalancedIffExact` apply to the network's
  acceptance); traded deposits were made, and so keep their record (`TradedExist`).
- `WatcherImplementsLifecycle`: the refinement, from the same invariant.
- `ClosedStayClosed`: the action property, from the refinement's step and `InHand`.

- `QuoteProofs!OrdersPayBanco`: Banco gets what it owes and its fee, but for a satoshi. What
  is owed is cut too, so only the truncation of what Banco gets counts against it
  (`SatoshisBounds`), and it loses less than one satoshi or, when the float product is just
  below a whole number, exactly one (`BuyPays`, `SellPays`). The slippage check is not needed.
- `QuoteProofs!OrdersMatchPreviews`: an order at the price of its preview asks for what was
  shown, to half of the last digit and one satoshi (`ShownIsSaved`). The invariant adds that
  what is shown was computed from what is kept with it.
- `QuoteProofs!LastAskIsNeverLost`: the invariant adds that the goroutine, while it writes, has
  the last ask in hand unless another one waits (`WritesTheLast`), or an older one could
  replace the last.
- `QuoteProofs!OrdersFollowPreviews`: positions in the feed only grow from map to goroutine to
  listener (`PricesAdvance`), so the map is at least as recent as any page (`PagesAreBehind`).
- `QuoteProofs!QuoteTypeCorrect`. All five for any prices and amounts, and any `Ticks` and `Parts`
  that count them, as far as floating point is right to a unit of values.

- `BancoProofs!TradersAreMadeWhole`: from `SpendInv`, inductive given `TypeOK` and
  `SafetyInv`. The unspents in hand are at the address of the order in hand
  (`HeldAtAddress`), so that what Banco spends pays an order of that address and through
  one of its leaves (`SpendsPay`); two orders of one address have the same trader.
- `BancoProofs!FulfilledOrdersHaveTheirOwn`: when `drop` is none of the failures. The
  invariant is `TradedOnce`, inductive given `TypeOK`: a traded deposit is still spent by
  Banco, and for one order only, since the network accepts only spends of what is unspent.
  Besides, `Nothing` is no record of a spend (`NothingIsNoSpend`).
- `BancoProofs!ExactDepositsAreTradable`: from `CoinsCover` and `BalancedIffExact`, by cases
  on the two changes. Orders whose payout was truncated to nothing are left out: the network
  has no empty outputs.
- `BancoProofs!BooksAlwaysBalance`: from `BooksInv`, inductive given the three invariants
  above. The coins in hand have the asset they were selected for (`SelectedAssets`), so that
  what the network checks of amounts is a balance per asset (`SpendsBalance`); a transaction
  spends coins that no other spends, and that are from the start or created by a *mined* one,
  so that none is dropped under it (`CoinsAreTraced`); a deposit was traded at the address of
  its order (`TradedAtAddress`), so that orders that share one have the same terms, whichever
  `OrderOf` chooses. The sum is an induction over the transactions. The wallet starts with
  finitely many coins, whose ids are none of its later ones (`GenesisAssumption`); that
  Banco's transactions are finitely many is part of the invariant, not assumed.
- `NotificationsProofs!PagesImplementSubscription`: what is shown and what is held are
  prefixes of what was sent. The invariant is `NoneIsLost` (theorem `EventsAreKept`): an
  open page's events are, in order, shown, in the handler's hands, in the goroutine's, in
  the stream. It says nothing of a closed one, whose events may be lost.
- `FreeListProofs!BuffersHaveOneUser`, `CallsPassTheirOwn`: from `Safety`, inductive given
  `TypeOK`. `OneUser` is inductive alone; `OwnBytes` needs that between `Fill` and `Pass` the
  buffer keeps the bytes (`FilledIsKept`), which needs `OneUser`.
- `MarketsProofs!PagesShowHeldLimits`: from `ReadsWereHeld`, which says of each value read so
  far that it was held, and that a table has one request.
- `StartupProofs!StartedInOrder`, `NeverTwoAccounts`: from `EarlierStepsHold`, what each step
  leaves to the later ones; an account is created only where there is none.
- Type correctness of each of these (`NotificationsTypeCorrect`, `FreeListTypeCorrect`,
  `MarketsTypeCorrect`, `StartupTypeCorrect`).

- `ClauseProofs!ClausesAcceptOneOutput`: `ClauseInv` says of a script that runs which of the
  sixteen instructions are left, what the stack then is, in terms of what the first output
  shows, and which comparisons were passed (`After`). An instruction goes from one line of it
  to the next or stops at a difference (`RunsOn`); all comparisons passed are the same as the
  output being the one asked for (`SameIsRequested`). Assumed are the three named assumptions
  of `Clause`; the hash of a script may be anything, since the version -1 that goes with it
  is none of an order.
- `CodecProofs!ReadsAsWritten`, `ReadsTheWhole`: from `CodecInv`, that what arrived, followed
  by what was lost, are the encodings of the items that are due (`IsDue`). Each item is
  framed (`ItemsAreFramed`, one lemma per type): read from its encoding, whatever follows, it
  is itself and leaves what follows; from less than its encoding it is an error or, where it
  is made of bytes, leaves nothing. A vector and a list of items are taken apart from the
  front along a certificate, what is left after each part (`LeftAfter`).
- `CodecProofs!EncodesOneWay`: whatever `ReadVarInt` accepts is what `WriteVarInt` writes
  (`AnyVarInt`), by cases on the first byte; the proof needs the check against shorter forms.
- `CodecProofs!SizesAnnounced`, `ClampsToNearest`. All of these are for any items (`IsItem`:
  numbers of their width, fields with a prefix that the code knows), any number of them, and
  any `Base` above 11, 256 included. That the script numbers are read as they were pushed
  (`ReadOwnScriptNumber`) is for any integer but the least int64.

These hold for any number of streams, goroutines, buffers, requests, failures, any list of
markets and any capacity. The assumptions: numbers fit in a buffer, `Nothing` is no event
and no buffer, there is at least one market, half of a word is a number above 1 (which
follows from `Base` and `Width`, but the provers know nothing of powers).

Induction. The library's induction theorems take an operator as a parameter, which the
provers cannot instantiate. `BancoProofs` and `CodecProofs` derive induction over the
naturals, and `BancoProofs` over the subsets of a finite set, from `WFMin`, which needs
none: a set that is not empty has a least element, here the set of what does not satisfy
the claim. That a recursive function exists, and so what it computes, is proved by such an
induction too (`TotalExists`, `FlatteningExists`, `ReadingExists`, `DigitsExist`).

Only model-checked: liveness under fairness, which is out of this prover's reach
(`EveryOrderSettles`, `HandlersEnd`, `SentIsShown`, `CallsReturn`, `ServesAgain`). Every other
property of a passing run is a theorem.

## 6. Not modelled

Taproot hashing, PSET encoding, signatures, logging, HTML and the parsing of requests are
below the abstraction. `CancelTrade` and `Transfer` are never called. The pages of an order
and of its address read one row, or the explorer, and show it. Of `Quote`: amounts below 0
or not numbers, and errors of the floating point of a unit of values or more: doubles have
about 16 digits, so an amount and a price with many digits may lose, or gain, a satoshi where
the exact product is near a whole number of them but not equal to it. Of `Rates`: the damage that two unnoticed concurrent
writes may do to the structure of Go's map. Of the network: block reorganizations and
confidential deposits. A call that hangs for ever is not a behaviour of any model: the code
sets no timeout, and such a call stops the watcher, which fairness rules out here. An empty
answer to `DeriveAddresses` (`ocean.go:206`) is not modelled, as nothing says when the daemon
gives one.

Left to do: larger instances of `faults`, whose state space grows tenfold with a second
deposit.
