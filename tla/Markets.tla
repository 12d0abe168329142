------------------------------- MODULE Markets -------------------------------
(***************************************************************************)
(* The limits of the markets, shown by GET / and GET /pair (app.go,        *)
(* main.go).  A request makes a table of the markets and asks the wallet   *)
(* for two balances for each of them, one call after the other, while the  *)
(* wallet's balances change and other requests do the same.                *)
(***************************************************************************)
EXTENDS Naturals, Sequences

CONSTANTS
    Requests,
    Pairs,         \* the markets of GetMarkets: a sequence of [base, quote]
    MaxBalance,    \* bound: the greatest balance
    MaxChanges     \* bound: how often balances change

Currencies == UNION {{Pairs[i].base, Pairs[i].quote} : i \in DOMAIN Pairs}

ASSUME PairsAssumption ==
    Pairs \in Seq([base : Currencies, quote : Currencies]) /\ Pairs # <<>>
ASSUME BoundsAssumption == MaxBalance \in Nat /\ MaxChanges \in Nat

\* A balance that the wallet's answer lacks, as it never had the asset.
Absent == MaxBalance + 1

VARIABLES
    balance,       \* currency -> the confirmed balance, or Absent
    changes,       \* bound: how often it changed
    pc,            \* request -> its next call
    shows,         \* request -> what its page shows: all, or a pair and a trade type
    mkts,          \* request -> the table it has
    limit,         \* table -> market -> its limits to buy and to sell
    at,            \* request -> the market that is looked at
    base,          \* request -> the balance of the market's base asset
    page,          \* request -> the limits on its page, in their currencies
    since          \* history: request -> currency -> its balances since it began

requestVars == <<pc, shows, mkts, limit, at, base, page>>
vars == <<balance, changes, requestVars, since>>

\* The whole table, or one limit of one market.
Views == {[view |-> "all"]} \cup [view : {"one"}, pair : DOMAIN Pairs, type : {"Buy", "Sell"}]

NoLimits == [i \in DOMAIN Pairs |-> [buy |-> 0, sell |-> 0]]

Init ==
    /\ balance \in [Currencies -> {MaxBalance, Absent}]
    /\ changes = 0
    /\ pc = [r \in Requests |-> "idle"]
    /\ shows = [r \in Requests |-> [view |-> "all"]]
    /\ mkts = [r \in Requests |-> r]
    /\ limit = [t \in Requests |-> NoLimits]
    /\ at = [r \in Requests |-> 1]
    /\ base = [r \in Requests |-> 0]
    /\ page = [r \in Requests |-> {}]
    /\ since = [r \in Requests |-> [c \in Currencies |-> {}]]

-----------------------------------------------------------------------------
\* A trade or a payment changes a balance.
Change(c, v) ==
    /\ changes < MaxChanges
    /\ changes' = changes + 1
    /\ balance' = [balance EXCEPT ![c] = v]
    /\ since' = [r \in Requests |-> IF pc[r] = "idle" THEN since[r]
                                    ELSE [since[r] EXCEPT ![c] = @ \cup {v}]]
    /\ UNCHANGED requestVars

\* Mutant: the table is made once and shared by all requests.
GetMarketsOnce(r) ==
    /\ mkts' = [mkts EXCEPT ![r] = CHOOSE t \in Requests : TRUE]
    /\ UNCHANGED limit

\* Each call makes a table of its own, whose limits are 0.
GetMarkets(r) ==
    /\ mkts' = [mkts EXCEPT ![r] = r]
    /\ limit' = [limit EXCEPT ![r] = NoLimits]

\* Mutant: the loop goes on where the last one of the table ended.
StartWhereItEnded(r, view) ==
    /\ pc[r] = "idle"
    /\ GetMarkets(r)
    /\ shows' = [shows EXCEPT ![r] = view]
    /\ page' = [page EXCEPT ![r] = {}]
    /\ pc' = [pc EXCEPT ![r] = "base"]
    /\ since' = [since EXCEPT ![r] = [c \in Currencies |-> {balance[c]}]]
    /\ UNCHANGED <<balance, changes, at, base>>

\* GET / or GET /pair begins.
Start(r, view) ==
    /\ pc[r] = "idle"
    /\ GetMarkets(r)
    /\ shows' = [shows EXCEPT ![r] = view]
    /\ at' = [at EXCEPT ![r] = 1]
    /\ page' = [page EXCEPT ![r] = {}]
    /\ pc' = [pc EXCEPT ![r] = "base"]
    /\ since' = [since EXCEPT ![r] = [c \in Currencies |-> {balance[c]}]]
    /\ UNCHANGED <<balance, changes, base>>

\* The wallet's answer has the balance, unless it never had the asset.
Balance(c) == {balance[c]} \ {Absent}

\* The call fails or its answer lacks the asset: the page is an error, for which
\* market ever it was.
Error(r) ==
    /\ pc[r] \in {"base", "quote"}
    /\ pc' = [pc EXCEPT ![r] = "idle"]
    /\ UNCHANGED <<balance, changes, shows, mkts, limit, at, base, page, since>>

ReadBase(r) ==
    /\ pc[r] = "base"
    /\ \E b \in Balance(Pairs[at[r]].base) : base' = [base EXCEPT ![r] = b]
    /\ pc' = [pc EXCEPT ![r] = "quote"]
    /\ UNCHANGED <<balance, changes, shows, mkts, limit, at, page, since>>

\* The second balance: both limits of the market are set, in the table in hand.
ReadQuote(r) ==
    /\ pc[r] = "quote"
    /\ \E q \in Balance(Pairs[at[r]].quote) :
          limit' = [limit EXCEPT ![mkts[r]][at[r]] = [buy |-> base[r], sell |-> q]]
    /\ at' = [at EXCEPT ![r] = @ + 1]
    /\ pc' = [pc EXCEPT ![r] = IF at[r] < Len(Pairs) THEN "base" ELSE "render"]
    /\ UNCHANGED <<balance, changes, shows, mkts, base, page, since>>

BuyLimit(r, i) == [currency |-> Pairs[i].base, limit |-> limit[mkts[r]][i].buy]
SellLimit(r, i) == [currency |-> Pairs[i].quote, limit |-> limit[mkts[r]][i].sell]

\* GET / shows the table; GET /pair the limit in the currency that the trade takes
\* from Banco, or an empty page while the pair has no price.
Render(r) ==
    /\ pc[r] = "render"
    /\ page' = [page EXCEPT ![r] =
          CASE shows[r].view = "all" ->
                  UNION {{BuyLimit(r, i), SellLimit(r, i)} : i \in DOMAIN Pairs}
            [] shows[r].view = "one" ->
                  {IF shows[r].type = "Sell" THEN SellLimit(r, shows[r].pair)
                                             ELSE BuyLimit(r, shows[r].pair)}]
    /\ pc' = [pc EXCEPT ![r] = "idle"]
    /\ UNCHANGED <<balance, changes, shows, mkts, limit, at, base, since>>

NoPrice(r) ==
    /\ pc[r] = "render"
    /\ shows[r].view = "one"
    /\ pc' = [pc EXCEPT ![r] = "idle"]
    /\ UNCHANGED <<balance, changes, shows, mkts, limit, at, base, page, since>>

Next ==
    \/ \E c \in Currencies, v \in 0 .. MaxBalance : Change(c, v)
    \/ \E r \in Requests :
          \/ \E view \in Views : Start(r, view)
          \/ Error(r) \/ ReadBase(r) \/ ReadQuote(r) \/ Render(r) \/ NoPrice(r)

Spec == Init /\ [][Next]_vars

-----------------------------------------------------------------------------
\* The type of every variable; a request in its loop looks at one of the markets.
TypeOK ==
    /\ balance \in [Currencies -> 0 .. MaxBalance + 1]
    /\ changes \in 0 .. MaxChanges
    /\ pc \in [Requests -> {"idle", "base", "quote", "render"}]
    /\ shows \in [Requests -> Views]
    /\ mkts \in [Requests -> Requests]
    /\ limit \in [Requests -> [DOMAIN Pairs -> [buy : 0 .. MaxBalance, sell : 0 .. MaxBalance]]]
    /\ at \in [Requests -> 1 .. Len(Pairs) + 1]
    /\ \A r \in Requests : pc[r] \in {"base", "quote"} => at[r] \in DOMAIN Pairs
    /\ base \in [Requests -> 0 .. MaxBalance]
    /\ DOMAIN page = Requests
    /\ \A r \in Requests : page[r] \subseteq [currency : Currencies, limit : 0 .. MaxBalance]
    /\ since \in [Requests -> [Currencies -> SUBSET (0 .. MaxBalance + 1)]]

\* What a request in progress has read so far was held while it ran.
ReadsWereHeld ==
    \A r \in Requests :
        /\ mkts[r] = r
        /\ pc[r] # "idle" => \A c \in Currencies : balance[c] \in since[r][c]
        /\ pc[r] = "quote" => base[r] \in since[r][Pairs[at[r]].base]
        /\ pc[r] = "render" => at[r] > Len(Pairs)
        /\ pc[r] # "idle" =>
              \A i \in DOMAIN Pairs :
                  i < at[r] => /\ limit[r][i].buy \in since[r][Pairs[i].base]
                               /\ limit[r][i].sell \in since[r][Pairs[i].quote]

\* Each limit on a page is what the wallet had of that currency at some moment of
\* the request: not of an older request, not of one that runs beside it, and not
\* the 0 that tables start with.
LimitsWereHeld ==
    \A r \in Requests : \A l \in page[r] : l.limit \in since[r][l.currency]
=============================================================================
