---------------------------- MODULE MarketsProofs ----------------------------
(***************************************************************************)
(* The limits on the pages were held, for any requests, markets, balances  *)
(* and number of changes.                                                  *)
(***************************************************************************)
EXTENDS Markets, TLAPS

Inv == TypeOK /\ ReadsWereHeld /\ LimitsWereHeld

\* The markets are numbered from 1 and name currencies.
LEMMA MarketList ==
    /\ Len(Pairs) \in Nat /\ Len(Pairs) >= 1 /\ DOMAIN Pairs = 1 .. Len(Pairs)
    /\ \A i \in DOMAIN Pairs : Pairs[i].base \in Currencies /\ Pairs[i].quote \in Currencies
  <1> DEFINE S == [base : Currencies, quote : Currencies]
  <1>1. Pairs \in Seq(S) /\ Pairs # <<>>
    BY PairsAssumption
  <1> HIDE DEF S
  <1>2. Len(Pairs) \in Nat /\ DOMAIN Pairs = 1 .. Len(Pairs) /\ Pairs \in [1 .. Len(Pairs) -> S]
    BY <1>1
  <1>3. Len(Pairs) # 0
    BY <1>1
  <1> QED
    BY <1>2, <1>3 DEF S

\* Balances that are there are amounts.
LEMMA BalanceType ==
    ASSUME TypeOK, NEW c \in Currencies, NEW b \in Balance(c)
    PROVE  b = balance[c] /\ b \in 0 .. MaxBalance
  <1>1. b = balance[c] /\ b # MaxBalance + 1 /\ b \in 0 .. MaxBalance + 1
    BY DEF Balance, Absent, TypeOK
  <1> QED
    BY <1>1, BoundsAssumption

LEMMA InitInv == Init => Inv
  <1> SUFFICES ASSUME Init PROVE Inv
    OBVIOUS
  <1>1. MaxBalance \in 0 .. MaxBalance + 1 /\ Absent \in 0 .. MaxBalance + 1
        /\ 0 \in 0 .. MaxBalance /\ 0 \in 0 .. MaxChanges /\ 1 \in 1 .. Len(Pairs) + 1
    BY BoundsAssumption, MarketList DEF Absent
  <1>2. balance \in [Currencies -> 0 .. MaxBalance + 1]
    BY <1>1 DEF Init
  <1>3. NoLimits \in [DOMAIN Pairs -> [buy : 0 .. MaxBalance, sell : 0 .. MaxBalance]]
    BY <1>1 DEF NoLimits
  <1>4. [view |-> "all"] \in Views
    BY DEF Views
  <1>5. TypeOK
    BY <1>1, <1>2, <1>3, <1>4 DEF Init, TypeOK
  <1> QED
    BY <1>5 DEF Init, Inv, ReadsWereHeld, LimitsWereHeld

-----------------------------------------------------------------------------
\* A balance that changes is one more of those held.
LEMMA ChangeInv ==
    ASSUME Inv, NEW c \in Currencies, NEW v \in 0 .. MaxBalance, Change(c, v)
    PROVE  Inv'
  <1> USE DEF Inv
  <1>1. v \in 0 .. MaxBalance + 1 /\ changes' \in 0 .. MaxChanges
    BY BoundsAssumption DEF Change, TypeOK
  <1>2. balance' \in [Currencies -> 0 .. MaxBalance + 1]
    BY <1>1 DEF Change, TypeOK
  <1>3. since' \in [Requests -> [Currencies -> SUBSET (0 .. MaxBalance + 1)]]
    BY <1>1 DEF Change, TypeOK
  <1>4. TypeOK'
    BY <1>1, <1>2, <1>3 DEF Change, requestVars, TypeOK
  <1>5. \A r \in Requests, d \in Currencies : since[r][d] \subseteq since'[r][d]
    BY DEF Change, TypeOK
  <1>6. UNCHANGED <<pc, shows, mkts, limit, at, base, page>>
    BY DEF Change, requestVars
  <1>7. LimitsWereHeld'
    BY <1>5, <1>6 DEF LimitsWereHeld, TypeOK
  <1>8. ASSUME NEW r \in Requests, pc[r] # "idle", NEW d \in Currencies
        PROVE  balance'[d] \in since'[r][d]
    <2>1. since'[r][c] = since[r][c] \cup {v} /\ balance'[c] = v
      BY <1>8 DEF Change, TypeOK
    <2>2. d # c => balance'[d] = balance[d]
      BY DEF Change, TypeOK
    <2> QED
      BY <1>5, <1>8, <2>1, <2>2 DEF ReadsWereHeld
  <1>9. ReadsWereHeld'
    <2> SUFFICES ASSUME NEW r \in Requests
                 PROVE  /\ mkts'[r] = r
                        /\ pc'[r] # "idle" => \A d \in Currencies : balance'[d] \in since'[r][d]
                        /\ pc'[r] = "quote" => base'[r] \in since'[r][Pairs[at'[r]].base]
                        /\ pc'[r] = "render" => at'[r] > Len(Pairs)
                        /\ pc'[r] # "idle" =>
                              \A i \in DOMAIN Pairs :
                                  i < at'[r] =>
                                      /\ limit'[r][i].buy \in since'[r][Pairs[i].base]
                                      /\ limit'[r][i].sell \in since'[r][Pairs[i].quote]
      BY DEF ReadsWereHeld
    <2>1. pc[r] = "quote" => Pairs[at[r]].base \in Currencies
      BY MarketList DEF TypeOK
    <2> QED
      BY <1>5, <1>6, <1>8, <2>1, MarketList DEF ReadsWereHeld
  <1> QED
    BY <1>4, <1>7, <1>9

\* What holds of the other requests still does when a step is one request's own.
LEMMA OthersHeld ==
    ASSUME Inv, NEW r \in Requests, balance' = balance,
           \A q \in Requests \ {r} :
               /\ pc'[q] = pc[q] /\ mkts'[q] = mkts[q] /\ limit'[q] = limit[q]
               /\ at'[q] = at[q] /\ base'[q] = base[q] /\ page'[q] = page[q]
               /\ since'[q] = since[q],
           mkts'[r] = r,
           pc'[r] # "idle" => \A c \in Currencies : balance[c] \in since'[r][c],
           pc'[r] = "quote" => base'[r] \in since'[r][Pairs[at'[r]].base],
           pc'[r] = "render" => at'[r] > Len(Pairs),
           pc'[r] # "idle" =>
               \A i \in DOMAIN Pairs :
                   i < at'[r] => /\ limit'[r][i].buy \in since'[r][Pairs[i].base]
                                 /\ limit'[r][i].sell \in since'[r][Pairs[i].quote],
           \A l \in page'[r] : l.limit \in since'[r][l.currency]
    PROVE  ReadsWereHeld' /\ LimitsWereHeld'
  <1>1. ReadsWereHeld'
    <2> SUFFICES ASSUME NEW q \in Requests
                 PROVE  /\ mkts'[q] = q
                        /\ pc'[q] # "idle" => \A d \in Currencies : balance'[d] \in since'[q][d]
                        /\ pc'[q] = "quote" => base'[q] \in since'[q][Pairs[at'[q]].base]
                        /\ pc'[q] = "render" => at'[q] > Len(Pairs)
                        /\ pc'[q] # "idle" =>
                              \A i \in DOMAIN Pairs :
                                  i < at'[q] =>
                                      /\ limit'[q][i].buy \in since'[q][Pairs[i].base]
                                      /\ limit'[q][i].sell \in since'[q][Pairs[i].quote]
      BY DEF ReadsWereHeld
    <2>1. CASE q = r
      BY <2>1
    <2>2. CASE q # r
      BY <2>2 DEF Inv, ReadsWereHeld
    <2> QED
      BY <2>1, <2>2
  <1>2. LimitsWereHeld'
    BY DEF Inv, LimitsWereHeld
  <1> QED
    BY <1>1, <1>2

\* A request begins with a table of its own and nothing on its page.
LEMMA StartInv ==
    ASSUME Inv, NEW r \in Requests, NEW view \in Views, Start(r, view)
    PROVE  Inv'
  <1>1. NoLimits \in [DOMAIN Pairs -> [buy : 0 .. MaxBalance, sell : 0 .. MaxBalance]]
    BY BoundsAssumption DEF NoLimits
  <1>2. limit' \in [Requests -> [DOMAIN Pairs -> [buy : 0 .. MaxBalance, sell : 0 .. MaxBalance]]]
    BY <1>1 DEF Inv, TypeOK, Start, GetMarkets
  <1>3. [c \in Currencies |-> {balance[c]}] \in [Currencies -> SUBSET (0 .. MaxBalance + 1)]
    BY DEF Inv, TypeOK
  <1>4. since' \in [Requests -> [Currencies -> SUBSET (0 .. MaxBalance + 1)]]
    BY <1>3 DEF Inv, TypeOK, Start
  <1>5. 1 \in DOMAIN Pairs /\ 1 \in 1 .. Len(Pairs) + 1
    BY MarketList
  <1>6. at' \in [Requests -> 1 .. Len(Pairs) + 1]
    BY <1>5 DEF Inv, TypeOK, Start
  <1>7. TypeOK'
    BY <1>2, <1>4, <1>5, <1>6 DEF Inv, TypeOK, Start, GetMarkets
  <1>8. /\ pc'[r] = "base" /\ mkts'[r] = r /\ at'[r] = 1 /\ page'[r] = {}
        /\ since'[r] = [c \in Currencies |-> {balance[c]}]
        /\ balance' = balance
        /\ \A q \in Requests \ {r} :
              /\ pc'[q] = pc[q] /\ mkts'[q] = mkts[q] /\ limit'[q] = limit[q]
              /\ at'[q] = at[q] /\ base'[q] = base[q] /\ page'[q] = page[q]
              /\ since'[q] = since[q]
    BY DEF Inv, TypeOK, Start, GetMarkets
  <1>9. \A i \in DOMAIN Pairs : ~(i < 1)
    BY MarketList
  <1>10. ReadsWereHeld' /\ LimitsWereHeld'
    BY <1>8, <1>9, OthersHeld
  <1> QED
    BY <1>7, <1>10 DEF Inv

\* The base balance is one that is held now.
LEMMA ReadBaseInv ==
    ASSUME Inv, NEW r \in Requests, ReadBase(r)
    PROVE  Inv'
  <1> DEFINE c == Pairs[at[r]].base
  <1>1. at[r] \in DOMAIN Pairs /\ c \in Currencies /\ pc[r] = "base"
    BY MarketList DEF Inv, TypeOK, ReadBase
  <1>2. PICK b \in Balance(c) : base' = [base EXCEPT ![r] = b]
    BY DEF ReadBase
  <1>3. b = balance[c] /\ b \in 0 .. MaxBalance
    BY <1>1, <1>2, BalanceType DEF Inv
  <1>4. TypeOK'
    BY <1>1, <1>2, <1>3 DEF Inv, TypeOK, ReadBase
  <1>5. /\ pc'[r] = "quote" /\ base'[r] = b
        /\ UNCHANGED <<balance, mkts, limit, at, page, since>>
        /\ \A q \in Requests \ {r} : pc'[q] = pc[q] /\ base'[q] = base[q]
    BY <1>2 DEF Inv, TypeOK, ReadBase
  <1>6. ReadsWereHeld' /\ LimitsWereHeld'
    <2>1. /\ mkts[r] = r /\ \A d \in Currencies : balance[d] \in since[r][d]
          /\ \A i \in DOMAIN Pairs :
                 i < at[r] => /\ limit[r][i].buy \in since[r][Pairs[i].base]
                              /\ limit[r][i].sell \in since[r][Pairs[i].quote]
      BY <1>1 DEF Inv, ReadsWereHeld
    <2>2. \A l \in page[r] : l.limit \in since[r][l.currency]
      BY DEF Inv, LimitsWereHeld
    <2> QED
      BY <1>1, <1>3, <1>5, <2>1, <2>2, OthersHeld
  <1> QED
    BY <1>4, <1>6 DEF Inv

\* With the quote balance the limits of a market are set in the request's table.
LEMMA ReadQuoteInv ==
    ASSUME Inv, NEW r \in Requests, ReadQuote(r)
    PROVE  Inv'
  <1> DEFINE m == at[r]
             c == Pairs[m].quote
  <1>1. m \in DOMAIN Pairs /\ c \in Currencies /\ pc[r] = "quote" /\ mkts[r] = r
    BY MarketList DEF Inv, TypeOK, ReadsWereHeld, ReadQuote
  <1>2. PICK b \in Balance(c) :
            limit' = [limit EXCEPT ![mkts[r]][at[r]] = [buy |-> base[r], sell |-> b]]
    BY DEF ReadQuote
  <1>3. b = balance[c] /\ b \in 0 .. MaxBalance /\ base[r] \in 0 .. MaxBalance
    BY <1>1, <1>2, BalanceType DEF Inv, TypeOK
  <1>4. /\ limit \in [Requests -> [DOMAIN Pairs -> [buy : 0 .. MaxBalance, sell : 0 .. MaxBalance]]]
        /\ [buy |-> base[r], sell |-> b] \in [buy : 0 .. MaxBalance, sell : 0 .. MaxBalance]
    BY <1>3 DEF Inv, TypeOK
  <1>5. /\ limit' \in [Requests -> [DOMAIN Pairs -> [buy : 0 .. MaxBalance, sell : 0 .. MaxBalance]]]
        /\ limit'[r][m] = [buy |-> base[r], sell |-> b]
        /\ \A i \in DOMAIN Pairs \ {m} : limit'[r][i] = limit[r][i]
        /\ \A q \in Requests \ {r} : limit'[q] = limit[q]
    BY <1>1, <1>2, <1>4
  <1>6. /\ at' = [at EXCEPT ![r] = m + 1]
        /\ pc' = [pc EXCEPT ![r] = IF m < Len(Pairs) THEN "base" ELSE "render"]
        /\ UNCHANGED <<balance, changes, shows, mkts, base, page, since>>
    BY DEF ReadQuote
  <1>7. m + 1 \in 1 .. Len(Pairs) + 1 /\ (m < Len(Pairs) => m + 1 \in DOMAIN Pairs)
        /\ (~(m < Len(Pairs)) => m + 1 > Len(Pairs)) /\ m \in Nat
    BY <1>1, MarketList
  <1>8. /\ at'[r] = m + 1 /\ pc'[r] = (IF m < Len(Pairs) THEN "base" ELSE "render")
        /\ \A q \in Requests \ {r} : at'[q] = at[q] /\ pc'[q] = pc[q]
        /\ at' \in [Requests -> 1 .. Len(Pairs) + 1]
        /\ pc' \in [Requests -> {"idle", "base", "quote", "render"}]
    BY <1>6, <1>7 DEF Inv, TypeOK
  <1>9. \A q \in Requests : pc'[q] \in {"base", "quote"} => at'[q] \in DOMAIN Pairs
    BY <1>7, <1>8 DEF Inv, TypeOK
  <1>10. TypeOK'
    BY <1>5, <1>6, <1>8, <1>9 DEF Inv, TypeOK
  <1>11. ASSUME NEW i \in DOMAIN Pairs, i < m + 1
         PROVE  /\ limit'[r][i].buy \in since[r][Pairs[i].base]
                /\ limit'[r][i].sell \in since[r][Pairs[i].quote]
    <2>1. i = m \/ i < m
      BY <1>7, <1>11, MarketList
    <2>2. CASE i = m
      <3>1. base[r] \in since[r][Pairs[m].base] /\ balance[c] \in since[r][c]
        BY <1>1 DEF Inv, ReadsWereHeld
      <3> QED
        BY <1>3, <1>5, <2>2, <3>1
    <2>3. CASE i < m
      <3>1. i # m
        BY <1>7, <2>3
      <3>2. /\ limit[r][i].buy \in since[r][Pairs[i].base]
            /\ limit[r][i].sell \in since[r][Pairs[i].quote]
        BY <1>1, <2>3 DEF Inv, ReadsWereHeld
      <3> QED
        BY <1>5, <3>1, <3>2
    <2> QED
      BY <2>1, <2>2, <2>3
  <1>12. ReadsWereHeld' /\ LimitsWereHeld'
    <2>1. \A d \in Currencies : balance[d] \in since[r][d]
      BY <1>1 DEF Inv, ReadsWereHeld
    <2>2. \A l \in page[r] : l.limit \in since[r][l.currency]
      BY DEF Inv, LimitsWereHeld
    <2>3. pc'[r] # "quote" /\ (pc'[r] = "render" => at'[r] > Len(Pairs))
      BY <1>7, <1>8
    <2> QED
      BY <1>1, <1>5, <1>6, <1>8, <1>11, <2>1, <2>2, <2>3, OthersHeld
  <1> QED
    BY <1>10, <1>12 DEF Inv

\* A page shows limits of the request's own table, which is complete by then.
LEMMA RenderInv ==
    ASSUME Inv, NEW r \in Requests, Render(r)
    PROVE  Inv'
  <1>1. /\ pc[r] = "render" /\ pc' = [pc EXCEPT ![r] = "idle"] /\ mkts[r] = r
        /\ UNCHANGED <<balance, changes, shows, mkts, limit, at, base, since>>
        /\ DOMAIN page' = Requests /\ \A q \in Requests \ {r} : page'[q] = page[q]
    BY DEF Inv, TypeOK, ReadsWereHeld, Render
  <1>2. /\ limit[r] \in [DOMAIN Pairs -> [buy : 0 .. MaxBalance, sell : 0 .. MaxBalance]]
        /\ \A i \in DOMAIN Pairs : /\ limit[r][i].buy \in since[r][Pairs[i].base]
                                 /\ limit[r][i].sell \in since[r][Pairs[i].quote]
    <2>1. at[r] > Len(Pairs) /\ at[r] \in Nat
      BY <1>1, MarketList DEF Inv, TypeOK, ReadsWereHeld
    <2>2. \A i \in DOMAIN Pairs : i < at[r]
      BY <2>1, MarketList
    <2> QED
      BY <1>1, <2>2 DEF Inv, TypeOK, ReadsWereHeld
  <1>3. ASSUME NEW i \in DOMAIN Pairs, NEW l \in {BuyLimit(r, i), SellLimit(r, i)}
        PROVE  l \in [currency : Currencies, limit : 0 .. MaxBalance]
               /\ l.limit \in since[r][l.currency]
    <2>1. /\ limit[r][i].buy \in 0 .. MaxBalance /\ limit[r][i].sell \in 0 .. MaxBalance
          /\ Pairs[i].base \in Currencies /\ Pairs[i].quote \in Currencies
      BY <1>2, MarketList
    <2>2. CASE l = BuyLimit(r, i)
      BY <1>1, <1>2, <2>1, <2>2 DEF BuyLimit
    <2>3. CASE l = SellLimit(r, i)
      BY <1>1, <1>2, <2>1, <2>3 DEF SellLimit
    <2> QED
      BY <2>2, <2>3
  <1>4. \A l \in page'[r] : \E i \in DOMAIN Pairs : l \in {BuyLimit(r, i), SellLimit(r, i)}
    <2>1. shows[r] \in Views
      BY DEF Inv, TypeOK
    <2>2. CASE shows[r].view = "all"
      <3>1. page'[r] = UNION {{BuyLimit(r, i), SellLimit(r, i)} : i \in DOMAIN Pairs}
        BY <2>2 DEF Inv, TypeOK, Render
      <3> QED
        BY <3>1
    <2>3. CASE shows[r].view = "one"
      <3>1. shows[r].pair \in DOMAIN Pairs
        BY <2>1, <2>3 DEF Views
      <3>2. page'[r] = {IF shows[r].type = "Sell" THEN SellLimit(r, shows[r].pair)
                                                 ELSE BuyLimit(r, shows[r].pair)}
        BY <2>3 DEF Inv, TypeOK, Render
      <3> QED
        BY <3>1, <3>2
    <2> QED
      BY <2>1, <2>2, <2>3 DEF Views
  <1>5. /\ page'[r] \subseteq [currency : Currencies, limit : 0 .. MaxBalance]
        /\ \A l \in page'[r] : l.limit \in since[r][l.currency]
    BY <1>3, <1>4
  <1>6. TypeOK'
    BY <1>1, <1>5 DEF Inv, TypeOK
  <1>7. pc'[r] = "idle" /\ \A q \in Requests \ {r} : pc'[q] = pc[q]
    BY <1>1 DEF Inv, TypeOK
  <1>8. ReadsWereHeld' /\ LimitsWereHeld'
    BY <1>1, <1>5, <1>7, OthersHeld
  <1> QED
    BY <1>6, <1>8 DEF Inv

\* A request that ends with an error, or without a price, leaves its page.
LEMMA GiveUpInv ==
    ASSUME Inv, NEW r \in Requests, Error(r) \/ NoPrice(r)
    PROVE  Inv'
  <1>1. /\ pc' = [pc EXCEPT ![r] = "idle"] /\ mkts[r] = r
        /\ UNCHANGED <<balance, changes, shows, mkts, limit, at, base, page, since>>
    BY DEF Inv, ReadsWereHeld, Error, NoPrice
  <1>2. TypeOK'
    BY <1>1 DEF Inv, TypeOK
  <1>3. pc'[r] = "idle" /\ \A q \in Requests \ {r} : pc'[q] = pc[q]
    BY <1>1 DEF Inv, TypeOK
  <1>4. \A l \in page[r] : l.limit \in since[r][l.currency]
    BY DEF Inv, LimitsWereHeld
  <1>5. ReadsWereHeld' /\ LimitsWereHeld'
    BY <1>1, <1>3, <1>4, OthersHeld
  <1> QED
    BY <1>2, <1>5 DEF Inv

LEMMA StepInv == Inv /\ [Next]_vars => Inv'
  <1> SUFFICES ASSUME Inv, [Next]_vars PROVE Inv'
    OBVIOUS
  <1>1. CASE UNCHANGED vars
    <2>1. TypeOK'
      BY <1>1 DEF vars, requestVars, Inv, TypeOK
    <2>2. ReadsWereHeld'
      BY <1>1 DEF vars, requestVars, Inv, ReadsWereHeld
    <2>3. LimitsWereHeld'
      BY <1>1 DEF vars, requestVars, Inv, LimitsWereHeld
    <2> QED
      BY <2>1, <2>2, <2>3 DEF Inv
  <1> QED
    BY <1>1, ChangeInv, StartInv, ReadBaseInv, ReadQuoteInv, RenderInv, GiveUpInv DEF Next

-----------------------------------------------------------------------------
\* Type correctness, for any requests and markets.
THEOREM MarketsTypeCorrect == Spec => []TypeOK
  <1>1. Inv => TypeOK
    BY DEF Inv
  <1> QED
    BY <1>1, InitInv, StepInv, PTL DEF Spec

\* Every limit on a page was the wallet's balance of that currency while the page
\* was made, whichever requests and changes interleave.
THEOREM PagesShowHeldLimits == Spec => []LimitsWereHeld
  <1>1. Inv => LimitsWereHeld
    BY DEF Inv
  <1> QED
    BY <1>1, InitInv, StepInv, PTL DEF Spec
=============================================================================
