---------------------------- MODULE QuoteProofs -----------------------------
(***************************************************************************)
(* Theorems about the quotes, for any prices, amounts, clients and bounds. *)
(***************************************************************************)
EXTENDS Quote, TLAPS

-----------------------------------------------------------------------------
(* The arithmetic of the terms. *)

\* What Ticks, Parts and their product, a satoshi, are.
LEMMA UnitsArePositive ==
    /\ Ticks \in Nat \ {0} /\ Parts \in Nat \ {0}
    /\ Satoshi \in Nat \ {0}
    /\ Satoshi = Parts * (100 * Ticks)
<1>1. Ticks \in Nat \ {0} /\ Parts \in Nat \ {0}
  BY RatesAssumption, AmountsAssumption
<1>2. ASSUME NEW t \in Nat \ {0}, NEW q \in Nat \ {0}
      PROVE  100 * t * q \in Nat \ {0} /\ 100 * t * q = q * (100 * t)
  OBVIOUS
<1>3. QED  BY <1>1, <1>2 DEF Satoshi

\* A factor may be put before both sides of a comparison.
LEMMA FactorKeepsOrder ==
    ASSUME NEW k \in Nat, NEW x \in Int, NEW y \in Int, x <= y
    PROVE  k * x <= k * y
  OBVIOUS

\* And taken away again.
LEMMA FactorCancels ==
    ASSUME NEW k \in Nat \ {0}, NEW x \in Int, NEW y \in Int, k * x <= k * y
    PROVE  x <= y
<1> SUFFICES ASSUME y + 1 <= x
             PROVE  FALSE
  OBVIOUS
<1>1. k * (y + 1) <= k * x
  BY FactorKeepsOrder
<1>2. k * (y + 1) = k * y + k
  OBVIOUS
<1> DEFINE kx == k * x
           ky == k * y
<1>3. kx \in Int /\ ky \in Int
  OBVIOUS
<1> HIDE DEF kx, ky
<1>4. ky + k <= kx /\ kx <= ky
  BY <1>1, <1>2 DEF kx, ky
<1>5. QED  BY <1>3, <1>4

\* Quotient and remainder.
LEMMA DivisionBounds ==
    ASSUME NEW v \in Nat, NEW k \in Nat \ {0}
    PROVE  /\ v \div k \in Nat
           /\ v % k \in 0 .. k - 1
           /\ v = k * (v \div k) + (v % k)
  OBVIOUS

\* The truncation of a value is at most the value, and at most a satoshi below it.
LEMMA SatoshisBounds ==
    ASSUME NEW v \in Nat, NEW s \in Satoshis(v)
    PROVE  /\ s \in Nat
           /\ Satoshi * s <= v /\ v <= Satoshi * (s + 1)
<1> DEFINE k == Satoshi
           q == v \div k
           r == v % k
<1>1. k \in Nat \ {0}
  BY UnitsArePositive
<1>2. q \in Nat /\ r \in 0 .. k - 1 /\ v = k * q + r
  BY <1>1, DivisionBounds
<1>3. s = q \/ (v > 0 /\ r = 0 /\ s = q - 1)
  BY DEF Satoshis
<1> HIDE DEF k, q, r
<1>4. CASE s = q
  <2>1. k * (q + 1) = k * q + k
    BY <1>1, <1>2
  <2> DEFINE kq == k * q
  <2>2. kq \in Nat
    BY <1>1, <1>2
  <2> HIDE DEF kq
  <2>3. kq <= v /\ v <= kq + k
    BY <1>1, <1>2, <2>2 DEF kq
  <2>4. QED  BY <1>2, <1>4, <2>1, <2>3 DEF k, kq
<1>5. CASE v > 0 /\ r = 0 /\ s = q - 1
  <2>1. q # 0
    BY <1>1, <1>2, <1>5
  <2>2. s \in Nat /\ s + 1 = q
    BY <1>2, <1>5, <2>1
  <2>3. v = k * q
    BY <1>1, <1>2, <1>5
  <2>4. k * s <= k * q
    BY <1>1, <1>2, <2>2, FactorKeepsOrder
  <2>5. QED  BY <2>2, <2>3, <2>4, <1>1, <1>2 DEF k
<1>6. QED  BY <1>3, <1>4, <1>5

\* What is shown is the value to half of the last digit.
LEMMA ShownBounds ==
    ASSUME NEW v \in Nat, NEW n \in Shown(v)
    PROVE  /\ n \in Nat
           /\ Satoshi * (100 * n) <= v + Satoshi * 50
           /\ v <= Satoshi * (100 * n + 50)
<1> DEFINE k == Satoshi
<1>1. k \in Nat /\ 100 * k \in Nat \ {0}
  BY UnitsArePositive
<1>2. v \div (100 * k) \in Nat
  BY <1>1, DivisionBounds
<1>3. /\ n = v \div (100 * k) \/ n = v \div (100 * k) + 1
      /\ n * (100 * k) <= v + 50 * k
      /\ v <= n * (100 * k) + 50 * k
  BY DEF Shown
<1>4. n \in Nat
  BY <1>2, <1>3
<1> HIDE DEF k
<1>5. /\ n * (100 * k) = k * (100 * n)
      /\ k * (100 * n + 50) = k * (100 * n) + 50 * k
      /\ k * 50 = 50 * k
  BY <1>1, <1>4
<1>6. QED  BY <1>3, <1>4, <1>5 DEF k

\* The values of a form are whole in the model's unit.
LEMMA ValuesAreWhole ==
    ASSUME NEW f \in Forms \cup {NoForm}, NEW p \in Nat
    PROVE  /\ f.amount \in Nat
           /\ PreviewAmount(f, p) \in Nat
           /\ InputValue(f, p) \in Nat
           /\ OutputValue(f, p) \in Nat
<1>1. f.amount \in Nat
  BY AmountsAssumption DEF Forms, NoForm, Form
<1>2. ASSUME NEW a \in Nat, NEW q \in Nat
      PROVE  /\ a * q * 101 \in Nat /\ a * q * 99 \in Nat /\ a * q * 100 \in Nat
             /\ a * q * (100 + 1) \in Nat /\ a * q * (100 - 1) \in Nat
  <2> DEFINE aq == a * q
  <2>1. aq \in Nat
    OBVIOUS
  <2> HIDE DEF aq
  <2>2. /\ aq * 101 \in Nat /\ aq * 99 \in Nat /\ aq * 100 \in Nat
        /\ aq * (100 + 1) \in Nat /\ aq * (100 - 1) \in Nat
    BY <2>1
  <2>3. QED  BY <2>2 DEF aq
<1>3. Ticks \in Nat
  BY UnitsArePositive
<1>4. QED
  BY <1>1, <1>2, <1>3 DEF PreviewAmount, InputValue, OutputValue, FeePercentage

\* To buy, the trader sends what Banco's output is worth and a fee of 1 %, to a satoshi.
LEMMA BuyPays ==
    ASSUME NEW a \in Nat, NEW p \in Nat,
           NEW input \in Satoshis(a * p * 101), NEW output \in Satoshis(a * Ticks * 100)
    PROVE  101 * output * p <= 100 * (input + 1) * Ticks
<1> DEFINE T == Ticks
           P == Parts
           owed == P * output
           got == P * (100 * (input + 1) * T)
<1>1. T \in Nat \ {0} /\ P \in Nat \ {0} /\ Satoshi = P * (100 * T)
  BY UnitsArePositive
<1>2. a * p * 101 \in Nat /\ a * T * 100 \in Nat
  BY <1>1
<1>3. /\ input \in Nat /\ output \in Nat
      /\ Satoshi * output <= a * T * 100
      /\ a * p * 101 <= Satoshi * (input + 1)
  BY <1>2, SatoshisBounds DEF T
<1> HIDE DEF T, P
<1>4. owed <= a
  <2>1. Satoshi * output = (100 * T) * owed /\ a * T * 100 = (100 * T) * a
    BY <1>1, <1>3
  <2>2. 100 * T \in Nat \ {0} /\ owed \in Nat
    BY <1>1, <1>3
  <2> HIDE DEF owed
  <2>3. QED  BY <1>3, <2>1, <2>2, FactorCancels
<1>5. (101 * p) * owed <= (101 * p) * a
  <2>1. owed \in Nat /\ 101 * p \in Nat
    BY <1>1, <1>3
  <2> HIDE DEF owed
  <2>2. QED  BY <1>4, <2>1, FactorKeepsOrder
<1>6. a * p * 101 <= got
  <2>1. Satoshi * (input + 1) = got
    BY <1>1, <1>3
  <2>2. QED  BY <1>3, <2>1
<1>7. P * (101 * output * p) <= P * (100 * (input + 1) * T)
  <2>1. /\ (101 * p) * owed = P * (101 * output * p)
        /\ (101 * p) * a = a * p * 101
    BY <1>1, <1>3
  <2> DEFINE x == P * (101 * output * p)
             y == a * p * 101
  <2>2. x \in Int /\ y \in Int /\ got \in Int /\ x <= y
    BY <1>1, <1>3, <1>5, <2>1
  <2> HIDE DEF x, y, got
  <2>3. x <= got
    BY <1>6, <2>2 DEF y
  <2>4. QED  BY <2>3 DEF x, got
<1>8. 101 * output * p \in Int /\ 100 * (input + 1) * T \in Int
  BY <1>1, <1>3
<1>9. QED  BY <1>1, <1>7, <1>8, FactorCancels DEF T

\* To sell, what Banco owes is 1 % less than what the trader sends is worth, to a
\* satoshi of what is sent.
LEMMA SellPays ==
    ASSUME NEW a \in Nat, NEW p \in Nat,
           NEW input \in Satoshis(a * Ticks * 100), NEW output \in Satoshis(a * p * 99)
    PROVE  100 * output * Ticks <= 99 * (input + 1) * p
<1> DEFINE T == Ticks
           P == Parts
           sent == P * (input + 1)
           got == P * (99 * (input + 1) * p)
<1>1. T \in Nat \ {0} /\ P \in Nat \ {0} /\ Satoshi = P * (100 * T)
  BY UnitsArePositive
<1>2. a * p * 99 \in Nat /\ a * T * 100 \in Nat
  BY <1>1
<1>3. /\ input \in Nat /\ output \in Nat
      /\ Satoshi * output <= a * p * 99
      /\ a * T * 100 <= Satoshi * (input + 1)
  BY <1>2, SatoshisBounds DEF T
<1> HIDE DEF T, P
<1>4. a <= sent
  <2>1. Satoshi * (input + 1) = (100 * T) * sent /\ a * T * 100 = (100 * T) * a
    BY <1>1, <1>3
  <2>2. 100 * T \in Nat \ {0} /\ sent \in Nat
    BY <1>1, <1>3
  <2> HIDE DEF sent
  <2>3. QED  BY <1>3, <2>1, <2>2, FactorCancels
<1>5. (99 * p) * a <= (99 * p) * sent
  <2>1. sent \in Nat /\ 99 * p \in Nat
    BY <1>1, <1>3
  <2> HIDE DEF sent
  <2>2. QED  BY <1>4, <2>1, FactorKeepsOrder
<1>6. a * p * 99 <= got
  <2>1. (99 * p) * a = a * p * 99 /\ (99 * p) * sent = got
    BY <1>1, <1>3
  <2>2. QED  BY <1>5, <2>1
<1>7. P * (100 * output * T) <= P * (99 * (input + 1) * p)
  <2> DEFINE x == P * (100 * output * T)
             y == a * p * 99
  <2>1. Satoshi * output = x
    BY <1>1, <1>3
  <2>2. x \in Int /\ y \in Int /\ got \in Int /\ x <= y
    BY <1>1, <1>3, <2>1
  <2> HIDE DEF x, y, got
  <2>3. x <= got
    BY <1>6, <2>2 DEF y
  <2>4. QED  BY <2>3 DEF x, got
<1>8. 100 * output * T \in Int /\ 99 * (input + 1) * p \in Int
  BY <1>1, <1>3
<1>9. QED  BY <1>1, <1>7, <1>8, FactorCancels DEF T

\* Whatever the form and the price, the terms computed for it pay Banco.
LEMMA TermsPay ==
    ASSUME NEW f \in Forms \cup {NoForm}, NEW p \in Nat,
           NEW input \in Satoshis(InputValue(f, p)),
           NEW output \in Satoshis(OutputValue(f, p))
    PROVE  IF f.type = "Buy"
           THEN (100 + FeePercentage) * output * p <= 100 * (input + 1) * Ticks
           ELSE 100 * output * Ticks <= (100 - FeePercentage) * (input + 1) * p
<1>1. f.amount \in Nat
  BY ValuesAreWhole
<1>2. 100 + FeePercentage = 101 /\ 100 - FeePercentage = 99
  BY DEF FeePercentage
<1>3. CASE f.type = "Buy"
  <2>1. InputValue(f, p) = f.amount * p * 101 /\ OutputValue(f, p) = f.amount * Ticks * 100
    BY <1>2, <1>3 DEF InputValue, OutputValue
  <2>2. QED  BY <1>1, <1>2, <1>3, <2>1, BuyPays
<1>4. CASE f.type # "Buy"
  <2>1. InputValue(f, p) = f.amount * Ticks * 100 /\ OutputValue(f, p) = f.amount * p * 99
    BY <1>2, <1>4 DEF InputValue, OutputValue
  <2>2. QED  BY <1>1, <1>2, <1>4, <2>1, SellPays
<1>5. QED  BY <1>3, <1>4

-----------------------------------------------------------------------------
(* Types. *)

\* The prices of the feeds are prices, and these are numbers.
LEMMA PricesInclude ==
    /\ Zero \in Prices /\ One \in Prices
    /\ \A p \in AskPrices, n \in 0 .. MaxAsks : Price(p, n) \in Prices
    /\ \A q \in Prices : q.price \in Nat
<1>1. 0 \in Positions /\ 1 \in Positions /\ 0 .. MaxAsks \subseteq Positions
  <2>1. MaxAsks \in Nat
    BY RatesAssumption
  <2>2. QED  BY <2>1 DEF Positions
<1>2. \A q \in Prices : q.price \in Nat
  <2>1. AskPrices \cup {0, Ticks} \subseteq Nat
    BY RatesAssumption
  <2>2. \A q \in Prices : q.price \in AskPrices \cup {0, Ticks}
    BY DEF Prices
  <2>3. QED  BY <2>1, <2>2
<1>3. \A p \in AskPrices \cup {0, Ticks}, n \in Positions : Price(p, n) \in Prices
  BY DEF Prices, Price
<1>4. QED  BY <1>1, <1>2, <1>3 DEF Zero, One

LEMMA FeedType ==
    ASSUME RatesTypeOK, FeedNext
    PROVE  RatesTypeOK'
<1> USE RatesAssumption
<1>1. ASSUME NEW p \in AskPrices, HearAsk(p) PROVE RatesTypeOK'
  <2>1. heard' \in 0 .. MaxAsks
    BY <1>1 DEF HearAsk, RatesTypeOK
  <2>2. offered' \in Prices
    BY <1>1, <2>1, PricesInclude DEF HearAsk
  <2>3. QED  BY <1>1, <2>1, <2>2 DEF HearAsk, RatesTypeOK, mapVars, HasPrice
<1>2. CASE HearGarbled
  BY <1>2 DEF HearGarbled, RatesTypeOK, mapVars, HasPrice
<1>3. CASE HearOther
  BY <1>3 DEF HearOther, RatesTypeOK, mapVars, HasPrice
<1>4. CASE StopReading
  BY <1>4 DEF StopReading, RatesTypeOK, feedVars, HasPrice
<1>5. CASE SendAsk
  BY <1>5 DEF SendAsk, Receive, RatesTypeOK, HasPrice
<1>6. CASE SendOne
  BY <1>6, PricesInclude DEF SendOne, Receive, RatesTypeOK, feedVars, HasPrice
<1>7. ASSUME NEW m \in Markets, Assign(m) PROVE RatesTypeOK'
  <2>1. /\ DOMAIN LastPrices' = DOMAIN LastPrices \cup {m}
        /\ LastPrices' \in [DOMAIN LastPrices' -> Prices]
    BY <1>7, PricesInclude DEF Assign, RatesTypeOK
  <2>2. QED  BY <1>7, <2>1 DEF Assign, RatesTypeOK, feedVars, HasPrice
<1>8. ASSUME NEW m \in Markets, Store(m) PROVE RatesTypeOK'
  <2>1. /\ DOMAIN LastPrices' = DOMAIN LastPrices
        /\ LastPrices' \in [DOMAIN LastPrices' -> Prices]
    BY <1>8 DEF Store, RatesTypeOK
  <2>2. QED  BY <1>8, <2>1 DEF Store, RatesTypeOK, feedVars, HasPrice
<1>9. QED
  BY <1>1, <1>2, <1>3, <1>4, <1>5, <1>6, <1>7, <1>8 DEF FeedNext

\* A fatal error leaves a map and goroutines as they were at the start.
LEMMA ThrowType ==
    ASSUME RatesTypeOK, Throw
    PROVE  RatesTypeOK'
<1>1. LastPrices' \in [DOMAIN LastPrices' -> Prices] /\ DOMAIN LastPrices' = {}
  BY DEF Throw
<1>2. QED
  BY <1>1, PricesInclude, RatesAssumption DEF Throw, RatesTypeOK, HasPrice

LEMMA SavedType ==
    ASSUME TypeOK, NEW c \in Clients, Save(c)
    PROVE  TypeOK'
<1>1. form[c] \in Forms \cup {NoForm} /\ rate[c] \in Prices /\ rate[c].price \in Nat
  BY PricesInclude DEF TypeOK
<1>2. PICK input \in Satoshis(InputValue(form[c], rate[c].price)),
           output \in Satoshis(OutputValue(form[c], rate[c].price)) :
             orders' = orders \cup
                {[client |-> c, form |-> form[c], rate |-> rate[c], shown |-> shown[c],
                  input |-> input, output |-> output]}
  BY DEF Save
<1>3. input \in Nat /\ output \in Nat
  BY <1>1, ValuesAreWhole, SatoshisBounds
<1>4. RatesTypeOK'
  BY DEF Save, TypeOK, RatesTypeOK, ratesVars, mapVars, feedVars, HasPrice
<1>5. QED
  BY <1>1, <1>2, <1>3, <1>4 DEF Save, TypeOK

\* Type correctness of the feed and the requests; amounts never underflow.
THEOREM QuoteTypeCorrect == Spec => []TypeOK
<1>1. Init => TypeOK
  BY PricesInclude, RatesAssumption, AmountsAssumption
     DEF Init, RatesInit, TypeOK, RatesTypeOK, HasPrice, NoPreview, Previews
<1>2. TypeOK /\ [Next]_vars => TypeOK'
  <2> SUFFICES ASSUME TypeOK, [Next]_vars
               PROVE  TypeOK'
    OBVIOUS
  <2> USE DEF TypeOK
  <2>a. UNCHANGED ratesVars => RatesTypeOK'
    BY DEF RatesTypeOK, ratesVars, mapVars, feedVars, HasPrice
  <2>1. CASE FeedNext /\ UNCHANGED quoteVars
    BY <2>1, FeedType DEF quoteVars
  <2>2. ASSUME NEW c \in Clients, NEW f \in Forms, Preview(c, f) PROVE TypeOK'
    <3>1. MarketPrice(f.market) \in Prices
      BY <2>2 DEF Preview, HasPrice, MarketPrice, RatesTypeOK
    <3>2. PreviewAmount(f, MarketPrice(f.market).price) \in Nat
      BY <3>1, PricesInclude, ValuesAreWhole
    <3>3. PICK amount \in Shown(PreviewAmount(f, MarketPrice(f.market).price)) :
             shown' = [shown EXCEPT ![c] =
                          [form |-> f, rate |-> MarketPrice(f.market), amount |-> amount]]
      BY <2>2 DEF Preview
    <3>4. amount \in Nat
      BY <3>2, <3>3, ShownBounds
    <3>5. [form |-> f, rate |-> MarketPrice(f.market), amount |-> amount] \in Previews
      BY <3>1, <3>4 DEF Previews
    <3>6. QED  BY <2>2, <2>a, <3>3, <3>5 DEF Preview
  <2>3. ASSUME NEW c \in Clients, NEW f \in Forms, Post(c, f) PROVE TypeOK'
    <3>1. MarketPrice(f.market) \in Prices
      BY <2>3 DEF Post, HasPrice, MarketPrice, RatesTypeOK
    <3>2. QED  BY <2>3, <2>a, <3>1 DEF Post
  <2>4. ASSUME NEW c \in Clients, Save(c) PROVE TypeOK'
    BY <2>4, SavedType
  <2>5. ASSUME NEW c \in Clients, SaveFails(c) PROVE TypeOK'
    BY <2>5, <2>a DEF SaveFails
  <2>6. ASSUME NEW c \in Clients, Refuse(c) PROVE TypeOK'
    BY <2>6, <2>a DEF Refuse
  <2>7. CASE FatalError
    BY <2>7, ThrowType DEF FatalError
  <2>8. CASE UNCHANGED vars
    BY <2>8, <2>a DEF vars, quoteVars
  <2>9. QED
    BY <2>1, <2>2, <2>3, <2>4, <2>5, <2>6, <2>7, <2>8 DEF Next
<1>3. QED  BY <1>1, <1>2, PTL DEF Spec

-----------------------------------------------------------------------------
\* Every order pays Banco what it owes and its fee, but for a satoshi, at any amounts
\* and prices and whatever the truncations: BancoIsPaid is inductive given the types,
\* as orders are only added, each with terms that pay.
THEOREM OrdersPayBanco == Spec => []BancoIsPaid
<1>1. Init => BancoIsPaid
  BY DEF Init, BancoIsPaid
<1>2. TypeOK /\ BancoIsPaid /\ [Next]_vars => BancoIsPaid'
  <2> SUFFICES ASSUME TypeOK, BancoIsPaid, [Next]_vars
               PROVE  BancoIsPaid'
    OBVIOUS
  <2>1. ASSUME NEW c \in Clients, Save(c) PROVE BancoIsPaid'
    <3>1. /\ form[c] \in Forms \cup {NoForm}
          /\ rate[c].price \in Nat
      BY PricesInclude DEF TypeOK
    <3>2. PICK input \in Satoshis(InputValue(form[c], rate[c].price)),
               output \in Satoshis(OutputValue(form[c], rate[c].price)) :
                 orders' = orders \cup
                    {[client |-> c, form |-> form[c], rate |-> rate[c], shown |-> shown[c],
                      input |-> input, output |-> output]}
      BY <2>1 DEF Save
    <3>3. IF form[c].type = "Buy"
          THEN (100 + FeePercentage) * output * rate[c].price <= 100 * (input + 1) * Ticks
          ELSE 100 * output * Ticks <= (100 - FeePercentage) * (input + 1) * rate[c].price
      BY <3>1, TermsPay
    <3>4. QED  BY <3>2, <3>3 DEF BancoIsPaid
  <2>2. CASE UNCHANGED orders
    BY <2>2 DEF BancoIsPaid
  <2>3. QED
    BY <2>1, <2>2 DEF Next, Preview, Post, SaveFails, Refuse, FatalError, vars, quoteVars
<1>3. QED  BY <1>1, <1>2, QuoteTypeCorrect, PTL DEF Spec

-----------------------------------------------------------------------------
\* What a page shows is what the handler computed from the form and the price that
\* are kept with it, rounded.
PreviewsAreComputed ==
    \A c \in Clients :
        shown[c].amount \in Shown(PreviewAmount(shown[c].form, shown[c].rate.price))

\* For the same form and price, preview and order compute the same value.
LEMMA PreviewAgrees ==
    ASSUME NEW f, NEW p
    PROVE  PreviewAmount(f, p)
             = IF f.type = "Buy" THEN InputValue(f, p) ELSE OutputValue(f, p)
  BY DEF PreviewAmount, InputValue, OutputValue

\* Rounded for the page, and truncated for the order, a value differs from itself by
\* half of the last digit shown and by a satoshi.
LEMMA ShownIsSaved ==
    ASSUME NEW v \in Nat, NEW n \in Shown(v), NEW q \in Satoshis(v)
    PROVE  q <= 100 * n + 50 /\ 100 * n <= q + 51
<1> DEFINE k == Satoshi
<1>1. k \in Nat \ {0}
  BY UnitsArePositive
<1>2. /\ n \in Nat /\ q \in Nat
      /\ k * (100 * n) <= v + k * 50 /\ v <= k * (100 * n + 50)
      /\ k * q <= v /\ v <= k * (q + 1)
  BY ShownBounds, SatoshisBounds
<1> HIDE DEF k
<1>3. q <= 100 * n + 50
  <2>1. k * q <= k * (100 * n + 50)
    <3> DEFINE x == k * q
               y == k * (100 * n + 50)
    <3>1. x \in Int /\ y \in Int /\ x <= v /\ v <= y
      BY <1>1, <1>2
    <3> HIDE DEF x, y
    <3>2. x <= y
      BY <3>1
    <3>3. QED  BY <3>2 DEF x, y
  <2>2. QED  BY <1>1, <1>2, <2>1, FactorCancels, 100 * n + 50 \in Int
<1>4. 100 * n <= q + 51
  <2>1. k * (100 * n) <= k * (q + 51)
    <3> DEFINE x == k * (100 * n)
               y == k * (q + 1)
               z == k * (q + 51)
               h == k * 50
    <3>1. /\ x \in Int /\ y \in Int /\ z \in Int /\ h \in Int
          /\ z = y + h /\ x <= v + h /\ v <= y
      BY <1>1, <1>2
    <3> HIDE DEF x, y, z, h
    <3>2. x <= z
      BY <3>1
    <3>3. QED  BY <3>2 DEF x, z
  <2>2. QED  BY <1>1, <1>2, <2>1, FactorCancels, 100 * n \in Int, q + 51 \in Int
<1>5. QED  BY <1>3, <1>4

\* An order placed at the price of its preview asks for what the page has shown, as
\* far as the page shows it.  The invariant adds that previews agree with their own
\* price.
THEOREM OrdersMatchPreviews == Spec => []SavedAsPreviewed
<1> DEFINE IInv == PreviewsAreComputed /\ SavedAsPreviewed
<1>1. Init => IInv
  <2>1. PreviewAmount(NoForm, 0) = 0
    BY DEF NoForm, Form, PreviewAmount, FeePercentage
  <2>2. 0 \in Shown(0)
    <3>1. Satoshi \in Nat /\ 100 * Satoshi \in Nat \ {0} /\ 50 * Satoshi \in Nat
      BY UnitsArePositive
    <3>2. 0 \div (100 * Satoshi) = 0 /\ 0 * (100 * Satoshi) = 0
      BY <3>1
    <3>3. QED  BY <3>1, <3>2 DEF Shown
  <2>3. Init => PreviewsAreComputed
    BY <2>1, <2>2 DEF Init, PreviewsAreComputed, NoPreview, Zero, Price
  <2>4. QED  BY <2>3 DEF Init, SavedAsPreviewed
<1>2. TypeOK /\ IInv /\ [Next]_vars => IInv'
  <2> SUFFICES ASSUME TypeOK, IInv, [Next]_vars
               PROVE  IInv'
    OBVIOUS
  <2>1. ASSUME NEW c \in Clients, NEW f \in Forms, Preview(c, f) PROVE IInv'
    <3>1. PICK amount \in Shown(PreviewAmount(f, MarketPrice(f.market).price)) :
             shown' = [shown EXCEPT ![c] =
                          [form |-> f, rate |-> MarketPrice(f.market), amount |-> amount]]
      BY <2>1 DEF Preview
    <3>2. /\ shown'[c].form = f /\ shown'[c].rate = MarketPrice(f.market)
          /\ shown'[c].amount = amount
          /\ \A d \in Clients : d # c => shown'[d] = shown[d]
      BY <3>1 DEF TypeOK
    <3>3. PreviewsAreComputed'
      BY <3>1, <3>2 DEF PreviewsAreComputed, PreviewAmount, Shown
    <3>4. SavedAsPreviewed'
      BY <2>1 DEF Preview, SavedAsPreviewed
    <3>5. QED  BY <3>3, <3>4
  <2>2. ASSUME NEW c \in Clients, Save(c) PROVE IInv'
    <3>1. /\ form[c] \in Forms \cup {NoForm}
          /\ rate[c].price \in Nat
      BY PricesInclude DEF TypeOK
    <3>2. PICK input \in Satoshis(InputValue(form[c], rate[c].price)),
               output \in Satoshis(OutputValue(form[c], rate[c].price)) :
                 orders' = orders \cup
                    {[client |-> c, form |-> form[c], rate |-> rate[c], shown |-> shown[c],
                      input |-> input, output |-> output]}
      BY <2>2 DEF Save
    <3> DEFINE quoted == IF form[c].type = "Buy" THEN input ELSE output
               value == PreviewAmount(form[c], rate[c].price)
    <3>3. ASSUME form[c] = shown[c].form, rate[c] = shown[c].rate
          PROVE  /\ quoted <= 100 * shown[c].amount + 50
                 /\ 100 * shown[c].amount <= quoted + 51
      <4>1. shown[c].amount \in Shown(value)
        BY <3>3 DEF PreviewsAreComputed
      <4>2. value \in Nat /\ quoted \in Satoshis(value)
        BY <3>1, PreviewAgrees, ValuesAreWhole
      <4> HIDE DEF quoted, value
      <4>3. QED  BY <4>1, <4>2, ShownIsSaved
    <3>4. SavedAsPreviewed'
      BY <3>2, <3>3 DEF SavedAsPreviewed
    <3>5. PreviewsAreComputed'
      BY <2>2 DEF Save, PreviewsAreComputed, PreviewAmount, Shown
    <3>6. QED  BY <3>4, <3>5
  <2>3. CASE UNCHANGED <<shown, orders>>
    BY <2>3 DEF PreviewsAreComputed, SavedAsPreviewed, PreviewAmount, Shown
  <2>4. QED
    BY <2>1, <2>2, <2>3 DEF Next, Post, SaveFails, Refuse, FatalError, vars, quoteVars
<1>3. IInv => SavedAsPreviewed
  OBVIOUS
<1>4. QED  BY <1>1, <1>2, <1>3, QuoteTypeCorrect, PTL DEF Spec

-----------------------------------------------------------------------------
\* While it writes, and no other waits to be sent, the goroutine for L-BTC/USDT has
\* the last ask in hand; without this an older one could replace it.
WritesTheLast ==
    reader[BTCUSDT] \in {"assigning", "storing"} /\ listener # "sending"
        => received[BTCUSDT] = offered

LastAskInv == WritesTheLast /\ LastAskIsQuoted

\* The steps of the feed, one by one; the two goroutines write entries of their own.
LEMMA FeedKeepsLastAsk ==
    ASSUME TypeOK, LastAskInv, FeedNext
    PROVE  LastAskInv'
<1> USE DEF LastAskInv, WritesTheLast, LastAskIsQuoted, HasPrice, MarketPrice
<1>1. ASSUME NEW p \in AskPrices, HearAsk(p) PROVE LastAskInv'
  BY <1>1 DEF HearAsk
<1>2. CASE HearGarbled
  BY <1>2 DEF HearGarbled, mapVars
<1>3. CASE HearOther
  BY <1>3 DEF HearOther, mapVars
<1>4. CASE StopReading
  BY <1>4 DEF StopReading, feedVars
<1>5. CASE SendAsk
  <2>1. reader[BTCUSDT]' = "assigning" /\ received[BTCUSDT]' = offered
    BY <1>5 DEF SendAsk, Receive, TypeOK, RatesTypeOK, Markets
  <2>2. QED  BY <1>5, <2>1 DEF SendAsk
<1>6. CASE SendOne
  <2>1. /\ reader'[BTCUSDT] = reader[BTCUSDT]
        /\ received'[BTCUSDT] = received[BTCUSDT]
    BY <1>6 DEF SendOne, Receive, TypeOK, RatesTypeOK, Markets, BTCUSDT, BTCBTC
  <2>2. QED  BY <1>6, <2>1 DEF SendOne, Receive, feedVars
<1>7. ASSUME NEW m \in Markets, Assign(m) PROVE LastAskInv'
  <2>1. \A n \in DOMAIN LastPrices :
           n \in DOMAIN LastPrices' /\ LastPrices'[n] = LastPrices[n]
    BY <1>7 DEF Assign
  <2>2. reader[BTCUSDT] \in {"assigning", "storing"}
          => reader'[BTCUSDT] \in {"assigning", "storing"}
    BY <1>7 DEF Assign, TypeOK, RatesTypeOK, Markets
  <2>3. QED  BY <1>7, <2>1, <2>2 DEF Assign, feedVars
<1>8. ASSUME NEW m \in Markets, Store(m) PROVE LastAskInv'
  <2>1. CASE m = BTCUSDT
    <3>1. reader[BTCUSDT] = "storing" /\ BTCUSDT \in DOMAIN LastPrices
      BY <1>8, <2>1 DEF Store, TypeOK, RatesTypeOK
    <3>2. BTCUSDT \in DOMAIN LastPrices' /\ LastPrices'[BTCUSDT] = received[BTCUSDT]
      BY <1>8, <2>1, <3>1 DEF Store, TypeOK, RatesTypeOK
    <3>3. QED  BY <1>8, <3>1, <3>2 DEF Store, feedVars
  <2>2. CASE m # BTCUSDT
    <3>1. /\ reader'[BTCUSDT] = reader[BTCUSDT]
          /\ DOMAIN LastPrices' = DOMAIN LastPrices
          /\ BTCUSDT \in DOMAIN LastPrices => LastPrices'[BTCUSDT] = LastPrices[BTCUSDT]
      BY <1>8, <2>2 DEF Store, TypeOK, RatesTypeOK, Markets
    <3>2. QED  BY <1>8, <3>1 DEF Store, feedVars
  <2>3. QED  BY <2>1, <2>2
<1>9. QED
  BY <1>1, <1>2, <1>3, <1>4, <1>5, <1>6, <1>7, <1>8 DEF FeedNext

\* The last ask heard is never lost between the listener and the map, whatever the
\* interleaving and the number of updates: LastAskInv is inductive given the types.
THEOREM LastAskIsNeverLost == Spec => []LastAskIsQuoted
<1> USE DEF LastAskInv, WritesTheLast, LastAskIsQuoted
<1>1. Init => LastAskInv
  BY DEF Init, RatesInit, Zero, Price, Markets
<1>2. TypeOK /\ LastAskInv /\ [Next]_vars => LastAskInv'
  <2> SUFFICES ASSUME TypeOK, LastAskInv, [Next]_vars
               PROVE  LastAskInv'
    OBVIOUS
  <2>1. CASE FeedNext
    BY <2>1, FeedKeepsLastAsk
  <2>2. CASE Throw
    BY <2>2 DEF Throw, Zero, Price, Markets
  <2>3. CASE UNCHANGED ratesVars
    BY <2>3 DEF HasPrice, MarketPrice, ratesVars, mapVars, feedVars
  <2>4. QED
    BY <2>1, <2>2, <2>3
       DEF Next, Preview, Post, Save, SaveFails, Refuse, FatalError, vars
<1>3. LastAskInv => LastAskIsQuoted
  OBVIOUS
<1>4. QED  BY <1>1, <1>2, <1>3, QuoteTypeCorrect, PTL DEF Spec

-----------------------------------------------------------------------------
Writes(m) == reader[m] \in {"assigning", "storing"}

\* Each price on the way to the map is at least as recent as the one that it replaces.
PricesAdvance ==
    /\ offered.at <= heard
    /\ HasPrice(BTCUSDT) => LastPrices[BTCUSDT].at <= offered.at
    /\ HasPrice(BTCBTC) => LastPrices[BTCBTC].at <= One.at
    /\ Writes(BTCUSDT) => received[BTCUSDT].at <= offered.at
    /\ Writes(BTCBTC) => received[BTCBTC].at = One.at
    /\ \A m \in Markets : Writes(m) /\ HasPrice(m) => LastPrices[m].at <= received[m].at

\* Until the process dies, the map is at least as recent as what pages show, and so
\* is a price that was read for a form of the same market.
PagesAreBehind ==
    throws = 0 =>
        \A c \in Clients :
            /\ shown[c].rate.at > 0 =>
                  /\ HasPrice(shown[c].form.market)
                  /\ shown[c].rate.at <= LastPrices[shown[c].form.market].at
            /\ phase[c] = "priced" /\ form[c].market = shown[c].form.market =>
                  shown[c].rate.at <= rate[c].at

AgeInv == PricesAdvance /\ PagesAreBehind /\ NeverOlderThanPreviewed

LEMMA PositionsAreNumbers ==
    /\ \A q \in Prices : q.at \in Nat
    /\ One.at = 1 /\ Zero.at = 0
    /\ BTCUSDT # BTCBTC /\ BTCUSDT \in Markets /\ BTCBTC \in Markets
<1>1. Positions \subseteq Nat
  BY RatesAssumption DEF Positions
<1>2. QED  BY <1>1 DEF Prices, One, Zero, Price, BTCUSDT, BTCBTC, Markets

\* What the types say of the positions of the prices.
LEMMA PositionTypes ==
    ASSUME TypeOK
    PROVE  /\ offered.at \in Nat /\ heard \in Nat
           /\ \A m \in Markets : received[m].at \in Nat
           /\ \A m \in DOMAIN LastPrices : LastPrices[m].at \in Nat
           /\ \A c \in Clients : shown[c].rate.at \in Nat /\ rate[c].at \in Nat
<1>1. heard \in Nat
  BY RatesAssumption DEF TypeOK, RatesTypeOK
<1>2. \A c \in Clients : shown[c].rate \in Prices /\ rate[c] \in Prices
  BY DEF TypeOK, Previews
<1>3. QED  BY <1>1, <1>2, PositionsAreNumbers DEF TypeOK, RatesTypeOK

\* A step of the feed never takes a market's price away, or back to an earlier one.
LEMMA FeedAdvances ==
    ASSUME TypeOK, PricesAdvance, FeedNext
    PROVE  /\ PricesAdvance'
           /\ \A m \in DOMAIN LastPrices :
                 /\ m \in DOMAIN LastPrices'
                 /\ LastPrices[m].at <= LastPrices'[m].at
<1> DEFINE Goal == /\ PricesAdvance'
                   /\ \A m \in DOMAIN LastPrices :
                         /\ m \in DOMAIN LastPrices'
                         /\ LastPrices[m].at <= LastPrices'[m].at
<1> USE PositionsAreNumbers, PositionTypes DEF PricesAdvance, HasPrice, Writes
<1>1. ASSUME NEW p \in AskPrices, HearAsk(p) PROVE Goal
  <2>1. offered'.at = heard + 1 /\ heard' = heard + 1
    BY <1>1 DEF HearAsk, Price
  <2>2. QED  BY <1>1, <2>1 DEF HearAsk, mapVars
<1>2. CASE HearGarbled
  BY <1>2 DEF HearGarbled, mapVars
<1>3. CASE HearOther
  BY <1>3 DEF HearOther, mapVars
<1>4. CASE StopReading
  <2>1. /\ reader'[BTCBTC] = reader[BTCBTC]
        /\ reader'[BTCUSDT] = "ended"
    BY <1>4 DEF StopReading, TypeOK, RatesTypeOK
  <2>2. \A m \in Markets : Writes(m)' => Writes(m)
    BY <2>1 DEF Markets
  <2>3. QED  BY <1>4, <2>2 DEF StopReading, feedVars
<1>5. CASE SendAsk
  <2>1. /\ received'[BTCUSDT] = offered
        /\ received'[BTCBTC] = received[BTCBTC]
        /\ reader'[BTCBTC] = reader[BTCBTC]
    BY <1>5 DEF SendAsk, Receive, TypeOK, RatesTypeOK
  <2>2. LastPrices' = LastPrices /\ offered' = offered /\ heard' = heard
    BY <1>5 DEF SendAsk, Receive
  <2>3. QED  BY <2>1, <2>2 DEF Markets
<1>6. CASE SendOne
  <2>1. /\ received'[BTCBTC] = One
        /\ received'[BTCUSDT] = received[BTCUSDT]
        /\ reader'[BTCUSDT] = reader[BTCUSDT]
    BY <1>6 DEF SendOne, Receive, TypeOK, RatesTypeOK
  <2>2. LastPrices' = LastPrices /\ offered' = offered /\ heard' = heard
    BY <1>6 DEF SendOne, Receive, feedVars
  <2>3. QED  BY <2>1, <2>2 DEF Markets
<1>7. ASSUME NEW m \in Markets, Assign(m) PROVE Goal
  <2>1. \A n \in DOMAIN LastPrices :
           n \in DOMAIN LastPrices' /\ LastPrices'[n] = LastPrices[n]
    BY <1>7 DEF Assign
  <2>2. \A n \in DOMAIN LastPrices' : n \in DOMAIN LastPrices \/ LastPrices'[n] = Zero
    BY <1>7 DEF Assign
  <2>3. \A n \in Markets : Writes(n)' => Writes(n)
    BY <1>7 DEF Assign, TypeOK, RatesTypeOK
  <2>4. received' = received /\ offered' = offered /\ heard' = heard
    BY <1>7 DEF Assign, feedVars
  <2>5. QED  BY <2>1, <2>2, <2>3, <2>4
<1>8. ASSUME NEW m \in Markets, Store(m) PROVE Goal
  <2>1. Writes(m) /\ HasPrice(m)
    BY <1>8 DEF Store, TypeOK, RatesTypeOK
  <2>2. /\ DOMAIN LastPrices' = DOMAIN LastPrices
        /\ LastPrices'[m] = received[m]
        /\ \A n \in DOMAIN LastPrices : n # m => LastPrices'[n] = LastPrices[n]
    BY <1>8, <2>1 DEF Store, TypeOK, RatesTypeOK
  <2>3. ~Writes(m)' /\ \A n \in Markets : n # m => reader'[n] = reader[n]
    BY <1>8 DEF Store, TypeOK, RatesTypeOK
  <2>4. received' = received /\ offered' = offered /\ heard' = heard
    BY <1>8 DEF Store, feedVars
  <2>5. m \in {BTCUSDT, BTCBTC}
    BY DEF Markets
  <2>6. QED  BY <2>1, <2>2, <2>3, <2>4, <2>5
<1>9. QED
  BY <1>1, <1>2, <1>3, <1>4, <1>5, <1>6, <1>7, <1>8 DEF FeedNext

\* An order is never priced before its preview, as long as the process lives: prices
\* only advance on their way through the goroutines, and a form is priced after its
\* page was.
THEOREM OrdersFollowPreviews == Spec => []NeverOlderThanPreviewed
<1>1. Init => AgeInv
  BY PositionsAreNumbers
     DEF Init, RatesInit, AgeInv, PricesAdvance, PagesAreBehind, NeverOlderThanPreviewed,
         HasPrice, Writes, NoPreview
<1>2. TypeOK /\ AgeInv /\ [Next]_vars => AgeInv'
  <2> SUFFICES ASSUME TypeOK, AgeInv, [Next]_vars
               PROVE  AgeInv'
    OBVIOUS
  <2> USE PositionTypes DEF AgeInv
  <2>a. UNCHANGED ratesVars => PricesAdvance'
    BY DEF PricesAdvance, HasPrice, Writes, One, ratesVars, mapVars, feedVars
  <2>1. CASE FeedNext /\ UNCHANGED quoteVars
    <3>1. throws' = throws
      BY <2>1 DEF FeedNext, HearAsk, HearGarbled, HearOther, StopReading, SendAsk, SendOne,
                  Assign, Store
    <3>2. TypeOK' /\ \A m \in DOMAIN LastPrices' : LastPrices'[m].at \in Nat
      <4>1. RatesTypeOK'
        BY <2>1, FeedType DEF TypeOK
      <4>2. QED  BY <2>1, <4>1, PositionsAreNumbers DEF TypeOK, RatesTypeOK, quoteVars
    <3>3. PagesAreBehind'
      BY <2>1, <3>1, <3>2, FeedAdvances DEF PagesAreBehind, HasPrice, quoteVars
    <3>4. QED
      BY <2>1, <3>1, <3>3, FeedAdvances DEF NeverOlderThanPreviewed, quoteVars
  <2>2. ASSUME NEW c \in Clients, NEW f \in Forms, Preview(c, f) PROVE AgeInv'
    <3>1. /\ shown'[c].form = f /\ shown'[c].rate = LastPrices[f.market]
          /\ \A d \in Clients : d # c => shown'[d] = shown[d]
      BY <2>2 DEF Preview, TypeOK, MarketPrice
    <3>2. PagesAreBehind'
      BY <2>2, <3>1 DEF Preview, PagesAreBehind, HasPrice, ratesVars, mapVars
    <3>3. QED
      BY <2>2, <2>a, <3>2 DEF Preview, NeverOlderThanPreviewed, ratesVars
  <2>3. ASSUME NEW c \in Clients, NEW f \in Forms, Post(c, f) PROVE AgeInv'
    <3>1. /\ form'[c] = f /\ rate'[c] = LastPrices[f.market] /\ f.market \in DOMAIN LastPrices
          /\ \A d \in Clients :
                d # c => form'[d] = form[d] /\ rate'[d] = rate[d] /\ phase'[d] = phase[d]
      BY <2>3 DEF Post, TypeOK, MarketPrice, HasPrice
    <3>2. throws = 0 /\ f.market = shown[c].form.market => shown[c].rate.at <= rate'[c].at
      BY <3>1 DEF PagesAreBehind
    <3>3. PagesAreBehind'
      BY <2>3, <3>1, <3>2 DEF Post, PagesAreBehind, HasPrice, ratesVars, mapVars
    <3>4. QED
      BY <2>3, <2>a, <3>3 DEF Post, NeverOlderThanPreviewed, ratesVars
  <2>4. ASSUME NEW c \in Clients, Save(c) PROVE AgeInv'
    <3>1. \A o \in orders' : o \in orders \/ (/\ o.form = form[c] /\ o.rate = rate[c]
                                              /\ o.shown = shown[c])
      BY <2>4 DEF Save
    <3>2. phase[c] = "priced" /\ throws' = throws
      BY <2>4 DEF Save, ratesVars
    <3>3. NeverOlderThanPreviewed'
      BY <3>1, <3>2 DEF NeverOlderThanPreviewed, PagesAreBehind
    <3>4. PagesAreBehind'
      BY <2>4 DEF Save, PagesAreBehind, HasPrice, TypeOK, ratesVars, mapVars
    <3>5. QED  BY <2>4, <2>a, <3>3, <3>4 DEF Save
  <2>5. ASSUME NEW c \in Clients, SaveFails(c) \/ Refuse(c) PROVE AgeInv'
    <3>1. PagesAreBehind'
      BY <2>5 DEF SaveFails, Refuse, PagesAreBehind, HasPrice, TypeOK, ratesVars, mapVars
    <3>2. QED
      BY <2>5, <2>a, <3>1 DEF SaveFails, Refuse, NeverOlderThanPreviewed, ratesVars
  <2>6. CASE FatalError
    <3>1. throws' # 0
      BY <2>6, RatesAssumption DEF FatalError, Throw, TypeOK, RatesTypeOK
    <3>2. PricesAdvance'
      BY <2>6, PositionsAreNumbers DEF FatalError, Throw, PricesAdvance, HasPrice, Writes
    <3>3. QED
      BY <3>1, <3>2 DEF PagesAreBehind, NeverOlderThanPreviewed
  <2>7. CASE UNCHANGED vars
    <3>1. PagesAreBehind'
      BY <2>7 DEF PagesAreBehind, HasPrice, vars, quoteVars, ratesVars, mapVars
    <3>2. QED
      BY <2>7, <2>a, <3>1 DEF NeverOlderThanPreviewed, vars, quoteVars, ratesVars
  <2>8. QED
    BY <2>1, <2>2, <2>3, <2>4, <2>5, <2>6, <2>7 DEF Next
<1>3. AgeInv => NeverOlderThanPreviewed
  BY DEF AgeInv
<1>4. QED  BY <1>1, <1>2, <1>3, QuoteTypeCorrect, PTL DEF Spec
=============================================================================
