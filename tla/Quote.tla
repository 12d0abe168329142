------------------------------- MODULE Quote --------------------------------
(***************************************************************************)
(* How the terms of an order come about: GET /trade/preview and POST       *)
(* /trade of main.go and NewOrder of order.go, composed with the price     *)
(* feed.                                                                   *)
(*                                                                         *)
(* Amounts and prices are decimal numbers, so some part of a satoshi       *)
(* divides all amounts typed, as a tick divides all prices.  A value is in *)
(* units of one per cent of a part at the price of a tick: in these units  *)
(* the products and comparisons of the code are exact.  The error of its   *)
(* floating point is taken to be less than one unit; it appears where it   *)
(* matters, in the truncation to satoshis and the rounding of what is      *)
(* shown.  Amounts below 0, and numbers such as NaN, which the form's text *)
(* field lets through, are not enumerated.                                 *)
(***************************************************************************)
EXTENDS Rates

CONSTANTS
    Clients,       \* browsers, each of which places at most one order
    Parts,         \* in how many parts a satoshi is divided
    Amounts        \* the amounts typed, in these parts, of the base asset

ASSUME AmountsAssumption == Parts \in Nat \ {0} /\ Amounts \subseteq Nat

VARIABLES
    phase,         \* client -> "typing", "priced" (in POST /trade), "answered"
    form,          \* client -> the form it posted
    rate,          \* client -> the price its request has read
    shown,         \* client -> the last preview on its page, with what it was for
    orders,        \* the orders saved
    refusals       \* the requests refused by the slippage check (history)

quoteVars == <<phase, form, rate, shown, orders, refusals>>
vars == <<ratesVars, quoteVars>>

-----------------------------------------------------------------------------
\* The two values of the radio button of the form.
TradeTypes == {"Buy", "Sell"}

Form(market, type, amount) == [market |-> market, type |-> type, amount |-> amount]
Forms == {Form(m, t, a) : m \in Markets, t \in TradeTypes, a \in Amounts}

FeePercentage == 1

\* A satoshi, in the units of values.
Satoshi == 100 * Ticks * Parts

\* Mutant: the fee is always subtracted.
PreviewAmountLessFee(f, price) == f.amount * price * (100 - FeePercentage)

\* What the trader sends (Buy) or receives (Sell) by the preview, in quote asset.
PreviewAmount(f, price) ==
    f.amount * price * (IF f.type = "Buy" THEN 100 + FeePercentage ELSE 100 - FeePercentage)

\* Mutant: the fee is subtracted from what the trader sends.
InputValueLessFee(f, price) ==
    IF f.type = "Buy" THEN f.amount * price * (100 - FeePercentage)
                      ELSE f.amount * Ticks * 100

\* What the trader is to send: of the quote asset to buy, of the base asset to sell.
InputValue(f, price) ==
    IF f.type = "Buy" THEN f.amount * price * (100 + FeePercentage)
                      ELSE f.amount * Ticks * 100

\* What the trader is to receive.
OutputValue(f, price) ==
    IF f.type = "Buy" THEN f.amount * Ticks * 100
                      ELSE f.amount * price * (100 - FeePercentage)

\* The slippage check of NewOrder, 97 % of the rate <= input / output <= 103 % of
\* it, without the division.
WithinSlippage(input, output, price) ==
    /\ 100 * input * Ticks >= 97 * price * output
    /\ 100 * input * Ticks <= 103 * price * output

\* Mutant: one satoshi too few may be the result for 0 as well.
SatoshisOfZero(v) ==
    {v \div Satoshi} \cup (IF v % Satoshi = 0 THEN {v \div Satoshi - 1} ELSE {})

\* uint64(value * 10^8): the fraction is cut off, and as the product may have been
\* rounded to just below a whole number, one satoshi more may be lost.
Satoshis(v) ==
    {v \div Satoshi}
        \cup (IF v > 0 /\ v % Satoshi = 0 THEN {v \div Satoshi - 1} ELSE {})

\* The verb %f of the page shows six decimals, while a satoshi is the eighth.  The
\* value is rounded to a nearest multiple of 100 satoshis, to either one from the
\* middle; the result counts these multiples.
Shown(v) ==
    LET step == 100 * Satoshi
    IN {n \in {v \div step, v \div step + 1} :
           /\ n * step <= v + 50 * Satoshi
           /\ v <= n * step + 50 * Satoshi}

-----------------------------------------------------------------------------
NoForm == Form(BTCUSDT, "Buy", 0)
NoPreview == [form |-> NoForm, rate |-> Zero, amount |-> 0]

Init ==
    /\ RatesInit
    /\ phase = [c \in Clients |-> "typing"]
    /\ form = [c \in Clients |-> NoForm]
    /\ rate = [c \in Clients |-> Zero]
    /\ shown = [c \in Clients |-> NoPreview]
    /\ orders = {}
    /\ refusals = {}

\* GET /trade/preview; without a price it answers with an error.
Preview(c, f) ==
    /\ phase[c] = "typing"
    /\ HasPrice(f.market)
    /\ LET price == MarketPrice(f.market)
       IN \E amount \in Shown(PreviewAmount(f, price.price)) :
             shown' = [shown EXCEPT ![c] = [form |-> f, rate |-> price, amount |-> amount]]
    /\ UNCHANGED <<ratesVars, phase, form, rate, orders, refusals>>

\* POST /trade reads the price anew; without one it answers with an error.
Post(c, f) ==
    /\ phase[c] = "typing"
    /\ HasPrice(f.market)
    /\ form' = [form EXCEPT ![c] = f]
    /\ rate' = [rate EXCEPT ![c] = MarketPrice(f.market)]
    /\ phase' = [phase EXCEPT ![c] = "priced"]
    /\ UNCHANGED <<ratesVars, shown, orders, refusals>>

\* The amount cancels from the rate that is checked, unless it is 0: the code then
\* compares NaN, the result of 0 / 0, which passes.
Passes(c) ==
    LET price == rate[c].price
        part == [form[c] EXCEPT !.amount = 1]
    IN \/ form[c].amount = 0
       \/ WithinSlippage(InputValue(part, price), OutputValue(part, price), price)

\* NewOrder succeeds and saveOrder writes the order.
Save(c) ==
    /\ phase[c] = "priced" /\ Passes(c)
    /\ \E input \in Satoshis(InputValue(form[c], rate[c].price)),
          output \in Satoshis(OutputValue(form[c], rate[c].price)) :
          orders' = orders \cup
              {[client |-> c, form |-> form[c], rate |-> rate[c], shown |-> shown[c],
                input |-> input, output |-> output]}
    /\ phase' = [phase EXCEPT ![c] = "answered"]
    /\ UNCHANGED <<ratesVars, form, rate, shown, refusals>>

\* NewOrder fails on the trader's script, before or after the check, or saveOrder
\* fails: the page shows the error, and the trader may try again.
SaveFails(c) ==
    /\ phase[c] = "priced"
    /\ phase' = [phase EXCEPT ![c] = "typing"]
    /\ UNCHANGED <<ratesVars, form, rate, shown, orders, refusals>>

\* NewOrder returns the error of the slippage check.
Refuse(c) ==
    /\ phase[c] = "priced" /\ ~Passes(c)
    /\ refusals' = refusals \cup {[form |-> form[c], rate |-> rate[c]]}
    /\ phase' = [phase EXCEPT ![c] = "answered"]
    /\ UNCHANGED <<ratesVars, form, rate, shown, orders>>

\* A fatal error of the runtime loses the requests being served; the pages
\* in the browsers, and what the database holds, remain.
FatalError ==
    /\ \/ WritesCollide
       \/ ReadsCollide /\ \E c \in Clients : phase[c] = "typing"
    /\ Throw
    /\ phase' = [c \in Clients |-> IF phase[c] = "priced" THEN "typing" ELSE phase[c]]
    /\ UNCHANGED <<form, rate, shown, orders, refusals>>

Next ==
    \/ FeedNext /\ UNCHANGED quoteVars
    \/ \E c \in Clients, f \in Forms : Preview(c, f) \/ Post(c, f)
    \/ \E c \in Clients : Save(c) \/ SaveFails(c) \/ Refuse(c)
    \/ FatalError

Spec == Init /\ [][Next]_vars

-----------------------------------------------------------------------------
Positions == 0 .. MaxAsks + 1
Prices == [price : AskPrices \cup {0, Ticks}, at : Positions]
Previews == [form : Forms \cup {NoForm}, rate : Prices, amount : Nat]

RatesTypeOK ==
    /\ DOMAIN LastPrices \subseteq Markets
    /\ LastPrices \in [DOMAIN LastPrices -> Prices]
    /\ reader \in [Markets -> {"receiving", "assigning", "storing", "ended"}]
    /\ \A m \in Markets : reader[m] = "storing" => HasPrice(m)
    /\ received \in [Markets -> Prices]
    /\ listener \in {"listening", "sending", "ended"}
    /\ offered \in Prices
    /\ heard \in 0 .. MaxAsks
    /\ throws \in 0 .. MaxThrows

\* Types of the feed and of the requests; in particular no truncation underflows.
TypeOK ==
    /\ RatesTypeOK
    /\ phase \in [Clients -> {"typing", "priced", "answered"}]
    /\ form \in [Clients -> Forms \cup {NoForm}]
    /\ rate \in [Clients -> Prices]
    /\ shown \in [Clients -> Previews]
    /\ orders \subseteq [client : Clients, form : Forms \cup {NoForm}, rate : Prices,
                         shown : Previews, input : Nat, output : Nat]
    /\ refusals \subseteq [form : Forms \cup {NoForm}, rate : Prices]

\* Unless the price has moved since, an order asks for what the page has shown, to
\* half of the last digit shown, 50 satoshis, and the satoshi that the truncation of
\* the order may take: two handlers compute the amount, and cut it differently.
SavedAsPreviewed ==
    \A o \in orders :
        (o.form = o.shown.form /\ o.rate = o.shown.rate)
            => LET quoted == IF o.form.type = "Buy" THEN o.input ELSE o.output
               IN /\ quoted <= 100 * o.shown.amount + 50
                  /\ 100 * o.shown.amount <= quoted + 51

\* At any amount and price, as far as floating point is right to a unit of values,
\* Banco gets what it owes and its fee, except for the satoshi that the truncation
\* may take of what it gets.  The two amounts of an order are truncated apart from
\* each other, and this is all that it may cost: when what is due is worth 100
\* satoshis of what Banco gets, the fee covers it.
BancoIsPaid ==
    \A o \in orders :
        LET p == o.rate.price
        IN IF o.form.type = "Buy"
           THEN (100 + FeePercentage) * o.output * p <= 100 * (o.input + 1) * Ticks
           ELSE 100 * o.output * Ticks <= (100 - FeePercentage) * (o.input + 1) * p

\* What NewOrder's comment calls the slippage tolerance: at a price of the feed,
\* only a request for an output that is more than 3 % off what the input is worth
\* is refused.
RefusedBeyondSlippage ==
    \A r \in refusals : r.rate.at > 0 =>
        LET p == r.rate.price
            buy == r.form.type = "Buy"
            \* both in the quote asset
            asked == OutputValue(r.form, p) * (IF buy THEN p ELSE Ticks)
            given == InputValue(r.form, p) * (IF buy THEN Ticks ELSE p)
        IN 100 * asked < 97 * given \/ 100 * asked > 103 * given

\* No ask is lost, however busy the goroutines are: the last one heard is the price
\* that the quotes use, or on its way there, and none but it can come after it.
LastAskIsQuoted ==
    offered.at > 0 =>
        \/ listener = "sending"
        \/ received[BTCUSDT] = offered /\ reader[BTCUSDT] \in {"assigning", "storing"}
        \/ HasPrice(BTCUSDT) /\ MarketPrice(BTCUSDT) = offered

\* The price that POST /trade reads anew may be a later one than the preview's, and
\* is never an earlier one, though no lock orders the goroutines; unless the process
\* died in between, and the page is still open.
NeverOlderThanPreviewed ==
    throws = 0 =>
        \A o \in orders :
            o.form.market = o.shown.form.market => o.shown.rate.at <= o.rate.at
=============================================================================
