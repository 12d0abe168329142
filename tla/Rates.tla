------------------------------- MODULE Rates --------------------------------
(***************************************************************************)
(* The price feed of rates.go.  Subscribe starts, for each market, a       *)
(* goroutine that receives prices and writes them to the map LastPrices,   *)
(* and a goroutine that sends them: the listener of Kraken's ticker for    *)
(* L-BTC/USDT, and a loop that sends 1.00 for L-BTC/L-BTC.  The channels   *)
(* are unbuffered, so a send and its receive are one step.                 *)
(*                                                                         *)
(* No lock protects LastPrices.  A write of Go's map finds or makes the    *)
(* entry (mapassign, flagged as a write in progress) and stores the value  *)
(* afterwards: a reader in between sees a new entry with the value 0.  An  *)
(* access that meets the flag may be detected, which ends the process, or  *)
(* go unnoticed; damage that unnoticed writes do to the map's own          *)
(* structure is left out.                                                  *)
(***************************************************************************)
EXTENDS Integers

CONSTANTS
    Ticks,         \* in how many ticks the price 1 is divided
    AskPrices,     \* the prices that the ticker reports, in ticks
    MaxAsks,       \* bound on the updates heard
    MaxThrows      \* bound on the fatal errors of the runtime

ASSUME RatesAssumption ==
    /\ Ticks \in Nat \ {0}
    /\ AskPrices \subseteq Nat \ {0}
    /\ MaxAsks \in Nat
    /\ MaxThrows \in Nat

VARIABLES
    LastPrices,    \* market -> its price, a partial function
    reader,        \* market -> what the goroutine that receives its prices does
    received,      \* market -> the price this goroutine has received last
    listener,      \* what the goroutine that listens to the ticker does
    offered,       \* the price it sends or has sent last
    heard,         \* how many updates were heard (history)
    throws         \* how many fatal errors there were (history)

mapVars == <<LastPrices, reader, received>>
feedVars == <<listener, offered, heard>>
ratesVars == <<mapVars, feedVars, throws>>

BTCUSDT == "L-BTC/USDT"
BTCBTC  == "L-BTC/L-BTC"
Markets == {BTCUSDT, BTCBTC}

\* A price in quote units per base unit, with the position in the feed of the update that brought it.
Price(price, at) == [price |-> price, at |-> at]

One  == Price(Ticks, 1) \* what the loop for L-BTC/L-BTC sends
Zero == Price(0, 0)     \* the value of an entry that has not been stored

RatesInit ==
    /\ LastPrices = [m \in {} |-> Zero]
    /\ reader = [m \in Markets |-> "receiving"]
    /\ received = [m \in Markets |-> Zero]
    /\ listener = "listening"
    /\ offered = Zero
    /\ heard = 0
    /\ throws = 0

-----------------------------------------------------------------------------
(***************************************************************************)
(* The listener: for update := range ws.Listen().                          *)
(***************************************************************************)

\* A ticker update, whose ask price is to be sent.
HearAsk(p) ==
    /\ listener = "listening" /\ heard < MaxAsks
    /\ heard' = heard + 1
    /\ offered' = Price(p, heard')
    /\ listener' = "sending"
    /\ UNCHANGED <<mapVars, throws>>

\* An update whose price cannot be parsed is skipped.
HearGarbled ==
    /\ listener = "listening" /\ heard < MaxAsks
    /\ heard' = heard + 1
    /\ UNCHANGED <<mapVars, listener, offered, throws>>

\* Any other update, or the end of the connection, ends the listener for good;
\* its deferred close then ends the goroutine that receives from it.
HearOther ==
    /\ listener = "listening"
    /\ listener' = "ended"
    /\ UNCHANGED <<mapVars, offered, heard, throws>>

StopReading ==
    /\ listener = "ended" /\ reader[BTCUSDT] = "receiving"
    /\ reader' = [reader EXCEPT ![BTCUSDT] = "ended"]
    /\ UNCHANGED <<LastPrices, received, feedVars, throws>>

-----------------------------------------------------------------------------
(***************************************************************************)
(* The goroutines that receive: kc.LastPrices[marketPair] = price.         *)
(***************************************************************************)
Receive(m, price) ==
    /\ reader[m] = "receiving"
    /\ received' = [received EXCEPT ![m] = price]
    /\ reader' = [reader EXCEPT ![m] = "assigning"]
    /\ UNCHANGED LastPrices

\* Mutant: the listener does not wait for a reader that is busy.
SendAskOrDrop ==
    /\ listener = "sending"
    /\ \/ Receive(BTCUSDT, offered)
       \/ reader[BTCUSDT] # "receiving" /\ UNCHANGED mapVars
    /\ listener' = "listening"
    /\ UNCHANGED <<offered, heard, throws>>

SendAsk ==
    /\ listener = "sending"
    /\ Receive(BTCUSDT, offered)
    /\ listener' = "listening"
    /\ UNCHANGED <<offered, heard, throws>>

SendOne ==
    /\ Receive(BTCBTC, One)
    /\ UNCHANGED <<feedVars, throws>>

\* Mutant: the entry is made anew each time.
AssignAnew(m) ==
    /\ reader[m] = "assigning"
    /\ reader' = [reader EXCEPT ![m] = "storing"]
    /\ LastPrices' = [n \in DOMAIN LastPrices \cup {m} |-> IF n = m THEN Zero ELSE LastPrices[n]]
    /\ UNCHANGED <<received, feedVars, throws>>

\* The entry is found, or made with the value 0.
Assign(m) ==
    /\ reader[m] = "assigning"
    /\ reader' = [reader EXCEPT ![m] = "storing"]
    /\ LastPrices' = [n \in DOMAIN LastPrices \cup {m} |->
                         IF n \in DOMAIN LastPrices THEN LastPrices[n] ELSE Zero]
    /\ UNCHANGED <<received, feedVars, throws>>

Store(m) ==
    /\ reader[m] = "storing"
    /\ reader' = [reader EXCEPT ![m] = "receiving"]
    /\ LastPrices' = [LastPrices EXCEPT ![m] = received[m]]
    /\ UNCHANGED <<received, feedVars, throws>>

-----------------------------------------------------------------------------
(***************************************************************************)
(* The runtime's checks, and the reads of the handlers.                    *)
(***************************************************************************)

\* A handler reads while an entry is being made.
ReadsCollide == \E m \in Markets : reader[m] = "assigning"

\* A goroutine receives, and so writes, while the other's entry is being made.
WritesCollide ==
    \/ reader[BTCBTC] = "assigning" /\ reader[BTCUSDT] = "receiving" /\ listener = "sending"
    \/ reader[BTCUSDT] = "assigning" /\ reader[BTCBTC] = "receiving"

\* The process dies of "concurrent map ..." and is started again.
Throw ==
    /\ throws < MaxThrows
    /\ throws' = throws + 1
    /\ LastPrices' = [m \in {} |-> Zero]
    /\ reader' = [m \in Markets |-> "receiving"]
    /\ received' = [m \in Markets |-> Zero]
    /\ listener' = "listening"
    /\ offered' = Zero
    /\ UNCHANGED heard

\* MarketPrice: the second result of the map access tells whether there is one.
HasPrice(m) == m \in DOMAIN LastPrices
MarketPrice(m) == LastPrices[m]

FeedNext ==
    \/ \E p \in AskPrices : HearAsk(p)
    \/ HearGarbled
    \/ HearOther
    \/ StopReading
    \/ SendAsk
    \/ SendOne
    \/ \E m \in Markets : Assign(m) \/ Store(m)
=============================================================================
