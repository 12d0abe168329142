---------------------------- MODULE Notifications ----------------------------
(***************************************************************************)
(* GET /offer/:id/transactions: a page listens to the transactions that    *)
(* the wallet daemon notices (main.go, ocean.go).  A request has a stream  *)
(* of the daemon, a goroutine that receives from it and sends to a         *)
(* channel without buffer, and a handler that receives from the channel    *)
(* and writes to the page.  The request's context is cancelled when its    *)
(* client leaves or its handler returns; the goroutine never looks at it.  *)
(***************************************************************************)
EXTENDS Naturals, Sequences, FiniteSets

CONSTANTS
    Streams,       \* the requests for a stream
    Offers,        \* the orders that have a page
    MaxEvents,     \* bound: how many transactions the daemon notices
    Nothing        \* a model value, no event

ASSUME MaxEventsAssumption == MaxEvents \in Nat

\* A transaction (its number stands for its id) at the address of an offer.
Events == [offer : Offers, tx : 1 .. MaxEvents]

ASSUME NothingAssumption == Nothing \notin Events

VARIABLES
    saved,         \* the offers in the database
    watched,       \* the offers whose scripts the daemon watches
    noticed,       \* how many transactions it noticed
    handler,       \* stream -> where its handler is
    gone,          \* the streams whose request context is cancelled
    broken,        \* the streams that the daemon, or its connection, ended
    inbox,         \* stream -> what the daemon sent and Recv did not return yet
    pump,          \* stream -> where its goroutine is
    held,          \* stream -> the event the goroutine is sending, or Nothing
    drawn,         \* stream -> the event the handler is writing, or Nothing
    sent, shown    \* history: what the daemon sent, what was written to the page

daemonVars == <<saved, watched, noticed>>
vars == <<daemonVars, handler, gone, broken, inbox, pump, held, drawn, sent, shown>>

Init ==
    /\ saved = {}
    /\ watched = {}
    /\ noticed = 0
    /\ handler = [s \in Streams |-> "none"]
    /\ gone = {}
    /\ broken = {}
    /\ inbox = [s \in Streams |-> <<>>]
    /\ pump = [s \in Streams |-> "none"]
    /\ held = [s \in Streams |-> Nothing]
    /\ drawn = [s \in Streams |-> Nothing]
    /\ sent = [s \in Streams |-> <<>>]
    /\ shown = [s \in Streams |-> <<>>]

-----------------------------------------------------------------------------
(* The daemon.                                                             *)

\* The daemon watches the address of an offer from now on, or the call fails,
\* which changes nothing.
WatchScript(o) == watched' \in {watched, watched \cup {o}}

\* POST /trade: the order is saved, then watched; if that fails the client gets an
\* error, and the order stays saved.
PostTrade(o) ==
    /\ o \notin saved
    /\ saved' = saved \cup {o}
    /\ WatchScript(o)
    /\ UNCHANGED <<noticed, handler, gone, broken, inbox, pump, held, drawn, sent, shown>>

\* GET /offer/:id has the script of any saved order watched.
ViewOffer(o) ==
    /\ o \in saved
    /\ WatchScript(o)
    /\ UNCHANGED <<saved, noticed, handler, gone, broken, inbox, pump, held, drawn,
                   sent, shown>>

Listening == {s \in Streams : handler[s] \in {"select", "write"}} \ broken

\* The daemon notices a transaction and sends it to all its streams: a request
\* for one names no script.
Notice(o) ==
    /\ o \in watched
    /\ noticed < MaxEvents
    /\ noticed' = noticed + 1
    /\ LET event == [offer |-> o, tx |-> noticed']
           tell(queues) == [s \in Streams |->
                               IF s \in Listening
                               THEN Append(queues[s], event) ELSE queues[s]]
       IN inbox' = tell(inbox) /\ sent' = tell(sent)
    /\ UNCHANGED <<saved, watched, handler, gone, broken, pump, held, drawn, shown>>

\* It stops, or the connection to it is lost.
Break(s) ==
    /\ s \in Listening
    /\ broken' = broken \cup {s}
    /\ UNCHANGED <<daemonVars, handler, gone, inbox, pump, held, drawn, sent, shown>>

-----------------------------------------------------------------------------
(* The handler, and TransactionNotifications that it calls.                *)

\* The stream is opened and its goroutine started, or the request fails.
Open(s) ==
    /\ handler[s] = "none"
    /\ \/ /\ handler' = [handler EXCEPT ![s] = "select"]
          /\ pump' = [pump EXCEPT ![s] = "recv"]
          /\ UNCHANGED gone
       \/ /\ handler' = [handler EXCEPT ![s] = "closed"]
          /\ gone' = gone \cup {s}
          /\ UNCHANGED pump
    /\ UNCHANGED <<daemonVars, broken, inbox, held, drawn, sent, shown>>

ClientLeaves(s) ==
    /\ handler[s] \in {"select", "write"}
    /\ gone' = gone \cup {s}
    /\ UNCHANGED <<daemonVars, handler, broken, inbox, pump, held, drawn, sent, shown>>

\* Mutant: the goroutine does not forget what it sent.
TakeAndKeep(s) ==
    /\ handler[s] = "select"
    /\ pump[s] = "send"
    /\ handler' = [handler EXCEPT ![s] = "write"]
    /\ drawn' = [drawn EXCEPT ![s] = held[s]]
    /\ pump' = [pump EXCEPT ![s] = "recv"]
    /\ UNCHANGED <<daemonVars, gone, broken, inbox, held, sent, shown>>

\* The select takes the event that the goroutine offers, also when the context is
\* done: of two cases that are ready, Go takes either.
Take(s) ==
    /\ handler[s] = "select"
    /\ pump[s] = "send"
    /\ handler' = [handler EXCEPT ![s] = "write"]
    /\ drawn' = [drawn EXCEPT ![s] = held[s]]
    /\ pump' = [pump EXCEPT ![s] = "recv"]
    /\ held' = [held EXCEPT ![s] = Nothing]
    /\ UNCHANGED <<daemonVars, gone, broken, inbox, sent, shown>>

\* The event is rendered and written to the page.
Write(s) ==
    /\ handler[s] = "write"
    /\ handler' = [handler EXCEPT ![s] = "select"]
    /\ shown' = [shown EXCEPT ![s] = Append(@, drawn[s])]
    /\ drawn' = [drawn EXCEPT ![s] = Nothing]
    /\ UNCHANGED <<daemonVars, gone, broken, inbox, pump, held, sent>>

\* The template cannot be read or executed: the page gets an error, and the
\* stream ends without the event.
WriteFails(s) ==
    /\ handler[s] = "write"
    /\ handler' = [handler EXCEPT ![s] = "closed"]
    /\ drawn' = [drawn EXCEPT ![s] = Nothing]
    /\ gone' = gone \cup {s}
    /\ UNCHANGED <<daemonVars, broken, inbox, pump, held, sent, shown>>

\* Mutant: the handler watches the daemon's stream, not its client.
CloseWhenBroken(s) ==
    /\ s \in broken
    /\ handler[s] = "select"
    /\ gone' = gone \cup {s}
    /\ handler' = [handler EXCEPT ![s] = "closed"]
    /\ UNCHANGED <<daemonVars, broken, inbox, pump, held, drawn, sent, shown>>

\* The select, or Stream around it, sees that the client left.
Close(s) ==
    /\ s \in gone
    /\ handler[s] = "select"
    /\ handler' = [handler EXCEPT ![s] = "closed"]
    /\ UNCHANGED <<daemonVars, gone, broken, inbox, pump, held, drawn, sent, shown>>

-----------------------------------------------------------------------------
(* The goroutine of a stream.                                              *)

\* Mutant: of two events that wait, the later one is received first.
RecvLatest(s) ==
    /\ pump[s] = "recv"
    /\ inbox[s] # <<>>
    /\ pump' = [pump EXCEPT ![s] = "send"]
    /\ held' = [held EXCEPT ![s] = inbox[s][Len(inbox[s])]]
    /\ inbox' = [inbox EXCEPT ![s] = SubSeq(@, 1, Len(@) - 1)]
    /\ UNCHANGED <<daemonVars, handler, gone, broken, drawn, sent, shown>>

\* Mutant: an event that is received is sent only if another one waits.
RecvTwo(s) ==
    /\ pump[s] = "recv"
    /\ Len(inbox[s]) > 1
    /\ pump' = [pump EXCEPT ![s] = "send"]
    /\ held' = [held EXCEPT ![s] = Head(inbox[s])]
    /\ inbox' = [inbox EXCEPT ![s] = Tail(@)]
    /\ UNCHANGED <<daemonVars, handler, gone, broken, drawn, sent, shown>>

Recv(s) ==
    /\ pump[s] = "recv"
    /\ inbox[s] # <<>>
    /\ pump' = [pump EXCEPT ![s] = "send"]
    /\ held' = [held EXCEPT ![s] = Head(inbox[s])]
    /\ inbox' = [inbox EXCEPT ![s] = Tail(@)]
    /\ UNCHANGED <<daemonVars, handler, gone, broken, drawn, sent, shown>>

\* Recv fails once the context is done, or the stream broke and all that it
\* brought before was received.  The loop ends; the channel stays open.
RecvFails(s) ==
    /\ pump[s] = "recv"
    /\ s \in gone \/ (s \in broken /\ inbox[s] = <<>>)
    /\ pump' = [pump EXCEPT ![s] = "ended"]
    /\ UNCHANGED <<daemonVars, handler, gone, broken, inbox, held, drawn, sent, shown>>

Handler(s) == Take(s) \/ Write(s) \/ WriteFails(s) \/ Close(s)

Pump(s) == Recv(s) \/ RecvFails(s)

Next ==
    \/ \E o \in Offers : PostTrade(o) \/ ViewOffer(o) \/ Notice(o)
    \/ \E s \in Streams : Break(s) \/ Open(s) \/ ClientLeaves(s) \/ Handler(s) \/ Pump(s)

Spec == Init /\ [][Next]_vars

\* A goroutine that can go on does.  Of the cases of a select that stay ready,
\* each is taken some time.
Fairness ==
    \A s \in Streams : WF_vars(Pump(s)) /\ WF_vars(Handler(s)) /\ WF_vars(Close(s))

FairSpec == Spec /\ Fairness

-----------------------------------------------------------------------------
\* The type of every variable, and who holds an event when.
TypeOK ==
    /\ saved \subseteq Offers
    /\ watched \subseteq saved
    /\ noticed \in 0 .. MaxEvents
    /\ handler \in [Streams -> {"none", "select", "write", "closed"}]
    /\ gone \subseteq Streams
    /\ broken \subseteq Streams
    /\ pump \in [Streams -> {"none", "recv", "send", "ended"}]
    /\ DOMAIN held = Streams
    /\ DOMAIN drawn = Streams
    /\ \A s \in Streams :
          /\ held[s] \in IF pump[s] = "send" THEN Events ELSE {Nothing}
          /\ drawn[s] \in IF handler[s] = "write" THEN Events ELSE {Nothing}
          /\ handler[s] = "none" => pump[s] = "none"
          /\ handler[s] = "closed" => s \in gone
    /\ inbox \in [Streams -> Seq(Events)]
    /\ sent \in [Streams -> Seq(Events)]
    /\ shown \in [Streams -> Seq(Events)]

\* What an open page makes of the events sent to it: they were shown, or the
\* handler has the next, the goroutine the one after it, the stream all others.
NoneIsLost ==
    LET one(e) == IF e = Nothing THEN <<>> ELSE <<e>>
    IN \A s \in Streams :
          handler[s] # "closed" =>
              sent[s] = ((shown[s] \o one(drawn[s])) \o one(held[s])) \o inbox[s]

\* The two goroutines of a request and the two places an event may be in between
\* them are invisible: a page sees what the daemon sent to it, in that order.
Page == INSTANCE Subscription WITH
    listening <- {s \in Streams : handler[s] \in {"select", "write"}},
    ended     <- {s \in Streams : handler[s] = "closed"},
    seen      <- shown

ImplementsSubscription == Page!Spec

\* No handler outlives its client: whatever the goroutine and the daemon do, a
\* request whose client left ends.
HandlersEnd == \A s \in Streams : s \in gone ~> handler[s] = "closed"

\* What the daemon sent before the stream broke is shown, unless the page is left
\* or cannot be rendered.
SentIsShown ==
    \A s \in Streams : \A n \in 1 .. MaxEvents :
        Len(sent[s]) >= n ~> (Len(shown[s]) >= n \/ s \in gone)

=============================================================================
