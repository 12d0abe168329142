------------------------- MODULE NotificationsProofs -------------------------
(***************************************************************************)
(* The pages' streams implement Subscription, for any streams, offers and  *)
(* number of events.                                                       *)
(***************************************************************************)
EXTENDS Notifications, SequenceTheorems, TLAPS

\* Nothing, or the one event that a goroutine holds.
One(e) == IF e = Nothing THEN <<>> ELSE <<e>>

LEMMA OneType == \A e \in Events \cup {Nothing} : One(e) \in Seq(Events)
  <1> SUFFICES ASSUME NEW e \in Events \cup {Nothing} PROVE One(e) \in Seq(Events)
    OBVIOUS
  <1>1. CASE e = Nothing
    BY <1>1 DEF One
  <1>2. CASE e # Nothing
    <2>1. e \in Events
      BY <1>2
    <2>2. <<e>> \in Seq(Events)
      BY <2>1
    <2> QED
      BY <1>2, <2>2 DEF One
  <1> QED
    BY <1>1, <1>2

LEMMA Regroup ==
    ASSUME NEW p \in Seq(Events), NEW q \in Seq(Events), NEW r \in Seq(Events)
    PROVE  (p \o q) \o r = p \o (q \o r)
  BY ConcatAssociative

\* What was shown of a stream and what is still to be shown.
Kept(s) == ((shown[s] \o One(drawn[s])) \o One(held[s])) \o inbox[s]

LEMMA NoneIsLostPerStream ==
    /\ NoneIsLost <=> \A s \in Streams : handler[s] # "closed" => sent[s] = Kept(s)
    /\ NoneIsLost' <=> \A s \in Streams : handler'[s] # "closed" => sent'[s] = Kept(s)'
  BY DEF NoneIsLost, Kept, One

\* The types of the parts of a stream.
LEMMA PartTypes ==
    ASSUME TypeOK, NEW s \in Streams
    PROVE  /\ shown[s] \in Seq(Events) /\ inbox[s] \in Seq(Events) /\ sent[s] \in Seq(Events)
           /\ drawn[s] \in Events \cup {Nothing} /\ held[s] \in Events \cup {Nothing}
           /\ One(drawn[s]) \in Seq(Events) /\ One(held[s]) \in Seq(Events)
           /\ shown[s] \o One(drawn[s]) \in Seq(Events)
           /\ (shown[s] \o One(drawn[s])) \o One(held[s]) \in Seq(Events)
  <1>1. /\ shown[s] \in Seq(Events) /\ inbox[s] \in Seq(Events) /\ sent[s] \in Seq(Events)
        /\ drawn[s] \in Events \cup {Nothing} /\ held[s] \in Events \cup {Nothing}
    BY DEF TypeOK
  <1>2. One(drawn[s]) \in Seq(Events) /\ One(held[s]) \in Seq(Events)
    BY <1>1, OneType
  <1>3. shown[s] \o One(drawn[s]) \in Seq(Events)
    BY <1>1, <1>2, ConcatProperties
  <1> QED
    BY <1>1, <1>2, <1>3, ConcatProperties

-----------------------------------------------------------------------------
(* Type correctness.                                                       *)

LEMMA InitType == Init => TypeOK
  BY MaxEventsAssumption, EmptySeq DEF Init, TypeOK

LEMMA DaemonType ==
    ASSUME TypeOK, NEW o \in Offers, PostTrade(o) \/ ViewOffer(o) \/ Notice(o)
    PROVE  TypeOK'
  <1>1. CASE PostTrade(o)
    BY <1>1 DEF PostTrade, WatchScript, TypeOK
  <1>2. CASE ViewOffer(o)
    BY <1>2 DEF ViewOffer, WatchScript, TypeOK
  <1>3. CASE Notice(o)
    <2> DEFINE e == [offer |-> o, tx |-> noticed']
    <2>1. noticed' \in 1 .. MaxEvents /\ noticed' \in 0 .. MaxEvents
      BY <1>3, MaxEventsAssumption DEF Notice, TypeOK
    <2>2. e \in Events
      BY <2>1 DEF Events
    <2>3. \A s \in Streams : /\ Append(inbox[s], e) \in Seq(Events)
                             /\ Append(sent[s], e) \in Seq(Events)
      BY <2>2, PartTypes, AppendProperties
    <2>4. /\ inbox' = [s \in Streams |-> IF s \in Listening THEN Append(inbox[s], e)
                                                          ELSE inbox[s]]
          /\ sent' = [s \in Streams |-> IF s \in Listening THEN Append(sent[s], e)
                                                         ELSE sent[s]]
      BY <1>3 DEF Notice
    <2>5. inbox' \in [Streams -> Seq(Events)] /\ sent' \in [Streams -> Seq(Events)]
      BY <2>3, <2>4, PartTypes
    <2> QED
      BY <1>3, <2>1, <2>5 DEF Notice, TypeOK
  <1> QED
    BY <1>1, <1>2, <1>3

LEMMA HandlerType ==
    ASSUME TypeOK, NEW s \in Streams,
           Break(s) \/ Open(s) \/ ClientLeaves(s) \/ Handler(s)
    PROVE  TypeOK'
  <1>1. CASE Break(s)
    BY <1>1 DEF Break, Listening, TypeOK, daemonVars
  <1>2. CASE Open(s)
    <2>1. CASE handler' = [handler EXCEPT ![s] = "select"]
      BY <1>2, <2>1 DEF Open, TypeOK, daemonVars
    <2>2. CASE handler' = [handler EXCEPT ![s] = "closed"]
      BY <1>2, <2>2 DEF Open, TypeOK, daemonVars
    <2> QED
      BY <1>2, <2>1, <2>2 DEF Open
  <1>3. CASE ClientLeaves(s)
    BY <1>3 DEF ClientLeaves, TypeOK, daemonVars
  <1>4. CASE Take(s)
    BY <1>4 DEF Take, TypeOK, daemonVars
  <1>5. CASE Write(s)
    <2>1. drawn[s] \in Events /\ Append(shown[s], drawn[s]) \in Seq(Events)
      BY <1>5, PartTypes, AppendProperties DEF Write, TypeOK
    <2>2. shown' \in [Streams -> Seq(Events)]
      BY <1>5, <2>1 DEF Write, TypeOK
    <2> QED
      BY <1>5, <2>2 DEF Write, TypeOK, daemonVars
  <1>6. CASE WriteFails(s)
    BY <1>6 DEF WriteFails, TypeOK, daemonVars
  <1>7. CASE Close(s)
    BY <1>7 DEF Close, TypeOK, daemonVars
  <1> QED
    BY <1>1, <1>2, <1>3, <1>4, <1>5, <1>6, <1>7 DEF Handler

LEMMA PumpType ==
    ASSUME TypeOK, NEW s \in Streams, Pump(s)
    PROVE  TypeOK'
  <1>1. CASE Recv(s)
    <2>1. Head(inbox[s]) \in Events /\ Tail(inbox[s]) \in Seq(Events)
      BY <1>1, PartTypes, HeadTailProperties DEF Recv
    <2>2. inbox' \in [Streams -> Seq(Events)]
      BY <1>1, <2>1 DEF Recv, TypeOK
    <2> QED
      BY <1>1, <2>1, <2>2 DEF Recv, TypeOK, daemonVars
  <1>2. CASE RecvFails(s)
    BY <1>2 DEF RecvFails, TypeOK, daemonVars
  <1> QED
    BY <1>1, <1>2 DEF Pump

LEMMA StepType == TypeOK /\ [Next]_vars => TypeOK'
  <1> SUFFICES ASSUME TypeOK, [Next]_vars PROVE TypeOK'
    OBVIOUS
  <1>1. CASE UNCHANGED vars
    BY <1>1 DEF vars, daemonVars, TypeOK
  <1> QED
    BY <1>1, DaemonType, HandlerType, PumpType DEF Next
-----------------------------------------------------------------------------
(* No event is lost between the goroutines.                                *)

\* Where the events are, before a step and after it.
LEMMA InitLost == Init => NoneIsLost
  <1> SUFFICES ASSUME Init PROVE NoneIsLost
    OBVIOUS
  <1>1. \A s \in Streams : Kept(s) = ((<<>> \o <<>>) \o <<>>) \o <<>> /\ sent[s] = <<>>
    BY DEF Init, Kept, One
  <1>2. ((<<>> \o <<>>) \o <<>>) \o <<>> = <<>>
    BY ConcatEmptySeq, EmptySeq
  <1> QED
    BY <1>1, <1>2, NoneIsLostPerStream

\* An event that is sent waits behind those before it.
LEMMA NoticeLost ==
    ASSUME TypeOK, NoneIsLost, NEW o \in Offers, Notice(o)
    PROVE  NoneIsLost'
  <1> DEFINE e == [offer |-> o, tx |-> noticed']
  <1>1. e \in Events
    <2>1. noticed' \in 1 .. MaxEvents
      BY MaxEventsAssumption DEF Notice, TypeOK
    <2> QED
      BY <2>1 DEF Events
  <1> SUFFICES ASSUME NEW s \in Streams, handler'[s] # "closed"
               PROVE  sent'[s] = Kept(s)'
    BY NoneIsLostPerStream
  <1>2. handler' = handler /\ shown' = shown /\ drawn' = drawn /\ held' = held
    BY DEF Notice
  <1>3. sent[s] = Kept(s)
    BY <1>2, NoneIsLostPerStream
  <1>4. CASE s \in Listening
    <2> DEFINE ahead == (shown[s] \o One(drawn[s])) \o One(held[s])
    <2>1. sent'[s] = Append(sent[s], e) /\ inbox'[s] = Append(inbox[s], e)
      BY <1>4 DEF Notice
    <2>2. ahead \in Seq(Events) /\ inbox[s] \in Seq(Events) /\ <<e>> \in Seq(Events)
      BY <1>1, PartTypes
    <2>3. Append(sent[s], e) = sent[s] \o <<e>> /\ Append(inbox[s], e) = inbox[s] \o <<e>>
      BY <1>1, PartTypes, AppendIsConcat
    <2>4. sent[s] = ahead \o inbox[s]
      BY <1>3 DEF Kept
    <2>5. (ahead \o inbox[s]) \o <<e>> = ahead \o (inbox[s] \o <<e>>)
      <3> DEFINE q == inbox[s]
                 r == <<e>>
      <3>1. ahead \in Seq(Events) /\ q \in Seq(Events) /\ r \in Seq(Events)
        BY <2>2
      <3> HIDE DEF ahead, q, r
      <3>2. (ahead \o q) \o r = ahead \o (q \o r)
        BY <3>1, Regroup
      <3> QED
        BY <3>2 DEF q, r
    <2>6. Kept(s)' = ahead \o inbox'[s]
      BY <1>2 DEF Kept
    <2>7. sent'[s] = (ahead \o inbox[s]) \o <<e>>
      BY <2>1, <2>3, <2>4
    <2>8. Kept(s)' = ahead \o (inbox[s] \o <<e>>)
      BY <2>1, <2>3, <2>6
    <2> HIDE DEF ahead, e
    <2> QED
      BY <2>5, <2>7, <2>8
  <1>5. CASE s \notin Listening
    <2>1. sent'[s] = sent[s] /\ inbox'[s] = inbox[s]
      BY <1>5 DEF Notice
    <2> QED
      BY <1>2, <1>3, <2>1 DEF Kept
  <1> QED
    BY <1>4, <1>5

\* The handler takes the event of its goroutine, then writes it.
LEMMA HandlerLost ==
    ASSUME TypeOK, NoneIsLost, NEW s \in Streams, Take(s) \/ Write(s)
    PROVE  NoneIsLost'
  <1> USE NothingAssumption
  <1> SUFFICES ASSUME NEW t \in Streams, handler'[t] # "closed"
               PROVE  sent'[t] = Kept(t)'
    BY NoneIsLostPerStream
  <1>1. handler[t] # "closed" /\ sent' = sent /\ inbox' = inbox
    BY DEF Take, Write, TypeOK
  <1>2. sent[t] = Kept(t)
    BY <1>1, NoneIsLostPerStream
  <1>3. CASE t # s
    <2>1. shown'[t] = shown[t] /\ drawn'[t] = drawn[t] /\ held'[t] = held[t]
      BY <1>3 DEF Take, Write, TypeOK
    <2> QED
      BY <1>1, <1>2, <2>1 DEF Kept
  <1>4. CASE t = s /\ Take(s)
    <2>1. /\ drawn[s] = Nothing /\ drawn'[s] = held[s] /\ held'[s] = Nothing
          /\ shown' = shown /\ held[s] \in Events
      BY <1>4 DEF Take, TypeOK
    <2>2. One(drawn[s]) = <<>> /\ One(drawn'[s]) = One(held[s]) /\ One(held'[s]) = <<>>
      BY <2>1 DEF One
    <2>3. /\ shown[s] \o <<>> = shown[s]
          /\ (shown[s] \o One(held[s])) \o <<>> = shown[s] \o One(held[s])
      <3>1. shown[s] \in Seq(Events) /\ One(held[s]) \in Seq(Events)
        BY PartTypes
      <3>2. shown[s] \o One(held[s]) \in Seq(Events)
        BY <3>1, ConcatProperties
      <3> QED
        BY <3>1, <3>2, ConcatEmptySeq
    <2>4. Kept(s) = (shown[s] \o One(held[s])) \o inbox[s]
      BY <2>2, <2>3 DEF Kept
    <2>5. Kept(s)' = (shown[s] \o One(held[s])) \o inbox[s]
      BY <1>1, <2>1, <2>2, <2>3 DEF Kept
    <2> QED
      BY <1>1, <1>2, <1>4, <2>4, <2>5
  <1>5. CASE t = s /\ Write(s)
    <2>1. /\ drawn[s] \in Events /\ drawn'[s] = Nothing /\ held' = held
          /\ shown'[s] = Append(shown[s], drawn[s])
      BY <1>5 DEF Write, TypeOK
    <2>2. One(drawn[s]) = <<drawn[s]>> /\ One(drawn'[s]) = <<>>
      BY <2>1 DEF One
    <2>3. shown'[s] = shown[s] \o One(drawn[s])
      BY <2>1, <2>2, PartTypes, AppendIsConcat
    <2>4. (shown[s] \o One(drawn[s])) \o <<>> = shown[s] \o One(drawn[s])
      BY PartTypes, ConcatEmptySeq
    <2>5. Kept(s)' = Kept(s)
      BY <1>1, <2>1, <2>2, <2>3, <2>4 DEF Kept
    <2> QED
      BY <1>1, <1>2, <1>5, <2>5
  <1> QED
    BY <1>3, <1>4, <1>5

\* The goroutine receives the first event of its stream.
LEMMA RecvLost ==
    ASSUME TypeOK, NoneIsLost, NEW s \in Streams, Recv(s)
    PROVE  NoneIsLost'
  <1> USE NothingAssumption
  <1> SUFFICES ASSUME NEW t \in Streams, handler'[t] # "closed"
               PROVE  sent'[t] = Kept(t)'
    BY NoneIsLostPerStream
  <1>1. handler[t] # "closed" /\ sent' = sent /\ shown' = shown /\ drawn' = drawn
    BY DEF Recv
  <1>2. sent[t] = Kept(t)
    BY <1>1, NoneIsLostPerStream
  <1>3. CASE t # s
    <2>1. held'[t] = held[t] /\ inbox'[t] = inbox[t]
      BY <1>3 DEF Recv, TypeOK
    <2> QED
      BY <1>1, <1>2, <2>1 DEF Kept
  <1>4. CASE t = s
    <2> DEFINE ahead == shown[s] \o One(drawn[s])
               first == Head(inbox[s])
    <2>1. /\ inbox[s] # <<>> /\ inbox[s] \in Seq(Events) /\ ahead \in Seq(Events)
          /\ held[s] = Nothing /\ held'[s] = first /\ inbox'[s] = Tail(inbox[s])
      BY PartTypes DEF Recv, TypeOK
    <2>2. first \in Events /\ Tail(inbox[s]) \in Seq(Events) /\ <<first>> \in Seq(Events)
      BY <2>1, HeadTailProperties
    <2>3. inbox[s] = <<first>> \o Tail(inbox[s])
      BY <2>1, <2>2
    <2>4. One(held[s]) = <<>> /\ One(held'[s]) = <<first>>
      BY <2>1, <2>2 DEF One
    <2>5. ahead \o <<>> = ahead
      BY <2>1, ConcatEmptySeq
    <2>6. Kept(s) = ahead \o (<<first>> \o Tail(inbox[s]))
      BY <2>3, <2>4, <2>5 DEF Kept
    <2>7. Kept(s)' = (ahead \o <<first>>) \o Tail(inbox[s])
      BY <1>1, <2>1, <2>4 DEF Kept
    <2>8. (ahead \o <<first>>) \o Tail(inbox[s]) = ahead \o (<<first>> \o Tail(inbox[s]))
      <3> DEFINE q == <<first>>
                 r == Tail(inbox[s])
      <3>1. ahead \in Seq(Events) /\ q \in Seq(Events) /\ r \in Seq(Events)
        BY <2>1, <2>2
      <3> HIDE DEF ahead, q, r
      <3>2. (ahead \o q) \o r = ahead \o (q \o r)
        BY <3>1, Regroup
      <3> QED
        BY <3>2 DEF q, r
    <2> QED
      BY <1>1, <1>2, <1>4, <2>6, <2>7, <2>8
  <1> QED
    BY <1>3, <1>4

\* The other steps move no event of a page that stays open.
LEMMA OtherLost ==
    ASSUME TypeOK, NoneIsLost,
           \/ \E o \in Offers : PostTrade(o) \/ ViewOffer(o)
           \/ \E s \in Streams : \/ Break(s) \/ Open(s) \/ ClientLeaves(s)
                                \/ WriteFails(s) \/ Close(s) \/ RecvFails(s)
           \/ UNCHANGED vars
    PROVE  NoneIsLost'
  <1> SUFFICES ASSUME NEW t \in Streams, handler'[t] # "closed"
               PROVE  sent'[t] = Kept(t)'
    BY NoneIsLostPerStream
  <1>1. /\ handler[t] # "closed" /\ drawn'[t] = drawn[t]
        /\ UNCHANGED <<sent, shown, held, inbox>>
    BY DEF PostTrade, ViewOffer, Break, Open, ClientLeaves, WriteFails, Close, RecvFails,
           vars, TypeOK
  <1>2. sent[t] = Kept(t)
    BY <1>1, NoneIsLostPerStream
  <1> QED
    BY <1>1, <1>2 DEF Kept

LEMMA StepLost == TypeOK /\ NoneIsLost /\ [Next]_vars => NoneIsLost'
  BY NoticeLost, HandlerLost, RecvLost, OtherLost DEF Next, Handler, Pump
-----------------------------------------------------------------------------
(* The refinement.                                                         *)

OpenStreams == {s \in Streams : handler[s] \in {"select", "write"}}

\* A step that sends and shows nothing, and opens and ends no stream.
LEMMA QuietStep ==
    ASSUME TypeOK, [Next]_vars, handler' = handler \/ (\E s \in Streams : Take(s)),
           UNCHANGED <<sent, shown>>
    PROVE  UNCHANGED Page!vars
  <1>1. CASE handler' = handler
    BY <1>1 DEF Page!vars
  <1>2. ASSUME NEW s \in Streams, Take(s) PROVE UNCHANGED Page!vars
    <2>1. /\ handler[s] = "select" /\ handler'[s] = "write"
          /\ \A t \in Streams \ {s} : handler'[t] = handler[t]
      BY <1>2 DEF Take, TypeOK
    <2> QED
      BY <2>1 DEF Page!vars
  <1> QED
    BY <1>1, <1>2

\* The stream of s ends.
LEMMA EndStep ==
    ASSUME TypeOK, NEW s \in Streams, handler[s] # "closed",
           handler' = [handler EXCEPT ![s] = "closed"], UNCHANGED <<sent, shown>>
    PROVE  Page!Next
  <1>1. handler'[s] = "closed" /\ \A t \in Streams \ {s} : handler'[t] = handler[t]
    BY DEF TypeOK
  <1>2. Page!End(s)
    BY <1>1 DEF Page!End
  <1> QED
    BY <1>2 DEF Page!Next

LEMMA OpenStep ==
    ASSUME TypeOK, NEW s \in Streams, Open(s)
    PROVE  Page!Next
  <1>1. CASE handler' = [handler EXCEPT ![s] = "select"]
    <2>1. /\ handler[s] = "none" /\ handler'[s] = "select"
          /\ \A t \in Streams \ {s} : handler'[t] = handler[t]
      BY <1>1 DEF Open, TypeOK
    <2>2. UNCHANGED <<sent, shown>>
      BY DEF Open
    <2>3. Page!Open(s)
      BY <2>1, <2>2 DEF Page!Open
    <2> QED
      BY <2>3 DEF Page!Next
  <1>2. CASE handler' = [handler EXCEPT ![s] = "closed"]
    BY <1>2, EndStep DEF Open
  <1> QED
    BY <1>1, <1>2 DEF Open

\* The daemon sends an event to the streams that listen.
LEMMA NoticeStep ==
    ASSUME TypeOK, NEW o \in Offers, Notice(o)
    PROVE  Page!Next
  <1> DEFINE e == [offer |-> o, tx |-> noticed']
  <1>1. e \in Events
    <2>1. noticed' \in 1 .. MaxEvents
      BY MaxEventsAssumption DEF Notice, TypeOK
    <2> QED
      BY <2>1 DEF Events
  <1>2. /\ handler' = handler /\ shown' = shown
        /\ sent' = [s \in Streams |-> IF s \in Listening THEN Append(sent[s], e) ELSE sent[s]]
    BY DEF Notice
  <1>3. Listening \subseteq OpenStreams /\ Listening \in SUBSET Streams
    BY DEF Listening, OpenStreams
  <1>4. Page!Send(e, Listening)
    BY <1>2, <1>3 DEF Page!Send, OpenStreams
  <1> QED
    BY <1>1, <1>3, <1>4 DEF Page!Next

\* A concatenation begins with its first part.
LEMMA FrontOfConcat ==
    ASSUME NEW p \in Seq(Events), NEW q \in Seq(Events), NEW n \in 1 .. Len(p)
    PROVE  n \in 1 .. Len(p \o q) /\ (p \o q)[n] = p[n]
  <1>1. Len(p) \in Nat /\ Len(q) \in Nat /\ Len(p \o q) = Len(p) + Len(q)
    BY ConcatProperties, LenProperties
  <1>2. n \in 1 .. Len(p) + Len(q) /\ n <= Len(p)
    BY <1>1
  <1> QED
    BY <1>1, <1>2, ConcatProperties

\* What the handler writes is the next event that was sent.
LEMMA WriteStep ==
    ASSUME TypeOK, NoneIsLost, NEW s \in Streams, Write(s)
    PROVE  Page!Next
  <1> USE NothingAssumption
  <1>1. /\ handler[s] = "write" /\ drawn[s] \in Events
        /\ shown' = [shown EXCEPT ![s] = Append(shown[s], drawn[s])] /\ sent' = sent
    BY DEF Write, TypeOK
  <1>2. sent[s] = Kept(s)
    BY <1>1, NoneIsLostPerStream
  <1>3. sent[s][Len(shown[s]) + 1] = drawn[s] /\ Len(shown[s]) < Len(sent[s])
    <2> DEFINE first == shown[s] \o One(drawn[s])
               ahead == first \o One(held[s])
               n == Len(shown[s]) + 1
    <2>1. /\ shown[s] \in Seq(Events) /\ first \in Seq(Events) /\ ahead \in Seq(Events)
          /\ One(held[s]) \in Seq(Events) /\ inbox[s] \in Seq(Events)
          /\ One(drawn[s]) = <<drawn[s]>>
      BY <1>1, PartTypes DEF One
    <2>2. first = Append(shown[s], drawn[s])
      BY <1>1, <2>1, AppendIsConcat
    <2>3. n \in 1 .. Len(first) /\ first[n] = drawn[s]
      BY <1>1, <2>1, <2>2, AppendProperties, LenProperties
    <2>4. n \in 1 .. Len(ahead) /\ ahead[n] = first[n]
      <3> HIDE DEF first, n
      <3> QED
        BY <2>1, <2>3, FrontOfConcat
    <2>5. n \in 1 .. Len(sent[s]) /\ sent[s][n] = ahead[n]
      <3>1. sent[s] = ahead \o inbox[s]
        BY <1>2 DEF Kept
      <3> HIDE DEF first, ahead, n
      <3>2. /\ n \in 1 .. Len(ahead \o inbox[s])
            /\ (ahead \o inbox[s])[n] = ahead[n]
        BY <2>1, <2>4, FrontOfConcat
      <3> QED
        BY <3>1, <3>2
    <2>6. Len(shown[s]) \in Nat /\ Len(sent[s]) \in Nat
      BY PartTypes, LenProperties
    <2>7. sent[s][n] = drawn[s]
      BY <2>3, <2>4, <2>5
    <2> QED
      BY <2>5, <2>6, <2>7
  <1>4. /\ handler'[s] = "select" /\ \A t \in Streams \ {s} : handler'[t] = handler[t]
    BY DEF Write, TypeOK
  <1>5. UNCHANGED <<OpenStreams, {t \in Streams : handler[t] = "closed"}>> /\ s \in OpenStreams
    BY <1>1, <1>4 DEF OpenStreams
  <1>6. Page!See(s)
    BY <1>1, <1>3, <1>5 DEF Page!See, OpenStreams
  <1> QED
    BY <1>6 DEF Page!Next

LEMMA PageStep == TypeOK /\ NoneIsLost /\ [Next]_vars => [Page!Next]_(Page!vars)
  <1> SUFFICES ASSUME TypeOK, NoneIsLost, [Next]_vars PROVE [Page!Next]_(Page!vars)
    OBVIOUS
  <1>1. ASSUME NEW o \in Offers, PostTrade(o) \/ ViewOffer(o)
        PROVE  UNCHANGED Page!vars
    BY <1>1, QuietStep DEF PostTrade, ViewOffer
  <1>2. ASSUME NEW s \in Streams, Break(s) \/ ClientLeaves(s) \/ Take(s) \/ Pump(s)
        PROVE  UNCHANGED Page!vars
    <2>1. UNCHANGED <<sent, shown>> /\ (handler' = handler \/ Take(s))
      BY <1>2 DEF Break, ClientLeaves, Take, Pump, Recv, RecvFails
    <2> QED
      BY <2>1, QuietStep
  <1>3. ASSUME NEW s \in Streams, WriteFails(s) \/ Close(s)
        PROVE  Page!Next
    <2>1. /\ handler[s] # "closed" /\ handler' = [handler EXCEPT ![s] = "closed"]
          /\ UNCHANGED <<sent, shown>>
      BY <1>3 DEF WriteFails, Close
    <2> QED
      BY <2>1, EndStep
  <1>4. CASE UNCHANGED vars
    BY <1>4, QuietStep DEF vars
  <1> QED
    BY <1>1, <1>2, <1>3, <1>4, NoticeStep, OpenStep, WriteStep DEF Next, Handler

-----------------------------------------------------------------------------
\* Type correctness of pages, streams and goroutines, for any number of each.
THEOREM NotificationsTypeCorrect == Spec => []TypeOK
  BY InitType, StepType, PTL DEF Spec

\* An open page has shown, or still holds, every event that was sent to it.
THEOREM EventsAreKept == Spec => []NoneIsLost
  BY InitType, StepType, InitLost, StepLost, PTL DEF Spec

\* A page sees what the daemon sent to it, in that order, with none left out: each
\* step of daemon, handler and goroutine is a step of Subscription or invisible.
THEOREM PagesImplementSubscription == Spec => ImplementsSubscription
  <1>1. Init => Page!Init
    BY DEF Init, Page!Init
  <1> QED
    BY <1>1, PageStep, InitType, StepType, InitLost, StepLost, PTL
    DEF Spec, ImplementsSubscription, Page!Spec
=============================================================================
