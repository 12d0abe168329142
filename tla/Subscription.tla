---------------------------- MODULE Subscription ----------------------------
(***************************************************************************)
(* What the reader of a stream of notifications may rely on: while it      *)
(* listens, it sees what was sent to it, one by one and in that order, up  *)
(* to some point; nothing is made up, skipped, repeated or overtaken.      *)
(***************************************************************************)
EXTENDS Naturals, Sequences

CONSTANTS Streams, Events

VARIABLES
    listening,     \* the streams that are open
    ended,         \* those that were
    sent, seen     \* stream -> what was sent to it, what its reader saw

vars == <<listening, ended, sent, seen>>

Init ==
    /\ listening = {}
    /\ ended = {}
    /\ sent = [s \in Streams |-> <<>>]
    /\ seen = [s \in Streams |-> <<>>]

Open(s) ==
    /\ s \notin listening \cup ended
    /\ listening' = listening \cup {s}
    /\ UNCHANGED <<ended, sent, seen>>

\* An event is sent to some of the streams that are open.
Send(e, to) ==
    /\ to \subseteq listening
    /\ sent' = [s \in Streams |-> IF s \in to THEN Append(sent[s], e) ELSE sent[s]]
    /\ UNCHANGED <<listening, ended, seen>>

See(s) ==
    /\ s \in listening
    /\ Len(seen[s]) < Len(sent[s])
    /\ seen' = [seen EXCEPT ![s] = Append(@, sent[s][Len(@) + 1])]
    /\ UNCHANGED <<listening, ended, sent>>

\* Also of a stream that could not be opened.
End(s) ==
    /\ s \notin ended
    /\ listening' = listening \ {s}
    /\ ended' = ended \cup {s}
    /\ UNCHANGED <<sent, seen>>

Next ==
    \/ \E s \in Streams : Open(s) \/ See(s) \/ End(s)
    \/ \E e \in Events, to \in SUBSET Streams : Send(e, to)

Spec == Init /\ [][Next]_vars
=============================================================================
