------------------------------ MODULE FreeList ------------------------------
(***************************************************************************)
(* The free list of buffers that goroutines share to serialize numbers     *)
(* (pkg/bufferutil/bufferutil.go): a channel with a capacity.  To write a  *)
(* number, PutUintN borrows a buffer, fills its first bytes, writes them   *)
(* and returns the buffer; to read one, UintN borrows, fills the buffer    *)
(* from the reader, converts and returns.  Each goroutine has a reader and *)
(* a writer of its own; the calls of several interleave.                   *)
(***************************************************************************)
EXTENDS Naturals, Sequences

CONSTANTS
    Goroutines,
    Buffers,       \* the memory that buffers are allocated in
    Capacity,      \* binaryFreeListMaxItems
    Longest,       \* the length of a buffer
    Numbers,       \* the numbers, each the sequence of its bytes
    Nothing        \* a model value, no buffer

ASSUME CapacityAssumption == Capacity \in Nat
ASSUME NumbersAssumption ==
    /\ Longest \in Nat
    /\ \A v \in Numbers : v \in Seq(Nat) /\ Len(v) <= Longest
ASSUME NothingAssumption == Nothing \notin Buffers

VARIABLES
    free,          \* the buffers in the channel
    memory,        \* buffer -> its bytes
    pc,            \* goroutine -> the next step of its call
    call,          \* goroutine -> whether it is to "read" or to "write"
    number,        \* goroutine -> the bytes to write, or those of its reader
    buf,           \* goroutine -> the buffer it borrowed, or Nothing
    passed         \* goroutine -> the bytes it wrote, or made a number of

vars == <<free, memory, pc, call, number, buf, passed>>

Listed == {free[i] : i \in DOMAIN free}

Lent == {buf[g] : g \in Goroutines} \ {Nothing}

Zeros == [i \in 1 .. Longest |-> 0]

\* The first n bytes of a buffer are replaced, it keeps what else it holds.
Overwrite(old, bytes, n) ==
    [i \in 1 .. Longest |-> IF i <= n THEN bytes[i] ELSE old[i]]

Init ==
    /\ free = <<>>
    /\ memory = [b \in Buffers |-> Zeros]
    /\ pc = [g \in Goroutines |-> "idle"]
    /\ call = [g \in Goroutines |-> "write"]
    /\ number = [g \in Goroutines |-> <<>>]
    /\ buf = [g \in Goroutines |-> Nothing]
    /\ passed = [g \in Goroutines |-> <<>>]

-----------------------------------------------------------------------------
\* The channel's first buffer, or a new one when it is empty; its memory may be
\* that of a buffer which was left to the garbage collector.
Borrow(g) ==
    \/ /\ free # <<>>
       /\ buf' = [buf EXCEPT ![g] = Head(free)]
       /\ free' = Tail(free)
       /\ UNCHANGED memory
    \/ /\ free = <<>>
       /\ \E b \in Buffers \ Lent :
             /\ buf' = [buf EXCEPT ![g] = b]
             /\ memory' = [memory EXCEPT ![b] = Zeros]
       /\ UNCHANGED free

\* Mutant: the list grows beyond its capacity.
ReturnAlways(b) == free' = Append(free, b)

\* Mutant: without a default, the send waits for room.
ReturnOrWait(b) ==
    /\ Len(free) < Capacity
    /\ free' = Append(free, b)

\* The buffer goes to the end of the channel, unless it is full.
Return(b) ==
    IF Len(free) < Capacity THEN free' = Append(free, b) ELSE UNCHANGED free

-----------------------------------------------------------------------------
\* A call of PutUintN(number) or UintN starts by borrowing.
Start(g, kind, v) ==
    /\ pc[g] = "idle"
    /\ Borrow(g)
    /\ pc' = [pc EXCEPT ![g] = "fill"]
    /\ call' = [call EXCEPT ![g] = kind]
    /\ number' = [number EXCEPT ![g] = v]
    /\ passed' = [passed EXCEPT ![g] = <<>>]

\* Mutant: the last byte is not copied.
FillButOne(g) ==
    /\ pc[g] = "fill"
    /\ memory' = [memory EXCEPT ![buf[g]] = Overwrite(@, number[g], Len(number[g]) - 1)]
    /\ pc' = [pc EXCEPT ![g] = "pass"]
    /\ UNCHANGED <<free, call, number, buf, passed>>

\* Mutant: the buffer is returned as soon as it is filled, and again at the end.
FillAndReturn(g) ==
    /\ pc[g] = "fill"
    /\ memory' = [memory EXCEPT ![buf[g]] = Overwrite(@, number[g], Len(number[g]))]
    /\ Return(buf[g])
    /\ pc' = [pc EXCEPT ![g] = "pass"]
    /\ UNCHANGED <<call, number, buf, passed>>

\* The number's bytes are put in the buffer, or all of them are read into it.
Fill(g) ==
    /\ pc[g] = "fill"
    /\ memory' = [memory EXCEPT ![buf[g]] = Overwrite(@, number[g], Len(number[g]))]
    /\ pc' = [pc EXCEPT ![g] = "pass"]
    /\ UNCHANGED <<free, call, number, buf, passed>>

\* The reader ends, or fails, before it gave all of the bytes.
ReadFails(g) ==
    /\ pc[g] = "fill"
    /\ call[g] = "read"
    /\ \E n \in 0 .. Len(number[g]) :
          memory' = [memory EXCEPT ![buf[g]] = Overwrite(@, number[g], n)]
    /\ pc' = [pc EXCEPT ![g] = "return"]
    /\ UNCHANGED <<free, call, number, buf, passed>>

\* The bytes in the buffer are written, or converted to a number.
Pass(g) ==
    /\ pc[g] = "pass"
    /\ passed' = [passed EXCEPT ![g] = [i \in 1 .. Len(number[g]) |-> memory[buf[g]][i]]]
    /\ pc' = [pc EXCEPT ![g] = "return"]
    /\ UNCHANGED <<free, memory, call, number, buf>>

\* The buffer is returned, and so does the call.
Finish(g) ==
    /\ pc[g] = "return"
    /\ Return(buf[g])
    /\ buf' = [buf EXCEPT ![g] = Nothing]
    /\ pc' = [pc EXCEPT ![g] = "idle"]
    /\ UNCHANGED <<memory, call, number, passed>>

Step(g) == Fill(g) \/ ReadFails(g) \/ Pass(g) \/ Finish(g)

Next ==
    \E g \in Goroutines :
        \/ \E kind \in {"read", "write"}, v \in Numbers : Start(g, kind, v)
        \/ Step(g)

Spec == Init /\ [][Next]_vars

\* Readers and writers answer, and goroutines go on.
FairSpec == Spec /\ \A g \in Goroutines : WF_vars(Step(g))

-----------------------------------------------------------------------------
\* The type of every variable; a goroutine has a buffer while its call lasts.
TypeOK ==
    /\ free \in Seq(Buffers)
    /\ Len(free) <= Capacity
    /\ memory \in [Buffers -> [1 .. Longest -> Nat]]
    /\ pc \in [Goroutines -> {"idle", "fill", "pass", "return"}]
    /\ call \in [Goroutines -> {"read", "write"}]
    /\ number \in [Goroutines -> Numbers \cup {<<>>}]
    /\ DOMAIN buf = Goroutines
    /\ \A g \in Goroutines : buf[g] \in IF pc[g] = "idle" THEN {Nothing} ELSE Buffers
    /\ DOMAIN passed = Goroutines

\* A buffer has one user: no two goroutines have it, none has one that is in the
\* list, and none is in the list twice, whichever calls interleave or fail.
OneUser ==
    /\ \A g, h \in Goroutines : buf[g] = buf[h] /\ buf[g] # Nothing => g = h
    /\ Lent \cap Listed = {}
    /\ \A i, j \in DOMAIN free : free[i] = free[j] => i = j

\* What a call writes or returns is its own number, not what another goroutine,
\* or an earlier and longer number, left in the buffer.
OwnBytes == \A g \in Goroutines : passed[g] \in {<<>>, number[g]}

\* What OwnBytes needs: between the two steps nobody touches the buffer.
FilledIsKept ==
    \A g \in Goroutines :
        pc[g] = "pass" => \A i \in 1 .. Len(number[g]) : memory[buf[g]][i] = number[g][i]

\* The inductive invariant, beside TypeOK.
Safety == OneUser /\ OwnBytes /\ FilledIsKept

\* The list is an optimization: calls return, whether it is empty or full.
CallsReturn == \A g \in Goroutines : pc[g] # "idle" ~> pc[g] = "idle"
=============================================================================
