---------------------------- MODULE FreeListProofs ----------------------------
(***************************************************************************)
(* The safety of the free list, for any number of goroutines and buffers,  *)
(* any capacity and any numbers.                                           *)
(***************************************************************************)
EXTENDS FreeList, TLAPS

\* What the channel gives and keeps when its first buffer is received.
LEMMA ReceiveFirst ==
    ASSUME NEW S, NEW q \in Seq(S), q # <<>>
    PROVE  /\ Head(q) = q[1] /\ 1 \in DOMAIN q /\ Head(q) \in S
           /\ Tail(q) \in Seq(S)
           /\ Len(Tail(q)) = Len(q) - 1
           /\ \A i \in DOMAIN Tail(q) : i + 1 \in DOMAIN q /\ Tail(q)[i] = q[i + 1]
  OBVIOUS

\* What it holds when a buffer is sent to it.
LEMMA SendLast ==
    ASSUME NEW S, NEW q \in Seq(S), NEW b \in S
    PROVE  /\ Append(q, b) \in Seq(S)
           /\ Len(Append(q, b)) = Len(q) + 1
           /\ DOMAIN Append(q, b) = 1 .. Len(q) + 1
           /\ DOMAIN q = 1 .. Len(q)
           /\ \A i \in DOMAIN q : Append(q, b)[i] = q[i]
           /\ Append(q, b)[Len(q) + 1] = b
  OBVIOUS

-----------------------------------------------------------------------------
\* The variables are of their types at the start.
LEMMA InitType == Init => TypeOK
  BY NumbersAssumption, CapacityAssumption DEF Init, TypeOK, Zeros

LEMMA NumberType ==
    ASSUME NEW v \in Numbers \cup {<<>>}
    PROVE  v \in Seq(Nat) /\ Len(v) \in 0 .. Longest
  <1>1. CASE v \in Numbers
    <2>1. v \in Seq(Nat) /\ Len(v) <= Longest /\ Longest \in Nat
      BY <1>1, NumbersAssumption
    <2>2. Len(v) \in Nat
      BY <2>1
    <2> QED
      BY <2>1, <2>2
  <1>2. CASE v = <<>>
    <2>1. v \in Seq(Nat) /\ Len(v) = 0
      BY <1>2
    <2> QED
      BY <2>1, NumbersAssumption
  <1> QED
    BY <1>1, <1>2

\* A buffer of which some first bytes were replaced is a buffer.
LEMMA OverwriteType ==
    ASSUME NEW old \in [1 .. Longest -> Nat], NEW v \in Numbers \cup {<<>>},
           NEW n \in 0 .. Len(v)
    PROVE  /\ Overwrite(old, v, n) \in [1 .. Longest -> Nat]
           /\ \A i \in 1 .. n : Overwrite(old, v, n)[i] = v[i]
  <1>1. v \in Seq(Nat) /\ Len(v) \in 0 .. Longest /\ Longest \in Nat
    BY NumberType, NumbersAssumption
  <1>2. \A i \in 1 .. n : v[i] \in Nat
    BY <1>1
  <1> QED
    BY <1>1, <1>2 DEF Overwrite

\* The list and the loans, when a call borrows.
LEMMA BorrowSafe ==
    ASSUME TypeOK, OneUser, NEW g \in Goroutines, buf[g] = Nothing, Borrow(g)
    PROVE  /\ free' \in Seq(Buffers) /\ Len(free') <= Capacity
           /\ memory' \in [Buffers -> [1 .. Longest -> Nat]]
           /\ buf' = [buf EXCEPT ![g] = buf'[g]] /\ buf'[g] \in Buffers
           /\ \A h \in Goroutines \ {g} : buf[h] # buf'[g]
           /\ \A b \in Buffers \ {buf'[g]} : memory'[b] = memory[b]
           /\ OneUser'
  <1> USE NothingAssumption
  <1>1. CASE /\ free # <<>> /\ buf' = [buf EXCEPT ![g] = Head(free)]
             /\ free' = Tail(free) /\ UNCHANGED memory
    <2> DEFINE b == Head(free)
    <2>1. free \in Seq(Buffers) /\ Len(free) <= Capacity /\ DOMAIN buf = Goroutines
      BY DEF TypeOK
    <2>2. /\ b = free[1] /\ 1 \in DOMAIN free /\ b \in Buffers
          /\ Tail(free) \in Seq(Buffers) /\ Len(Tail(free)) = Len(free) - 1
          /\ \A i \in DOMAIN Tail(free) :
                i + 1 \in DOMAIN free /\ Tail(free)[i] = free[i + 1]
      BY <1>1, <2>1, ReceiveFirst
    <2>3. buf'[g] = b /\ \A h \in Goroutines \ {g} : buf'[h] = buf[h]
      BY <1>1, <2>1
    <2>4. b \in Listed
      BY <2>2 DEF Listed
    <2>5. \A h \in Goroutines : buf[h] # b
      BY <2>2, <2>4 DEF OneUser, Lent
    <2>6. Len(free') <= Capacity
      BY <1>1, <2>1, <2>2, CapacityAssumption
    <2>7. \A i, j \in DOMAIN free' : free'[i] = free'[j] => i = j
      <3> TAKE i, j \in DOMAIN free'
      <3> HAVE free'[i] = free'[j]
      <3>1. i + 1 \in DOMAIN free /\ j + 1 \in DOMAIN free /\ free[i + 1] = free[j + 1]
        BY <1>1, <2>2
      <3>2. i + 1 = j + 1
        BY <3>1 DEF OneUser
      <3>3. i \in Nat /\ j \in Nat
        BY <1>1, <2>2
      <3> QED
        BY <3>2, <3>3
    <2>8. \A i \in DOMAIN free' : free'[i] # b /\ free'[i] \in Listed
      <3> TAKE i \in DOMAIN free'
      <3>1. i + 1 \in DOMAIN free /\ free'[i] = free[i + 1] /\ i \in 1 .. Len(free')
        BY <1>1, <2>2
      <3>2. free[i + 1] # free[1]
        BY <2>2, <3>1 DEF OneUser
      <3> QED
        BY <2>2, <3>1, <3>2 DEF Listed
    <2>9. Lent' \cap Listed' = {}
      BY <2>3, <2>8 DEF Lent, Listed, OneUser
    <2>10. \A h, k \in Goroutines : buf'[h] = buf'[k] /\ buf'[h] # Nothing => h = k
      BY <2>3, <2>5 DEF OneUser
    <2>11. OneUser'
      BY <2>7, <2>9, <2>10 DEF OneUser
    <2> QED
      BY <1>1, <2>1, <2>2, <2>3, <2>5, <2>6, <2>11 DEF TypeOK
  <1>2. ASSUME NEW b \in Buffers \ Lent, free = <<>>, buf' = [buf EXCEPT ![g] = b],
               memory' = [memory EXCEPT ![b] = Zeros], free' = free
        PROVE  /\ free' \in Seq(Buffers) /\ Len(free') <= Capacity
               /\ memory' \in [Buffers -> [1 .. Longest -> Nat]]
               /\ buf' = [buf EXCEPT ![g] = buf'[g]] /\ buf'[g] \in Buffers
               /\ \A h \in Goroutines \ {g} : buf[h] # buf'[g]
               /\ \A c \in Buffers \ {buf'[g]} : memory'[c] = memory[c]
               /\ OneUser'
    <2>1. DOMAIN buf = Goroutines /\ memory \in [Buffers -> [1 .. Longest -> Nat]]
      BY DEF TypeOK
    <2>2. buf'[g] = b /\ \A h \in Goroutines \ {g} : buf'[h] = buf[h]
      BY <1>2, <2>1
    <2>3. \A h \in Goroutines : buf[h] # b
      BY <1>2 DEF Lent
    <2>4. Zeros \in [1 .. Longest -> Nat]
      BY DEF Zeros
    <2>5. memory' \in [Buffers -> [1 .. Longest -> Nat]]
      BY <1>2, <2>1, <2>4
    <2>6. Listed' = {}
      BY <1>2 DEF Listed
    <2>7. OneUser'
      BY <1>2, <2>2, <2>3, <2>6 DEF OneUser
    <2> QED
      BY <1>2, <2>1, <2>2, <2>3, <2>5, <2>7 DEF TypeOK
  <1> QED
    BY <1>1, <1>2 DEF Borrow

\* And when a call returns its buffer.
LEMMA ReturnSafe ==
    ASSUME TypeOK, OneUser, NEW g \in Goroutines, buf[g] \in Buffers, Return(buf[g]),
           buf' = [buf EXCEPT ![g] = Nothing]
    PROVE  free' \in Seq(Buffers) /\ Len(free') <= Capacity /\ OneUser'
  <1> USE NothingAssumption
  <1> DEFINE b == buf[g]
  <1>1. free \in Seq(Buffers) /\ Len(free) <= Capacity /\ DOMAIN buf = Goroutines
    BY DEF TypeOK
  <1>2. buf'[g] = Nothing /\ \A h \in Goroutines \ {g} : buf'[h] = buf[h] /\ buf[h] # b
    BY <1>1 DEF OneUser
  <1>3. b \notin Listed
    BY DEF OneUser, Lent
  <1>4. \A h, k \in Goroutines : buf'[h] = buf'[k] /\ buf'[h] # Nothing => h = k
    BY <1>2 DEF OneUser
  <1>5. Lent' \subseteq Lent \ {b}
    BY <1>2 DEF Lent
  <1>6. CASE Len(free) < Capacity
    <2>1. free' = Append(free, b)
      BY <1>6 DEF Return
    <2>2. /\ free' \in Seq(Buffers) /\ Len(free') = Len(free) + 1
          /\ DOMAIN free' = 1 .. Len(free) + 1 /\ DOMAIN free = 1 .. Len(free)
          /\ \A i \in DOMAIN free : free'[i] = free[i]
          /\ free'[Len(free) + 1] = b
      BY <1>1, <2>1, SendLast
    <2>3. \A i \in DOMAIN free' : i \in DOMAIN free \/ i = Len(free) + 1
      BY <1>1, <2>2
    <2>4. Listed' \subseteq Listed \cup {b}
      BY <2>2, <2>3 DEF Listed
    <2>5. \A i \in DOMAIN free : free[i] # b
      BY <1>3 DEF Listed
    <2>6. \A i, j \in DOMAIN free' : free'[i] = free'[j] => i = j
      BY <2>2, <2>3, <2>5 DEF OneUser
    <2>7. Lent' \cap Listed' = {}
      BY <1>5, <2>4 DEF OneUser
    <2>8. Len(free') <= Capacity
      BY <1>1, <1>6, <2>2, CapacityAssumption
    <2> QED
      BY <1>4, <2>2, <2>6, <2>7, <2>8 DEF OneUser
  <1>7. CASE ~(Len(free) < Capacity)
    <2>1. free' = free
      BY <1>7 DEF Return
    <2> QED
      BY <1>1, <1>4, <1>5, <2>1 DEF OneUser, Listed
  <1> QED
    BY <1>6, <1>7

-----------------------------------------------------------------------------
Inv == TypeOK /\ Safety

LEMMA InitInv == Init => Inv
  <1> SUFFICES ASSUME Init PROVE Inv
    OBVIOUS
  <1>1. TypeOK
    BY InitType
  <1>2. OneUser
    BY NothingAssumption DEF Init, OneUser, Lent, Listed
  <1> QED
    BY <1>1, <1>2 DEF Init, Inv, Safety, OwnBytes, FilledIsKept

LEMMA StartInv ==
    ASSUME Inv, NEW g \in Goroutines, NEW kind \in {"read", "write"}, NEW v \in Numbers,
           Start(g, kind, v)
    PROVE  Inv'
  <1> USE NothingAssumption DEF Inv, Safety
  <1>1. buf[g] = Nothing
    BY DEF Start, TypeOK
  <1>2. /\ free' \in Seq(Buffers) /\ Len(free') <= Capacity
        /\ memory' \in [Buffers -> [1 .. Longest -> Nat]]
        /\ buf' = [buf EXCEPT ![g] = buf'[g]] /\ buf'[g] \in Buffers
        /\ \A h \in Goroutines \ {g} : buf[h] # buf'[g]
        /\ \A b \in Buffers \ {buf'[g]} : memory'[b] = memory[b]
        /\ OneUser'
    BY <1>1, BorrowSafe DEF Start
  <1>3. /\ pc' \in [Goroutines -> {"idle", "fill", "pass", "return"}]
        /\ call' \in [Goroutines -> {"read", "write"}]
        /\ number' \in [Goroutines -> Numbers \cup {<<>>}]
        /\ DOMAIN passed' = Goroutines
    BY DEF Start, TypeOK
  <1>4. /\ pc'[g] = "fill" /\ number'[g] = v /\ passed'[g] = <<>>
        /\ \A h \in Goroutines \ {g} : /\ pc'[h] = pc[h] /\ number'[h] = number[h]
                                       /\ passed'[h] = passed[h] /\ buf'[h] = buf[h]
    BY <1>2 DEF Start, TypeOK
  <1>5. DOMAIN buf' = Goroutines
    BY <1>2 DEF TypeOK
  <1>6. \A h \in Goroutines : buf'[h] \in IF pc'[h] = "idle" THEN {Nothing} ELSE Buffers
    BY <1>2, <1>4 DEF TypeOK
  <1>7. TypeOK'
    BY <1>2, <1>3, <1>5, <1>6 DEF TypeOK
  <1>8. OwnBytes'
    BY <1>4 DEF OwnBytes
  <1>9. FilledIsKept'
    <2> SUFFICES ASSUME NEW h \in Goroutines, pc'[h] = "pass", NEW i \in 1 .. Len(number'[h])
                 PROVE  memory'[buf'[h]][i] = number'[h][i]
      BY DEF FilledIsKept
    <2>1. h # g /\ pc[h] = "pass" /\ number'[h] = number[h] /\ buf'[h] = buf[h]
      BY <1>4
    <2>2. buf[h] \in Buffers \ {buf'[g]}
      BY <1>2, <2>1 DEF TypeOK
    <2> QED
      BY <1>2, <2>1, <2>2 DEF FilledIsKept
  <1> QED
    BY <1>2, <1>7, <1>8, <1>9

\* Fill and ReadFails put bytes in the buffer of one goroutine.
LEMMA FillInv ==
    ASSUME Inv, NEW g \in Goroutines, Fill(g) \/ ReadFails(g)
    PROVE  Inv'
  <1> USE NothingAssumption DEF Inv, Safety
  <1>1. PICK n \in 0 .. Len(number[g]) :
            /\ memory' = [memory EXCEPT ![buf[g]] = Overwrite(@, number[g], n)]
            /\ pc' = [pc EXCEPT ![g] = IF n = Len(number[g]) /\ pc'[g] = "pass"
                                       THEN "pass" ELSE "return"]
    <2>1. number[g] \in Seq(Nat) /\ Len(number[g]) \in Nat
      BY NumberType DEF TypeOK
    <2>2. CASE Fill(g)
      <3>1. Len(number[g]) \in 0 .. Len(number[g])
        BY <2>1
      <3>2. pc'[g] = "pass"
        BY <2>2 DEF Fill, TypeOK
      <3> QED
        BY <2>2, <3>1, <3>2 DEF Fill
    <2>3. CASE ReadFails(g)
      <3>1. pc'[g] = "return"
        BY <2>3 DEF ReadFails, TypeOK
      <3> QED
        BY <2>3, <3>1 DEF ReadFails
    <2> QED
      BY <2>2, <2>3
  <1>2. pc[g] = "fill" /\ buf[g] \in Buffers /\ UNCHANGED <<free, call, number, buf, passed>>
    BY DEF Fill, ReadFails, TypeOK
  <1>3. /\ memory[buf[g]] \in [1 .. Longest -> Nat] /\ number[g] \in Numbers \cup {<<>>}
        /\ memory \in [Buffers -> [1 .. Longest -> Nat]]
    BY <1>2 DEF TypeOK
  <1>4. /\ Overwrite(memory[buf[g]], number[g], n) \in [1 .. Longest -> Nat]
        /\ \A i \in 1 .. n : Overwrite(memory[buf[g]], number[g], n)[i] = number[g][i]
    BY <1>3, OverwriteType
  <1>5. /\ memory' \in [Buffers -> [1 .. Longest -> Nat]]
        /\ \A i \in 1 .. n : memory'[buf[g]][i] = number[g][i]
        /\ \A b \in Buffers \ {buf[g]} : memory'[b] = memory[b]
    BY <1>1, <1>2, <1>3, <1>4
  <1>6. /\ pc' \in [Goroutines -> {"idle", "fill", "pass", "return"}]
        /\ pc'[g] \in {"pass", "return"}
        /\ pc'[g] = "pass" => n = Len(number[g])
        /\ \A h \in Goroutines \ {g} : pc'[h] = pc[h]
    BY <1>1 DEF TypeOK
  <1>7. TypeOK'
    BY <1>2, <1>5, <1>6 DEF TypeOK
  <1>8. OneUser' /\ OwnBytes'
    BY <1>2 DEF OneUser, Lent, Listed, OwnBytes
  <1>9. FilledIsKept'
    <2> SUFFICES ASSUME NEW h \in Goroutines, pc'[h] = "pass", NEW i \in 1 .. Len(number[h])
                 PROVE  memory'[buf[h]][i] = number[h][i]
      BY <1>2 DEF FilledIsKept
    <2>1. CASE h = g
      BY <1>5, <1>6, <2>1
    <2>2. CASE h # g
      <3>1. pc[h] = "pass" /\ buf[h] \in Buffers /\ buf[h] # Nothing
        BY <1>6, <2>2 DEF TypeOK
      <3>2. buf[h] # buf[g]
        BY <2>2, <3>1 DEF OneUser
      <3> QED
        BY <1>5, <3>1, <3>2 DEF FilledIsKept
    <2> QED
      BY <2>1, <2>2
  <1> QED
    BY <1>7, <1>8, <1>9

LEMMA PassInv ==
    ASSUME Inv, NEW g \in Goroutines, Pass(g)
    PROVE  Inv'
  <1> USE DEF Inv, Safety
  <1>1. /\ pc[g] = "pass" /\ UNCHANGED <<free, memory, call, number, buf>>
        /\ passed' = [passed EXCEPT ![g] = [i \in 1 .. Len(number[g]) |-> memory[buf[g]][i]]]
        /\ pc' = [pc EXCEPT ![g] = "return"]
    BY DEF Pass
  <1>2. number[g] \in Seq(Nat)
    BY NumberType DEF TypeOK
  <1>3. [i \in 1 .. Len(number[g]) |-> memory[buf[g]][i]] = number[g]
    <2>1. \A i \in 1 .. Len(number[g]) : memory[buf[g]][i] = number[g][i]
      BY <1>1 DEF FilledIsKept
    <2>2. DOMAIN number[g] = 1 .. Len(number[g]) /\ number[g] = [i \in DOMAIN number[g] |-> number[g][i]]
      BY <1>2
    <2> QED
      BY <2>1, <2>2
  <1>4. TypeOK'
    BY <1>1 DEF TypeOK
  <1>5. OneUser'
    BY <1>1 DEF OneUser, Lent, Listed
  <1>6. OwnBytes'
    <2>1. passed'[g] = number[g] /\ \A h \in Goroutines \ {g} : passed'[h] = passed[h]
      BY <1>1, <1>3 DEF TypeOK
    <2> QED
      BY <1>1, <2>1 DEF OwnBytes
  <1>7. FilledIsKept'
    <2>1. \A h \in Goroutines : pc'[h] = "pass" => pc[h] = "pass"
      BY <1>1 DEF TypeOK
    <2> QED
      BY <1>1, <2>1 DEF FilledIsKept
  <1> QED
    BY <1>4, <1>5, <1>6, <1>7

LEMMA FinishInv ==
    ASSUME Inv, NEW g \in Goroutines, Finish(g)
    PROVE  Inv'
  <1> USE NothingAssumption DEF Inv, Safety
  <1>1. /\ pc[g] = "return" /\ Return(buf[g]) /\ UNCHANGED <<memory, call, number, passed>>
        /\ buf' = [buf EXCEPT ![g] = Nothing]
        /\ pc' = [pc EXCEPT ![g] = "idle"]
    BY DEF Finish
  <1>2. buf[g] \in Buffers
    BY <1>1 DEF TypeOK
  <1>3. free' \in Seq(Buffers) /\ Len(free') <= Capacity /\ OneUser'
    BY <1>1, <1>2, ReturnSafe
  <1>4. /\ pc'[g] = "idle" /\ buf'[g] = Nothing
        /\ \A h \in Goroutines \ {g} : pc'[h] = pc[h] /\ buf'[h] = buf[h]
    BY <1>1 DEF TypeOK
  <1>5. TypeOK'
    BY <1>1, <1>3, <1>4 DEF TypeOK
  <1>6. OwnBytes'
    BY <1>1 DEF OwnBytes
  <1>7. FilledIsKept'
    BY <1>1, <1>4 DEF FilledIsKept
  <1> QED
    BY <1>3, <1>5, <1>6, <1>7

LEMMA StepInv == Inv /\ [Next]_vars => Inv'
  <1> SUFFICES ASSUME Inv, [Next]_vars PROVE Inv'
    OBVIOUS
  <1>1. ASSUME NEW g \in Goroutines, NEW kind \in {"read", "write"}, NEW v \in Numbers,
               Start(g, kind, v)
        PROVE  Inv'
    BY <1>1, StartInv
  <1>2. ASSUME NEW g \in Goroutines, Step(g) PROVE Inv'
    BY <1>2, FillInv, PassInv, FinishInv DEF Step
  <1>3. CASE UNCHANGED vars
    <2>1. TypeOK'
      BY <1>3 DEF vars, Inv, TypeOK
    <2>2. OneUser'
      BY <1>3 DEF vars, Inv, Safety, OneUser, Lent, Listed
    <2>3. OwnBytes'
      BY <1>3 DEF vars, Inv, Safety, OwnBytes
    <2>4. FilledIsKept'
      BY <1>3 DEF vars, Inv, Safety, FilledIsKept
    <2> QED
      BY <2>1, <2>2, <2>3, <2>4 DEF Inv, Safety
  <1> QED
    BY <1>1, <1>2, <1>3 DEF Next

\* Type correctness, for any number of goroutines and any capacity.
THEOREM FreeListTypeCorrect == Spec => []TypeOK
  <1>1. Inv => TypeOK
    BY DEF Inv
  <1> QED
    BY <1>1, InitInv, StepInv, PTL DEF Spec

\* No two goroutines ever have one buffer, and none has one that is in the list.
THEOREM BuffersHaveOneUser == Spec => []OneUser
  <1>1. Inv => OneUser
    BY DEF Inv, Safety
  <1> QED
    BY <1>1, InitInv, StepInv, PTL DEF Spec

\* Every call writes or returns its own number.
THEOREM CallsPassTheirOwn == Spec => []OwnBytes
  <1>1. Inv => OwnBytes
    BY DEF Inv, Safety
  <1> QED
    BY <1>1, InitInv, StepInv, PTL DEF Spec
=============================================================================
