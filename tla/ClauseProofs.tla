---------------------------- MODULE ClauseProofs ----------------------------
(***************************************************************************)
(* The theorem that Contract is right to take a clause for one output, for *)
(* any orders, any outputs and any hash function.                          *)
(***************************************************************************)
EXTENDS Clause, SequenceTheorems, TLAPS

-----------------------------------------------------------------------------
(* The numbers in a clause, and sequences of a few elements.               *)

\* Only zero has no digits, and one has one.
LEMMA DigitOfOne == Digits(1) = <<1>>
  <1> DEFINE IsF(f) == f = [r \in 0 .. 1 |-> IF r = 0 THEN <<>>
                                            ELSE <<r % Base>> \o f[r \div Base]]
             g == [r \in 0 .. 1 |-> IF r = 0 THEN <<>> ELSE <<1>>]
             f == CHOOSE h : IsF(h)
  <1>1. 1 % Base = 1 /\ 1 \div Base = 0
    BY BaseAssumption
  <1>2. \A e : <<e>> \o <<>> = <<e>>
    OBVIOUS
  <1>3. IsF(g)
    <2>1. g[0] = <<>>
      OBVIOUS
    <2>2. ASSUME NEW r \in 0 .. 1
          PROVE  g[r] = IF r = 0 THEN <<>> ELSE <<r % Base>> \o g[r \div Base]
      <3>1. CASE r = 0
        BY <2>1, <3>1
      <3>2. CASE r = 1
        BY <1>1, <1>2, <2>1, <3>2
      <3> QED
        BY <3>1, <3>2
    <2>3. g = [r \in 0 .. 1 |-> g[r]]
      OBVIOUS
    <2> HIDE DEF g
    <2> QED
      BY <2>2, <2>3
  <1>4. IsF(f)
    BY <1>3
  <1>5. Digits(1) = f[1]
    BY DEF Digits
  <1> HIDE DEF f
  <1>6. f[0] = <<>> /\ f[1] = <<1 % Base>> \o f[1 \div Base]
    <2> DEFINE step(r) == IF r = 0 THEN <<>> ELSE <<r % Base>> \o f[r \div Base]
               s == [r \in 0 .. 1 |-> step(r)]
    <2>1. f = s
      BY <1>4
    <2>2. s[0] = step(0) /\ s[1] = step(1)
      OBVIOUS
    <2> HIDE DEF s
    <2> QED
      BY <2>1, <2>2
  <1> QED
    BY <1>1, <1>2, <1>5, <1>6

\* The three versions are told apart by their bytes, and so are true and false.
LEMMA SmallNumbers ==
    /\ Bytes(0) = <<>> /\ Bytes(1) = <<1>>
    /\ Bytes(-1) # Bytes(0) /\ Bytes(-1) # Bytes(1) /\ Bytes(1) # Bytes(0)
    /\ Minimal(<<>>) /\ Decode(<<>>) = 0
  <1>1. SignBit \in Nat /\ SignBit > 1
    BY BaseAssumption DEF SignBit
  <1>2. Bytes(0) = <<>>
    <2>1. Digits(0) = <<>>
      BY DEF Digits
    <2> QED
      BY <2>1 DEF Bytes
  <1>3. Bytes(1) = <<1>>
    BY <1>1, DigitOfOne DEF Bytes
  <1>4. Bytes(-1) = <<1 + SignBit>>
    <2>1. Negate(-1) = 1
      <3>1. PICK h \in Nat : h = Half(Width) /\ h > 1
        BY SignAssumption
      <3>2. PICK n \in Int : n = 0 - 1
        OBVIOUS
      <3>3. n # -h /\ n = -1
        BY <3>1, <3>2
      <3>4. -n <= 1 /\ -n >= 1
        BY <3>2
      <3>5. -n = 1
        BY <3>4
      <3>6. Negate(n) = 1
        BY <3>1, <3>3, <3>5, Zenon DEF Negate
      <3> QED
        BY <3>3, <3>6, Zenon
    <2> QED
      BY <1>1, <2>1, DigitOfOne DEF Bytes
  <1>5. Minimal(<<>>) /\ Decode(<<>>) = 0
    BY DEF Minimal, Decode
  <1>6. <<1 + SignBit>> # <<>> /\ <<1 + SignBit>> # <<1>> /\ <<1>> # <<>>
    BY <1>1
  <1> QED
    BY <1>2, <1>3, <1>4, <1>5, <1>6

\* What is put on a stack of two elements or fewer.
LEMMA SmallPushes ==
    ASSUME NEW a, NEW b, NEW c
    PROVE  /\ <<a>> \o <<>> = <<a>> /\ <<a>> \o <<b>> = <<a, b>>
           /\ <<a>> \o <<b, c>> = <<a, b, c>> /\ <<a, b>> \o <<>> = <<a, b>>
  <1>1. <<a>> \o <<>> = <<a>> /\ <<a, b>> \o <<>> = <<a, b>>
    OBVIOUS
  <1> DEFINE Elements == {a, b, c}
  <1>2. <<a>> \o <<b>> = <<a, b>>
    <2> DEFINE s == <<a>>
               t == <<b>>
               u == <<a, b>>
    <2>1. s \in Seq(Elements) /\ Len(s) = 1 /\ s[1] = a
      OBVIOUS
    <2>2. t \in Seq(Elements) /\ Len(t) = 1 /\ t[1] = b
      OBVIOUS
    <2>3. u \in Seq(Elements) /\ Len(u) = 2 /\ u[1] = a /\ u[2] = b
      OBVIOUS
    <2> HIDE DEF s, t, u, Elements
    <2>4. /\ s \o t \in Seq(Elements) /\ Len(s \o t) = 2
          /\ (s \o t)[1] = a /\ (s \o t)[2] = b
      BY <2>1, <2>2, ConcatProperties
    <2>5. s \o t = u
      <3>1. \A i \in 1 .. 2 : (s \o t)[i] = u[i]
        BY <2>3, <2>4
      <3> QED
        BY <2>3, <2>4, <3>1, SeqEqual
    <2> QED
      BY <2>5 DEF s, t, u
  <1>3. <<a>> \o <<b, c>> = <<a, b, c>>
    <2> DEFINE s == <<a>>
               t == <<b, c>>
               u == <<a, b, c>>
    <2>1. s \in Seq(Elements) /\ Len(s) = 1 /\ s[1] = a
      OBVIOUS
    <2>2. t \in Seq(Elements) /\ Len(t) = 2 /\ t[1] = b /\ t[2] = c
      OBVIOUS
    <2>3. u \in Seq(Elements) /\ Len(u) = 3 /\ u[1] = a /\ u[2] = b /\ u[3] = c
      OBVIOUS
    <2> HIDE DEF s, t, u, Elements
    <2>4. /\ s \o t \in Seq(Elements) /\ Len(s \o t) = 3
          /\ (s \o t)[1] = a /\ (s \o t)[2] = b /\ (s \o t)[3] = c
      BY <2>1, <2>2, ConcatProperties
    <2>5. s \o t = u
      <3>1. \A i \in 1 .. 3 : (s \o t)[i] = u[i]
        BY <2>3, <2>4
      <3> QED
        BY <2>3, <2>4, <3>1, SeqEqual
    <2> QED
      BY <2>5 DEF s, t, u
  <1> QED
    BY <1>1, <1>2, <1>3

\* What is taken off a stack of a few elements.
LEMMA SmallPops ==
    ASSUME NEW a, NEW b, NEW c
    PROVE  /\ SubSeq(<<a>>, 2, Len(<<a>>)) = <<>>
           /\ SubSeq(<<a, b>>, 2, Len(<<a, b>>)) = <<b>>
           /\ SubSeq(<<a, b>>, 3, Len(<<a, b>>)) = <<>>
           /\ SubSeq(<<a, b, c>>, 3, Len(<<a, b, c>>)) = <<c>>
  <1>1. SubSeq(<<a>>, 2, Len(<<a>>)) = <<>>
    OBVIOUS
  <1>2. SubSeq(<<a, b>>, 2, Len(<<a, b>>)) = <<b>>
    <2> DEFINE s == <<a, b>>
               u == <<b>>
    <2>1. Len(s) = 2 /\ s[2] = b
      OBVIOUS
    <2>2. u \in Seq({b}) /\ Len(u) = 1 /\ u[1] = b
      OBVIOUS
    <2> HIDE DEF s, u
    <2>3. /\ SubSeq(s, 2, 2) \in Seq({b}) /\ Len(SubSeq(s, 2, 2)) = 1
          /\ SubSeq(s, 2, 2)[1] = b
      <3>1. \A i \in 2 .. 2 : s[i] \in {b}
        BY <2>1
      <3>2. /\ SubSeq(s, 2, 2) \in Seq({b})
            /\ Len(SubSeq(s, 2, 2)) = IF 2 <= 2 THEN 2 - 2 + 1 ELSE 0
            /\ \A i \in 1 .. 2 - 2 + 1 : SubSeq(s, 2, 2)[i] = s[2 + i - 1]
        BY <3>1, SubSeqProperties
      <3> QED
        BY <2>1, <3>2
    <2>4. SubSeq(s, 2, 2) = u
      <3>1. \A i \in 1 .. 1 : SubSeq(s, 2, 2)[i] = u[i]
        BY <2>2, <2>3
      <3> QED
        BY <2>2, <2>3, <3>1, SeqEqual
    <2> QED
      BY <2>1, <2>4 DEF s, u
  <1>3. SubSeq(<<a, b>>, 3, Len(<<a, b>>)) = <<>>
    OBVIOUS
  <1>4. SubSeq(<<a, b, c>>, 3, Len(<<a, b, c>>)) = <<c>>
    <2> DEFINE s == <<a, b, c>>
               u == <<c>>
    <2>1. Len(s) = 3 /\ s[3] = c
      OBVIOUS
    <2>2. u \in Seq({c}) /\ Len(u) = 1 /\ u[1] = c
      OBVIOUS
    <2> HIDE DEF s, u
    <2>3. /\ SubSeq(s, 3, 3) \in Seq({c}) /\ Len(SubSeq(s, 3, 3)) = 1
          /\ SubSeq(s, 3, 3)[1] = c
      <3>1. \A i \in 3 .. 3 : s[i] \in {c}
        BY <2>1
      <3>2. /\ SubSeq(s, 3, 3) \in Seq({c})
            /\ Len(SubSeq(s, 3, 3)) = IF 3 <= 3 THEN 3 - 3 + 1 ELSE 0
            /\ \A i \in 1 .. 3 - 3 + 1 : SubSeq(s, 3, 3)[i] = s[3 + i - 1]
        BY <3>1, SubSeqProperties
      <3> QED
        BY <2>1, <3>2
    <2>4. SubSeq(s, 3, 3) = u
      <3>1. \A i \in 1 .. 1 : SubSeq(s, 3, 3)[i] = u[i]
        BY <2>2, <2>3
      <3> QED
        BY <2>2, <2>3, <3>1, SeqEqual
    <2> QED
      BY <2>1, <2>4 DEF s, u
  <1> QED
    BY <1>1, <1>2, <1>3, <1>4

\* What is left of a script loses its first instruction.
LEMMA NextInstruction ==
    ASSUME NEW Elements, NEW s \in Seq(Elements), NEW k \in Nat, k < Len(s)
    PROVE  /\ SubSeq(s, k + 1, Len(s)) # <<>>
           /\ Head(SubSeq(s, k + 1, Len(s))) = s[k + 1]
           /\ Tail(SubSeq(s, k + 1, Len(s))) = SubSeq(s, k + 2, Len(s))
  <1> DEFINE r == SubSeq(s, k + 1, Len(s))
  <1>1. Head(r) = s[k + 1] /\ Tail(r) = SubSeq(s, k + 2, Len(s))
    <2>1. k + 1 \in 1 .. Len(s) /\ Len(s) \in k + 1 .. Len(s) /\ (k + 1) + 1 = k + 2
      OBVIOUS
    <2> QED
      BY <2>1, HeadTailOfSubSeq
  <1>2. r # <<>>
    <2>1. r \in Seq(Elements) /\ Len(r) = Len(s) - k
      OBVIOUS
    <2> HIDE DEF r
    <2> QED
      BY <2>1
  <1> QED
    BY <1>1, <1>2

-----------------------------------------------------------------------------
(* A clause, instruction by instruction.                                   *)

\* The clause of the order.  Both clauses are compiled alike.
Code == compileFulfillClause(0, Versions[order.recipient.head], order.recipient.program,
                             order.amount, order.asset)

Version == Bytes(Versions[order.recipient.head])

\* What the first output shows, of each kind the top of the stack last.
ShownScript == Inspected(tx[0], "INSPECTOUTPUTSCRIPTPUBKEY")
ShownAsset == Inspected(tx[0], "INSPECTOUTPUTASSET")
ShownValue == Inspected(tx[0], "INSPECTOUTPUTVALUE")

SameVersion == ShownScript[1] = Version
SameScript == SameVersion /\ ShownScript[2] = order.recipient.program
SameAsset == ShownAsset[2] = order.asset
SameValue == ShownValue[2] = LittleEndian(order.amount)

\* The stack s after k instructions, and what was then found to be the same.
After(k, s) ==
    \/ k = 0 /\ s = <<>>
    \/ k = 1 /\ s = <<<<>>>>
    \/ k = 2 /\ s = <<ShownScript[1], ShownScript[2]>>
    \/ k = 3 /\ s = <<Version, ShownScript[1], ShownScript[2]>>
    \/ k = 4 /\ s = <<ShownScript[2]>> /\ SameVersion
    \/ k = 5 /\ s = <<order.recipient.program, ShownScript[2]>> /\ SameVersion
    \/ k = 6 /\ s = <<>> /\ SameScript
    \/ k = 7 /\ s = <<<<>>>> /\ SameScript
    \/ k = 8 /\ s = <<ShownAsset[1], ShownAsset[2]>> /\ SameScript
    \/ k = 9 /\ s = <<ShownAsset[2]>> /\ SameScript
    \/ k = 10 /\ s = <<order.asset, ShownAsset[2]>> /\ SameScript
    \/ k = 11 /\ s = <<>> /\ SameScript /\ SameAsset
    \/ k = 12 /\ s = <<<<>>>> /\ SameScript /\ SameAsset
    \/ k = 13 /\ s = <<ShownValue[1], ShownValue[2]>> /\ SameScript /\ SameAsset
    \/ k = 14 /\ s = <<ShownValue[2]>> /\ SameScript /\ SameAsset
    \/ k = 15 /\ s = <<LittleEndian(order.amount), ShownValue[2]>> /\ SameScript /\ SameAsset
    \/ k = 16 /\ s = <<IF SameValue THEN <<1>> ELSE <<>>>> /\ SameScript /\ SameAsset

ClauseInv ==
    /\ order \in Orders
    /\ tx \in [0 .. 1 -> TxOutputs]
    /\ verdict \in {"new", "running", "unknown", "accepted", "refused"}
    /\ verdict = "new" => stack = <<>>
    /\ verdict = "running" =>
          /\ order.recipient.head \in {"OP_0", "OP_1"}
          /\ \E k \in 0 .. 16 : script = SubSeq(Code, k + 1, 16) /\ After(k, stack)
    /\ AcceptsTheOneOutput

\* The sixteen instructions.
LEMMA CodeIs ==
    /\ Code \in Seq({Code[i] : i \in 1 .. 16}) /\ Len(Code) = 16
    /\ Code[1].op = "data" /\ Code[1].bytes = <<>>
    /\ Code[2].op = "INSPECTOUTPUTSCRIPTPUBKEY"
    /\ Code[3].op = "data" /\ Code[3].bytes = Version
    /\ Code[4].op = "EQUALVERIFY"
    /\ Code[5].op = "data" /\ Code[5].bytes = order.recipient.program
    /\ Code[6].op = "EQUALVERIFY"
    /\ Code[7].op = "data" /\ Code[7].bytes = <<>>
    /\ Code[8].op = "INSPECTOUTPUTASSET"
    /\ Code[9].op = "DROP"
    /\ Code[10].op = "data" /\ Code[10].bytes = order.asset
    /\ Code[11].op = "EQUALVERIFY"
    /\ Code[12].op = "data" /\ Code[12].bytes = <<>>
    /\ Code[13].op = "INSPECTOUTPUTVALUE"
    /\ Code[14].op = "DROP"
    /\ Code[15].op = "data" /\ Code[15].bytes = LittleEndian(order.amount)
    /\ Code[16].op = "EQUAL"
  <1> DEFINE v == Versions[order.recipient.head]
             p == order.recipient.program
             m == order.amount
             a == order.asset
             l == LittleEndian(m)
             z == Bytes(0)
             b == Bytes(v)
  <1>1. Code = << AddData(z), AddOp("INSPECTOUTPUTSCRIPTPUBKEY"),
                  AddData(b), AddOp("EQUALVERIFY"), AddData(p), AddOp("EQUALVERIFY"),
                  AddData(z), AddOp("INSPECTOUTPUTASSET"), AddOp("DROP"),
                  AddData(a), AddOp("EQUALVERIFY"),
                  AddData(z), AddOp("INSPECTOUTPUTVALUE"), AddOp("DROP"),
                  AddData(l), AddOp("EQUAL") >>
    BY DEF Code, compileFulfillClause
  <1>2. z = <<>> /\ b = Version /\ l = LittleEndian(order.amount)
    BY SmallNumbers DEF Version
  <1> HIDE DEF v, p, m, a, l, z, b
  <1>3. Code \in Seq({Code[i] : i \in 1 .. 16}) /\ Len(Code) = 16
    <2> DEFINE c == Code
    <2>1. Len(c) = 16 /\ DOMAIN c = 1 .. 16 /\ c = [i \in 1 .. 16 |-> c[i]]
      BY <1>1
    <2> HIDE DEF c
    <2>2. c \in Seq({c[i] : i \in 1 .. 16})
      BY <2>1
    <2> QED
      BY <2>1, <2>2 DEF c
  <1>4. /\ Code[1] = AddData(z) /\ Code[2] = AddOp("INSPECTOUTPUTSCRIPTPUBKEY")
        /\ Code[3] = AddData(b) /\ Code[4] = AddOp("EQUALVERIFY")
        /\ Code[5] = AddData(p) /\ Code[6] = AddOp("EQUALVERIFY")
        /\ Code[7] = AddData(z) /\ Code[8] = AddOp("INSPECTOUTPUTASSET")
        /\ Code[9] = AddOp("DROP") /\ Code[10] = AddData(a) /\ Code[11] = AddOp("EQUALVERIFY")
        /\ Code[12] = AddData(z) /\ Code[13] = AddOp("INSPECTOUTPUTVALUE")
        /\ Code[14] = AddOp("DROP") /\ Code[15] = AddData(l) /\ Code[16] = AddOp("EQUAL")
    BY <1>1
  <1>5. \A x : AddOp(x).op = x /\ AddData(x).op = "data" /\ AddData(x).bytes = x
    BY DEF AddOp, AddData
  <1>6. p = order.recipient.program /\ a = order.asset
    BY DEF p, a
  <1>7. /\ Code[1].op = "data" /\ Code[1].bytes = <<>>
        /\ Code[2].op = "INSPECTOUTPUTSCRIPTPUBKEY"
        /\ Code[3].op = "data" /\ Code[3].bytes = Version
        /\ Code[4].op = "EQUALVERIFY"
        /\ Code[5].op = "data" /\ Code[5].bytes = order.recipient.program
        /\ Code[6].op = "EQUALVERIFY"
    BY <1>2, <1>4, <1>5, <1>6, Zenon
  <1>8. /\ Code[7].op = "data" /\ Code[7].bytes = <<>>
        /\ Code[8].op = "INSPECTOUTPUTASSET"
        /\ Code[9].op = "DROP"
        /\ Code[10].op = "data" /\ Code[10].bytes = order.asset
        /\ Code[11].op = "EQUALVERIFY"
    BY <1>2, <1>4, <1>5, <1>6, Zenon
  <1>9. /\ Code[12].op = "data" /\ Code[12].bytes = <<>>
        /\ Code[13].op = "INSPECTOUTPUTVALUE"
        /\ Code[14].op = "DROP"
        /\ Code[15].op = "data" /\ Code[15].bytes = LittleEndian(order.amount)
        /\ Code[16].op = "EQUAL"
    BY <1>2, <1>4, <1>5, <1>6, Zenon
  <1> QED
    BY <1>3, <1>7, <1>8, <1>9

\* Goes on to the next instruction, with another stack.
GoesOn(k, newStack) ==
    /\ stack' = newStack
    /\ script' = SubSeq(Code, k + 2, 16)
    /\ verdict' = "running"
    /\ order' = order /\ tx' = tx

Stops == verdict' = "refused" /\ order' = order /\ tx' = tx

\* What a step of a running script does is told by its next instruction.
LEMMA Runs ==
    ASSUME verdict = "running", NEW k \in 0 .. 15, script = SubSeq(Code, k + 1, 16), Next
    PROVE  LET op == Code[k + 1].op
           IN /\ op = "data" => GoesOn(k, <<Code[k + 1].bytes>> \o stack)
              /\ op \in {"INSPECTOUTPUTSCRIPTPUBKEY", "INSPECTOUTPUTASSET", "INSPECTOUTPUTVALUE"}
                    /\ stack = <<<<>>>> /\ DOMAIN tx = 0 .. 1 =>
                    GoesOn(k, Inspected(tx[0], op) \o SubSeq(stack, 2, Len(stack)))
              /\ op = "DROP" /\ stack # <<>> => GoesOn(k, SubSeq(stack, 2, Len(stack)))
              /\ op = "EQUALVERIFY" /\ Len(stack) >= 2 =>
                    IF stack[1] = stack[2] THEN GoesOn(k, SubSeq(stack, 3, Len(stack))) ELSE Stops
              /\ op = "EQUAL" /\ Len(stack) >= 2 =>
                    GoesOn(k, <<IF stack[1] = stack[2] THEN <<1>> ELSE <<>>>>
                                 \o SubSeq(stack, 3, Len(stack)))
  <1> DEFINE op == Code[k + 1].op
             rest == SubSeq(Code, k + 2, 16)
  <1>1. script # <<>> /\ Head(script) = Code[k + 1] /\ Tail(script) = rest
    <2>1. PICK Elements : Code \in Seq(Elements)
      BY CodeIs
    <2>2. k < Len(Code) /\ k \in Nat /\ Len(Code) = 16
      BY CodeIs
    <2>3. PICK c \in Seq(Elements) : c = Code
      BY <2>1
    <2>4. /\ SubSeq(c, k + 1, Len(c)) # <<>>
          /\ Head(SubSeq(c, k + 1, Len(c))) = c[k + 1]
          /\ Tail(SubSeq(c, k + 1, Len(c))) = SubSeq(c, k + 2, Len(c))
      BY <2>2, <2>3, NextInstruction
    <2> QED
      BY <2>2, <2>3, <2>4
  <1>2. /\ \A other : Running(other) => other = op
        /\ ~Compile /\ ~End
    BY <1>1 DEF Running, Compile, End
  <1>3. \A newStack : Continue(newStack) => GoesOn(k, newStack)
    BY <1>1 DEF Continue, GoesOn
  <1>4. Refuse => Stops
    BY DEF Refuse, Stops
  <1> HIDE DEF op, rest
  <1>5. Push \/ Inspect \/ Drop \/ EqualVerify \/ Equal
    BY <1>2 DEF Next
  <1>6. op = "data" => GoesOn(k, <<Code[k + 1].bytes>> \o stack)
    <2> SUFFICES ASSUME op = "data" PROVE Push
      BY <1>1, <1>3 DEF Push
    <2> QED
      BY <1>2, <1>5 DEF Inspect, Drop, EqualVerify, Equal
  <1>7. op \in {"INSPECTOUTPUTSCRIPTPUBKEY", "INSPECTOUTPUTASSET", "INSPECTOUTPUTVALUE"}
           /\ stack = <<<<>>>> /\ DOMAIN tx = 0 .. 1 =>
              GoesOn(k, Inspected(tx[0], op) \o SubSeq(stack, 2, Len(stack)))
    <2> SUFFICES ASSUME op \in {"INSPECTOUTPUTSCRIPTPUBKEY", "INSPECTOUTPUTASSET",
                               "INSPECTOUTPUTVALUE"},
                        stack = <<<<>>>>, DOMAIN tx = 0 .. 1
                 PROVE  GoesOn(k, Inspected(tx[0], op) \o SubSeq(stack, 2, Len(stack)))
      OBVIOUS
    <2>1. stack # <<>> /\ Head(stack) = <<>>
      OBVIOUS
    <2>2. Minimal(Head(stack)) /\ Decode(Head(stack)) = 0 /\ 0 \in DOMAIN tx
      BY <2>1, SmallNumbers
    <2>3. Inspect
      BY <1>2, <1>5 DEF Push, Drop, EqualVerify, Equal
    <2>4. Continue(Inspected(tx[0], op) \o Under(1))
      BY <1>2, <2>1, <2>2, <2>3, Zenon DEF Inspect
    <2>5. Under(1) = SubSeq(stack, 2, Len(stack))
      BY DEF Under
    <2> QED
      BY <1>3, <2>4, <2>5
  <1>8. op = "DROP" /\ stack # <<>> => GoesOn(k, SubSeq(stack, 2, Len(stack)))
    <2> SUFFICES ASSUME op = "DROP", stack # <<>>
                 PROVE  GoesOn(k, SubSeq(stack, 2, Len(stack)))
      OBVIOUS
    <2>1. Drop
      BY <1>2, <1>5 DEF Push, Inspect, EqualVerify, Equal
    <2> QED
      BY <1>3, <2>1 DEF Drop, Under
  <1>9. op = "EQUALVERIFY" /\ Len(stack) >= 2 =>
           IF stack[1] = stack[2] THEN GoesOn(k, SubSeq(stack, 3, Len(stack))) ELSE Stops
    <2> SUFFICES ASSUME op = "EQUALVERIFY", Len(stack) >= 2
                 PROVE  IF stack[1] = stack[2] THEN GoesOn(k, SubSeq(stack, 3, Len(stack)))
                        ELSE Stops
      OBVIOUS
    <2>1. EqualVerify
      BY <1>2, <1>5 DEF Push, Inspect, Drop, Equal
    <2> QED
      BY <1>3, <1>4, <2>1 DEF EqualVerify, Under
  <1>10. op = "EQUAL" /\ Len(stack) >= 2 =>
            GoesOn(k, <<IF stack[1] = stack[2] THEN <<1>> ELSE <<>>>>
                         \o SubSeq(stack, 3, Len(stack)))
    <2> SUFFICES ASSUME op = "EQUAL", Len(stack) >= 2
                 PROVE  GoesOn(k, <<IF stack[1] = stack[2] THEN <<1>> ELSE <<>>>>
                                     \o SubSeq(stack, 3, Len(stack)))
      OBVIOUS
    <2>1. Equal
      BY <1>2, <1>5 DEF Push, Inspect, Drop, EqualVerify
    <2>2. Continue(<<IF stack[1] = stack[2] THEN Bytes(1) ELSE Bytes(0)>> \o Under(2))
      BY <2>1 DEF Equal
    <2>3. Bytes(1) = <<1>> /\ Bytes(0) = <<>> /\ Under(2) = SubSeq(stack, 3, Len(stack))
      BY SmallNumbers DEF Under
    <2> QED
      BY <1>3, <2>2, <2>3
  <1> QED
    BY <1>6, <1>7, <1>8, <1>9, <1>10 DEF op

\* Two elements are shown of each kind.
LEMMA TwoAreShown ==
    /\ ShownScript = <<ShownScript[1], ShownScript[2]>>
    /\ ShownAsset = <<ShownAsset[1], ShownAsset[2]>>
    /\ ShownAsset[2] = tx[0].asset.bytes
    /\ ShownValue = <<ShownValue[1], ShownValue[2]>>
    /\ ShownValue[2] = tx[0].value.bytes
  <1> DEFINE out == tx[0]
  <1>1. /\ IsWitnessProgram(out.script) =>
              ShownScript = <<Bytes(Versions[out.script.head]), out.script.program>>
        /\ ~IsWitnessProgram(out.script) => ShownScript = <<Bytes(-1), Sha256[out.script]>>
    BY DEF ShownScript, Inspected
  <1>2. ShownAsset = <<<<out.asset.prefix>>, out.asset.bytes>>
    BY DEF ShownAsset, Inspected
  <1>3. ShownValue = <<<<out.value.prefix>>, out.value.bytes>>
    BY DEF ShownValue, Inspected
  <1> HIDE DEF out
  <1>4. \A a, b : <<a, b>>[1] = a /\ <<a, b>>[2] = b
    OBVIOUS
  <1>5. ShownScript = <<ShownScript[1], ShownScript[2]>>
    <2>1. PICK a, b : ShownScript = <<a, b>>
      BY <1>1
    <2>2. ShownScript[1] = a /\ ShownScript[2] = b
      BY <1>4, <2>1, Zenon
    <2> QED
      BY <2>1, <2>2
  <1>6. ShownAsset[1] = <<out.asset.prefix>> /\ ShownAsset[2] = out.asset.bytes
    BY <1>2, <1>4, Zenon
  <1>7. ShownValue[1] = <<out.value.prefix>> /\ ShownValue[2] = out.value.bytes
    BY <1>3, <1>4, Zenon
  <1>8. out = tx[0]
    BY DEF out
  <1> QED
    BY <1>2, <1>3, <1>5, <1>6, <1>7, <1>8, Zenon

\* What the comparisons tell: an output that is not blinded, with the asset, the amount
\* and the script of the order.
LEMMA SameIsRequested ==
    ASSUME order \in Orders, tx \in [0 .. 1 -> TxOutputs],
           order.recipient.head \in {"OP_0", "OP_1"}
    PROVE  IsRequested(tx[0]) <=> SameScript /\ SameAsset /\ SameValue
  <1> DEFINE out == tx[0]
             r == order.recipient
             s == out.script
  <1>1. out \in TxOutputs
    OBVIOUS
  <1>2. r = [head |-> r.head, program |-> r.program] /\ s = [head |-> s.head, program |-> s.program]
    BY <1>1, OrdersAssumption, OutputsAssumption, Zenon DEF IsPubKey
  <1>3. /\ Blinded(out.asset) => out.asset.bytes # order.asset
        /\ Blinded(out.value) => out.value.bytes # LittleEndian(order.amount)
    BY <1>1, OutputsAssumption
  <1>4. SameScript <=> s = r
    <2>1. Versions["OP_0"] = 0 /\ Versions["OP_1"] = 1
      BY DEF Versions
    <2>2. /\ Bytes(-1) # Bytes(0) /\ Bytes(-1) # Bytes(1) /\ Bytes(1) # Bytes(0)
      BY SmallNumbers
    <2>3. Version = Bytes(Versions[r.head]) /\ r.head \in {"OP_0", "OP_1"}
      BY DEF Version
    <2>4. CASE s.head \in {"OP_0", "OP_1"}
      <3>1. ShownScript = <<Bytes(Versions[s.head]), s.program>>
        BY <2>4 DEF ShownScript, Inspected, IsWitnessProgram
      <3>2. ShownScript[1] = Bytes(Versions[s.head]) /\ ShownScript[2] = s.program
        BY <3>1
      <3>3. ShownScript[1] = Version <=> s.head = r.head
        BY <2>1, <2>2, <2>3, <2>4, <3>2
      <3>4. s = r <=> s.head = r.head /\ s.program = r.program
        BY <1>2, Zenon
      <3> HIDE DEF s, r
      <3>5. r.program = order.recipient.program
        BY DEF r
      <3> QED
        BY <3>2, <3>3, <3>4, <3>5, Zenon DEF SameScript, SameVersion
    <2>5. CASE s.head \notin {"OP_0", "OP_1"}
      <3>1. ShownScript = <<Bytes(-1), Sha256[s]>>
        BY <2>5 DEF ShownScript, Inspected, IsWitnessProgram
      <3>2. ShownScript[1] = Bytes(-1)
        BY <3>1
      <3>3. ShownScript[1] # Version
        BY <2>1, <2>2, <2>3, <3>2
      <3>4. s # r
        BY <2>3, <2>5
      <3> QED
        BY <3>3, <3>4 DEF SameScript, SameVersion
    <2> QED
      BY <2>4, <2>5
  <1>5. Seen(out) = Requested <=> /\ out.asset.bytes = order.asset
                                 /\ out.value.bytes = LittleEndian(order.amount)
                                 /\ s = r
    BY DEF Seen, Requested, C!Output, C!FulfillScript
  <1>6. /\ SameAsset <=> out.asset.bytes = order.asset
        /\ SameValue <=> out.value.bytes = LittleEndian(order.amount)
    BY TwoAreShown, Zenon DEF SameAsset, SameValue
  <1>7. IsRequested(out) <=> ~Blinded(out.asset) /\ ~Blinded(out.value) /\ Seen(out) = Requested
    BY DEF IsRequested
  <1> HIDE DEF out, s, r
  <1>8. IsRequested(out) <=> SameScript /\ SameAsset /\ SameValue
    BY <1>3, <1>4, <1>5, <1>6, <1>7, Zenon
  <1> QED
    BY <1>8 DEF out

\* An instruction takes the stack from one line of After to the next, or stops at a
\* difference.
LEMMA RunsOn ==
    ASSUME verdict = "running", NEW k \in 0 .. 15, script = SubSeq(Code, k + 1, 16), Next,
           After(k, stack), DOMAIN tx = 0 .. 1
    PROVE  \/ \E s : GoesOn(k, s) /\ After(k + 1, s)
           \/ Stops /\ ~(SameScript /\ SameAsset)
  <1> DEFINE s == ShownScript
             a == ShownAsset
             v == ShownValue
             p == order.recipient.program
             o == order.asset
             l == LittleEndian(order.amount)
             e == IF SameValue THEN <<1>> ELSE <<>>
  <1>1. \A x, y, z :
           /\ <<x>> \o <<>> = <<x>> /\ <<x>> \o <<y>> = <<x, y>>
           /\ <<x>> \o <<y, z>> = <<x, y, z>> /\ <<x, y>> \o <<>> = <<x, y>>
    BY SmallPushes
  <1>2. \A x, y, z :
           /\ SubSeq(<<x>>, 2, Len(<<x>>)) = <<>>
           /\ SubSeq(<<x, y>>, 2, Len(<<x, y>>)) = <<y>>
           /\ SubSeq(<<x, y>>, 3, Len(<<x, y>>)) = <<>>
           /\ SubSeq(<<x, y, z>>, 3, Len(<<x, y, z>>)) = <<z>>
    BY SmallPops
  <1>3. \A x, y, z :
           /\ Len(<<x, y>>) >= 2 /\ <<x, y>>[1] = x /\ <<x, y>>[2] = y /\ <<x, y>> # <<>>
           /\ Len(<<x, y, z>>) >= 2 /\ <<x, y, z>>[1] = x /\ <<x, y, z>>[2] = y
    OBVIOUS
  <1>4. s = <<s[1], s[2]>> /\ a = <<a[1], a[2]>> /\ v = <<v[1], v[2]>>
    BY TwoAreShown
  <1>5. ASSUME NEW q, q = <<q[1], q[2]>> PROVE q \o <<>> = <<q[1], q[2]>>
    <2>1. PICK x, y : x = q[1] /\ y = q[2]
      OBVIOUS
    <2>2. q = <<x, y>>
      BY <1>5, <2>1
    <2>3. <<x, y>> \o <<>> = <<x, y>>
      BY <1>1
    <2> QED
      BY <2>1, <2>2, <2>3
  <1>6. /\ s \o <<>> = <<s[1], s[2]>> /\ a \o <<>> = <<a[1], a[2]>>
         /\ v \o <<>> = <<v[1], v[2]>>
    <2>1. s \o <<>> = <<s[1], s[2]>>
      BY <1>4, <1>5
    <2>2. a \o <<>> = <<a[1], a[2]>>
      BY <1>4, <1>5
    <2>3. v \o <<>> = <<v[1], v[2]>>
      BY <1>4, <1>5
    <2> QED
      BY <2>1, <2>2, <2>3
  <1>7. /\ SameVersion <=> Version = s[1]
        /\ SameScript <=> SameVersion /\ p = s[2]
        /\ SameAsset <=> o = a[2]
        /\ SameValue <=> l = v[2]
    BY Zenon DEF SameVersion, SameScript, SameAsset, SameValue
  <1>8. /\ s = Inspected(tx[0], "INSPECTOUTPUTSCRIPTPUBKEY")
        /\ a = Inspected(tx[0], "INSPECTOUTPUTASSET")
        /\ v = Inspected(tx[0], "INSPECTOUTPUTVALUE")
    BY DEF ShownScript, ShownAsset, ShownValue
  <1> HIDE DEF s, a, v, p, o, l, e
  <1>9. CASE k = 0
    <2>1. stack = <<>>
      BY <1>9 DEF After, s, a, v, p, o, l, e
    <2>2. \A stacked : stacked = <<<<>>>> => After(k + 1, stacked)
      BY <1>9 DEF After, s, a, v, p, o, l, e
    <2>3. k + 1 = 1
      BY <1>9
    <2>4. GoesOn(k, <<<<>>>> \o stack)
      BY <2>3, CodeIs, Runs DEF p, o, l
    <2>5. GoesOn(k, <<<<>>>>)
      BY <1>1, <2>1, <2>4, Zenon
    <2> QED
      BY <2>1, <2>2, <2>5, Zenon
  <1>10. CASE k = 1
    <2>1. stack = <<<<>>>>
      BY <1>10 DEF After, s, a, v, p, o, l, e
    <2>2. \A stacked : stacked = <<s[1], s[2]>> => After(k + 1, stacked)
      BY <1>10 DEF After, s, a, v, p, o, l, e
    <2>3. k + 1 = 2
      BY <1>10
    <2>4. GoesOn(k, Inspected(tx[0], "INSPECTOUTPUTSCRIPTPUBKEY") \o SubSeq(stack, 2, Len(stack)))
      BY <2>1, <2>3, CodeIs, Runs DEF p, o, l
    <2>5. s \o SubSeq(stack, 2, Len(stack)) = <<s[1], s[2]>>
      <3>1. SubSeq(stack, 2, Len(stack)) = <<>>
        BY <1>2, <2>1, Zenon
      <3> QED
        BY <1>6, <3>1, Zenon
    <2>6. GoesOn(k, <<s[1], s[2]>>)
      BY <1>8, <2>4, <2>5, Zenon
    <2> QED
      BY <2>1, <2>2, <2>6, Zenon
  <1>11. CASE k = 2
    <2>1. stack = <<s[1], s[2]>>
      BY <1>11 DEF After, s, a, v, p, o, l, e
    <2>2. \A stacked : stacked = <<Version, s[1], s[2]>> => After(k + 1, stacked)
      BY <1>11 DEF After, s, a, v, p, o, l, e
    <2>3. k + 1 = 3
      BY <1>11
    <2>4. GoesOn(k, <<Version>> \o stack)
      BY <2>3, CodeIs, Runs DEF p, o, l
    <2>5. GoesOn(k, <<Version, s[1], s[2]>>)
      BY <1>1, <2>1, <2>4, Zenon
    <2> QED
      BY <2>1, <2>2, <2>5, Zenon
  <1>12. CASE k = 3
    <2>1. stack = <<Version, s[1], s[2]>>
      BY <1>12 DEF After, s, a, v, p, o, l, e
    <2>2. \A stacked : stacked = <<s[2]>> /\ SameVersion => After(k + 1, stacked)
      BY <1>12 DEF After, s, a, v, p, o, l, e
    <2>3. k + 1 = 4
      BY <1>12
    <2>4. /\ Len(stack) >= 2 /\ stack[1] = Version /\ stack[2] = s[1]
          /\ SubSeq(stack, 3, Len(stack)) = <<s[2]>>
      <3>1. Len(stack) >= 2 /\ stack[1] = Version /\ stack[2] = s[1]
        BY <1>3, <2>1, Zenon
      <3>2. SubSeq(stack, 3, Len(stack)) = <<s[2]>>
        BY <1>2, <2>1, Zenon
      <3> QED
        BY <3>1, <3>2
    <2>5. IF stack[1] = stack[2] THEN GoesOn(k, SubSeq(stack, 3, Len(stack))) ELSE Stops
      BY <2>3, <2>4, CodeIs, Runs DEF p, o, l
    <2>6. IF Version = s[1] THEN GoesOn(k, <<s[2]>>) ELSE Stops
      BY <2>4, <2>5, Zenon
    <2> QED
      BY <1>7, <2>1, <2>2, <2>6, Zenon
  <1>13. CASE k = 4
    <2>1. stack = <<s[2]>> /\ SameVersion
      BY <1>13 DEF After, s, a, v, p, o, l, e
    <2>2. \A stacked : stacked = <<p, s[2]>> /\ SameVersion => After(k + 1, stacked)
      BY <1>13 DEF After, s, a, v, p, o, l, e
    <2>3. k + 1 = 5
      BY <1>13
    <2>4. GoesOn(k, <<p>> \o stack)
      BY <2>3, CodeIs, Runs DEF p, o, l
    <2>5. GoesOn(k, <<p, s[2]>>)
      BY <1>1, <2>1, <2>4, Zenon
    <2> QED
      BY <2>1, <2>2, <2>5, Zenon
  <1>14. CASE k = 5
    <2>1. stack = <<p, s[2]>> /\ SameVersion
      BY <1>14 DEF After, s, a, v, p, o, l, e
    <2>2. \A stacked : stacked = <<>> /\ SameScript => After(k + 1, stacked)
      BY <1>14 DEF After, s, a, v, p, o, l, e
    <2>3. k + 1 = 6
      BY <1>14
    <2>4. /\ Len(stack) >= 2 /\ stack[1] = p /\ stack[2] = s[2]
          /\ SubSeq(stack, 3, Len(stack)) = <<>>
      <3>1. Len(stack) >= 2 /\ stack[1] = p /\ stack[2] = s[2]
        BY <1>3, <2>1, Zenon
      <3>2. SubSeq(stack, 3, Len(stack)) = <<>>
        BY <1>2, <2>1, Zenon
      <3> QED
        BY <3>1, <3>2
    <2>5. IF stack[1] = stack[2] THEN GoesOn(k, SubSeq(stack, 3, Len(stack))) ELSE Stops
      BY <2>3, <2>4, CodeIs, Runs DEF p, o, l
    <2>6. IF p = s[2] THEN GoesOn(k, <<>>) ELSE Stops
      BY <2>4, <2>5, Zenon
    <2> QED
      BY <1>7, <2>1, <2>2, <2>6, Zenon
  <1>15. CASE k = 6
    <2>1. stack = <<>> /\ SameScript
      BY <1>15 DEF After, s, a, v, p, o, l, e
    <2>2. \A stacked : stacked = <<<<>>>> /\ SameScript => After(k + 1, stacked)
      BY <1>15 DEF After, s, a, v, p, o, l, e
    <2>3. k + 1 = 7
      BY <1>15
    <2>4. GoesOn(k, <<<<>>>> \o stack)
      BY <2>3, CodeIs, Runs DEF p, o, l
    <2>5. GoesOn(k, <<<<>>>>)
      BY <1>1, <2>1, <2>4, Zenon
    <2> QED
      BY <2>1, <2>2, <2>5, Zenon
  <1>16. CASE k = 7
    <2>1. stack = <<<<>>>> /\ SameScript
      BY <1>16 DEF After, s, a, v, p, o, l, e
    <2>2. \A stacked : stacked = <<a[1], a[2]>> /\ SameScript => After(k + 1, stacked)
      BY <1>16 DEF After, s, a, v, p, o, l, e
    <2>3. k + 1 = 8
      BY <1>16
    <2>4. GoesOn(k, Inspected(tx[0], "INSPECTOUTPUTASSET") \o SubSeq(stack, 2, Len(stack)))
      BY <2>1, <2>3, CodeIs, Runs DEF p, o, l
    <2>5. a \o SubSeq(stack, 2, Len(stack)) = <<a[1], a[2]>>
      <3>1. SubSeq(stack, 2, Len(stack)) = <<>>
        BY <1>2, <2>1, Zenon
      <3> QED
        BY <1>6, <3>1, Zenon
    <2>6. GoesOn(k, <<a[1], a[2]>>)
      BY <1>8, <2>4, <2>5, Zenon
    <2> QED
      BY <2>1, <2>2, <2>6, Zenon
  <1>17. CASE k = 8
    <2>1. stack = <<a[1], a[2]>> /\ SameScript
      BY <1>17 DEF After, s, a, v, p, o, l, e
    <2>2. \A stacked : stacked = <<a[2]>> /\ SameScript => After(k + 1, stacked)
      BY <1>17 DEF After, s, a, v, p, o, l, e
    <2>3. k + 1 = 9
      BY <1>17
    <2>4. stack # <<>> /\ SubSeq(stack, 2, Len(stack)) = <<a[2]>>
      BY <1>2, <1>3, <2>1, Zenon
    <2>5. GoesOn(k, SubSeq(stack, 2, Len(stack)))
      BY <2>3, <2>4, CodeIs, Runs DEF p, o, l
    <2>6. GoesOn(k, <<a[2]>>)
      BY <2>4, <2>5
    <2> QED
      BY <2>1, <2>2, <2>6, Zenon
  <1>18. CASE k = 9
    <2>1. stack = <<a[2]>> /\ SameScript
      BY <1>18 DEF After, s, a, v, p, o, l, e
    <2>2. \A stacked : stacked = <<o, a[2]>> /\ SameScript => After(k + 1, stacked)
      BY <1>18 DEF After, s, a, v, p, o, l, e
    <2>3. k + 1 = 10
      BY <1>18
    <2>4. GoesOn(k, <<o>> \o stack)
      BY <2>3, CodeIs, Runs DEF p, o, l
    <2>5. GoesOn(k, <<o, a[2]>>)
      BY <1>1, <2>1, <2>4, Zenon
    <2> QED
      BY <2>1, <2>2, <2>5, Zenon
  <1>19. CASE k = 10
    <2>1. stack = <<o, a[2]>> /\ SameScript
      BY <1>19 DEF After, s, a, v, p, o, l, e
    <2>2. \A stacked : stacked = <<>> /\ SameScript /\ SameAsset => After(k + 1, stacked)
      BY <1>19 DEF After, s, a, v, p, o, l, e
    <2>3. k + 1 = 11
      BY <1>19
    <2>4. /\ Len(stack) >= 2 /\ stack[1] = o /\ stack[2] = a[2]
          /\ SubSeq(stack, 3, Len(stack)) = <<>>
      <3>1. Len(stack) >= 2 /\ stack[1] = o /\ stack[2] = a[2]
        BY <1>3, <2>1, Zenon
      <3>2. SubSeq(stack, 3, Len(stack)) = <<>>
        BY <1>2, <2>1, Zenon
      <3> QED
        BY <3>1, <3>2
    <2>5. IF stack[1] = stack[2] THEN GoesOn(k, SubSeq(stack, 3, Len(stack))) ELSE Stops
      BY <2>3, <2>4, CodeIs, Runs DEF p, o, l
    <2>6. IF o = a[2] THEN GoesOn(k, <<>>) ELSE Stops
      BY <2>4, <2>5, Zenon
    <2> QED
      BY <1>7, <2>1, <2>2, <2>6, Zenon
  <1>20. CASE k = 11
    <2>1. stack = <<>> /\ SameScript /\ SameAsset
      BY <1>20 DEF After, s, a, v, p, o, l, e
    <2>2. \A stacked : stacked = <<<<>>>> /\ SameScript /\ SameAsset => After(k + 1, stacked)
      BY <1>20 DEF After, s, a, v, p, o, l, e
    <2>3. k + 1 = 12
      BY <1>20
    <2>4. GoesOn(k, <<<<>>>> \o stack)
      BY <2>3, CodeIs, Runs DEF p, o, l
    <2>5. GoesOn(k, <<<<>>>>)
      BY <1>1, <2>1, <2>4, Zenon
    <2> QED
      BY <2>1, <2>2, <2>5, Zenon
  <1>21. CASE k = 12
    <2>1. stack = <<<<>>>> /\ SameScript /\ SameAsset
      BY <1>21 DEF After, s, a, v, p, o, l, e
    <2>2. \A stacked : stacked = <<v[1], v[2]>> /\ SameScript /\ SameAsset => After(k + 1, stacked)
      BY <1>21 DEF After, s, a, v, p, o, l, e
    <2>3. k + 1 = 13
      BY <1>21
    <2>4. GoesOn(k, Inspected(tx[0], "INSPECTOUTPUTVALUE") \o SubSeq(stack, 2, Len(stack)))
      BY <2>1, <2>3, CodeIs, Runs DEF p, o, l
    <2>5. v \o SubSeq(stack, 2, Len(stack)) = <<v[1], v[2]>>
      <3>1. SubSeq(stack, 2, Len(stack)) = <<>>
        BY <1>2, <2>1, Zenon
      <3> QED
        BY <1>6, <3>1, Zenon
    <2>6. GoesOn(k, <<v[1], v[2]>>)
      BY <1>8, <2>4, <2>5, Zenon
    <2> QED
      BY <2>1, <2>2, <2>6, Zenon
  <1>22. CASE k = 13
    <2>1. stack = <<v[1], v[2]>> /\ SameScript /\ SameAsset
      BY <1>22 DEF After, s, a, v, p, o, l, e
    <2>2. \A stacked : stacked = <<v[2]>> /\ SameScript /\ SameAsset => After(k + 1, stacked)
      BY <1>22 DEF After, s, a, v, p, o, l, e
    <2>3. k + 1 = 14
      BY <1>22
    <2>4. stack # <<>> /\ SubSeq(stack, 2, Len(stack)) = <<v[2]>>
      BY <1>2, <1>3, <2>1, Zenon
    <2>5. GoesOn(k, SubSeq(stack, 2, Len(stack)))
      BY <2>3, <2>4, CodeIs, Runs DEF p, o, l
    <2>6. GoesOn(k, <<v[2]>>)
      BY <2>4, <2>5
    <2> QED
      BY <2>1, <2>2, <2>6, Zenon
  <1>23. CASE k = 14
    <2>1. stack = <<v[2]>> /\ SameScript /\ SameAsset
      BY <1>23 DEF After, s, a, v, p, o, l, e
    <2>2. \A stacked : stacked = <<l, v[2]>> /\ SameScript /\ SameAsset => After(k + 1, stacked)
      BY <1>23 DEF After, s, a, v, p, o, l, e
    <2>3. k + 1 = 15
      BY <1>23
    <2>4. GoesOn(k, <<l>> \o stack)
      BY <2>3, CodeIs, Runs DEF p, o, l
    <2>5. GoesOn(k, <<l, v[2]>>)
      BY <1>1, <2>1, <2>4, Zenon
    <2> QED
      BY <2>1, <2>2, <2>5, Zenon
  <1>24. CASE k = 15
    <2>1. stack = <<l, v[2]>> /\ SameScript /\ SameAsset
      BY <1>24 DEF After, s, a, v, p, o, l, e
    <2>2. \A stacked : stacked = <<e>> /\ SameScript /\ SameAsset => After(k + 1, stacked)
      BY <1>24 DEF After, s, a, v, p, o, l, e
    <2>3. k + 1 = 16
      BY <1>24
    <2>4. /\ Len(stack) >= 2 /\ stack[1] = l /\ stack[2] = v[2]
          /\ SubSeq(stack, 3, Len(stack)) = <<>>
      BY <1>2, <1>3, <2>1, Zenon
    <2>5. GoesOn(k, <<IF stack[1] = stack[2] THEN <<1>> ELSE <<>>>>
                       \o SubSeq(stack, 3, Len(stack)))
      BY <2>3, <2>4, CodeIs, Runs DEF p, o, l
    <2>6. (IF stack[1] = stack[2] THEN <<1>> ELSE <<>>) = e
      BY <1>7, <2>4 DEF e
    <2>7. GoesOn(k, <<e>>)
      BY <1>1, <2>4, <2>5, <2>6, Zenon
    <2> QED
      BY <2>1, <2>2, <2>7, Zenon
  <1> QED
    BY <1>9, <1>9, <1>10, <1>11, <1>12, <1>13, <1>14, <1>15, <1>16, <1>17,
       <1>18, <1>19, <1>20, <1>21, <1>22, <1>23, <1>24

\* The clause and what is shown are told by the order and the transaction alone.
LEMMA AfterStays ==
    ASSUME NEW k, NEW s, GoesOn(k, s), After(k + 1, s)
    PROVE  After(k + 1, stack)' /\ Code' = Code
  <1>1. stack' = s /\ order' = order /\ tx' = tx
    BY DEF GoesOn
  <1>2. /\ ShownScript' = ShownScript /\ ShownAsset' = ShownAsset /\ ShownValue' = ShownValue
        /\ Version' = Version
    BY <1>1 DEF ShownScript, ShownAsset, ShownValue, Version
  <1>3. SameVersion' = SameVersion /\ SameAsset' = SameAsset /\ SameValue' = SameValue
    BY <1>1, <1>2, Zenon DEF SameVersion, SameAsset, SameValue
  <1>4. SameScript' = SameScript
    BY <1>1, <1>2, <1>3, Zenon DEF SameScript
  <1>5. After(k + 1, stack)' <=> After(k + 1, s)
    BY <1>1, <1>2, <1>3, <1>4, Zenon DEF After
  <1>6. Code' = Code
    BY <1>1 DEF Code
  <1> QED
    BY <1>5, <1>6

LEMMA ClauseInit == Init => ClauseInv
  BY DEF Init, ClauseInv, AcceptsTheOneOutput

\* A clause that is compiled is the one of the order.
LEMMA ClauseCompile ==
    ASSUME ClauseInv, Compile
    PROVE  ClauseInv'
  <1>1. order' = order /\ tx' = tx /\ stack' = <<>>
    BY DEF Compile, ClauseInv
  <1>2. PICK compiled \in {FulfillScript(order.recipient, order.amount, order.asset),
                          RefundScript(order.recipient, order.amount, order.asset)} :
          /\ verdict' = IF compiled.ok THEN "running" ELSE "unknown"
          /\ script' = IF compiled.ok THEN compiled.script ELSE <<>>
    BY DEF Compile
  <1>3. compiled = IF order.recipient.head \in DOMAIN Versions
                   THEN [ok |-> TRUE, script |-> Code]
                   ELSE Unknown
    BY <1>2 DEF FulfillScript, RefundScript, Code, compileRefundClause
  <1>4. DOMAIN Versions = {"OP_1NEGATE", "OP_0", "OP_1"}
    BY DEF Versions
  <1>5. order \in Orders /\ tx \in [0 .. 1 -> TxOutputs]
    BY DEF ClauseInv
  <1>6. AcceptsTheOneOutput'
    BY <1>2 DEF AcceptsTheOneOutput
  <1>7. CASE ~compiled.ok
    BY <1>1, <1>2, <1>5, <1>6, <1>7 DEF ClauseInv
  <1>8. CASE compiled.ok
    <2>1. order.recipient.head \in DOMAIN Versions /\ compiled.script = Code
      BY <1>3, <1>8 DEF Unknown
    <2>2. order'.recipient.head \in {"OP_0", "OP_1"}
      BY <1>1, <1>4, <1>5, <2>1, OrdersAssumption
    <2>3. script' = Code /\ Code' = Code
      BY <1>1, <1>2, <1>8, <2>1 DEF Code
    <2>4. SubSeq(Code, 0 + 1, 16) = Code
      <3>1. PICK Elements : Code \in Seq(Elements) /\ Len(Code) = 16
        BY CodeIs
      <3>2. PICK c \in Seq(Elements) : c = Code
        BY <3>1
      <3>3. SubSeq(c, 1, Len(c)) = c
        OBVIOUS
      <3> QED
        BY <3>1, <3>2, <3>3
    <2>5. After(0, stack)'
      BY <1>1 DEF After
    <2>6. \E k \in 0 .. 16 : script' = SubSeq(Code', k + 1, 16) /\ After(k, stack)'
      BY <2>3, <2>4, <2>5
    <2> QED
      BY <1>1, <1>2, <1>5, <1>6, <1>8, <2>2, <2>6 DEF ClauseInv
  <1> QED
    BY <1>7, <1>8

\* An instruction of a clause that runs.
LEMMA ClauseRun ==
    ASSUME ClauseInv, verdict = "running", script # <<>>, Next
    PROVE  ClauseInv'
  <1>1. /\ order \in Orders /\ tx \in [0 .. 1 -> TxOutputs]
        /\ order.recipient.head \in {"OP_0", "OP_1"}
    BY DEF ClauseInv
  <1>2. PICK k \in 0 .. 16 : script = SubSeq(Code, k + 1, 16) /\ After(k, stack)
    BY DEF ClauseInv
  <1>3. k \in 0 .. 15
    <2>1. SubSeq(Code, 16 + 1, 16) = <<>>
      BY SubSeqEmpty
    <2> QED
      BY <1>2, <2>1
  <1>4. DOMAIN tx = 0 .. 1
    BY <1>1
  <1>5. CASE \E s : GoesOn(k, s) /\ After(k + 1, s)
    <2>1. PICK s : GoesOn(k, s) /\ After(k + 1, s)
      BY <1>5
    <2>2. After(k + 1, stack)' /\ Code' = Code
      BY <2>1, AfterStays
    <2>3. /\ verdict' = "running" /\ order' = order /\ tx' = tx
          /\ script' = SubSeq(Code, k + 2, 16)
      BY <2>1 DEF GoesOn
    <2>4. k + 1 \in 0 .. 16 /\ script' = SubSeq(Code', (k + 1) + 1, 16)
      BY <1>3, <2>2, <2>3
    <2>5. \E n \in 0 .. 16 : script' = SubSeq(Code', n + 1, 16) /\ After(n, stack)'
      BY <2>2, <2>4, Zenon
    <2> QED
      BY <1>1, <2>3, <2>5 DEF ClauseInv, AcceptsTheOneOutput
  <1>6. CASE Stops /\ ~(SameScript /\ SameAsset)
    <2>1. ~IsRequested(tx[0])
      BY <1>1, <1>6, SameIsRequested, Zenon
    <2>2. verdict' = "refused" /\ order' = order /\ tx' = tx
      BY <1>6 DEF Stops
    <2>3. ~IsRequested(tx[0])'
      BY <2>1, <2>2 DEF IsRequested, Requested, Seen
    <2>4. AcceptsTheOneOutput'
      <3>1. verdict' # "accepted"
        BY <2>2
      <3>2. (verdict' = "accepted") = IsRequested(tx[0])'
        BY <2>3, <3>1, Zenon DEF IsRequested
      <3> QED
        BY <3>2, Zenon DEF AcceptsTheOneOutput
    <2> QED
      BY <1>1, <2>2, <2>4 DEF ClauseInv
  <1> QED
    BY <1>2, <1>3, <1>4, <1>5, <1>6, RunsOn

\* A clause at its end: true alone is on the stack if the amounts are the same.
LEMMA ClauseEnd ==
    ASSUME ClauseInv, verdict = "running", script = <<>>, Next
    PROVE  ClauseInv'
  <1>1. /\ order \in Orders /\ tx \in [0 .. 1 -> TxOutputs]
        /\ order.recipient.head \in {"OP_0", "OP_1"}
    BY DEF ClauseInv
  <1>2. PICK k \in 0 .. 16 : script = SubSeq(Code, k + 1, 16) /\ After(k, stack)
    BY DEF ClauseInv
  <1>3. k = 16
    <2> SUFFICES ASSUME k < 16 PROVE FALSE
      OBVIOUS
    <2>1. PICK Elements : Code \in Seq(Elements) /\ Len(Code) = 16
      BY CodeIs
    <2>2. PICK c \in Seq(Elements) : c = Code
      BY <2>1
    <2>3. SubSeq(c, k + 1, Len(c)) # <<>>
      <3>1. k \in Nat /\ k < Len(c)
        BY <1>2, <2>1, <2>2
      <3> QED
        BY <3>1, NextInstruction
    <2> QED
      BY <1>2, <2>1, <2>2, <2>3
  <1>4. stack = <<IF SameValue THEN <<1>> ELSE <<>>>> /\ SameScript /\ SameAsset
    BY <1>2, <1>3 DEF After
  <1>5. End
    BY DEF Next, Compile, Push, Inspect, Drop, EqualVerify, Equal, Running
  <1>6. order' = order /\ tx' = tx /\ verdict' = IF stack = <<<<1>>>> THEN "accepted" ELSE "refused"
    BY <1>5, SmallNumbers DEF End
  <1>7. stack = <<<<1>>>> <=> SameValue
    BY <1>4
  <1>8. IsRequested(tx[0]) <=> SameValue
    BY <1>1, <1>4, SameIsRequested, Zenon
  <1>9. IsRequested(tx[0])' <=> IsRequested(tx[0])
    BY <1>6 DEF IsRequested, Requested, Seen
  <1>10. (verdict' = "accepted") = IsRequested(tx[0])'
    <2>1. verdict' = "accepted" <=> SameValue
      BY <1>6, <1>7
    <2> QED
      BY <1>8, <1>9, <2>1, Zenon DEF IsRequested
  <1> QED
    BY <1>1, <1>6, <1>10 DEF ClauseInv, AcceptsTheOneOutput

\* Every step keeps the invariant.
LEMMA ClauseStep == ClauseInv /\ [Next]_vars => ClauseInv'
  <1> SUFFICES ASSUME ClauseInv, [Next]_vars PROVE ClauseInv'
    OBVIOUS
  <1>1. CASE UNCHANGED vars
    BY <1>1 DEF vars, ClauseInv, AcceptsTheOneOutput, After, Code, Version, ShownScript,
                ShownAsset, ShownValue, SameVersion, SameScript, SameAsset, SameValue,
                IsRequested, Requested, Seen
  <1>2. CASE Next /\ verdict = "running"
    BY <1>2, ClauseRun, ClauseEnd
  <1>3. CASE Next /\ verdict # "running"
    <2>1. Compile
      BY <1>3 DEF Next, Push, Inspect, Drop, EqualVerify, Equal, End, Running
    <2> QED
      BY <2>1, ClauseCompile
  <1> QED
    BY <1>1, <1>2, <1>3

\* A clause accepts exactly the transactions whose first output is the one asked for:
\* Contract is right to take it for that output, whatever the orders, the outputs and
\* the hash of a script are.
THEOREM ClausesAcceptOneOutput == Spec => []AcceptsTheOneOutput
  <1>1. ClauseInv => AcceptsTheOneOutput
    BY DEF ClauseInv
  <1> QED
    BY <1>1, ClauseInit, ClauseStep, PTL DEF Spec
=============================================================================
