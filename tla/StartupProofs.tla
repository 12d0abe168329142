---------------------------- MODULE StartupProofs ----------------------------
(***************************************************************************)
(* The safety of the start, however often it fails and the wallet locks.   *)
(***************************************************************************)
EXTENDS Startup, TLAPS

\* NeedsAreMet and OneAccount say nothing of the steps between; the invariant that
\* is inductive says for each of them what the earlier ones left.
Inv == TypeOK /\ EarlierStepsHold /\ OneAccount

LEMMA InitInv == Init => Inv
  <1> SUFFICES ASSUME Init PROVE Inv
    OBVIOUS
  <1>1. failures \in 0 .. MaxFailures /\ accounts \in Nat /\ accounts <= 1
    BY MaxFailuresAssumption DEF Init
  <1> QED
    BY <1>1 DEF Init, Inv, TypeOK, EarlierStepsHold, OneAccount

\* A failure that happens was one of those that could.
LEMMA FailType == failures \in 0 .. MaxFailures /\ Fail => failures' \in 0 .. MaxFailures
  BY MaxFailuresAssumption DEF Fail

\* The steps of main that neither end it nor touch the wallet.
LEMMA MainInv ==
    ASSUME Inv, InitDB \/ StartWatching \/ Subscribe \/ Serve
    PROVE  Inv'
  <1> USE DEF Inv, TypeOK, EarlierStepsHold, OneAccount
  <1>1. CASE InitDB
    <2>1. CASE CreateTable("orders", "statuses")
      BY <2>1 DEF CreateTable
    <2>2. CASE CreateTable("statuses", "wallet")
      BY <2>2 DEF CreateTable
    <2> QED
      BY <1>1, <2>1, <2>2 DEF InitDB
  <1>2. CASE StartWatching
    <2>1. config.watch \in BOOLEAN
      BY DEF Configs
    <2> QED
      BY <1>2, <2>1 DEF StartWatching
  <1>3. CASE Subscribe
    BY <1>3 DEF Subscribe
  <1>4. CASE Serve
    BY <1>4 DEF Serve
  <1> QED
    BY <1>1, <1>2, <1>3, <1>4

\* The steps that ask the wallet; an account is created only where there is none.
LEMMA WalletInv ==
    ASSUME Inv, CheckWallet \/ FindAccount \/ CreateAccount
    PROVE  Inv'
  <1> USE DEF Inv, TypeOK, EarlierStepsHold, OneAccount
  <1>1. CASE CheckWallet
    BY <1>1 DEF CheckWallet, Exit
  <1>2. CASE FindAccount
    BY <1>2 DEF FindAccount
  <1>3. CASE CreateAccount
    <2>1. accounts = 0 /\ accounts' = 1 /\ UNCHANGED <<config, tables, ready>>
      BY <1>3 DEF CreateAccount
    <2>2. accounts' \in Nat /\ accounts' <= 1 /\ accounts' > 0
      BY <2>1
    <2>3. pc' \in {"watch", "down"} /\ watching' = FALSE
      BY <1>3 DEF CreateAccount, Exit
    <2>4. failures' \in 0 .. MaxFailures
      BY <1>3, FailType DEF CreateAccount
    <2>5. "orders" \in tables /\ "statuses" \in tables
      BY <1>3 DEF CreateAccount
    <2> QED
      BY <2>1, <2>2, <2>3, <2>4, <2>5
  <1> QED
    BY <1>1, <1>2, <1>3

\* What happens around main.
LEMMA OutsideInv ==
    ASSUME Inv, (\E c \in Configs : Run(c)) \/ Abort \/ Lock \/ Unlock
    PROVE  Inv'
  <1> USE DEF Inv, TypeOK, EarlierStepsHold, OneAccount
  <1>1. ASSUME NEW c \in Configs, Run(c) PROVE Inv'
    BY <1>1 DEF Run
  <1>2. CASE Abort
    <2>1. failures' \in 0 .. MaxFailures
      BY <1>2, FailType DEF Abort
    <2> QED
      BY <1>2, <2>1 DEF Abort, Exit
  <1>3. CASE Lock
    <2>1. failures' \in 0 .. MaxFailures
      BY <1>3, FailType DEF Lock
    <2> QED
      BY <1>3, <2>1 DEF Lock
  <1>4. CASE Unlock
    BY <1>4 DEF Unlock
  <1> QED
    BY <1>1, <1>2, <1>3, <1>4

LEMMA StepInv == Inv /\ [Next]_vars => Inv'
  <1> SUFFICES ASSUME Inv, [Next]_vars PROVE Inv'
    OBVIOUS
  <1>1. CASE Main
    BY <1>1, MainInv, WalletInv DEF Main
  <1>2. CASE UNCHANGED vars
    BY <1>2 DEF vars, Inv, TypeOK, EarlierStepsHold, OneAccount
  <1> QED
    BY <1>1, <1>2, OutsideInv DEF Next

\* Type correctness; nobody watches in a process that was not told to.
THEOREM StartupTypeCorrect == Spec => []TypeOK
  <1>1. Inv => TypeOK
    BY DEF Inv
  <1> QED
    BY <1>1, InitInv, StepInv, PTL DEF Spec

\* Who watches or serves has the tables and an account, wherever earlier starts
\* were cut off.
THEOREM StartedInOrder == Spec => []NeedsAreMet
  <1>1. Inv => NeedsAreMet
    BY DEF Inv, TypeOK, EarlierStepsHold, NeedsAreMet
  <1> QED
    BY <1>1, InitInv, StepInv, PTL DEF Spec

\* No sequence of failing starts creates a second account.
THEOREM NeverTwoAccounts == Spec => []OneAccount
  <1>1. Inv => OneAccount
    BY DEF Inv
  <1> QED
    BY <1>1, InitInv, StepInv, PTL DEF Spec
=============================================================================
