-------------------------------- MODULE Clause --------------------------------
(***************************************************************************)
(* The two clauses of the trade contract as scripts: how offer.go compiles *)
(* them, and how a node of the network runs one against a transaction that *)
(* spends the deposit.  Contract takes a clause for the one output that it *)
(* accepts; here it is run instruction by instruction.                     *)
(*                                                                         *)
(* Whatever a script handles is a sequence of bytes.  An output's script   *)
(* is [head, program]: its first byte, as an opcode, and what follows the  *)
(* length in its second byte.                                              *)
(***************************************************************************)
EXTENDS ScriptNum

CONSTANTS
    Orders,        \* [recipient, amount, asset], what a clause is made of
    TxOutputs,     \* the outputs of the transactions that are tried
    Sha256         \* script -> its hash

VARIABLES
    order,         \* the order that the clause is compiled for
    tx,            \* the outputs of the spending transaction, from 0
    verdict,       \* where the clause is, at last "accepted" or "refused"
    script,        \* the instructions left
    stack          \* its top first

vars == <<order, tx, verdict, script, stack>>

\* A whole asset tag or value is a prefix and what it announces; 1 is for those
\* that are not blinded.
Blinded(field) == field.prefix # 1
Plain(bytes) == [prefix |-> 1, bytes |-> bytes]

\* binary.LittleEndian's PutUint64, on two bytes.
LittleEndian(amount) == <<amount % Base, amount \div Base>>

IsPubKey(pubkey) == pubkey = [head |-> pubkey.head, program |-> pubkey.program]

\* An address stands for no script whose first byte is 0x4f.
ASSUME OrdersAssumption ==
    \A o \in Orders : IsPubKey(o.recipient) /\ o.recipient.head # "OP_1NEGATE"

\* A blinded asset is a point of a curve, which nobody can choose to look like an
\* asset's tag.  A blinded value is longer than a value.
ASSUME OutputsAssumption ==
    \A out \in TxOutputs :
        /\ IsPubKey(out.script)
        /\ \A o \in Orders : /\ Blinded(out.asset) => out.asset.bytes # o.asset
                             /\ Blinded(out.value) => out.value.bytes # LittleEndian(o.amount)

\* Base and Width make it so; the provers know nothing of powers.
ASSUME SignAssumption == Half(Width) \in Nat /\ Half(Width) > 1

-----------------------------------------------------------------------------
(* Compiling.                                                              *)

AddData(bytes) == [op |-> "data", bytes |-> bytes]
AddOp(op) == [op |-> op]

Unknown == [ok |-> FALSE]

\* The script version that belongs to the first byte of the trader's script.
Versions == [OP_1NEGATE |-> -1, OP_0 |-> 0, OP_1 |-> 1]

\* Mutant: the prefix of the value stays on the stack.
compileFulfillClauseDropOnce(index, version, program, amount, asset) ==
    << AddData(Bytes(index)), AddOp("INSPECTOUTPUTSCRIPTPUBKEY"),
       AddData(Bytes(version)), AddOp("EQUALVERIFY"),
       AddData(program), AddOp("EQUALVERIFY"),
       AddData(Bytes(index)), AddOp("INSPECTOUTPUTASSET"), AddOp("DROP"),
       AddData(asset), AddOp("EQUALVERIFY"),
       AddData(Bytes(index)), AddOp("INSPECTOUTPUTVALUE"),
       AddData(LittleEndian(amount)), AddOp("EQUAL") >>

compileFulfillClause(index, version, program, amount, asset) ==
    << AddData(Bytes(index)), AddOp("INSPECTOUTPUTSCRIPTPUBKEY"),
       AddData(Bytes(version)), AddOp("EQUALVERIFY"),
       AddData(program), AddOp("EQUALVERIFY"),
       AddData(Bytes(index)), AddOp("INSPECTOUTPUTASSET"), AddOp("DROP"),
       AddData(asset), AddOp("EQUALVERIFY"),
       AddData(Bytes(index)), AddOp("INSPECTOUTPUTVALUE"), AddOp("DROP"),
       AddData(LittleEndian(amount)), AddOp("EQUAL") >>

\* The code of the fulfill clause again, for the amount and asset of the deposit.
compileRefundClause(index, version, program, amount, asset) ==
    compileFulfillClause(index, version, program, amount, asset)

FulfillScript(recipient, amount, asset) ==
    IF recipient.head \in DOMAIN Versions
    THEN [ok |-> TRUE,
          script |-> compileFulfillClause(0, Versions[recipient.head], recipient.program,
                                          amount, asset)]
    ELSE Unknown

RefundScript(recipient, amount, asset) ==
    IF recipient.head \in DOMAIN Versions
    THEN [ok |-> TRUE,
          script |-> compileRefundClause(0, Versions[recipient.head], recipient.program,
                                         amount, asset)]
    ELSE Unknown

Init ==
    /\ order \in Orders
    /\ tx \in [0 .. 1 -> TxOutputs]
    /\ verdict = "new"
    /\ script = <<>>
    /\ stack = <<>>

\* A clause is compiled, and later the branch that holds it is revealed.
Compile ==
    /\ verdict = "new"
    /\ \E compiled \in {FulfillScript(order.recipient, order.amount, order.asset),
                        RefundScript(order.recipient, order.amount, order.asset)} :
          /\ verdict' = IF compiled.ok THEN "running" ELSE "unknown"
          /\ script' = IF compiled.ok THEN compiled.script ELSE <<>>
    /\ UNCHANGED <<order, tx, stack>>

-----------------------------------------------------------------------------
(* Running: the opcodes of Elements' tapscript that the clauses use.       *)

Running(op) == verdict = "running" /\ script # <<>> /\ Head(script).op = op

Refuse == verdict' = "refused" /\ UNCHANGED <<order, tx, script, stack>>

Continue(newStack) ==
    /\ stack' = newStack
    /\ script' = Tail(script)
    /\ UNCHANGED <<order, tx, verdict>>

Push == Running("data") /\ Continue(<<Head(script).bytes>> \o stack)

\* The top two, or fewer, are replaced.
Under(n) == SubSeq(stack, n + 1, Len(stack))

\* Of a witness program its version and the program, of another script -1 and its
\* hash.
IsWitnessProgram(pubkey) == pubkey.head \in {"OP_0", "OP_1"}

Inspected(out, op) ==
    CASE op = "INSPECTOUTPUTSCRIPTPUBKEY" /\ IsWitnessProgram(out.script) ->
            <<Bytes(Versions[out.script.head]), out.script.program>>
      [] op = "INSPECTOUTPUTSCRIPTPUBKEY" /\ ~IsWitnessProgram(out.script) ->
            <<Bytes(-1), Sha256[out.script]>>
      [] op = "INSPECTOUTPUTASSET" -> <<<<out.asset.prefix>>, out.asset.bytes>>
      [] op = "INSPECTOUTPUTVALUE" -> <<<<out.value.prefix>>, out.value.bytes>>

Inspect ==
    \E op \in {"INSPECTOUTPUTSCRIPTPUBKEY", "INSPECTOUTPUTASSET", "INSPECTOUTPUTVALUE"} :
        /\ Running(op)
        /\ IF stack # <<>> /\ Minimal(Head(stack)) /\ Decode(Head(stack)) \in DOMAIN tx
           THEN Continue(Inspected(tx[Decode(Head(stack))], op) \o Under(1))
           ELSE Refuse

Drop == Running("DROP") /\ IF stack # <<>> THEN Continue(Under(1)) ELSE Refuse

EqualVerify ==
    /\ Running("EQUALVERIFY")
    /\ IF Len(stack) >= 2 /\ stack[1] = stack[2] THEN Continue(Under(2)) ELSE Refuse

Equal ==
    /\ Running("EQUAL")
    /\ IF Len(stack) >= 2
       THEN Continue(<<IF stack[1] = stack[2] THEN Bytes(1) ELSE Bytes(0)>> \o Under(2))
       ELSE Refuse

\* A script must end with true, and nothing else, on its stack.
End ==
    /\ verdict = "running"
    /\ script = <<>>
    /\ verdict' = IF stack = <<Bytes(1)>> THEN "accepted" ELSE "refused"
    /\ UNCHANGED <<order, tx, script, stack>>

Next == Compile \/ Push \/ Inspect \/ Drop \/ EqualVerify \/ Equal \/ End

Spec == Init /\ [][Next]_vars

-----------------------------------------------------------------------------
C == INSTANCE Contract WITH LBTC <- <<>>, FEE_AMOUNT <- 1

\* What Contract takes an output for; a blinded one is none that it knows.
Seen(out) ==
    C!Output(out.asset.bytes, out.value.bytes, out.script)

Requested == C!FulfillScript(order.recipient, LittleEndian(order.amount), order.asset)

IsRequested(out) == ~Blinded(out.asset) /\ ~Blinded(out.value) /\ Seen(out) = Requested

\* Contract is right to take a clause for an output: run, it accepts exactly the
\* transactions whose first output is the one asked for, whatever the others are.
AcceptsTheOneOutput ==
    verdict \in {"accepted", "refused"} => (verdict = "accepted") = IsRequested(tx[0])
=============================================================================
