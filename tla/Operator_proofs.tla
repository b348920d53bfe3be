-------------------------- MODULE Operator_proofs --------------------------
(***************************************************************************)
(* The operator's tools, for any keys, environments, numbers of machines,  *)
(* nodes and deaths, and any commands in any order: what the state file of *)
(* register-tee claims is true of the chain; what the scripts that set an  *)
(* extension up leave in extension.env is finished, their failures have    *)
(* reasons, and the reports of verify-deploy and test.sh are true.         *)
(***************************************************************************)
EXTENDS Registration, ExtensionSetup, FiniteSetTheorems, WellFoundedInduction, TLAPS

-----------------------------------------------------------------------------
(* register-tee: what the state file claims                                *)

Attested(id) == id \in Ids /\ attestation[id].tee \in registered
Asked(id) == id \in Ids /\ check[id].tee \in registered
IsTrue(state) ==
    /\ state.steps \cap {"r", "R"} # {} => Attested(state.attest)
    /\ "a" \in state.steps => Asked(state.instr)

\* What a command knows when it has seen its transaction mined.
ReceiptIsTrue ==
    run.part = "save" =>
        /\ run.at \in {"r", "R", "a"}
        /\ run.at \in {"r", "R"} => Attested(run.attest)
        /\ run.at = "a" => Asked(run.instr)

\* The youngest transaction is the one the command waits for.
Kinds(step) ==
    CASE step = "r" -> {"register", "attest"} [] step = "R" -> {"attest"}
      [] step = "a" -> {"check"} [] OTHER -> {"promote"}
WaitsForItsOwn ==
    run.part = "wait" =>
        /\ run.at \in Steps
        /\ mempool # <<>> => mempool[Len(mempool)].kind \in Kinds(run.at)

CommandIsKnown == run.at # "idle" => run.tee \in Machines /\ run.command \in Commands
ChallengesAreOfRegistered ==
    \A id \in Ids : attestation[id].usable => attestation[id].tee \in registered
ChecksAreOfMachines == \A id \in Ids : check[id].stage # "dead" => check[id].tee \in Machines

IInv ==
    /\ TypeOK
    /\ IsTrue(file.state) /\ IsTrue(run.mem)
    /\ ReceiptIsTrue /\ WaitsForItsOwn /\ CommandIsKnown
    /\ ChallengesAreOfRegistered /\ ChecksAreOfMachines

-----------------------------------------------------------------------------

\* The order of the steps in RegisterNode.
LEMMA NextStepType ==
    ASSUME NEW command, NEW steps
    PROVE  NextStep(command, steps) \in Steps \union {"end"}
BY DEF NextStep, Steps

\* The step after a step.
LEMMA AfterType ==
    ASSUME NEW step
    PROVE  After(step) \in Steps \union {"end"}
BY NextStepType DEF After

\* A command that ends, however it ends, leaves nothing to be true of.
LEMMA FailKeeps ==
    ASSUME IInv, Fail, UNCHANGED <<chain, world, reported>>,
           file' \in Files, IsTrue(file.state)',
           mempool' \in Seq(Transactions), faults' \in 0..MaxFaults
    PROVE  IInv'
<1>1. run' \in Runs /\ IsTrue(run.mem)'
      BY NoMachineIsNone DEF Fail, NotRunning, Runs, Empty, Progress, IsTrue, Steps
<1>2. ReceiptIsTrue' /\ WaitsForItsOwn' /\ CommandIsKnown'
      BY DEF Fail, NotRunning, ReceiptIsTrue, WaitsForItsOwn, CommandIsKnown
<1>3. TypeOK'
      BY <1>1 DEF IInv, TypeOK, chain, world
<1>4. ChallengesAreOfRegistered' /\ ChecksAreOfMachines'
      BY DEF IInv, chain, ChallengesAreOfRegistered, ChecksAreOfMachines
<1> QED BY <1>1, <1>2, <1>3, <1>4 DEF IInv

\* Sending a step's transaction.
LEMMA SendKeeps ==
    ASSUME IInv, NEW tx \in Transactions, Send(tx),
           run.at \in Steps, tx.kind \in Kinds(run.at), faults' \in 0..MaxFaults
    PROVE  IInv'
<1>1. run' = [run EXCEPT !.part = "wait"] /\ mempool' = Append(mempool, tx)
      BY DEF Send
<1>2. run' \in Runs /\ mempool' \in Seq(Transactions)
  <2>1. run' \in Runs
        BY <1>1 DEF IInv, TypeOK, Runs
  <2>2. mempool' \in Seq(Transactions)
        BY <1>1 DEF IInv, TypeOK
  <2> QED BY <2>1, <2>2
<1>3. /\ run'.at = run.at /\ run'.part = "wait" /\ run'.tee = run.tee
      /\ run'.command = run.command /\ run'.mem = run.mem
      BY <1>1 DEF IInv, TypeOK, Runs
<1>4. mempool'[Len(mempool')] = tx
      BY <1>1 DEF IInv, TypeOK
<1>5. TypeOK'
      BY <1>2 DEF IInv, TypeOK, Send, chain, world
<1>6. IsTrue(file.state)' /\ IsTrue(run.mem)'
      BY <1>3 DEF IInv, IsTrue, Attested, Asked, Send, chain
<1>7. ReceiptIsTrue' /\ WaitsForItsOwn' /\ CommandIsKnown'
      BY <1>3, <1>4 DEF IInv, ReceiptIsTrue, WaitsForItsOwn, CommandIsKnown
<1>8. ChallengesAreOfRegistered' /\ ChecksAreOfMachines'
      BY DEF IInv, Send, chain, ChallengesAreOfRegistered, ChecksAreOfMachines
<1> QED BY <1>5, <1>6, <1>7, <1>8 DEF IInv

\* A command starts with what the file says, or with nothing.
LEMMA BeginKeeps ==
    ASSUME IInv, NEW command \in Commands, NEW state \in Progress, NEW clean \in BOOLEAN,
           NEW flag \in Ids \union {NoId}, Begin(command, state, clean, flag),
           state = Empty \/ state = file.state, file' \in {file, Missing},
           UNCHANGED <<chain, mempool, world, reported, faults>>
    PROVE  IInv'
<1> DEFINE instruction == IF "a" \in command THEN NoId ELSE flag
<1>1. PICK at \in Steps \union {"end"} : at = NextStep(command, Steps)
      BY NextStepType
<1>2. run' = [at |-> at, part |-> "begin", command |-> command, tee |-> node,
              clean |-> clean, mem |-> state, attest |-> NoId, instr |-> instruction]
      BY <1>1 DEF Begin
<1>3. instruction \in Ids \union {NoId}
      OBVIOUS
<1>4. file' \in Files
      BY DEF IInv, TypeOK, Files, Missing, Empty, Progress
<1>5. TypeOK'
  <2> HIDE DEF instruction
  <2>1. run' \in Runs
        BY <1>2, <1>3 DEF IInv, TypeOK, Runs
  <2> QED BY <2>1, <1>4 DEF IInv, TypeOK, chain, world
<1> HIDE DEF instruction
<1>6. IsTrue(file.state)' /\ IsTrue(run.mem)'
  <2>1. run'.mem = state /\ (file'.state = Empty \/ file'.state = file.state)
        BY <1>2 DEF Missing
  <2>2. Empty.steps = {}
        BY DEF Empty
  <2> QED BY <2>1, <2>2 DEF IInv, IsTrue, Attested, Asked, chain
<1>7. ReceiptIsTrue' /\ WaitsForItsOwn' /\ CommandIsKnown'
  <2>1. run'.part = "begin" /\ run'.tee = node /\ run'.command = command
        BY <1>2
  <2> QED BY <2>1 DEF IInv, TypeOK, ReceiptIsTrue, WaitsForItsOwn, CommandIsKnown
<1>8. ChallengesAreOfRegistered' /\ ChecksAreOfMachines'
      BY DEF IInv, chain, ChallengesAreOfRegistered, ChecksAreOfMachines
<1> QED BY <1>5, <1>6, <1>7, <1>8 DEF IInv

\* A step that the state in memory has already.
LEMMA SkipKeeps ==
    ASSUME IInv, NEW step \in {"r", "R", "a"}, Skip(step)
    PROVE  IInv'
<1>1. PICK at \in Steps \union {"end"} : at = After(step)
      BY AfterType
<1>2. run' = IF step = "a" THEN [run EXCEPT !.at = at, !.instr = run.mem.instr]
                           ELSE [run EXCEPT !.at = at, !.attest = run.mem.attest]
      BY <1>1 DEF Skip
<1>3. run.part = "begin" /\ run.at = step
      BY DEF Skip, At
<1>4. run.mem.instr \in Ids \union {NoId} /\ run.mem.attest \in Ids \union {NoId}
      BY DEF IInv, TypeOK, Runs, Progress
<1>5. run' \in Runs
      BY <1>2, <1>4 DEF IInv, TypeOK, Runs
<1>6. run'.part = "begin" /\ run'.mem = run.mem /\ run'.tee = run.tee /\ run'.command = run.command
      BY <1>2, <1>3 DEF IInv, TypeOK, Runs
<1>7. TypeOK'
      BY <1>5 DEF IInv, TypeOK, Skip, chain, world
<1>8. IsTrue(file.state)' /\ IsTrue(run.mem)'
      BY <1>6 DEF IInv, IsTrue, Attested, Asked, Skip, chain
<1>9. ReceiptIsTrue' /\ WaitsForItsOwn' /\ CommandIsKnown'
      BY <1>3, <1>6 DEF IInv, ReceiptIsTrue, WaitsForItsOwn, CommandIsKnown, Steps
<1>10. ChallengesAreOfRegistered' /\ ChecksAreOfMachines'
      BY DEF IInv, Skip, chain, ChallengesAreOfRegistered, ChecksAreOfMachines
<1> QED BY <1>7, <1>8, <1>9, <1>10 DEF IInv

\* The step is recorded, or the file is torn, or keeps what it had.
LEMMA SaveKeeps ==
    ASSUME IInv, Save
    PROVE  IInv'
<1> DEFINE state == [steps |-> run.mem.steps \union {run.at},
                     attest |-> IF run.at = "a" THEN run.mem.attest ELSE run.attest,
                     instr |-> IF run.at = "a" THEN run.instr ELSE run.mem.instr]
<1>1. PICK at \in Steps \union {"end"} : at = After(run.at)
      BY AfterType
<1>2. /\ run' = [run EXCEPT !.mem = state, !.at = at, !.part = "begin"]
      /\ file' \in {Saved(state), file, Torn}
      /\ faults' \in 0..MaxFaults
      BY <1>1, BoundsAreNat DEF IInv, TypeOK, Save
<1>3. run.part = "save" /\ run.at \in {"r", "R", "a"}
      BY DEF IInv, Save, ReceiptIsTrue
<1>4. state \in Progress
      BY <1>3 DEF IInv, TypeOK, Runs, Progress
<1>5. IsTrue(state)
      BY <1>3 DEF IInv, ReceiptIsTrue, IsTrue
<1> HIDE DEF state
<1>6. run' \in Runs
      BY <1>2, <1>4 DEF IInv, TypeOK, Runs
<1>7. run'.part = "begin" /\ run'.mem = state /\ run'.tee = run.tee /\ run'.command = run.command
      BY <1>2 DEF IInv, TypeOK, Runs
<1>8. file' \in Files /\ (file'.state = state \/ file'.state = file.state \/ file'.state = Empty)
  <2>1. Saved(state) \in Files /\ Saved(state).state = state
        BY <1>4 DEF Files, Saved
  <2>2. Torn \in Files /\ Torn.state = Empty
        BY DEF Files, Torn, Empty, Progress
  <2> QED BY <1>2, <2>1, <2>2 DEF IInv, TypeOK
<1>9. TypeOK'
      BY <1>2, <1>6, <1>8 DEF IInv, TypeOK, Save, chain, world
<1>10. IsTrue(file.state)' /\ IsTrue(run.mem)'
  <2>1. Empty.steps = {}
        BY DEF Empty
  <2> QED BY <2>1, <1>5, <1>7, <1>8 DEF IInv, IsTrue, Attested, Asked, Save, chain
<1>11. ReceiptIsTrue' /\ WaitsForItsOwn' /\ CommandIsKnown'
  <2>1. run.at # "idle"
        BY <1>3
  <2> QED BY <2>1, <1>7 DEF IInv, ReceiptIsTrue, WaitsForItsOwn, CommandIsKnown
<1>12. ChallengesAreOfRegistered' /\ ChecksAreOfMachines'
      BY DEF IInv, Save, chain, ChallengesAreOfRegistered, ChecksAreOfMachines
<1> QED BY <1>9, <1>10, <1>11, <1>12 DEF IInv

\* The steps of the tool.
LEMMA ToolKeeps ==
    ASSUME IInv,
           \/ SendRegister \/ SendAttest \/ SendCheck \/ SendPromote
           \/ PollTimeout \/ TxTimeout \/ Finish \/ Die
    PROVE  IInv'
<1> USE BoundsAreNat
<1>1. faults \in 0..MaxFaults
      BY DEF IInv, TypeOK
<1>2. ASSUME NEW kind \in {"register", "attest", "check"},
             NEW attest \in Ids \union {NoId}, run.at \in Steps
      PROVE  Tx(kind, run.tee, attest) \in Transactions /\ Tx(kind, run.tee, attest).kind = kind
      BY <1>2 DEF IInv, CommandIsKnown, Transactions, Tx, Steps
<1>3. CASE SendRegister
  <2>1. run.at = "r" /\ run.at \in Steps
        BY <1>3 DEF SendRegister, At, Steps
  <2>2. PICK kind \in {"register", "attest"} : Send(Tx(kind, run.tee, NoId))
        BY <1>3 DEF SendRegister
  <2>3. faults' \in 0..MaxFaults
        BY <1>1, <1>3 DEF SendRegister
  <2>4. Tx(kind, run.tee, NoId) \in Transactions /\ Tx(kind, run.tee, NoId).kind = kind
        BY <1>2, <2>1
  <2>5. kind \in Kinds(run.at)
        BY <2>1 DEF Kinds
  <2> QED BY <2>1, <2>2, <2>3, <2>4, <2>5, SendKeeps
<1>4. CASE SendAttest
  <2>1. run.at = "R" /\ run.at \in Steps /\ Send(Tx("attest", run.tee, NoId)) /\ faults' = faults
        BY <1>4 DEF SendAttest, At, Steps
  <2>2. Tx("attest", run.tee, NoId) \in Transactions /\ Tx("attest", run.tee, NoId).kind = "attest"
        BY <1>2, <2>1
  <2>3. "attest" \in Kinds(run.at)
        BY <2>1 DEF Kinds
  <2> QED BY <1>1, <2>1, <2>2, <2>3, SendKeeps
<1>5. CASE SendCheck
  <2>1. run.at = "a" /\ run.at \in Steps /\ run.attest \in Ids \union {NoId}
        BY <1>5 DEF SendCheck, At, Steps, IInv, TypeOK, Runs
  <2>2. faults' \in 0..MaxFaults
        BY <1>1, <1>5 DEF SendCheck
  <2>3. CASE Send(Tx("check", run.tee, run.attest))
    <3>1. /\ Tx("check", run.tee, run.attest) \in Transactions
          /\ Tx("check", run.tee, run.attest).kind = "check"
          BY <1>2, <2>1
    <3>2. "check" \in Kinds(run.at)
          BY <2>1 DEF Kinds
    <3> QED BY <2>1, <2>2, <2>3, <3>1, <3>2, SendKeeps
  <2>4. CASE Fail /\ UNCHANGED <<file, chain, mempool, world, reported>>
    <3>1. /\ file' \in Files /\ mempool' \in Seq(Transactions)
          /\ UNCHANGED <<chain, world, reported>>
          BY <2>4 DEF IInv, TypeOK
    <3>2. IsTrue(file.state)'
          BY <2>4 DEF IInv, IsTrue, Attested, Asked, chain
    <3> QED BY <2>2, <2>4, <3>1, <3>2, FailKeeps
  <2> QED BY <1>5, <2>3, <2>4 DEF SendCheck
<1>6. CASE SendPromote
  <2>1. run.at = "p" /\ run.at \in Steps /\ run.instr \in Ids
        BY <1>6 DEF SendPromote, At, Steps, IInv, TypeOK, Runs
  <2>2. Send(Tx("promote", check[run.instr].tee, NoId)) /\ faults' = faults
        BY <1>6 DEF SendPromote
  <2>3. check[run.instr].tee \in Machines
        BY <1>6, <2>1 DEF SendPromote, IInv, ChecksAreOfMachines
  <2>4. /\ Tx("promote", check[run.instr].tee, NoId) \in Transactions
        /\ Tx("promote", check[run.instr].tee, NoId).kind = "promote"
        BY <2>3 DEF Tx, Transactions
  <2>5. "promote" \in Kinds(run.at)
        BY <2>1 DEF Kinds
  <2> QED BY <1>1, <2>1, <2>2, <2>4, <2>5, SendKeeps
<1>7. CASE PollTimeout \/ TxTimeout \/ Die
  <2>1. Fail /\ UNCHANGED <<file, chain, mempool, world, reported>>
        BY <1>7 DEF PollTimeout, TxTimeout, Die
  <2>2. faults' \in 0..MaxFaults
        BY <1>1, <1>7 DEF PollTimeout, TxTimeout, Die
  <2>3. /\ file' \in Files /\ mempool' \in Seq(Transactions)
        /\ UNCHANGED <<chain, world, reported>>
        BY <2>1 DEF IInv, TypeOK
  <2>4. IsTrue(file.state)'
        BY <2>1 DEF IInv, IsTrue, Attested, Asked, chain
  <2> QED BY <2>1, <2>2, <2>3, <2>4, FailKeeps
<1>8. CASE Finish
  <2>1. run.tee \in Machines /\ run.command \in Commands /\ run.clean \in BOOLEAN
        BY <1>8 DEF Finish, IInv, CommandIsKnown, TypeOK, Runs
  <2>2. reported' \subseteq [tee : Machines, clean : BOOLEAN, command : Commands]
        BY <1>8, <2>1 DEF Finish, IInv, TypeOK
  <2>3. run' \in Runs /\ file' \in Files /\ run'.at = "idle" /\ run'.part = "begin"
        BY <1>8 DEF Finish, NotRunning, Missing, Files, Runs, Empty, Progress, Steps
  <2>4. file'.state.steps = {} /\ run'.mem.steps = {}
        BY <1>8 DEF Finish, NotRunning, Missing, Empty
  <2>5. TypeOK'
        BY <1>8, <2>2, <2>3 DEF Finish, IInv, TypeOK, chain, world
  <2>6. IsTrue(file.state)' /\ IsTrue(run.mem)'
        BY <2>4 DEF IsTrue
  <2>7. ReceiptIsTrue' /\ WaitsForItsOwn' /\ CommandIsKnown'
        BY <2>3 DEF ReceiptIsTrue, WaitsForItsOwn, CommandIsKnown
  <2>8. ChallengesAreOfRegistered' /\ ChecksAreOfMachines'
        BY <1>8 DEF Finish, IInv, chain, ChallengesAreOfRegistered, ChecksAreOfMachines
  <2> QED BY <2>5, <2>6, <2>7, <2>8 DEF IInv
<1> QED BY <1>3, <1>4, <1>5, <1>6, <1>7, <1>8

\* What the world does without a transaction being accepted.
LEMMA WorldKeeps ==
    ASSUME IInv,
           \/ Revert \/ Policy \/ Fault(Drop) \/ Fault(Rebuild)
           \/ \E id \in Ids : Answer(id) \/ Fault(Expire(id))
    PROVE  IInv'
<1> USE BoundsAreNat
<1>1. CASE Revert
  <2>1. mempool' \in Seq(Transactions) /\ mempool # <<>> /\ mempool' = Tail(mempool)
        BY <1>1 DEF Revert, IInv, TypeOK
  <2>2. UNCHANGED <<file, chain, world, reported, faults>>
        BY <1>1 DEF Revert
  <2>3. CASE Fail
    <3>1. file' \in Files /\ faults' \in 0..MaxFaults
          BY <2>2 DEF IInv, TypeOK
    <3>2. IsTrue(file.state)'
          BY <2>2 DEF IInv, IsTrue, Attested, Asked, chain
    <3>3. UNCHANGED <<chain, world, reported>>
          BY <2>2
    <3> QED BY <2>1, <2>3, <3>1, <3>2, <3>3, FailKeeps
  <2>4. CASE ~Awaited /\ UNCHANGED run
    <3>1. TypeOK'
          BY <2>1, <2>2, <2>4 DEF IInv, TypeOK, chain, world
    <3>2. IsTrue(file.state)' /\ IsTrue(run.mem)'
          BY <2>2, <2>4 DEF IInv, IsTrue, Attested, Asked, chain
    <3>3. ReceiptIsTrue' /\ CommandIsKnown'
          BY <2>2, <2>4 DEF IInv, ReceiptIsTrue, CommandIsKnown, Attested, Asked, chain
    <3>4. WaitsForItsOwn'
          BY <2>1, <2>4 DEF IInv, TypeOK, WaitsForItsOwn
    <3>5. ChallengesAreOfRegistered' /\ ChecksAreOfMachines'
          BY <2>2 DEF IInv, chain, ChallengesAreOfRegistered, ChecksAreOfMachines
    <3> QED BY <3>1, <3>2, <3>3, <3>4, <3>5 DEF IInv
  <2> QED BY <1>1, <2>3, <2>4 DEF Revert
<1>2. CASE Policy \/ Fault(Drop) \/ Fault(Rebuild)
  <2>1. UNCHANGED <<file, run, chain, reported>>
        BY <1>2 DEF Policy, Fault, Drop, Rebuild
  <2>2. /\ mempool' = mempool \/ mempool' = <<>>
        /\ node' \in Machines /\ inSync' \in BOOLEAN /\ faults' \in 0..MaxFaults
    <3>1. CASE Policy
          BY <3>1 DEF Policy, IInv, TypeOK
    <3>2. CASE Fault(Drop)
          BY <3>2 DEF Fault, Drop, world, IInv, TypeOK
    <3>3. CASE Fault(Rebuild)
          BY <3>3 DEF Fault, Rebuild, IInv, TypeOK
    <3> QED BY <1>2, <3>1, <3>2, <3>3
  <2>3. TypeOK'
    <3>1. mempool' \in Seq(Transactions)
      <4>1. mempool \in Seq(Transactions) /\ <<>> \in Seq(Transactions)
            BY DEF IInv, TypeOK
      <4> QED BY <2>2, <4>1
    <3>2. /\ file' = file /\ run' = run /\ registered' = registered /\ production' = production
          /\ attestation' = attestation /\ check' = check /\ reported' = reported
          BY <2>1 DEF chain
    <3> QED BY <2>2, <3>1, <3>2 DEF IInv, TypeOK
  <2>4. IsTrue(file.state)' /\ IsTrue(run.mem)'
        BY <2>1 DEF IInv, IsTrue, Attested, Asked, chain
  <2>5. ReceiptIsTrue' /\ CommandIsKnown'
        BY <2>1 DEF IInv, ReceiptIsTrue, CommandIsKnown, Attested, Asked, chain
  <2>6. WaitsForItsOwn'
        BY <2>1, <2>2 DEF IInv, WaitsForItsOwn
  <2>7. ChallengesAreOfRegistered' /\ ChecksAreOfMachines'
        BY <2>1 DEF IInv, chain, ChallengesAreOfRegistered, ChecksAreOfMachines
  <2> QED BY <2>3, <2>4, <2>5, <2>6, <2>7 DEF IInv
<1>3. CASE \E id \in Ids : Answer(id) \/ Fault(Expire(id))
  <2>1. PICK id \in Ids : Answer(id) \/ Fault(Expire(id))
        BY <1>3
  <2>2. UNCHANGED <<file, run, registered, production, mempool, world, reported>>
        BY <2>1 DEF Answer, Fault, Expire
  <2>3. faults' \in 0..MaxFaults
        BY <2>1 DEF Answer, Fault, Expire, IInv, TypeOK
  <2>4. \/ /\ check' = [check EXCEPT ![id].stage = "proved"]
           /\ check[id].stage = "asked" /\ attestation' = attestation
        \/ /\ attestation' = [attestation EXCEPT ![id].usable = FALSE]
           /\ check' = check
        BY <2>1 DEF Answer, Fault, Expire
  <2>5. \A i \in Ids : /\ attestation'[i].tee = attestation[i].tee
                       /\ attestation'[i].usable => attestation[i].usable
                       /\ check'[i].tee = check[i].tee
                       /\ check'[i].stage # "dead" => check[i].stage # "dead"
    <3> SUFFICES ASSUME NEW i \in Ids
                 PROVE  /\ attestation'[i].tee = attestation[i].tee
                        /\ attestation'[i].usable => attestation[i].usable
                        /\ check'[i].tee = check[i].tee
                        /\ check'[i].stage # "dead" => check[i].stage # "dead"
        OBVIOUS
    <3>1. CASE i = id
          BY <2>4, <3>1 DEF IInv, TypeOK
    <3>2. CASE i # id
      <4>1. attestation'[i] = attestation[i] /\ check'[i] = check[i]
            BY <2>4, <3>2 DEF IInv, TypeOK
      <4> QED BY <4>1
    <3> QED BY <3>1, <3>2
  <2>6. /\ attestation' \in [Ids -> [tee : Machines \union {NoMachine}, usable : BOOLEAN]]
        /\ check' \in [Ids -> [tee : Machines \union {NoMachine},
                               stage : {"dead", "asked", "proved"}]]
    <3>1. CASE attestation' = [attestation EXCEPT ![id].usable = FALSE] /\ check' = check
          BY <3>1 DEF IInv, TypeOK
    <3>2. CASE check' = [check EXCEPT ![id].stage = "proved"] /\ attestation' = attestation
          BY <3>2 DEF IInv, TypeOK
    <3> QED BY <2>4, <3>1, <3>2
  <2>7. TypeOK'
        BY <2>2, <2>3, <2>6 DEF IInv, TypeOK, world
  <2>8. IsTrue(file.state)' /\ IsTrue(run.mem)'
        BY <2>2, <2>5 DEF IInv, IsTrue, Attested, Asked
  <2>9. ReceiptIsTrue' /\ CommandIsKnown' /\ WaitsForItsOwn'
        BY <2>2, <2>5 DEF IInv, ReceiptIsTrue, CommandIsKnown, WaitsForItsOwn, Attested, Asked
  <2>10. ChallengesAreOfRegistered' /\ ChecksAreOfMachines'
        BY <2>2, <2>5 DEF IInv, ChallengesAreOfRegistered, ChecksAreOfMachines
  <2> QED BY <2>7, <2>8, <2>9, <2>10 DEF IInv
<1> QED BY <1>1, <1>2, <1>3

\* A transaction that is accepted is about a machine that is registered then.
LEMMA AcceptedIsRegistered ==
    ASSUME IInv, Mine
    PROVE  LET tx == Head(mempool) IN
           /\ tx \in Transactions
           /\ mempool # <<>> /\ mempool' = Tail(mempool) /\ mempool' \in Seq(Transactions)
           /\ registered \subseteq registered'
           /\ registered' \subseteq Machines /\ production' \subseteq Machines
           /\ tx.kind # "promote" => tx.tee \in registered'
<1> DEFINE tx == Head(mempool)
<1>1. mempool # <<>> /\ mempool' = Tail(mempool) /\ mempool \in Seq(Transactions)
      BY DEF Mine, IInv, TypeOK
<1>2. tx \in Transactions /\ mempool' \in Seq(Transactions)
      BY <1>1
<1>3. /\ registered' = registered \union (IF tx.kind = "register" THEN {tx.tee} ELSE {})
      /\ production' = production \union (IF tx.kind = "promote" THEN {tx.tee} ELSE {})
      /\ Accepted(tx)
      BY DEF Mine
<1> HIDE DEF tx
<1>4. tx.tee \in Machines /\ tx.attest \in Ids \union {NoId}
      /\ tx.kind \in {"register", "attest", "check", "promote"}
      BY <1>2 DEF Transactions
<1>5. tx.kind # "promote" => tx.tee \in registered'
  <2>1. CASE tx.kind = "register"
        BY <1>3, <2>1
  <2>2. CASE tx.kind = "attest"
        BY <1>3, <2>2 DEF Accepted
  <2>3. CASE tx.kind = "check"
    <3>1. tx.attest \in Ids /\ attestation[tx.attest] = [tee |-> tx.tee, usable |-> TRUE]
          BY <1>3, <1>4, <2>3 DEF Accepted
    <3>2. attestation[tx.attest].usable /\ attestation[tx.attest].tee = tx.tee
          BY <3>1
    <3> QED BY <1>3, <3>1, <3>2 DEF IInv, ChallengesAreOfRegistered
  <2> QED BY <1>4, <2>1, <2>2, <2>3
<1>6. registered' \subseteq Machines /\ production' \subseteq Machines
      BY <1>3, <1>4 DEF IInv, TypeOK
<1> QED BY <1>1, <1>2, <1>3, <1>5, <1>6 DEF tx

\* What is forgotten when a transaction is mined was named by nobody, and what
\* is new is about the machine of the transaction.
LEMMA MinedRecords ==
    ASSUME IInv, Mine
    PROVE  LET tx == Head(mempool) IN
           /\ \A i \in AttestsNamed \cap Ids : attestation'[i].tee = attestation[i].tee
           /\ \A i \in ChecksNamed \cap Ids : check'[i].tee = check[i].tee
           /\ \E id \in Ids :
                 /\ IF Awaited THEN Receive(tx, id) ELSE UNCHANGED run
                 /\ Awaited /\ tx.kind \in {"register", "attest"} => attestation'[id].tee = tx.tee
                 /\ Awaited /\ tx.kind = "check" => check'[id].tee = tx.tee
           /\ attestation' \in [Ids -> [tee : Machines \union {NoMachine}, usable : BOOLEAN]]
           /\ check' \in [Ids -> [tee : Machines \union {NoMachine},
                                  stage : {"dead", "asked", "proved"}]]
           /\ ChallengesAreOfRegistered' /\ ChecksAreOfMachines'
<1> DEFINE tx == Head(mempool)
           named == IF tx.kind = "check" THEN ChecksNamed ELSE AttestsNamed
           keptA == Remember(attestation, AttestsNamed, NoAttestation)
           keptC == Remember(check, ChecksNamed, NoCheck)
           asked(id) == [tee |-> tx.tee, stage |-> IF inSync THEN "asked" ELSE "dead"]
<1>1. PICK id \in Ids :
         /\ New(named, id)
         /\ attestation' =
              CASE tx.kind \in {"register", "attest"} /\ Awaited ->
                      [keptA EXCEPT ![id] = [tee |-> tx.tee, usable |-> TRUE]]
                [] tx.kind = "check" -> [keptA EXCEPT ![tx.attest].usable = FALSE]
                [] OTHER -> keptA
         /\ check' = IF tx.kind = "check" /\ Awaited THEN [keptC EXCEPT ![id] = asked(id)] ELSE keptC
         /\ IF Awaited THEN Receive(tx, id) ELSE UNCHANGED run
      BY DEF Mine
<1>2. /\ tx \in Transactions /\ registered \subseteq registered' /\ registered' \subseteq Machines
      /\ tx.kind # "promote" => tx.tee \in registered'
      BY AcceptedIsRegistered
<1>3. Accepted(tx)
      BY DEF Mine
<1> HIDE DEF tx
<1>4. tx.tee \in Machines /\ tx.attest \in Ids \union {NoId}
      BY <1>2 DEF Transactions
<1>5. tx.kind = "check" => tx.attest \in Ids
      BY <1>3, <1>4 DEF Accepted
<1>6. keptA \in [Ids -> [tee : Machines \union {NoMachine}, usable : BOOLEAN]]
      BY DEF IInv, TypeOK, Remember, NoAttestation
<1>7. keptC \in [Ids -> [tee : Machines \union {NoMachine}, stage : {"dead", "asked", "proved"}]]
      BY DEF IInv, TypeOK, Remember, NoCheck
<1>8. \A i \in Ids : /\ i \in AttestsNamed => keptA[i] = attestation[i]
                     /\ i \notin AttestsNamed => keptA[i] = NoAttestation
                     /\ i \in ChecksNamed => keptC[i] = check[i]
                     /\ i \notin ChecksNamed => keptC[i] = NoCheck
      BY DEF Remember
<1>9. /\ tx.kind \in {"register", "attest"} => id \notin AttestsNamed
      /\ tx.kind = "check" => id \notin ChecksNamed
      BY <1>1 DEF New
<1> HIDE DEF keptA, keptC, named
<1>10. \A i \in Ids : /\ keptA[i].usable => keptA[i].tee \in registered'
                      /\ keptC[i].stage # "dead" => keptC[i].tee \in Machines
      BY <1>2, <1>8 DEF IInv, ChallengesAreOfRegistered, ChecksAreOfMachines, NoAttestation, NoCheck
<1>11. /\ attestation' \in [Ids -> [tee : Machines \union {NoMachine}, usable : BOOLEAN]]
       /\ \A i \in AttestsNamed \cap Ids : attestation'[i].tee = attestation[i].tee
       /\ Awaited /\ tx.kind \in {"register", "attest"} => attestation'[id].tee = tx.tee
       /\ \A i \in Ids : attestation'[i].usable => attestation'[i].tee \in registered'
  <2>1. CASE tx.kind \in {"register", "attest"} /\ Awaited
    <3>1. attestation' = [keptA EXCEPT ![id] = [tee |-> tx.tee, usable |-> TRUE]]
          BY <1>1, <2>1
    <3>2. attestation'[id] = [tee |-> tx.tee, usable |-> TRUE]
          /\ \A i \in Ids \ {id} : attestation'[i] = keptA[i]
          BY <3>1, <1>6
    <3>3. attestation' \in [Ids -> [tee : Machines \union {NoMachine}, usable : BOOLEAN]]
          BY <3>1, <1>4, <1>6
    <3> QED BY <2>1, <3>2, <3>3, <1>2, <1>8, <1>9, <1>10
  <2>2. CASE tx.kind = "check"
    <3>1. attestation' = [keptA EXCEPT ![tx.attest].usable = FALSE]
          BY <1>1, <2>2
    <3>2. /\ attestation'[tx.attest].tee = keptA[tx.attest].tee /\ ~attestation'[tx.attest].usable
          /\ \A i \in Ids \ {tx.attest} : attestation'[i] = keptA[i]
          BY <3>1, <1>5, <1>6, <2>2
    <3>3. attestation' \in [Ids -> [tee : Machines \union {NoMachine}, usable : BOOLEAN]]
          BY <3>1, <1>6
    <3> QED BY <2>2, <3>2, <3>3, <1>8, <1>10
  <2>3. CASE tx.kind # "check" /\ ~(tx.kind \in {"register", "attest"} /\ Awaited)
    <3>1. attestation' = keptA
          BY <1>1, <2>3
    <3> QED BY <2>3, <3>1, <1>6, <1>8, <1>10
  <2> QED BY <2>1, <2>2, <2>3
<1>12. /\ check' \in [Ids -> [tee : Machines \union {NoMachine}, stage : {"dead", "asked", "proved"}]]
       /\ \A i \in ChecksNamed \cap Ids : check'[i].tee = check[i].tee
       /\ Awaited /\ tx.kind = "check" => check'[id].tee = tx.tee
       /\ \A i \in Ids : check'[i].stage # "dead" => check'[i].tee \in Machines
  <2>1. CASE tx.kind = "check" /\ Awaited
    <3>1. check' = [keptC EXCEPT ![id] = asked(id)]
          BY <1>1, <2>1
    <3>2. check'[id].tee = tx.tee /\ \A i \in Ids \ {id} : check'[i] = keptC[i]
          BY <3>1, <1>7
    <3>3. check' \in [Ids -> [tee : Machines \union {NoMachine}, stage : {"dead", "asked", "proved"}]]
          BY <3>1, <1>4, <1>7
    <3> QED BY <2>1, <3>2, <3>3, <1>4, <1>8, <1>9, <1>10
  <2>2. CASE ~(tx.kind = "check" /\ Awaited)
    <3>1. check' = keptC
          BY <1>1, <2>2
    <3> QED BY <2>2, <3>1, <1>7, <1>8, <1>10
  <2> QED BY <2>1, <2>2
<1> QED BY <1>1, <1>11, <1>12 DEF tx, ChallengesAreOfRegistered, ChecksAreOfMachines

\* The command learns from its receipt what the chain has accepted.
LEMMA MineKeeps ==
    ASSUME IInv, Mine
    PROVE  IInv'
<1> DEFINE tx == Head(mempool)
<1>1. /\ tx \in Transactions /\ mempool # <<>> /\ mempool' = Tail(mempool)
      /\ mempool' \in Seq(Transactions)
      /\ registered \subseteq registered' /\ registered' \subseteq Machines
      /\ production' \subseteq Machines /\ (tx.kind # "promote" => tx.tee \in registered')
      BY AcceptedIsRegistered
<1>2. /\ \A i \in AttestsNamed \cap Ids : attestation'[i].tee = attestation[i].tee
      /\ \A i \in ChecksNamed \cap Ids : check'[i].tee = check[i].tee
      /\ attestation' \in [Ids -> [tee : Machines \union {NoMachine}, usable : BOOLEAN]]
      /\ check' \in [Ids -> [tee : Machines \union {NoMachine},
                             stage : {"dead", "asked", "proved"}]]
      /\ ChallengesAreOfRegistered' /\ ChecksAreOfMachines'
      BY MinedRecords
<1>3. PICK id \in Ids :
         /\ IF Awaited THEN Receive(tx, id) ELSE UNCHANGED run
         /\ Awaited /\ tx.kind \in {"register", "attest"} => attestation'[id].tee = tx.tee
         /\ Awaited /\ tx.kind = "check" => check'[id].tee = tx.tee
      BY MinedRecords
<1>4. UNCHANGED <<file, world, reported, faults>>
      BY DEF Mine
<1>5. Awaited => tx.kind \in Kinds(run.at) /\ run.at \in Steps
      BY <1>1 DEF IInv, TypeOK, WaitsForItsOwn, Awaited
<1>6. /\ \A i \in AttestsNamed : Attested(i) => attestation'[i].tee \in registered'
      /\ \A i \in ChecksNamed : Asked(i) => check'[i].tee \in registered'
      BY <1>1, <1>2 DEF Attested, Asked
<1> HIDE DEF tx
<1>7. IsTrue(file.state)'
      BY <1>4, <1>6 DEF IInv, IsTrue, Attested, Asked, AttestsNamed, ChecksNamed
<1>8. CASE ~Awaited
  <2>1. run' = run
        BY <1>3, <1>8
  <2>2. TypeOK'
        BY <1>1, <1>2, <1>4, <2>1 DEF IInv, TypeOK, world
  <2>3. IsTrue(run.mem)' /\ ReceiptIsTrue' /\ CommandIsKnown'
        BY <1>6, <2>1 DEF IInv, IsTrue, ReceiptIsTrue, CommandIsKnown, Attested, Asked,
           AttestsNamed, ChecksNamed
  <2>4. WaitsForItsOwn'
        BY <1>1, <1>8, <2>1 DEF IInv, TypeOK, WaitsForItsOwn, Awaited
  <2> QED BY <1>2, <1>7, <2>2, <2>3, <2>4 DEF IInv
<1>9. CASE Awaited
  <2>1. /\ run'.mem = run.mem /\ run'.tee = run.tee /\ run'.command = run.command
        /\ run' \in Runs /\ run'.part # "wait"
        /\ tx.kind \in {"register", "attest"} /\ run.at \in {"r", "R"} =>
              run'.part = "save" /\ run'.at = run.at /\ run'.attest = id
        /\ tx.kind = "check" => run'.part = "save" /\ run'.at = run.at /\ run'.instr = id
        /\ tx.kind \notin {"register", "attest", "check"} => run'.part = "begin"
    <3>1. CASE tx.kind \in {"register", "attest"}
      <4>1. run' = [run EXCEPT !.part = "save", !.attest = id]
            BY <1>3, <1>9, <3>1 DEF Receive
      <4> QED BY <3>1, <4>1 DEF IInv, TypeOK, Runs
    <3>2. CASE tx.kind = "check"
      <4>1. run' = [run EXCEPT !.part = "save", !.instr = id]
            BY <1>3, <1>9, <3>2 DEF Receive
      <4> QED BY <3>2, <4>1 DEF IInv, TypeOK, Runs
    <3>3. CASE tx.kind \notin {"register", "attest", "check"}
      <4>1. run' = [run EXCEPT !.at = "end", !.part = "begin"]
            BY <1>3, <1>9, <3>3 DEF Receive
      <4> QED BY <3>3, <4>1 DEF IInv, TypeOK, Runs
    <3> QED BY <3>1, <3>2, <3>3
  <2>2. TypeOK'
        BY <1>1, <1>2, <1>4, <2>1 DEF IInv, TypeOK, world
  <2>3. IsTrue(run.mem)'
        BY <1>6, <2>1 DEF IInv, IsTrue, Attested, Asked, AttestsNamed, ChecksNamed
  <2>4. CommandIsKnown' /\ WaitsForItsOwn'
    <3>1. run.at # "idle"
          BY <1>5, <1>9 DEF Steps
    <3>2. run.tee \in Machines /\ run.command \in Commands
          BY <3>1 DEF IInv, CommandIsKnown
    <3> QED BY <2>1, <3>2 DEF CommandIsKnown, WaitsForItsOwn
  <2>5. ReceiptIsTrue'
    <3>1. CASE run.at \in {"r", "R"}
      <4>1. tx.kind \in {"register", "attest"}
            BY <1>5, <1>9, <3>1 DEF Kinds
      <4>2. run'.at = run.at /\ run'.attest = id /\ attestation'[id].tee \in registered'
            BY <1>1, <1>3, <1>9, <2>1, <3>1, <4>1
      <4> QED BY <3>1, <4>2 DEF ReceiptIsTrue, Attested
    <3>2. CASE run.at = "a"
      <4>1. tx.kind = "check"
            BY <1>5, <1>9, <3>2 DEF Kinds
      <4>2. run'.at = run.at /\ run'.instr = id /\ check'[id].tee \in registered'
            BY <1>1, <1>3, <1>9, <2>1, <4>1
      <4> QED BY <3>2, <4>2 DEF ReceiptIsTrue, Asked
    <3>3. CASE run.at = "p"
      <4>1. tx.kind = "promote"
            BY <1>5, <1>9, <3>3 DEF Kinds
      <4> QED BY <2>1, <4>1 DEF ReceiptIsTrue
    <3> QED BY <1>5, <1>9, <3>1, <3>2, <3>3 DEF Steps
  <2> QED BY <1>2, <1>7, <2>2, <2>3, <2>4, <2>5 DEF IInv
<1> QED BY <1>8, <1>9

\* Every variable keeps its type, and what the file, the memory and the receipt
\* of a command say of the chain is true, in every reachable state.
THEOREM Invariance == Spec => []IInv
<1>1. Init => IInv
  <2> SUFFICES ASSUME Init PROVE IInv
      OBVIOUS
  <2>1. Missing \in Files /\ NotRunning \in Runs
        BY DEF Missing, NotRunning, Files, Runs, Empty, Progress, Steps
  <2>2. TypeOK
        BY <2>1, BoundsAreNat DEF Init, TypeOK, NoAttestation, NoCheck
  <2>3. IsTrue(file.state) /\ IsTrue(run.mem)
        BY DEF Init, IsTrue, Missing, NotRunning, Empty
  <2>4. ReceiptIsTrue /\ WaitsForItsOwn /\ CommandIsKnown
        BY DEF Init, NotRunning, ReceiptIsTrue, WaitsForItsOwn, CommandIsKnown
  <2>5. ChallengesAreOfRegistered /\ ChecksAreOfMachines
        BY DEF Init, NoAttestation, NoCheck, ChallengesAreOfRegistered, ChecksAreOfMachines
  <2> QED BY <2>2, <2>3, <2>4, <2>5 DEF IInv
<1>2. IInv /\ [Next]_vars => IInv'
  <2> SUFFICES ASSUME IInv, [Next]_vars PROVE IInv'
      OBVIOUS
  <2>1. CASE UNCHANGED vars
        BY <2>1 DEF vars, chain, world, IInv, TypeOK, IsTrue, Attested, Asked, ReceiptIsTrue,
           WaitsForItsOwn, CommandIsKnown, ChallengesAreOfRegistered, ChecksAreOfMachines
  <2>2. CASE \E command \in Commands, flag \in {NoId} \union ChecksNamed :
                StartFresh(command, flag) \/ StartResume(command, flag)
    <3>1. PICK command \in Commands, flag \in {NoId} \union ChecksNamed :
              StartFresh(command, flag) \/ StartResume(command, flag)
          BY <2>2
    <3>2. flag \in Ids \union {NoId} /\ Empty \in Progress /\ file.state \in Progress
          BY DEF ChecksNamed, IInv, TypeOK, Files, Runs, Progress, Empty
    <3>3. PICK state \in {Empty, file.state}, clean \in BOOLEAN :
              /\ Begin(command, state, clean, flag)
              /\ file' \in {file, Missing}
              /\ UNCHANGED <<chain, mempool, world, reported, faults>>
          BY <3>1 DEF StartFresh, StartResume
    <3> QED BY <3>2, <3>3, BeginKeeps
  <2>3. CASE \E step \in {"r", "R", "a"} : Skip(step)
        BY <2>3, SkipKeeps
  <2>4. CASE Save
        BY <2>4, SaveKeeps
  <2>5. CASE Mine
        BY <2>5, MineKeeps
  <2>6. CASE \/ SendRegister \/ SendAttest \/ SendCheck \/ SendPromote
             \/ PollTimeout \/ TxTimeout \/ Finish \/ Die
        BY <2>6, ToolKeeps
  <2>7. CASE \/ Revert \/ Policy \/ Fault(Drop) \/ Fault(Rebuild)
             \/ \E id \in Ids : Answer(id) \/ Fault(Expire(id))
        BY <2>7, WorldKeeps
  <2> QED BY <2>1, <2>2, <2>3, <2>4, <2>5, <2>6, <2>7 DEF Next
<1> QED BY <1>1, <1>2, PTL DEF Spec

\* The state file never claims more than the chain has accepted, whenever
\* commands die and whatever becomes of their transactions (saveState).
THEOREM StateFile == Spec => []StateFileIsTrue
<1>1. IInv => StateFileIsTrue
      BY DEF IInv, IsTrue, Attested, Asked, StateFileIsTrue
<1> QED BY <1>1, Invariance, PTL

-----------------------------------------------------------------------------
(* A command that found no state file                                      *)

StartedClean == run.clean /\ {"a", "p"} \subseteq run.command

\* Its check, in hand and in memory, is about its own machine, and so is what
\* it sends; and it ends only after the promotion.
OwnMachine ==
    StartedClean =>
        /\ run.instr # NoId => check[run.instr].tee = run.tee
        /\ "a" \in run.mem.steps => check[run.mem.instr].tee = run.tee
        /\ run.part = "wait" /\ run.at \in {"a", "p"} /\ mempool # <<>> =>
               mempool[Len(mempool)].tee = run.tee
        /\ run.at = "end" => run.tee \in production

NoFileNoSteps == file.kind # "saved" => file.state.steps = {}

CInv == NoFileNoSteps /\ OwnMachine /\ CleanSuccessMeansProduction

\* With a and p among its steps a command does not end before p.
LEMMA NotTheEnd ==
    ASSUME NEW command \in Commands, {"a", "p"} \subseteq command
    PROVE  /\ NextStep(command, Steps) # "end"
           /\ NextStep(command, {"R", "a", "p"}) # "end"
           /\ NextStep(command, {"a", "p"}) # "end"
           /\ NextStep(command, {"p"}) # "end"
<1>1. command \subseteq Steps
      BY CommandsAreSteps
<1> QED BY <1>1 DEF NextStep, Steps

\* Nor after any of the steps before p.
LEMMA NotTheEndAfter ==
    ASSUME IInv, StartedClean, run.at \in {"r", "R", "a"}
    PROVE  After(run.at) # "end"
<1>1. run.command \in Commands /\ {"a", "p"} \subseteq run.command
      BY DEF IInv, CommandIsKnown, StartedClean
<1> QED BY <1>1, NotTheEnd DEF After

\* A command that ends, or none that runs, leaves what was reported.
LEMMA CleanFails ==
    ASSUME CInv, Fail, UNCHANGED <<file, chain, reported>>
    PROVE  CInv'
BY DEF CInv, Fail, NotRunning, NoFileNoSteps, OwnMachine, StartedClean, CleanSuccessMeansProduction, chain

\* What a command sends as a check or a promotion is about its own machine.
LEMMA CleanSends ==
    ASSUME IInv, CInv, NEW tx \in Transactions, Send(tx), run.at \in Steps,
           StartedClean /\ run.at \in {"a", "p"} => tx.tee = run.tee
    PROVE  CInv'
<1>1. run' = [run EXCEPT !.part = "wait"] /\ mempool' = Append(mempool, tx)
      /\ UNCHANGED <<file, chain, reported>>
      BY DEF Send
<1>2. /\ run'.at = run.at /\ run'.part = "wait" /\ run'.tee = run.tee /\ run'.instr = run.instr
      /\ run'.command = run.command /\ run'.mem = run.mem /\ run'.clean = run.clean
      BY <1>1 DEF IInv, TypeOK, Runs
<1>3. mempool'[Len(mempool')] = tx
      BY <1>1 DEF IInv, TypeOK
<1>4. OwnMachine'
      BY <1>1, <1>2, <1>3 DEF CInv, OwnMachine, StartedClean, chain, Steps
<1>5. NoFileNoSteps' /\ CleanSuccessMeansProduction'
      BY <1>1 DEF CInv, NoFileNoSteps, CleanSuccessMeansProduction, chain
<1> QED BY <1>4, <1>5 DEF CInv

\* A command that finds no state file has nothing done and no check in hand.
LEMMA CleanBegins ==
    ASSUME IInv, CInv, NEW command \in Commands, NEW flag \in {NoId} \union ChecksNamed,
           StartFresh(command, flag) \/ StartResume(command, flag)
    PROVE  CInv'
<1>1. PICK state \in {Empty, file.state}, clean \in BOOLEAN :
          /\ Begin(command, state, clean, flag)
          /\ clean => state = Empty \/ file.kind = "missing"
          /\ file' \in {file, Missing}
          /\ UNCHANGED <<chain, mempool, world, reported, faults>>
      BY DEF StartFresh, StartResume
<1>2. /\ run'.at = NextStep(command, Steps) /\ run'.part = "begin" /\ run'.command = command
      /\ run'.clean = clean /\ run'.mem = state
      /\ "a" \in command => run'.instr = NoId
      BY <1>1 DEF Begin
<1>3. clean => state.steps = {}
      BY <1>1 DEF CInv, NoFileNoSteps, Empty
<1>4. NoFileNoSteps'
      BY <1>1 DEF CInv, NoFileNoSteps, Missing, Empty
<1>5. OwnMachine'
  <2> SUFFICES ASSUME StartedClean' PROVE OwnMachine'
      BY DEF OwnMachine
  <2>1. clean /\ {"a", "p"} \subseteq command
        BY <1>2 DEF StartedClean
  <2>2. run'.at # "end" /\ run'.mem.steps = {} /\ run'.instr = NoId
        BY <1>2, <1>3, <2>1, NotTheEnd
  <2> QED BY <1>2, <2>2 DEF OwnMachine
<1>6. CleanSuccessMeansProduction'
      BY <1>1 DEF CInv, CleanSuccessMeansProduction, chain
<1> QED BY <1>4, <1>5, <1>6 DEF CInv

\* A skipped step takes up the check that the memory has.
LEMMA CleanSkips ==
    ASSUME IInv, CInv, NEW step \in {"r", "R", "a"}, Skip(step)
    PROVE  CInv'
<1>1. /\ run.at = step /\ run.part = "begin" /\ step \in run.mem.steps
      /\ run' = IF step = "a" THEN [run EXCEPT !.at = After(step), !.instr = run.mem.instr]
                              ELSE [run EXCEPT !.at = After(step), !.attest = run.mem.attest]
      /\ UNCHANGED <<file, chain, mempool, reported>>
      BY DEF Skip, At
<1> DEFINE at == After(step)
<1> HIDE DEF at
<1>2. /\ run'.at = at /\ run'.part = "begin" /\ run'.tee = run.tee /\ run'.mem = run.mem
      /\ run'.command = run.command /\ run'.clean = run.clean
      /\ run'.instr = run.instr \/ (step = "a" /\ run'.instr = run.mem.instr)
      BY <1>1 DEF IInv, TypeOK, Runs, at
<1>3. StartedClean => at # "end"
      BY <1>1, NotTheEndAfter DEF at
<1>4. OwnMachine'
      BY <1>1, <1>2, <1>3 DEF CInv, OwnMachine, StartedClean, chain
<1>5. NoFileNoSteps' /\ CleanSuccessMeansProduction'
      BY <1>1 DEF CInv, NoFileNoSteps, CleanSuccessMeansProduction, chain
<1> QED BY <1>4, <1>5 DEF CInv

\* What is saved of a check is the check in hand.
LEMMA CleanSaves ==
    ASSUME IInv, CInv, Save
    PROVE  CInv'
<1> DEFINE state == [steps |-> run.mem.steps \union {run.at},
                     attest |-> IF run.at = "a" THEN run.mem.attest ELSE run.attest,
                     instr |-> IF run.at = "a" THEN run.instr ELSE run.mem.instr]
           at == After(run.at)
<1>1. /\ run' = [run EXCEPT !.mem = state, !.at = at, !.part = "begin"]
      /\ file' \in {Saved(state), file, Torn}
      /\ UNCHANGED <<chain, mempool, reported>>
      BY DEF Save
<1>2. run.part = "save" /\ run.at \in {"r", "R", "a"} /\ (run.at = "a" => Asked(run.instr))
      BY DEF IInv, Save, ReceiptIsTrue
<1>3. "a" \in state.steps =>
          \/ (run.at = "a" /\ state.instr = run.instr)
          \/ ("a" \in run.mem.steps /\ state.instr = run.mem.instr)
      BY <1>2
<1>4. StartedClean => at # "end"
      BY <1>2, NotTheEndAfter
<1> HIDE DEF state, at
<1>5. /\ run'.at = at /\ run'.part = "begin" /\ run'.tee = run.tee /\ run'.mem = state
      /\ run'.command = run.command /\ run'.clean = run.clean /\ run'.instr = run.instr
      BY <1>1 DEF IInv, TypeOK, Runs
<1>6. NoFileNoSteps'
      BY <1>1 DEF CInv, NoFileNoSteps, Saved, Torn, Empty
<1>7. run.at = "a" => run.instr # NoId
      BY <1>2 DEF Asked, Ids, NoId
<1>8. OwnMachine'
      BY <1>1, <1>3, <1>4, <1>5, <1>7 DEF CInv, OwnMachine, StartedClean, chain
<1>9. CleanSuccessMeansProduction'
      BY <1>1 DEF CInv, CleanSuccessMeansProduction, chain
<1> QED BY <1>6, <1>8, <1>9 DEF CInv

\* The other steps of the tool: a check and a promotion are sent for the machine
\* of the command, and only one that is in production is reported.
LEMMA CleanTool ==
    ASSUME IInv, CInv,
           \/ SendRegister \/ SendAttest \/ SendCheck \/ SendPromote
           \/ PollTimeout \/ TxTimeout \/ Finish \/ Die
    PROVE  CInv'
<1>1. CASE SendRegister \/ SendAttest
  <2>1. run.at \in {"r", "R"} /\ run.tee \in Machines
        BY <1>1 DEF SendRegister, SendAttest, At, IInv, CommandIsKnown
  <2>2. PICK kind \in {"register", "attest"} : Send(Tx(kind, run.tee, NoId))
        BY <1>1 DEF SendRegister, SendAttest
  <2>3. Tx(kind, run.tee, NoId) \in Transactions /\ run.at \in Steps
        BY <2>1 DEF Tx, Transactions, Steps
  <2> QED BY <2>1, <2>2, <2>3, CleanSends
<1>2. CASE SendCheck
  <2>1. run.at = "a" /\ run.tee \in Machines /\ run.attest \in Ids \union {NoId}
        BY <1>2 DEF SendCheck, At, IInv, CommandIsKnown, TypeOK, Runs
  <2>2. CASE Send(Tx("check", run.tee, run.attest))
    <3>1. /\ Tx("check", run.tee, run.attest) \in Transactions /\ run.at \in Steps
          /\ Tx("check", run.tee, run.attest).tee = run.tee
          BY <2>1 DEF Tx, Transactions, Steps
    <3> QED BY <2>2, <3>1, CleanSends
  <2>3. CASE Fail /\ UNCHANGED <<file, chain, mempool, world, reported, faults>>
    <3>1. UNCHANGED <<file, chain, reported>>
          BY <2>3
    <3> QED BY <2>3, <3>1, CleanFails
  <2> QED BY <1>2, <2>2, <2>3 DEF SendCheck
<1>3. CASE SendPromote
  <2>1. run.at = "p" /\ run.instr # NoId /\ run.instr \in Ids /\ run.at \in Steps
        BY <1>3 DEF SendPromote, At, Steps, IInv, TypeOK, Runs
  <2>2. check[run.instr].tee \in Machines
        BY <1>3, <2>1 DEF SendPromote, IInv, ChecksAreOfMachines
  <2>3. /\ Tx("promote", check[run.instr].tee, NoId) \in Transactions
        /\ Tx("promote", check[run.instr].tee, NoId).tee = check[run.instr].tee
        BY <2>2 DEF Tx, Transactions
  <2>4. StartedClean => check[run.instr].tee = run.tee
        BY <2>1 DEF CInv, OwnMachine
  <2>5. Send(Tx("promote", check[run.instr].tee, NoId))
        BY <1>3 DEF SendPromote
  <2> QED BY <2>1, <2>3, <2>4, <2>5, CleanSends
<1>4. CASE PollTimeout \/ TxTimeout \/ Die
  <2>1. Fail /\ UNCHANGED <<file, chain, reported>>
        BY <1>4 DEF PollTimeout, TxTimeout, Die
  <2> QED BY <2>1, CleanFails
<1>5. CASE Finish
  <2>1. /\ run.at = "end" /\ file' = Missing /\ run' = NotRunning /\ UNCHANGED chain
        /\ reported' = reported \union
             {[tee |-> run.tee, clean |-> run.clean, command |-> run.command]}
        BY <1>5 DEF Finish
  <2>2. NoFileNoSteps' /\ OwnMachine'
        BY <2>1 DEF NoFileNoSteps, OwnMachine, StartedClean, Missing, Empty, NotRunning
  <2>3. StartedClean => run.tee \in production
        BY <2>1 DEF CInv, OwnMachine
  <2>4. CleanSuccessMeansProduction'
        BY <2>1, <2>3 DEF CInv, CleanSuccessMeansProduction, StartedClean, chain
  <2> QED BY <2>2, <2>4 DEF CInv
<1> QED BY <1>1, <1>2, <1>3, <1>4, <1>5

\* What happens around a command changes neither whom the checks it knows are
\* about nor its own transaction, the youngest.
LEMMA CleanAround ==
    ASSUME IInv, CInv, UNCHANGED <<file, run, reported>>, production \subseteq production',
           \A i \in ChecksNamed \cap Ids : check'[i].tee = check[i].tee,
           run.part = "wait" /\ mempool' # <<>> =>
               mempool # <<>> /\ mempool'[Len(mempool')] = mempool[Len(mempool)]
    PROVE  CInv'
<1>1. /\ run.instr # NoId => run.instr \in ChecksNamed \cap Ids
      /\ "a" \in run.mem.steps => run.mem.instr \in ChecksNamed \cap Ids
      BY DEF IInv, TypeOK, Runs, IsTrue, Asked, ChecksNamed
<1>2. OwnMachine'
      BY <1>1 DEF CInv, OwnMachine, StartedClean
<1>3. NoFileNoSteps' /\ CleanSuccessMeansProduction'
      BY DEF CInv, NoFileNoSteps, CleanSuccessMeansProduction
<1> QED BY <1>2, <1>3 DEF CInv

\* What the world does without a transaction being accepted.
LEMMA CleanWorld ==
    ASSUME IInv, CInv,
           \/ Revert \/ Policy \/ Fault(Drop) \/ Fault(Rebuild)
           \/ \E id \in Ids : Answer(id) \/ Fault(Expire(id))
    PROVE  CInv'
<1>1. CASE Revert
  <2>1. CASE Fail
    <3>1. UNCHANGED <<file, chain, reported>>
          BY <1>1 DEF Revert
    <3> QED BY <2>1, <3>1, CleanFails
  <2>2. CASE ~Awaited /\ UNCHANGED run
    <3>1. mempool # <<>> /\ mempool' = Tail(mempool) /\ UNCHANGED <<file, run, reported, chain>>
          BY <1>1, <2>2 DEF Revert
    <3>2. run.part = "wait" /\ mempool' # <<>> => mempool'[Len(mempool')] = mempool[Len(mempool)]
          BY <3>1 DEF IInv, TypeOK
    <3> QED BY <3>1, <3>2, CleanAround DEF chain
  <2> QED BY <1>1, <2>1, <2>2 DEF Revert
<1>2. CASE Policy \/ Fault(Drop) \/ Fault(Rebuild)
  <2>1. UNCHANGED <<file, run, chain, reported>> /\ (mempool' = mempool \/ mempool' = <<>>)
        BY <1>2 DEF Policy, Fault, Drop, Rebuild
  <2> QED BY <2>1, CleanAround DEF chain
<1>3. CASE \E id \in Ids : Answer(id) \/ Fault(Expire(id))
  <2>1. PICK id \in Ids : Answer(id) \/ Fault(Expire(id))
        BY <1>3
  <2>2. /\ UNCHANGED <<file, run, production, mempool, reported>>
        /\ check' = [check EXCEPT ![id].stage = "proved"] \/ check' = check
        BY <2>1 DEF Answer, Fault, Expire
  <2>3. \A i \in ChecksNamed \cap Ids : check'[i].tee = check[i].tee
    <3> SUFFICES ASSUME NEW i \in Ids PROVE check'[i].tee = check[i].tee
        OBVIOUS
    <3>1. CASE i = id
          BY <2>2, <3>1 DEF IInv, TypeOK
    <3>2. CASE i # id
          BY <2>2, <3>2 DEF IInv, TypeOK
    <3> QED BY <3>1, <3>2
  <2> QED BY <2>2, <2>3, CleanAround
<1> QED BY <1>1, <1>2, <1>3

\* A check that is mined is the command's own, and so is a promotion.
LEMMA CleanMines ==
    ASSUME IInv, CInv, Mine
    PROVE  CInv'
<1> DEFINE tx == Head(mempool)
<1>1. /\ mempool # <<>> /\ mempool' = Tail(mempool) /\ UNCHANGED <<file, reported>>
      /\ production' = production \union (IF tx.kind = "promote" THEN {tx.tee} ELSE {})
      BY DEF Mine
<1>2. \A i \in ChecksNamed \cap Ids : check'[i].tee = check[i].tee
      BY MinedRecords
<1>3. PICK id \in Ids :
         /\ IF Awaited THEN Receive(tx, id) ELSE UNCHANGED run
         /\ Awaited /\ tx.kind = "check" => check'[id].tee = tx.tee
      BY MinedRecords
<1>4. tx \in Transactions
      BY AcceptedIsRegistered
<1>5. Awaited => /\ tx.kind \in Kinds(run.at) /\ run.at \in Steps
                 /\ StartedClean /\ run.at \in {"a", "p"} => tx.tee = run.tee
      BY <1>1 DEF IInv, TypeOK, WaitsForItsOwn, Awaited, CInv, OwnMachine
<1>6. ~Awaited /\ run.part = "wait" /\ mempool' # <<>> =>
          mempool'[Len(mempool')] = mempool[Len(mempool)]
      BY <1>1 DEF IInv, TypeOK, Awaited
<1> HIDE DEF tx
<1>7. CASE ~Awaited
      BY <1>1, <1>2, <1>3, <1>6, <1>7, CleanAround
<1>8. CASE Awaited
  <2>1. /\ run'.mem = run.mem /\ run'.tee = run.tee /\ run'.command = run.command
        /\ run'.clean = run.clean /\ run'.part # "wait"
        /\ run'.instr = run.instr \/ (tx.kind = "check" /\ run'.instr = id)
        /\ run'.at = run.at \/ tx.kind = "promote"
    <3>1. CASE tx.kind \in {"register", "attest"}
      <4>1. run' = [run EXCEPT !.part = "save", !.attest = id]
            BY <1>3, <1>8, <3>1 DEF Receive
      <4> QED BY <3>1, <4>1 DEF IInv, TypeOK, Runs
    <3>2. CASE tx.kind = "check"
      <4>1. run' = [run EXCEPT !.part = "save", !.instr = id]
            BY <1>3, <1>8, <3>2 DEF Receive
      <4> QED BY <3>2, <4>1 DEF IInv, TypeOK, Runs
    <3>3. CASE tx.kind = "promote"
      <4>1. run' = [run EXCEPT !.at = "end", !.part = "begin"]
            BY <1>3, <1>8, <3>3 DEF Receive
      <4> QED BY <3>3, <4>1 DEF IInv, TypeOK, Runs
    <3> QED BY <1>4, <3>1, <3>2, <3>3 DEF Transactions
  <2>2. /\ tx.kind = "check" => run.at = "a"
        /\ tx.kind = "promote" => run.at = "p"
        BY <1>5, <1>8 DEF Kinds, Steps
  <2>3. /\ run.instr # NoId => run.instr \in ChecksNamed \cap Ids
        /\ "a" \in run.mem.steps => run.mem.instr \in ChecksNamed \cap Ids
        BY DEF IInv, TypeOK, Runs, IsTrue, Asked, ChecksNamed
  <2>4. OwnMachine'
    <3> SUFFICES ASSUME StartedClean' PROVE OwnMachine'
        BY DEF OwnMachine
    <3>1. StartedClean
          BY <2>1 DEF StartedClean
    <3>2. run'.instr # NoId => check'[run'.instr].tee = run'.tee
          BY <1>2, <1>3, <1>5, <1>8, <2>1, <2>2, <2>3, <3>1 DEF CInv, OwnMachine
    <3>3. "a" \in run'.mem.steps => check'[run'.mem.instr].tee = run'.tee
          BY <1>2, <2>1, <2>3, <3>1 DEF CInv, OwnMachine
    <3>4. run'.at = "end" => run'.tee \in production'
      <4>1. run.at # "end"
            BY <1>5, <1>8 DEF Steps
      <4> QED BY <1>1, <1>5, <1>8, <2>1, <2>2, <3>1, <4>1
    <3> QED BY <2>1, <3>2, <3>3, <3>4 DEF OwnMachine
  <2>5. NoFileNoSteps' /\ CleanSuccessMeansProduction'
        BY <1>1 DEF CInv, NoFileNoSteps, CleanSuccessMeansProduction
  <2> QED BY <2>4, <2>5 DEF CInv
<1> QED BY <1>7, <1>8

\* A command that found no state file and reports success has brought the very
\* machine it names into production, although it promotes whatever machine the
\* proof names (register-tee/main.go:72).
THEOREM CleanSuccess == Spec => []CleanSuccessMeansProduction
<1>1. Init => CInv
      BY DEF Init, CInv, NoFileNoSteps, OwnMachine, StartedClean, CleanSuccessMeansProduction,
         NotRunning, Missing, Empty
<1>2. IInv /\ CInv /\ [Next]_vars => CInv'
  <2> SUFFICES ASSUME IInv, CInv, [Next]_vars PROVE CInv'
      OBVIOUS
  <2>1. CASE UNCHANGED vars
        BY <2>1, CleanAround DEF vars, chain
  <2>2. CASE \E command \in Commands, flag \in {NoId} \union ChecksNamed :
                StartFresh(command, flag) \/ StartResume(command, flag)
        BY <2>2, CleanBegins
  <2>3. CASE \E step \in {"r", "R", "a"} : Skip(step)
        BY <2>3, CleanSkips
  <2>4. CASE Save
        BY <2>4, CleanSaves
  <2>5. CASE Mine
        BY <2>5, CleanMines
  <2>6. CASE \/ SendRegister \/ SendAttest \/ SendCheck \/ SendPromote
             \/ PollTimeout \/ TxTimeout \/ Finish \/ Die
        BY <2>6, CleanTool
  <2>7. CASE \/ Revert \/ Policy \/ Fault(Drop) \/ Fault(Rebuild)
             \/ \E id \in Ids : Answer(id) \/ Fault(Expire(id))
        BY <2>7, CleanWorld
  <2> QED BY <2>1, <2>2, <2>3, <2>4, <2>5, <2>6, <2>7 DEF Next
<1>3. CInv => CleanSuccessMeansProduction
      BY DEF CInv
<1> QED BY <1>1, <1>2, <1>3, Invariance, PTL DEF Spec

-----------------------------------------------------------------------------
(* Setting up an extension: what the scripts leave behind                  *)

\* Extensions are registered for senders that are there, and a sender is bound
\* to the first extension that was registered for it.
ExtensionsHaveSenders == \A i \in DOMAIN extensions : extensions[i].sender \in DOMAIN senders
BoundToTheFirst ==
    \A s \in DOMAIN senders : senders[s] # 0 =>
        senders[s] \in Owners(s) /\ \A i \in Owners(s) : senders[s] <= i

\* The file names what is finished, and nodes were started from such files.
FileIsFinished ==
    /\ WellFormed(config.id) => config.id \in DOMAIN extensions /\ Finished(config.id)
    /\ WellFormed(config.sender) =>
          WellFormed(config.id) /\ extensions[config.id].sender = config.sender
NodesAreOfFinished ==
    \A n \in DOMAIN nodes :
        nodes[n].extension \in DOMAIN extensions /\ Finished(nodes[n].extension)

\* A machine is registered with the extension that its node names.
MachinesAreNodes ==
    \A i \in DOMAIN extensions : \A m \in extensions[i].machines :
        m \in DOMAIN nodes /\ nodes[m].extension = i

\* A test that passed was for a sender and a machine of one extension.
PassedAreWired ==
    \A p \in passed :
        /\ p.sender \in DOMAIN senders /\ senders[p.sender] # 0
        /\ p.machine \in DOMAIN nodes
        /\ nodes[p.machine].extension = senders[p.sender]

WorldTypes ==
    /\ rejectsDuplicates \in BOOLEAN
    /\ extensions \in Seq(Extensions) /\ Len(extensions) <= MaxExtensions
    /\ senders \in Seq(0..MaxExtensions) /\ Len(senders) <= MaxSenders
    /\ config \in [kind : {"missing", "file"}, id : Malformed..MaxExtensions,
                   sender : Malformed..MaxSenders]
    /\ nodes \in Seq(Nodes) /\ Len(nodes) <= MaxNodes
    /\ passed \subseteq [sender : 1..MaxSenders, machine : 1..MaxNodes]
WorldInv ==
    /\ WorldTypes /\ ExtensionsHaveSenders /\ BoundToTheFirst /\ FileIsFinished
    /\ NodesAreOfFinished /\ MachinesAreNodes /\ PassedAreWired

worldVars == <<rejectsDuplicates, extensions, senders, config, nodes, passed>>

-----------------------------------------------------------------------------
(* What the script in hand has behind it                                   *)

\* Each script has its own steps, and all but the test read an environment.
StepsOf(script) ==
    CASE script = "pre" -> {"preflight", "deploy", "register", "machineOwner",
                            "projectOwner", "keyType", "config", "failed"}
      [] script = "register" -> {"register", "machineOwner", "projectOwner", "keyType",
                                 "config", "failed"}
      [] script = "post" -> {"version", "governance", "machine", "failed"}
      [] script = "test" -> {"bind", "hello", "helloResult", "goodbye", "goodbyeResult",
                             "hung", "failed"}
      [] OTHER -> {"done"}
ScriptIsKnown ==
    /\ cmd \in Scripts
    /\ cmd.at \in StepsOf(cmd.script)
    /\ cmd.script \in {"pre", "register", "post"} => cmd.env \in Environments
    /\ cmd.nodes <= Len(nodes)
    /\ deaths \in 0..MaxDeaths

\* There is room for what is going to be deployed and registered, and the
\* sender that pre-build.sh has just deployed has no extension.
RoomIsLeft ==
    /\ cmd.at \in {"preflight", "deploy"} => Len(senders) < MaxSenders
    /\ cmd.at \in {"preflight", "deploy", "register"} => Len(extensions) < MaxExtensions
    /\ cmd.at = "register" => cmd.sender \in DOMAIN senders
    /\ cmd.script = "pre" /\ cmd.at = "register" => Owners(cmd.sender) = {}

\* Each step of SetupExtension has the ones before it behind it.
SetUpSoFar ==
    cmd.at \in {"machineOwner", "projectOwner", "keyType", "config"} =>
        LET e == extensions[cmd.extension] IN
        /\ cmd.extension \in DOMAIN extensions
        /\ e.owner = Key /\ e.sender = cmd.sender
        /\ cmd.at \in {"projectOwner", "keyType", "config"} => Key \in e.machineOwners
        /\ cmd.at \in {"keyType", "config"} => Key \in e.projectOwners
        /\ cmd.at = "config" => e.evm

\* While the node is the one that post-build.sh began with, the node's code is
\* allowed, unless the version's name is another build's, and then its
\* governance is set.
PostSoFar ==
    cmd.script = "post" =>
        LET e == extensions[Node.extension] IN
        /\ nodes # <<>>
        /\ cmd.nodes = Len(nodes) /\ cmd.at \in {"governance", "machine"} =>
              \/ Supports(e, Node.code)
              \/ \E v \in e.versions : v.name = cmd.env.version /\ v.code # Node.code
        /\ cmd.nodes = Len(nodes) /\ cmd.at = "machine" =>
              e.governance = DesiredGovernance(cmd.env)

\* The test has a sender that an extension was registered for, then one that is
\* bound, then a machine of the extension it is
\* bound to, which answers if it is the node's.
TestSoFar ==
    cmd.script = "test" =>
        /\ nodes # <<>>
        /\ \/ cmd.sender = Malformed
           \/ cmd.sender \in DOMAIN senders /\ Owners(cmd.sender) # {}
        /\ cmd.at \in {"hello", "helloResult", "goodbye", "goodbyeResult"} =>
              cmd.sender \in DOMAIN senders /\ senders[cmd.sender] # 0
        /\ cmd.at \in {"helloResult", "goodbyeResult"} =>
              /\ cmd.machine \in extensions[senders[cmd.sender]].machines
              /\ cmd.nodes = Len(nodes) => (cmd.answered <=> cmd.machine = Len(nodes))

ScriptInv ==
    /\ ScriptIsKnown /\ RoomIsLeft /\ SetUpSoFar /\ PostSoFar /\ TestSoFar
    /\ ScriptsFailForAReason

SetupInv == WorldInv /\ ScriptInv

-----------------------------------------------------------------------------
(* Environments                                                            *)

\* Keys that the tools fall back to are keys.
LEMMA KeysOfEnvironments ==
    ASSUME NEW env \in Environments
    PROVE  Deployer(env) \in Keys /\ ExtensionOwner(env) \in Keys
BY KeysAreAccounts, EnvironmentsAreRead DEF Deployer, ExtensionOwner

\* What set-governance asks for is well-formed.
LEMMA GovernanceIsTyped ==
    ASSUME NEW env \in Environments
    PROVE  DesiredGovernance(env) \in [signers : SUBSET Keys, threshold : Nat]
<1>1. ExtensionOwner(env) \in Keys
      BY KeysOfEnvironments
<1>2. /\ env.initialOwner \in Keys \union {Unset} /\ env.signers \subseteq Keys
      /\ env.threshold \in Nat
      BY EnvironmentsAreRead
<1> QED BY <1>1, <1>2 DEF DesiredGovernance, GovernanceOf

\* It asks for more signatures than there are signers only if the variables do.
LEMMA TooManySignatures ==
    ASSUME NEW env \in Environments,
           ~(DesiredGovernance(env).threshold <= Cardinality(DesiredGovernance(env).signers))
    PROVE  env.threshold > 1 /\ env.threshold > Cardinality(env.signers)
<1>1. IsFiniteSet(env.signers) /\ env.threshold \in Nat /\ Cardinality(env.signers) \in Nat
      BY EnvironmentsAreRead, FS_CardinalityType
<1>2. DesiredGovernance(env).threshold = IF env.threshold = 0 THEN 1 ELSE env.threshold
      BY DEF DesiredGovernance, GovernanceOf
<1>3. CASE env.signers = {}
  <2>1. PICK fallback : DesiredGovernance(env).signers = {fallback}
        BY <1>3 DEF DesiredGovernance, GovernanceOf
  <2>2. Cardinality(DesiredGovernance(env).signers) = 1 /\ Cardinality(env.signers) = 0
        BY <1>3, <2>1, FS_Singleton, FS_EmptySet
  <2> QED BY <1>1, <1>2, <2>2
<1>4. CASE env.signers # {}
  <2>1. DesiredGovernance(env).signers = env.signers
        BY <1>4 DEF DesiredGovernance, GovernanceOf
  <2>2. Cardinality(env.signers) # 0
        BY <1>1, <1>4, FS_EmptySet
  <2> QED BY <1>1, <1>2, <2>1, <2>2
<1> QED BY <1>3, <1>4

\* A set of numbers has a least one.
LEMMA LeastExists ==
    ASSUME NEW S \in SUBSET Nat, S # {}
    PROVE  Least(S) \in S /\ \A j \in S : Least(S) <= j
<1>1. PICK x \in S : \A y \in S : ~(<<y, x>> \in OpToRel(<, Nat))
      BY NatLessThanWellFounded, WFMin
<1>2. \A y \in S : x <= y
  <2> TAKE y \in S
  <2>1. x \in Nat /\ y \in Nat
        OBVIOUS
  <2>2. ~(y < x)
        BY <1>1, <2>1 DEF OpToRel
  <2> QED BY <2>1, <2>2
<1> QED BY <1>2 DEF Least

-----------------------------------------------------------------------------
(* The world: what steps do to extensions, senders, nodes and the file     *)

\* Steps that leave the world alone.
LEMMA WorldFrame ==
    ASSUME WorldInv, UNCHANGED worldVars
    PROVE  WorldInv'
BY DEF WorldInv, worldVars, WorldTypes, ExtensionsHaveSenders, BoundToTheFirst, Owners,
       FileIsFinished, Finished, NodesAreOfFinished, MachinesAreNodes, PassedAreWired

\* An extension that changes keeps its sender and loses nothing that was set up.
LEMMA Updated ==
    ASSUME WorldInv, NEW i \in DOMAIN extensions, NEW e \in Extensions,
           e.sender = extensions[i].sender, e.owner = extensions[i].owner,
           extensions[i].machineOwners \subseteq e.machineOwners,
           extensions[i].projectOwners \subseteq e.projectOwners,
           extensions[i].evm => e.evm,
           \A m \in e.machines : m \in DOMAIN nodes /\ nodes[m].extension = i,
           extensions' = [extensions EXCEPT ![i] = e],
           UNCHANGED <<rejectsDuplicates, senders, config, nodes, passed>>
    PROVE  WorldInv'
<1>1. /\ extensions' \in Seq(Extensions) /\ Len(extensions') = Len(extensions)
      /\ DOMAIN extensions' = DOMAIN extensions /\ extensions'[i] = e
      /\ \A j \in DOMAIN extensions : j # i => extensions'[j] = extensions[j]
      BY DEF WorldInv, WorldTypes
<1>2. \A j \in DOMAIN extensions : extensions'[j].sender = extensions[j].sender
      BY <1>1
<1>3. \A s : Owners(s)' = Owners(s)
      BY <1>1, <1>2 DEF Owners
<1>4. \A j \in DOMAIN extensions : Finished(j) => Finished(j)'
      BY <1>1 DEF Finished
<1>5. WorldTypes'
      BY <1>1 DEF WorldInv, WorldTypes
<1>6. ExtensionsHaveSenders' /\ BoundToTheFirst'
      BY <1>1, <1>2, <1>3 DEF WorldInv, ExtensionsHaveSenders, BoundToTheFirst
<1>7. FileIsFinished'
      BY <1>1, <1>2, <1>4 DEF WorldInv, FileIsFinished
<1>8. NodesAreOfFinished'
      BY <1>1, <1>4 DEF WorldInv, NodesAreOfFinished
<1>9. MachinesAreNodes' /\ PassedAreWired'
      BY <1>1 DEF WorldInv, MachinesAreNodes, PassedAreWired
<1> QED BY <1>5, <1>6, <1>7, <1>8, <1>9 DEF WorldInv


\* A sender that is new is not bound.
LEMMA Deployed ==
    ASSUME WorldInv, Len(senders) < MaxSenders, senders' = Append(senders, 0),
           UNCHANGED <<rejectsDuplicates, extensions, config, nodes, passed>>
    PROVE  WorldInv' /\ \A i \in DOMAIN extensions' : extensions'[i].sender # Len(senders')
<1>1. /\ senders' \in Seq(0..MaxExtensions) /\ Len(senders') = Len(senders) + 1
      /\ DOMAIN senders' = 1..(Len(senders) + 1) /\ DOMAIN senders = 1..Len(senders)
      /\ \A s \in DOMAIN senders : senders'[s] = senders[s]
      /\ senders'[Len(senders) + 1] = 0 /\ Len(senders) \in Nat
      BY SetupBoundsAreNat DEF WorldInv, WorldTypes
<1>2. WorldTypes'
      BY <1>1, SetupBoundsAreNat DEF WorldInv, WorldTypes
<1>3. \A s : Owners(s)' = Owners(s)
      BY DEF Owners
<1>4. ExtensionsHaveSenders' /\ BoundToTheFirst' /\ PassedAreWired'
      BY <1>1, <1>3 DEF WorldInv, ExtensionsHaveSenders, BoundToTheFirst, PassedAreWired
<1>5. FileIsFinished' /\ NodesAreOfFinished' /\ MachinesAreNodes'
      BY DEF WorldInv, FileIsFinished, Finished, NodesAreOfFinished, MachinesAreNodes
<1>6. \A i \in DOMAIN extensions : extensions[i].sender # Len(senders')
      BY <1>1 DEF WorldInv, ExtensionsHaveSenders
<1> QED BY <1>2, <1>4, <1>5, <1>6 DEF WorldInv

\* A new extension is the last of its sender.
LEMMA Registered ==
    ASSUME WorldInv, Len(extensions) < MaxExtensions,
           NEW sender \in DOMAIN senders, NEW owner \in Keys,
           extensions' = Append(extensions, NewExtension(sender, owner)),
           UNCHANGED <<rejectsDuplicates, senders, config, nodes, passed>>
    PROVE  WorldInv'
<1> DEFINE e == NewExtension(sender, owner)
           i == Len(extensions) + 1
<1>1. e \in Extensions /\ e.machines = {} /\ e.sender = sender
  <2>1. sender \in 1..MaxSenders
        BY SetupBoundsAreNat DEF WorldInv, WorldTypes
  <2> QED BY <2>1 DEF NewExtension, NoGovernance, Extensions
<1> HIDE DEF e
<1>2. /\ extensions' \in Seq(Extensions) /\ Len(extensions') = i /\ Len(extensions) \in Nat
      /\ DOMAIN extensions' = 1..i /\ DOMAIN extensions = 1..Len(extensions)
      /\ extensions'[i] = e
      /\ \A j \in DOMAIN extensions : extensions'[j] = extensions[j]
      BY <1>1 DEF WorldInv, WorldTypes, e
<1>3. \A s : Owners(s) \subseteq Owners(s)' /\ Owners(s)' \subseteq Owners(s) \union {i}
      BY <1>2 DEF Owners
<1>4. \A j \in DOMAIN extensions : j \in DOMAIN extensions' /\ (Finished(j) => Finished(j)')
      BY <1>2 DEF Finished
<1>5. WorldTypes'
      BY <1>2, SetupBoundsAreNat DEF WorldInv, WorldTypes
<1>6. ExtensionsHaveSenders'
      BY <1>1, <1>2 DEF WorldInv, ExtensionsHaveSenders
<1>7. BoundToTheFirst'
  <2> SUFFICES ASSUME NEW s \in DOMAIN senders, senders[s] # 0
               PROVE  senders[s] \in Owners(s)' /\ \A j \in Owners(s)' : senders[s] <= j
      BY DEF BoundToTheFirst
  <2>1. senders[s] \in Owners(s) /\ \A j \in Owners(s) : senders[s] <= j
        BY DEF WorldInv, BoundToTheFirst
  <2>2. senders[s] <= i
        BY <1>2, <2>1 DEF Owners
  <2> QED BY <1>3, <2>1, <2>2
<1>8. FileIsFinished' /\ NodesAreOfFinished'
      BY <1>2, <1>4 DEF WorldInv, FileIsFinished, NodesAreOfFinished
<1>9. MachinesAreNodes' /\ PassedAreWired'
      BY <1>1, <1>2 DEF WorldInv, MachinesAreNodes, PassedAreWired
<1> QED BY <1>5, <1>6, <1>7, <1>8, <1>9 DEF WorldInv

\* What is written to the file is what is finished, or unreadable.
LEMMA Written ==
    ASSUME WorldInv,
           NEW id \in {Absent, Malformed} \union DOMAIN extensions,
           NEW sender \in {Absent, Malformed} \union DOMAIN senders,
           WellFormed(id) => Finished(id),
           WellFormed(sender) => WellFormed(id) /\ extensions[id].sender = sender,
           config' = ConfigFile(id, sender),
           UNCHANGED <<rejectsDuplicates, extensions, senders, nodes, passed>>
    PROVE  WorldInv'
<1>1. config'.id = id /\ config'.sender = sender
      BY DEF ConfigFile
<1>2. id \in Malformed..MaxExtensions /\ sender \in Malformed..MaxSenders
      BY SetupBoundsAreNat DEF WorldInv, WorldTypes, Absent, Malformed
<1>3. WorldTypes'
      BY <1>2 DEF WorldInv, WorldTypes, ConfigFile
<1>4. FileIsFinished'
      BY <1>1 DEF FileIsFinished, WellFormed, Finished
<1>5. /\ ExtensionsHaveSenders' /\ BoundToTheFirst' /\ NodesAreOfFinished'
      /\ MachinesAreNodes' /\ PassedAreWired'
      BY DEF WorldInv, ExtensionsHaveSenders, BoundToTheFirst, Owners, Finished,
             NodesAreOfFinished, MachinesAreNodes, PassedAreWired
<1> QED BY <1>3, <1>4, <1>5 DEF WorldInv

\* A node that starts is one of the file's extension.
LEMMA Started ==
    ASSUME WorldInv, NEW env \in Environments, NEW code \in Codes,
           StartNode(Variables(env), code)
    PROVE  WorldInv' /\ Len(nodes') = Len(nodes) + 1 /\ nodes' # <<>>
<1> DEFINE n == [extension |-> config.id, code |-> code, env |-> Variables(env)]
<1>1. /\ WellFormed(config.id) /\ Len(nodes) < MaxNodes /\ nodes' = Append(nodes, n)
      /\ UNCHANGED <<rejectsDuplicates, extensions, senders, config, passed>>
      BY DEF StartNode
<1>2. config.id \in DOMAIN extensions /\ Finished(config.id) /\ config.id \in 1..MaxExtensions
      BY <1>1, SetupBoundsAreNat DEF WorldInv, WorldTypes, FileIsFinished
<1>3. n \in Nodes /\ n.extension = config.id
      BY <1>2 DEF Nodes
<1> HIDE DEF n
<1>4. /\ nodes' \in Seq(Nodes) /\ Len(nodes') = Len(nodes) + 1 /\ Len(nodes) \in Nat
      /\ DOMAIN nodes' = 1..(Len(nodes) + 1) /\ DOMAIN nodes = 1..Len(nodes)
      /\ nodes'[Len(nodes) + 1] = n
      /\ \A m \in DOMAIN nodes : nodes'[m] = nodes[m]
      BY <1>1, <1>3 DEF WorldInv, WorldTypes
<1>5. WorldTypes'
      BY <1>1, <1>4, SetupBoundsAreNat DEF WorldInv, WorldTypes
<1>6. ExtensionsHaveSenders' /\ BoundToTheFirst' /\ FileIsFinished'
      BY <1>1 DEF WorldInv, ExtensionsHaveSenders, BoundToTheFirst, Owners, FileIsFinished,
                  Finished
<1>7. NodesAreOfFinished'
      BY <1>1, <1>2, <1>3, <1>4 DEF WorldInv, NodesAreOfFinished, Finished
<1>8. MachinesAreNodes' /\ PassedAreWired'
      BY <1>1, <1>4 DEF WorldInv, MachinesAreNodes, PassedAreWired
<1> QED BY <1>4, <1>5, <1>6, <1>7, <1>8 DEF WorldInv

\* A sender is bound once, to its first extension.
LEMMA Bound ==
    ASSUME WorldInv, NEW s \in DOMAIN senders, senders[s] = 0, Owners(s) # {},
           senders' = [senders EXCEPT ![s] = Least(Owners(s))],
           UNCHANGED <<rejectsDuplicates, extensions, config, nodes, passed>>
    PROVE  WorldInv' /\ DOMAIN senders' = DOMAIN senders /\ senders'[s] # 0
<1> DEFINE first == Least(Owners(s))
<1>1. Owners(s) \subseteq 1..Len(extensions) /\ Len(extensions) \in Nat
      BY DEF WorldInv, WorldTypes, Owners
<1>2. Owners(s) \in SUBSET Nat
      BY <1>1
<1>3. first \in Owners(s) /\ \A j \in Owners(s) : first <= j
      BY <1>2, LeastExists
<1> HIDE DEF first
<1>4. first \in 1..MaxExtensions
      BY <1>1, <1>3, SetupBoundsAreNat DEF WorldInv, WorldTypes
<1>5. /\ senders' \in Seq(0..MaxExtensions) /\ Len(senders') = Len(senders)
      /\ DOMAIN senders' = DOMAIN senders /\ senders'[s] = first
      /\ \A r \in DOMAIN senders : r # s => senders'[r] = senders[r]
      BY <1>4 DEF WorldInv, WorldTypes, first
<1>6. \A r : Owners(r)' = Owners(r)
      BY DEF Owners
<1>7. WorldTypes'
      BY <1>5 DEF WorldInv, WorldTypes
<1>8. ExtensionsHaveSenders' /\ BoundToTheFirst'
      BY <1>3, <1>5, <1>6 DEF WorldInv, ExtensionsHaveSenders, BoundToTheFirst
<1>9. PassedAreWired'
      BY <1>5 DEF WorldInv, PassedAreWired
<1>10. FileIsFinished' /\ NodesAreOfFinished' /\ MachinesAreNodes'
      BY DEF WorldInv, FileIsFinished, Finished, NodesAreOfFinished, MachinesAreNodes
<1> QED BY <1>4, <1>5, <1>7, <1>8, <1>9, <1>10 DEF WorldInv

-----------------------------------------------------------------------------
(* Scripts: how one begins, goes on and ends                               *)

\* A script that ends, however it ends, leaves nothing to be true of.
LEMMA Stops ==
    ASSUME WorldInv', cmd' = NoScript, deaths' \in 0..MaxDeaths
    PROVE  SetupInv'
<1>1. NoScript \in Scripts
      BY SetupBoundsAreNat DEF NoScript, Scripts, Ended, Malformed
<1>2. /\ cmd'.script = "none" /\ cmd'.at = "done" /\ cmd'.nodes = 0
      BY DEF NoScript
<1>3. Len(nodes') \in Nat
      BY DEF WorldInv, WorldTypes
<1> QED BY <1>1, <1>2, <1>3 DEF SetupInv, ScriptInv, ScriptIsKnown, StepsOf, RoomIsLeft,
           SetUpSoFar, PostSoFar, TestSoFar, ScriptsFailForAReason

\* So when a step may end in the script's death, what matters is where the
\* script is otherwise.
LEMMA GoesOn ==
    ASSUME SetupInv, NEW next, Then(next), WorldInv',
           cmd' = next /\ UNCHANGED deaths => ScriptInv'
    PROVE  SetupInv'
<1>1. CASE cmd' = next /\ UNCHANGED deaths
      BY <1>1 DEF SetupInv
<1>2. CASE Kill
  <2>1. cmd' = NoScript /\ deaths' \in 0..MaxDeaths
        BY <1>2, SetupBoundsAreNat DEF Kill, SetupInv, ScriptInv, ScriptIsKnown
  <2> QED BY <2>1, Stops
<1> QED BY <1>1, <1>2 DEF Then

\* A script that gives up leaves its reason.
LEMMA GivesUp ==
    ASSUME SetupInv, cmd.script # "none", Refuse, UNCHANGED worldVars, ScriptsFailForAReason'
    PROVE  SetupInv'
<1>1. /\ cmd \in Scripts /\ cmd' = [cmd EXCEPT !.at = "failed"] /\ deaths' = deaths
      BY DEF Refuse, SetupInv, ScriptInv, ScriptIsKnown
<1>2. /\ cmd' \in Scripts /\ cmd'.at = "failed" /\ cmd'.script = cmd.script
      /\ cmd'.env = cmd.env /\ cmd'.nodes = cmd.nodes /\ cmd'.sender = cmd.sender
      BY <1>1 DEF Scripts, Ended
<1>3. WorldInv'
      BY WorldFrame DEF SetupInv
<1>4. ScriptIsKnown'
  <2>1. "failed" \in StepsOf(cmd.script)
        BY <1>1 DEF Scripts, StepsOf
  <2> QED BY <1>1, <1>2, <2>1 DEF ScriptIsKnown, SetupInv, ScriptInv, worldVars
<1>5. RoomIsLeft' /\ SetUpSoFar'
      BY <1>2 DEF RoomIsLeft, SetUpSoFar
<1>6. PostSoFar' /\ TestSoFar'
      BY <1>2 DEF SetupInv, ScriptInv, PostSoFar, TestSoFar, Owners, worldVars
<1> QED BY <1>3, <1>4, <1>5, <1>6 DEF SetupInv, ScriptInv


\* Where a script is says which one it is.
LEMMA StepsTellScripts ==
    ASSUME ScriptIsKnown
    PROVE  /\ cmd.at \in {"preflight", "deploy"} => cmd.script = "pre"
           /\ cmd.at \in {"register", "machineOwner", "projectOwner", "keyType", "config"} =>
                 cmd.script \in {"pre", "register"}
           /\ cmd.at \in {"version", "governance", "machine"} => cmd.script = "post"
           /\ cmd.at \in {"bind", "hello", "helloResult", "goodbye", "goodbyeResult"} =>
                 cmd.script = "test"
           /\ cmd.script \in {"pre", "register", "post"} =>
                 cmd.env \in Environments /\ Key \in Keys
<1>1. cmd.script \in {"pre", "register", "post", "test", "none"} /\ cmd.at \in StepsOf(cmd.script)
      BY DEF ScriptIsKnown, Scripts
<1>2. cmd.script \in {"pre", "register", "post"} => cmd.env \in Environments /\ Key \in Keys
      BY KeysOfEnvironments DEF ScriptIsKnown, Key
<1> QED BY <1>1, <1>2 DEF StepsOf

\* A script begins with what it was called for, and nothing behind it.
LEMMA Begins ==
    ASSUME SetupInv, NEW script, NEW step, NEW env, NEW sender, Start(script, step, env, sender, 0),
           \/ /\ script = "pre" /\ step = "preflight" /\ env \in Environments /\ sender = 0
              /\ Len(senders) < MaxSenders /\ Len(extensions) < MaxExtensions
           \/ /\ script = "register" /\ step = "register" /\ env \in Environments
              /\ sender \in DOMAIN senders /\ Len(extensions) < MaxExtensions
           \/ /\ script = "post" /\ step = "version" /\ env \in Environments /\ sender = 0
              /\ nodes # <<>>
           \/ /\ script = "test" /\ step = "bind" /\ env = NoEnvironment /\ nodes # <<>>
              /\ \/ sender = Malformed
                 \/ sender \in DOMAIN senders /\ Owners(sender) # {}
    PROVE  SetupInv'
<1>1. /\ cmd'.script = script /\ cmd'.at = step /\ cmd'.env = env /\ cmd'.sender = sender
      /\ cmd'.nodes = Len(nodes) /\ UNCHANGED worldVars /\ UNCHANGED deaths
      BY DEF Start, worldVars
<1>2. sender \in Malformed..MaxSenders /\ Len(nodes) \in 0..MaxNodes
      BY SetupBoundsAreNat DEF SetupInv, WorldInv, WorldTypes, Malformed
<1>3. cmd' \in Scripts
      BY <1>2, SetupBoundsAreNat DEF Start, Scripts, Ended
<1>4. WorldInv'
      BY <1>1, WorldFrame DEF SetupInv
<1>5. ScriptIsKnown'
      BY <1>1, <1>2, <1>3 DEF ScriptIsKnown, StepsOf, SetupInv, ScriptInv, worldVars
<1>6. RoomIsLeft' /\ SetUpSoFar' /\ ScriptsFailForAReason'
      BY <1>1 DEF RoomIsLeft, SetUpSoFar, ScriptsFailForAReason, worldVars
<1>7. PostSoFar' /\ TestSoFar'
      BY <1>1 DEF PostSoFar, TestSoFar, Owners, worldVars
<1> QED BY <1>4, <1>5, <1>6, <1>7 DEF SetupInv, ScriptInv

\* The sender of the file, when it can be read, is one that was deployed.
LEMMA TestBegins ==
    ASSUME SetupInv, StartTest
    PROVE  SetupInv'
<1>1. CASE config.sender = Malformed
      BY <1>1, Begins DEF StartTest
<1>2. CASE config.sender # Malformed
  <2>1. WellFormed(config.sender)
        BY <1>2 DEF StartTest, WellFormed
  <2>2. config.id \in DOMAIN extensions /\ extensions[config.id].sender = config.sender
        BY <2>1 DEF SetupInv, WorldInv, FileIsFinished
  <2>3. config.sender \in DOMAIN senders /\ Owners(config.sender) # {}
        BY <2>2 DEF SetupInv, WorldInv, ExtensionsHaveSenders, Owners
  <2> QED BY <2>3, Begins DEF StartTest
<1> QED BY <1>1, <1>2

\* A node that starts under a script is not the one that the script began with.
LEMMA NodeStarts ==
    ASSUME SetupInv, NEW env \in Environments, NEW code \in Codes,
           StartNode(Variables(env), code)
    PROVE  SetupInv'
<1>1. WorldInv' /\ Len(nodes') = Len(nodes) + 1 /\ nodes' # <<>> /\ Len(nodes) \in Nat
      BY Started DEF SetupInv, WorldInv, WorldTypes
<1>2. UNCHANGED <<extensions, senders, cmd, deaths>>
      BY DEF StartNode
<1>3. /\ cmd.nodes \in 0..MaxNodes /\ cmd.nodes <= Len(nodes)
      /\ cmd' = cmd
      BY <1>2 DEF SetupInv, ScriptInv, ScriptIsKnown, Scripts
<1>4. cmd'.nodes # Len(nodes')
      BY <1>1, <1>3, SetupBoundsAreNat
<1>5. ScriptIsKnown'
      BY <1>1, <1>2, <1>3, SetupBoundsAreNat DEF SetupInv, ScriptInv, ScriptIsKnown
<1>6. RoomIsLeft' /\ SetUpSoFar'
      BY <1>2 DEF SetupInv, ScriptInv, RoomIsLeft, Owners, SetUpSoFar, Key
<1>7. PostSoFar' /\ TestSoFar' /\ ScriptsFailForAReason'
      BY <1>1, <1>2, <1>4 DEF SetupInv, ScriptInv, PostSoFar, TestSoFar, Owners,
         ScriptsFailForAReason
<1> QED BY <1>1, <1>5, <1>6, <1>7 DEF SetupInv, ScriptInv

\* A script dies anywhere.
LEMMA Dies ==
    ASSUME SetupInv, ScriptDies
    PROVE  SetupInv'
<1>1. UNCHANGED worldVars /\ cmd' = NoScript /\ deaths' \in 0..MaxDeaths
      BY SetupBoundsAreNat DEF ScriptDies, Kill, worldVars, SetupInv, ScriptInv, ScriptIsKnown
<1>2. WorldInv'
      BY <1>1, WorldFrame DEF SetupInv
<1> QED BY <1>1, <1>2, Stops

-----------------------------------------------------------------------------
(* pre-build.sh and register-extension                                     *)

\* A report is clean when its parts are, and a check that is not met shows.
LEMMA CleanUnion ==
    ASSUME NEW A, NEW B
    PROVE  Clean(A \union B) <=> Clean(A) /\ Clean(B)
BY DEF Clean, Has

LEMMA CleanCheck ==
    ASSUME NEW id, NEW ok, NEW otherwise \in {"WARN", "FAIL"}, Clean(Check(id, ok, otherwise))
    PROVE  ok
<1>1. CASE ~ok
  <2>1. Check(id, ok, otherwise) = {[id |-> id, status |-> otherwise]}
        BY <1>1 DEF Check, Result
  <2>2. [id |-> id, status |-> otherwise].status \in {"WARN", "FAIL", "SKIP"}
        OBVIOUS
  <2> QED BY <2>1, <2>2 DEF Clean, Has
<1> QED BY <1>1

LEMMA NotSkipped ==
    ASSUME NEW id, Clean(Result(id, "SKIP"))
    PROVE  FALSE
<1>1. [id |-> id, status |-> "SKIP"] \in Result(id, "SKIP")
      BY DEF Result
<1>2. [id |-> id, status |-> "SKIP"].status \in {"WARN", "FAIL", "SKIP"}
      OBVIOUS
<1> QED BY <1>1, <1>2 DEF Clean, Has

LEMMA NotFailed ==
    ASSUME NEW id, Clean(Result(id, "FAIL"))
    PROVE  FALSE
<1>1. [id |-> id, status |-> "FAIL"] \in Result(id, "FAIL")
      BY DEF Result
<1>2. [id |-> id, status |-> "FAIL"].status \in {"WARN", "FAIL", "SKIP"}
      OBVIOUS
<1> QED BY <1>1, <1>2 DEF Clean, Has

\* One step of verify-deploy is the checks of that step.
LEMMA OneStepIsVerified ==
    ASSUME NEW env, NEW key, NEW exts, NEW dark, NEW f
    PROVE  /\ VerifyDeploy("deploy", env, key, exts, dark, f) =
                  RegisterDeployChecks(env, f)
           /\ VerifyDeploy("register", env, key, exts, dark, f) =
                  RegisterRegistrationChecks(exts, dark, key, f)
<1>1. \A A : UNION {A, {}, {}, {}, {}, {}} = A /\ UNION {{}, A, {}, {}, {}, {}} = A
      OBVIOUS
<1> QED BY <1>1 DEF VerifyDeploy

\* The deploy step is clean only if the manager is there and the key is funded.
LEMMA DeployStepIsClean ==
    ASSUME NEW env, NEW f, Clean(RegisterDeployChecks(env, f))
    PROVE  /\ AddressNotZero(env) /\ AddressHasCode(env) /\ KeyHasFunds(env)
           /\ f.kind # "nopath" =>
                 /\ f.kind # "missing"
                 /\ WellFormed(f.id) /\ WellFormed(f.sender)
<1>1. /\ Clean(Check("D3", AddressNotZero(env), "FAIL"))
      /\ Clean(IF AddressNotZero(env)
               THEN Check("D1", AddressHasCode(env), "FAIL") ELSE {})
      /\ Clean(Check("D5", KeyHasFunds(env), "FAIL"))
      /\ Clean(IF f.kind = "nopath" THEN {} ELSE CheckExtensionEnvFormat(f))
      BY CleanUnion DEF RegisterDeployChecks
<1>2. AddressNotZero(env) /\ KeyHasFunds(env)
      BY <1>1, CleanCheck
<1>3. AddressHasCode(env)
      BY <1>1, <1>2, CleanCheck
<1>4. ASSUME f.kind # "nopath"
      PROVE  f.kind # "missing" /\ WellFormed(f.id) /\ WellFormed(f.sender)
  <2>1. Clean(CheckExtensionEnvFormat(f))
        BY <1>1, <1>4
  <2>2. f.kind # "missing"
        BY <2>1, NotSkipped DEF CheckExtensionEnvFormat
  <2>3. /\ Clean(Check("D7", WellFormed(f.sender), "FAIL"))
        /\ Clean(Check("D7", WellFormed(f.id), "FAIL"))
        BY <2>1, <2>2, CleanUnion DEF CheckExtensionEnvFormat
  <2> QED BY <2>2, <2>3, CleanCheck
<1> QED BY <1>2, <1>3, <1>4

LEMMA PreflightKeeps ==
    ASSUME SetupInv, Preflight
    PROVE  SetupInv'
<1>1. /\ cmd.at = "preflight" /\ cmd.script = "pre" /\ cmd \in Scripts
      /\ UNCHANGED worldVars
      /\ Len(senders) < MaxSenders /\ Len(extensions) < MaxExtensions
      BY StepsTellScripts DEF SetupInv, ScriptInv, ScriptIsKnown, RoomIsLeft, Preflight, AtStep,
         worldVars
<1>2. WorldInv'
      BY <1>1, WorldFrame DEF SetupInv
<1>3. CASE AddressNotZero(cmd.env) /\ AddressHasCode(cmd.env) /\ KeyHasFunds(cmd.env)
  <2> DEFINE next == [cmd EXCEPT !.at = "deploy"]
  <2>1. Then(next)
        BY <1>3 DEF Preflight, Go
  <2>2. ASSUME cmd' = next, UNCHANGED deaths
        PROVE  ScriptInv'
    <3>1. /\ cmd' \in Scripts /\ cmd'.at = "deploy" /\ cmd'.script = "pre"
          /\ cmd'.env = cmd.env /\ cmd'.nodes = cmd.nodes
          BY <1>1, <2>2 DEF Scripts
    <3>2. ScriptIsKnown'
          BY <1>1, <2>2, <3>1 DEF SetupInv, ScriptInv, ScriptIsKnown, StepsOf, worldVars
    <3> QED BY <1>1, <3>1, <3>2 DEF ScriptInv, RoomIsLeft, SetUpSoFar, PostSoFar, TestSoFar,
               ScriptsFailForAReason, worldVars
  <2> QED BY <1>2, <2>1, <2>2, GoesOn
<1>4. CASE ~(AddressNotZero(cmd.env) /\ AddressHasCode(cmd.env) /\ KeyHasFunds(cmd.env))
  <2>1. Refuse
        BY <1>4 DEF Preflight
  <2>2. /\ cmd'.script = "pre" /\ cmd'.env = cmd.env
        BY <1>1, <2>1 DEF Refuse, Scripts
  <2>3. ~Clean(VerifyDeploy("deploy", cmd.env, Key, extensions, {}, NoPath)')
        BY <1>4, <2>2, OneStepIsVerified, DeployStepIsClean
  <2>4. ScriptsFailForAReason'
        BY <2>2, <2>3 DEF ScriptsFailForAReason
  <2> QED BY <1>1, <2>1, <2>4, GivesUp
<1> QED BY <1>3, <1>4

LEMMA DeployKeeps ==
    ASSUME SetupInv, DeployInstructionSender
    PROVE  SetupInv'
<1> DEFINE next == [cmd EXCEPT !.at = "register", !.sender = Len(senders) + 1]
<1>1. /\ cmd.script = "pre" /\ cmd \in Scripts /\ Len(senders) < MaxSenders
      /\ Len(extensions) < MaxExtensions /\ senders' = Append(senders, 0) /\ Then(next)
      /\ UNCHANGED <<rejectsDuplicates, extensions, config, nodes, passed>>
      BY StepsTellScripts DEF SetupInv, ScriptInv, ScriptIsKnown, RoomIsLeft,
         DeployInstructionSender, AtStep
<1>2. WorldInv' /\ \A i \in DOMAIN extensions' : extensions'[i].sender # Len(senders')
      BY <1>1, Deployed DEF SetupInv
<1>3. /\ Len(senders') = Len(senders) + 1 /\ Len(senders) \in Nat
      /\ Len(senders') \in DOMAIN senders'
      BY <1>1 DEF SetupInv, WorldInv, WorldTypes
<1>4. ASSUME cmd' = next, UNCHANGED deaths
      PROVE  ScriptInv'
  <2>1. Len(senders) + 1 \in Malformed..MaxSenders
        BY <1>1, <1>3, SetupBoundsAreNat DEF Malformed
  <2>2. /\ cmd' \in Scripts /\ cmd'.at = "register" /\ cmd'.script = "pre"
        /\ cmd'.env = cmd.env /\ cmd'.nodes = cmd.nodes /\ cmd'.sender = Len(senders')
        BY <1>1, <1>3, <1>4, <2>1 DEF Scripts
  <2>3. ScriptIsKnown'
        BY <1>1, <1>4, <2>2 DEF SetupInv, ScriptInv, ScriptIsKnown, StepsOf
  <2>4. RoomIsLeft'
        BY <1>1, <1>2, <1>3, <2>2 DEF RoomIsLeft, Owners
  <2> QED BY <2>2, <2>3, <2>4 DEF ScriptInv, SetUpSoFar, PostSoFar, TestSoFar,
             ScriptsFailForAReason
<1> QED BY <1>1, <1>2, <1>4, GoesOn

\* The numbers of a sender's extensions are finitely many.
LEMMA OwnersAreFinite ==
    ASSUME WorldInv, NEW s
    PROVE  /\ IsFiniteSet(Owners(s)) /\ Owners(s) \in SUBSET Nat
           /\ Owners(s) # {} => Cardinality(Owners(s)) >= 1
<1>1. Len(extensions) \in Nat /\ Owners(s) \subseteq 1..Len(extensions)
      BY DEF WorldInv, WorldTypes, Owners
<1>2. IsFiniteSet(Owners(s))
  <2>1. IsFiniteSet(1..Len(extensions))
        BY <1>1, FS_Interval
  <2>2. Owners(s) \in SUBSET (1..Len(extensions))
        BY <1>1
  <2> QED BY <2>1, <2>2, FS_Subset
<1>3. Cardinality(Owners(s)) \in Nat /\ (Owners(s) # {} => Cardinality(Owners(s)) # 0)
      BY <1>2, FS_CardinalityType, FS_EmptySet
<1> QED BY <1>1, <1>2, <1>3

LEMMA RegisterKeeps ==
    ASSUME SetupInv, RegisterExtension
    PROVE  SetupInv'
<1> DEFINE next == [cmd EXCEPT !.at = "machineOwner", !.extension = Len(extensions) + 1]
<1>1. /\ cmd.at = "register" /\ cmd.script \in {"pre", "register"} /\ cmd \in Scripts
      /\ Key \in Keys /\ cmd.sender \in DOMAIN senders /\ Len(extensions) < MaxExtensions
      /\ cmd.script = "pre" => Owners(cmd.sender) = {}
      /\ UNCHANGED <<rejectsDuplicates, senders, config, nodes, passed>>
      BY StepsTellScripts DEF SetupInv, ScriptInv, ScriptIsKnown, RoomIsLeft,
         RegisterExtension, AtStep
<1>2. CASE rejectsDuplicates /\ Owners(cmd.sender) # {}
  <2>1. Refuse /\ UNCHANGED worldVars /\ cmd.script = "register"
        BY <1>1, <1>2 DEF RegisterExtension, worldVars
  <2>2. cmd'.script = "register" /\ cmd'.sender = cmd.sender
        BY <1>1, <2>1 DEF Refuse, Scripts
  <2>3. Cardinality(Owners(cmd.sender)) >= 1
        BY <1>2, OwnersAreFinite DEF SetupInv
  <2>4. ScriptsFailForAReason'
        BY <2>1, <2>2, <2>3 DEF ScriptsFailForAReason, Owners, worldVars
  <2> QED BY <2>1, <2>4, GivesUp
<1>3. CASE ~(rejectsDuplicates /\ Owners(cmd.sender) # {})
  <2>1. Then(next) /\ extensions' = Append(extensions, NewExtension(cmd.sender, Key))
        BY <1>3 DEF RegisterExtension
  <2>2. WorldInv'
        BY <1>1, <2>1, Registered DEF SetupInv
  <2>3. ASSUME cmd' = next, UNCHANGED deaths
        PROVE  ScriptInv'
    <3>1. /\ Len(extensions) \in Nat /\ Len(extensions) + 1 \in DOMAIN extensions'
          /\ extensions'[Len(extensions) + 1] = NewExtension(cmd.sender, Key)
          /\ Len(extensions) + 1 \in 0..MaxExtensions
      <4>1. Len(extensions) \in Nat /\ extensions \in Seq(Extensions)
            BY DEF SetupInv, WorldInv, WorldTypes
      <4> QED BY <1>1, <2>1, <4>1, SetupBoundsAreNat
    <3>2. /\ cmd' \in Scripts /\ cmd'.at = "machineOwner" /\ cmd'.script = cmd.script
          /\ cmd'.env = cmd.env /\ cmd'.nodes = cmd.nodes /\ cmd'.sender = cmd.sender
          /\ cmd'.extension = Len(extensions) + 1
          BY <1>1, <2>3, <3>1 DEF Scripts
    <3>3. ScriptIsKnown'
          BY <1>1, <2>3, <3>2 DEF SetupInv, ScriptInv, ScriptIsKnown, StepsOf
    <3>4. SetUpSoFar'
          BY <3>1, <3>2 DEF SetUpSoFar, NewExtension, Key
    <3> QED BY <1>1, <3>2, <3>3, <3>4 DEF ScriptInv, RoomIsLeft, PostSoFar, TestSoFar,
               ScriptsFailForAReason
  <2> QED BY <2>1, <2>2, <2>3, GoesOn
<1> QED BY <1>2, <1>3

\* A step of SetupExtension leaves its effect, made by it or found.
LEMMA SetsUp ==
    ASSUME SetupInv, NEW step \in {"machineOwner", "projectOwner", "keyType"},
           NEW next \in {"projectOwner", "keyType", "config"}, NEW there \in BOOLEAN,
           NEW e \in Extensions, Ensure(step, there, e, next),
           e.sender = extensions[cmd.extension].sender,
           e.owner = extensions[cmd.extension].owner,
           e.machines = extensions[cmd.extension].machines,
           extensions[cmd.extension].machineOwners \subseteq e.machineOwners,
           extensions[cmd.extension].projectOwners \subseteq e.projectOwners,
           extensions[cmd.extension].evm => e.evm,
           LET f == IF there THEN extensions[cmd.extension] ELSE e IN
           /\ Key \in f.machineOwners
           /\ next \in {"keyType", "config"} => Key \in f.projectOwners
           /\ next = "config" => f.evm
    PROVE  SetupInv'
<1> DEFINE x == cmd.extension
           after == [cmd EXCEPT !.at = next]
           f == IF there THEN extensions[x] ELSE e
<1>1. /\ cmd \in Scripts /\ cmd.script \in {"pre", "register"} /\ x \in DOMAIN extensions
      /\ extensions[x].owner = Key /\ extensions[x].sender = cmd.sender
      /\ UNCHANGED <<rejectsDuplicates, senders, config, nodes, passed>>
      BY StepsTellScripts DEF SetupInv, ScriptInv, ScriptIsKnown, SetUpSoFar, Ensure, AtStep
<1>2. Then(after)
      BY DEF Ensure, Go
<1>3. /\ WorldInv' /\ DOMAIN extensions' = DOMAIN extensions /\ extensions'[x] = f
      /\ f.owner = Key /\ f.sender = cmd.sender
  <2>1. CASE there
        BY <1>1, <2>1, WorldFrame DEF SetupInv, Ensure, worldVars
  <2>2. CASE ~there
    <3>1. extensions' = [extensions EXCEPT ![x] = e]
          BY <2>2 DEF Ensure
    <3>2. \A m \in e.machines : m \in DOMAIN nodes /\ nodes[m].extension = x
          BY <1>1 DEF SetupInv, WorldInv, MachinesAreNodes
    <3>3. WorldInv'
          BY <1>1, <3>1, <3>2, Updated DEF SetupInv
    <3> QED BY <1>1, <2>2, <3>1, <3>3
  <2> QED BY <2>1, <2>2
<1>4. ASSUME cmd' = after, UNCHANGED deaths
      PROVE  ScriptInv'
  <2>1. /\ cmd' \in Scripts /\ cmd'.at = next /\ cmd'.script = cmd.script
        /\ cmd'.env = cmd.env /\ cmd'.nodes = cmd.nodes /\ cmd'.sender = cmd.sender
        /\ cmd'.extension = x
        BY <1>1, <1>4 DEF Scripts
  <2>2. ScriptIsKnown'
        BY <1>1, <1>4, <2>1 DEF SetupInv, ScriptInv, ScriptIsKnown, StepsOf
  <2>3. SetUpSoFar'
        BY <1>1, <1>3, <2>1 DEF SetUpSoFar, Key
  <2> QED BY <1>1, <2>1, <2>2, <2>3 DEF ScriptInv, RoomIsLeft, PostSoFar, TestSoFar,
             ScriptsFailForAReason
<1> QED BY <1>2, <1>3, <1>4, GoesOn

LEMMA SetupExtensionKeeps ==
    ASSUME SetupInv, AllowTeeMachineOwner \/ AllowTeeProjectOwner \/ AddSupportedKeyTypes
    PROVE  SetupInv'
<1> DEFINE e == extensions[cmd.extension]
<1>1. /\ cmd.at \in {"machineOwner", "projectOwner", "keyType"}
      /\ cmd.extension \in DOMAIN extensions /\ e \in Extensions /\ Key \in Keys
      /\ cmd.at \in {"projectOwner", "keyType"} => Key \in e.machineOwners
      /\ cmd.at = "keyType" => Key \in e.projectOwners
      BY StepsTellScripts DEF SetupInv, WorldInv, WorldTypes, ScriptInv, SetUpSoFar,
         AllowTeeMachineOwner, AllowTeeProjectOwner, AddSupportedKeyTypes, Ensure, AtStep
<1>2. CASE AllowTeeMachineOwner
  <2> DEFINE u == [e EXCEPT !.machineOwners = @ \union {Key}]
             there == Key \in e.machineOwners
  <2>1. Ensure("machineOwner", there, u, "projectOwner")
        BY <1>2 DEF AllowTeeMachineOwner
  <2>2. /\ u \in Extensions /\ u.sender = e.sender /\ u.owner = e.owner
        /\ u.machines = e.machines /\ e.machineOwners \subseteq u.machineOwners
        /\ u.projectOwners = e.projectOwners /\ u.evm = e.evm /\ Key \in u.machineOwners
        BY <1>1 DEF Extensions
  <2>3. there \in BOOLEAN /\ Key \in (IF there THEN e ELSE u).machineOwners
        BY <2>2
  <2> QED BY <2>1, <2>2, <2>3, SetsUp
<1>3. CASE AllowTeeProjectOwner
  <2> DEFINE u == [e EXCEPT !.projectOwners = @ \union {Key}]
             there == Key \in e.projectOwners
  <2>1. Ensure("projectOwner", there, u, "keyType") /\ cmd.at = "projectOwner"
        BY <1>3 DEF AllowTeeProjectOwner, Ensure, AtStep
  <2>2. /\ u \in Extensions /\ u.sender = e.sender /\ u.owner = e.owner
        /\ u.machines = e.machines /\ u.machineOwners = e.machineOwners
        /\ e.projectOwners \subseteq u.projectOwners /\ u.evm = e.evm
        /\ Key \in u.projectOwners
        BY <1>1 DEF Extensions
  <2>3. there \in BOOLEAN /\ Key \in (IF there THEN e ELSE u).machineOwners
        /\ Key \in (IF there THEN e ELSE u).projectOwners
        BY <1>1, <2>1, <2>2
  <2> QED BY <2>1, <2>2, <2>3, SetsUp
<1>4. CASE AddSupportedKeyTypes
  <2> DEFINE u == [e EXCEPT !.evm = TRUE]
             there == e.evm
  <2>1. Ensure("keyType", there, u, "config") /\ cmd.at = "keyType"
        BY <1>4 DEF AddSupportedKeyTypes, Ensure, AtStep
  <2>2. /\ u \in Extensions /\ u.sender = e.sender /\ u.owner = e.owner
        /\ u.machines = e.machines /\ u.machineOwners = e.machineOwners
        /\ u.projectOwners = e.projectOwners /\ u.evm
        BY <1>1 DEF Extensions
  <2>3. there \in BOOLEAN /\ Key \in (IF there THEN e ELSE u).machineOwners
        /\ Key \in (IF there THEN e ELSE u).projectOwners
        /\ (IF there THEN e ELSE u).evm
        BY <1>1, <2>1, <2>2 DEF Extensions
  <2> QED BY <2>1, <2>2, <2>3, SetsUp
<1> QED BY <1>2, <1>3, <1>4

\* What is left to do when SetupExtension is through is to write its id down.
LEMMA ConfigKeeps ==
    ASSUME SetupInv, LeaveConfig \/ WriteConfig
    PROVE  SetupInv'
<1>1. /\ cmd \in Scripts /\ cmd.at = "config" /\ deaths \in 0..MaxDeaths
      /\ UNCHANGED <<rejectsDuplicates, extensions, senders, nodes, passed>>
      BY DEF SetupInv, ScriptInv, ScriptIsKnown, LeaveConfig, WriteConfig, AtStep
<1>2. /\ cmd.extension \in DOMAIN extensions /\ Finished(cmd.extension)
      /\ extensions[cmd.extension].sender = cmd.sender
      /\ cmd.sender \in DOMAIN senders
      BY <1>1 DEF SetupInv, WorldInv, ExtensionsHaveSenders, ScriptInv, SetUpSoFar, Finished
<1>3. CASE LeaveConfig
  <2>1. UNCHANGED worldVars /\ cmd' = NoScript /\ UNCHANGED deaths
        BY <1>3 DEF LeaveConfig, worldVars
  <2> QED BY <1>1, <2>1, WorldFrame, Stops DEF SetupInv
<1>4. CASE WriteConfig
  <2>1. WorldInv'
    <3>1. CASE config' = ConfigFile(cmd.extension, cmd.sender)
      <4>1. WellFormed(cmd.extension)
        BY <1>2 DEF WellFormed, SetupInv, WorldInv, WorldTypes, Absent, Malformed
      <4> QED BY <1>1, <1>2, <3>1, <4>1, Written DEF SetupInv
    <3>2. CASE \E id \in {Absent, Malformed, cmd.extension}, sender \in {Absent, Malformed} :
                  config' = ConfigFile(id, sender)
      <4>1. PICK id \in {Absent, Malformed, cmd.extension}, sender \in {Absent, Malformed} :
                    config' = ConfigFile(id, sender)
            BY <3>2
      <4>2. ~WellFormed(sender) /\ (WellFormed(id) => id = cmd.extension)
            BY DEF WellFormed
      <4> QED BY <1>1, <1>2, <4>1, <4>2, Written DEF SetupInv
    <3> QED BY <1>4, <3>1, <3>2 DEF WriteConfig
  <2>2. cmd' = NoScript /\ deaths' \in 0..MaxDeaths
        BY <1>1, <1>4, SetupBoundsAreNat DEF WriteConfig, Go, Then, Kill
  <2> QED BY <2>1, <2>2, Stops
<1> QED BY <1>3, <1>4

-----------------------------------------------------------------------------
(* post-build.sh                                                           *)

\* A script of post-build.sh talks to a node of an extension that is set up,
\* under the environment that it read.
LEMMA PostBuildHas ==
    ASSUME SetupInv, cmd.at \in {"version", "governance", "machine"}
    PROVE  /\ cmd \in Scripts /\ cmd.script = "post" /\ cmd.env \in Environments
           /\ Key \in Keys /\ nodes # <<>> /\ Len(nodes) \in DOMAIN nodes
           /\ Node \in Nodes /\ Target \in DOMAIN extensions /\ Finished(Target)
           /\ extensions[Target] \in Extensions
<1>1. /\ cmd \in Scripts /\ cmd.script = "post" /\ cmd.env \in Environments /\ Key \in Keys
      /\ nodes # <<>>
      BY StepsTellScripts DEF SetupInv, ScriptInv, ScriptIsKnown, PostSoFar
<1>2. nodes \in Seq(Nodes) /\ extensions \in Seq(Extensions)
      BY DEF SetupInv, WorldInv, WorldTypes
<1>3. Len(nodes) \in DOMAIN nodes /\ Node \in Nodes
      BY <1>1, <1>2 DEF Node
<1>4. Target \in DOMAIN extensions /\ Finished(Target)
      BY <1>3 DEF SetupInv, WorldInv, NodesAreOfFinished, Node, Target
<1> QED BY <1>1, <1>2, <1>3, <1>4

\* What post-build.sh may change of an extension leaves the world in order.
LEMMA PostBuildUpdates ==
    ASSUME SetupInv, cmd.at \in {"version", "governance", "machine"},
           NEW e \in Extensions, e.sender = extensions[Target].sender,
           e.owner = extensions[Target].owner,
           e.machineOwners = extensions[Target].machineOwners,
           e.projectOwners = extensions[Target].projectOwners,
           e.evm = extensions[Target].evm,
           e.machines \subseteq extensions[Target].machines \union {Len(nodes)},
           extensions' = [extensions EXCEPT ![Target] = e],
           UNCHANGED <<rejectsDuplicates, senders, config, nodes, passed>>
    PROVE  WorldInv' /\ extensions'[Target] = e
<1>1. Target \in DOMAIN extensions /\ Len(nodes) \in DOMAIN nodes
      BY PostBuildHas
<1>2. \A m \in e.machines : m \in DOMAIN nodes /\ nodes[m].extension = Target
      BY <1>1 DEF SetupInv, WorldInv, MachinesAreNodes, Target, Node
<1> HIDE DEF Target
<1>3. WorldInv'
      BY <1>1, <1>2, Updated DEF SetupInv
<1> QED BY <1>1, <1>3

\* A script of post-build.sh that goes on to its next step.
LEMMA PostGoesOn ==
    ASSUME SetupInv, cmd.at \in {"version", "governance", "machine"},
           NEW next \in {"governance", "machine"}, Go(next), WorldInv', UNCHANGED nodes,
           cmd.nodes = Len(nodes) =>
              /\ \/ Supports(extensions'[Target], Node.code)
                 \/ \E v \in extensions'[Target].versions :
                       v.name = cmd.env.version /\ v.code # Node.code
              /\ next = "machine" =>
                    extensions'[Target].governance = DesiredGovernance(cmd.env)
    PROVE  SetupInv'
<1> DEFINE after == [cmd EXCEPT !.at = next]
<1>1. /\ cmd \in Scripts /\ cmd.script = "post" /\ cmd.env \in Environments /\ nodes # <<>>
      BY PostBuildHas
<1>2. Then(after)
      BY DEF Go
<1>3. ASSUME cmd' = after, UNCHANGED deaths
      PROVE  ScriptInv'
  <2>1. /\ cmd' \in Scripts /\ cmd'.at = next /\ cmd'.script = "post"
        /\ cmd'.env = cmd.env /\ cmd'.nodes = cmd.nodes
        BY <1>1, <1>3 DEF Scripts
  <2>2. ScriptIsKnown'
        BY <1>1, <1>3, <2>1 DEF SetupInv, ScriptInv, ScriptIsKnown, StepsOf
  <2>3. PostSoFar'
        BY <1>1, <2>1 DEF PostSoFar, Target, Node, Supports
  <2> QED BY <2>1, <2>2, <2>3 DEF ScriptInv, RoomIsLeft, SetUpSoFar, TestSoFar,
             ScriptsFailForAReason
<1> QED BY <1>2, <1>3, GoesOn

\* A script of post-build.sh that gives up.
LEMMA PostGivesUp ==
    ASSUME SetupInv, cmd.at \in {"version", "governance", "machine"}, Refuse,
           UNCHANGED worldVars,
           cmd.nodes = Len(nodes) =>
              LET e == extensions[Target] IN
              \/ ExtensionOwner(cmd.env) # e.owner
              \/ Key # e.owner
              \/ Variables(cmd.env) # Node.env
              \/ cmd.env.threshold > 1 /\ cmd.env.threshold > Cardinality(cmd.env.signers)
              \/ /\ cmd.env.signers = {} /\ cmd.env.initialOwner = Unset
                 /\ e.owner # DevKey
              \/ /\ ~Supports(e, Node.code)
                 /\ \E v \in e.versions : v.name = cmd.env.version
    PROVE  SetupInv'
<1>1. cmd \in Scripts /\ cmd.script = "post"
      BY PostBuildHas
<1>2. cmd'.script = "post" /\ cmd'.env = cmd.env /\ cmd'.nodes = cmd.nodes
      BY <1>1 DEF Refuse, Scripts
<1>3. ScriptsFailForAReason'
      BY <1>2 DEF ScriptsFailForAReason, worldVars, Node, Target, Key, Supports
<1> QED BY <1>1, <1>3, GivesUp

\* After AllowTeeVersion the node's code is supported, or its name is taken.
LEMMA VersionKeeps ==
    ASSUME SetupInv, AllowTeeVersion
    PROVE  SetupInv'
<1> DEFINE e == extensions[Target]
           owner == ExtensionOwner(cmd.env) = e.owner
           taken == \E v \in e.versions : v.name = cmd.env.version
           added == [name |-> cmd.env.version, code |-> Node.code]
<1>1. /\ cmd.at = "version" /\ UNCHANGED <<rejectsDuplicates, senders, config, nodes, passed>>
      BY DEF AllowTeeVersion, AtStep
<1>2. /\ cmd.env \in Environments /\ Node \in Nodes /\ Target \in DOMAIN extensions
      /\ e \in Extensions
      BY <1>1, PostBuildHas
<1>3. CASE /\ Supports(e, Node.code) \/ (owner /\ taken)
           /\ Go("governance") /\ UNCHANGED extensions
  <2>1. WorldInv'
        BY <1>1, <1>3, WorldFrame DEF SetupInv, worldVars
  <2>2. \/ Supports(e, Node.code)
        \/ \E v \in e.versions : v.name = cmd.env.version /\ v.code # Node.code
        BY <1>3 DEF Supports
  <2> QED BY <1>1, <1>3, <2>1, <2>2, PostGoesOn
<1>4. CASE /\ ~Supports(e, Node.code) /\ owner /\ ~taken
           /\ extensions' = [extensions EXCEPT ![Target].versions = @ \union {added}]
           /\ Go("governance")
  <2> DEFINE u == [e EXCEPT !.versions = @ \union {added}]
  <2>1. added \in [name : Names, code : Codes]
        BY <1>2 DEF Nodes, Names
  <2>2. /\ u \in Extensions /\ u.sender = e.sender /\ u.owner = e.owner
        /\ u.machineOwners = e.machineOwners /\ u.projectOwners = e.projectOwners
        /\ u.evm = e.evm /\ u.machines = e.machines /\ added \in u.versions
        BY <1>2, <2>1 DEF Extensions
  <2>3. extensions' = [extensions EXCEPT ![Target] = u]
        BY <1>4
  <2> HIDE DEF u
  <2>4. WorldInv' /\ extensions'[Target] = u
        BY <1>1, <2>2, <2>3, PostBuildUpdates
  <2>5. Supports(u, Node.code)
        BY <2>2 DEF Supports
  <2> QED BY <1>1, <1>4, <2>4, <2>5, PostGoesOn
<1>5. CASE /\ ~Supports(e, Node.code) /\ ~owner
           /\ Refuse /\ UNCHANGED extensions
      BY <1>1, <1>5, PostGivesUp DEF worldVars
<1> QED BY <1>3, <1>4, <1>5 DEF AllowTeeVersion

\* After SetTeeGovernance the governance is what the environment asks for.
LEMMA GovernanceKeeps ==
    ASSUME SetupInv, SetTeeGovernance
    PROVE  SetupInv'
<1> DEFINE e == extensions[Target]
           desired == DesiredGovernance(cmd.env)
           possible == desired.threshold <= Cardinality(desired.signers)
           owner == ExtensionOwner(cmd.env) = e.owner
<1>1. /\ cmd.at = "governance" /\ UNCHANGED <<rejectsDuplicates, senders, config, nodes, passed>>
      BY DEF SetTeeGovernance, AtStep
<1>2. /\ cmd.env \in Environments /\ Target \in DOMAIN extensions /\ e \in Extensions
      BY <1>1, PostBuildHas
<1>3. cmd.nodes = Len(nodes) =>
         \/ Supports(e, Node.code)
         \/ \E v \in e.versions : v.name = cmd.env.version /\ v.code # Node.code
      BY <1>1, PostBuildHas DEF SetupInv, ScriptInv, PostSoFar, Target
<1>4. CASE /\ possible /\ e.governance = desired
           /\ Go("machine") /\ UNCHANGED extensions
  <2>1. WorldInv'
        BY <1>1, <1>4, WorldFrame DEF SetupInv, worldVars
  <2> QED BY <1>1, <1>3, <1>4, <2>1, PostGoesOn
<1>5. CASE /\ possible /\ e.governance # desired /\ owner
           /\ extensions' = [extensions EXCEPT ![Target].governance = desired]
           /\ Go("machine")
  <2> DEFINE u == [e EXCEPT !.governance = desired]
  <2>1. desired \in [signers : SUBSET Keys, threshold : Nat]
        BY <1>2, GovernanceIsTyped
  <2> HIDE DEF desired
  <2>2. /\ u \in Extensions /\ u.sender = e.sender /\ u.owner = e.owner
        /\ u.machineOwners = e.machineOwners /\ u.projectOwners = e.projectOwners
        /\ u.evm = e.evm /\ u.machines = e.machines /\ u.versions = e.versions
        /\ u.governance = desired
        BY <1>2, <2>1 DEF Extensions
  <2>3. extensions' = [extensions EXCEPT ![Target] = u]
        BY <1>5
  <2> HIDE DEF u
  <2>4. WorldInv' /\ extensions'[Target] = u
        BY <1>1, <2>2, <2>3, PostBuildUpdates
  <2>5. Supports(e, Node.code) => Supports(u, Node.code)
        BY <2>2 DEF Supports
  <2> QED BY <1>1, <1>3, <1>5, <2>2, <2>4, <2>5, PostGoesOn DEF desired
<1>6. CASE /\ ~possible \/ (e.governance # desired /\ ~owner)
           /\ Refuse /\ UNCHANGED extensions
  <2>1. ~possible =>
           cmd.env.threshold > 1 /\ cmd.env.threshold > Cardinality(cmd.env.signers)
        BY <1>2, TooManySignatures
  <2> QED BY <1>1, <1>6, <2>1, PostGivesUp DEF worldVars
<1> QED BY <1>4, <1>5, <1>6 DEF SetTeeGovernance

\* The machine is registered; when it is not, the reason is one of the operator's.
LEMMA MachineKeeps ==
    ASSUME SetupInv, RegisterTee
    PROVE  SetupInv'
<1> DEFINE e == extensions[Target]
           known == Len(nodes) \in e.machines
           acceptable == /\ Supports(e, Node.code)
                         /\ e.governance = NodeGovernance(Node.env)
                         /\ Key \in e.machineOwners
<1>1. /\ cmd.at = "machine" /\ deaths \in 0..MaxDeaths
      /\ UNCHANGED <<rejectsDuplicates, senders, config, nodes, passed>>
      BY DEF SetupInv, ScriptInv, ScriptIsKnown, RegisterTee, AtStep
<1>2. /\ cmd.env \in Environments /\ Target \in DOMAIN extensions /\ e \in Extensions
      /\ Len(nodes) \in DOMAIN nodes /\ Node \in Nodes /\ Finished(Target)
      BY <1>1, PostBuildHas
<1>3. CASE /\ known \/ acceptable
           /\ extensions' = [extensions EXCEPT ![Target].machines = @ \union {Len(nodes)}]
           /\ Go("done")
  <2> DEFINE u == [e EXCEPT !.machines = @ \union {Len(nodes)}]
  <2>1. Len(nodes) \in 1..MaxNodes
        BY <1>2, SetupBoundsAreNat DEF SetupInv, WorldInv, WorldTypes
  <2>2. /\ u \in Extensions /\ u.sender = e.sender /\ u.owner = e.owner
        /\ u.machineOwners = e.machineOwners /\ u.projectOwners = e.projectOwners
        /\ u.evm = e.evm /\ u.machines = e.machines \union {Len(nodes)}
        BY <1>2, <2>1 DEF Extensions
  <2>3. extensions' = [extensions EXCEPT ![Target] = u]
        BY <1>3
  <2> HIDE DEF u
  <2>4. WorldInv'
        BY <1>1, <2>2, <2>3, PostBuildUpdates
  <2>5. cmd' = NoScript /\ deaths' \in 0..MaxDeaths
        BY <1>1, <1>3, SetupBoundsAreNat DEF Go, Then, Kill
  <2> QED BY <2>4, <2>5, Stops
<1>4. CASE /\ ~acceptable
           /\ Refuse /\ UNCHANGED extensions
  <2> DEFINE reason == \/ Key # e.owner
                       \/ Variables(cmd.env) # Node.env
                       \/ ExtensionOwner(cmd.env) # e.owner
                       \/ /\ cmd.env.signers = {} /\ cmd.env.initialOwner = Unset
                          /\ e.owner # DevKey
                       \/ /\ ~Supports(e, Node.code)
                          /\ \E v \in e.versions : v.name = cmd.env.version
  <2>1. ASSUME cmd.nodes = Len(nodes)
        PROVE  reason
    <3>1. /\ \/ Supports(e, Node.code)
             \/ \E v \in e.versions : v.name = cmd.env.version /\ v.code # Node.code
          /\ e.governance = DesiredGovernance(cmd.env)
          BY <1>1, <2>1, PostBuildHas DEF SetupInv, ScriptInv, PostSoFar, Target
    <3>2. CASE ~Supports(e, Node.code)
          BY <3>1, <3>2
    <3>3. CASE Key \notin e.machineOwners
          BY <1>2, <3>3 DEF Finished
    <3>4. CASE e.governance # NodeGovernance(Node.env)
      <4>1. SUFFICES ASSUME Variables(cmd.env) = Node.env, ExtensionOwner(cmd.env) = e.owner
                     PROVE  /\ cmd.env.signers = {} /\ cmd.env.initialOwner = Unset
                            /\ e.owner # DevKey
            OBVIOUS
      <4>2. /\ Node.env.signers = cmd.env.signers /\ Node.env.threshold = cmd.env.threshold
            /\ Node.env.initialOwner = cmd.env.initialOwner
            BY <4>1 DEF Variables
      <4>3. DesiredGovernance(cmd.env) # NodeGovernance(Node.env)
            BY <3>1, <3>4
      <4> QED BY <4>1, <4>2, <4>3 DEF DesiredGovernance, NodeGovernance, GovernanceOf
    <3> QED BY <1>4, <3>2, <3>3, <3>4
  <2> QED BY <1>1, <1>4, <2>1, PostGivesUp DEF worldVars
<1> QED BY <1>3, <1>4 DEF RegisterTee

-----------------------------------------------------------------------------
(* test.sh                                                                 *)

\* A test's next step, when the world is in order and the sender is bound.
LEMMA TestGoesOn ==
    ASSUME SetupInv, cmd.script = "test", cmd.at \in StepsOf("test"),
           NEW next \in {"hello", "helloResult", "goodbye", "goodbyeResult"},
           NEW machine \in 0..MaxNodes, NEW answered \in BOOLEAN,
           Then([cmd EXCEPT !.at = next, !.machine = machine, !.answered = answered]),
           WorldInv', UNCHANGED <<extensions, nodes>>,
           cmd.sender \in DOMAIN senders', senders'[cmd.sender] # 0,
           next \in {"helloResult", "goodbyeResult"} =>
              /\ machine \in extensions[senders'[cmd.sender]].machines
              /\ cmd.nodes = Len(nodes) => (answered <=> machine = Len(nodes))
    PROVE  SetupInv'
<1> DEFINE after == [cmd EXCEPT !.at = next, !.machine = machine, !.answered = answered]
<1>1. cmd \in Scripts
      BY DEF SetupInv, ScriptInv, ScriptIsKnown
<1>2. ASSUME cmd' = after, UNCHANGED deaths
      PROVE  ScriptInv'
  <2>1. /\ cmd' \in Scripts /\ cmd'.at = next /\ cmd'.script = "test"
        /\ cmd'.env = cmd.env /\ cmd'.nodes = cmd.nodes /\ cmd'.sender = cmd.sender
        /\ cmd'.machine = machine /\ cmd'.answered = answered
        BY <1>1, <1>2 DEF Scripts
  <2>2. ScriptIsKnown'
        BY <1>1, <1>2, <2>1 DEF SetupInv, ScriptInv, ScriptIsKnown, StepsOf
  <2>3. TestSoFar'
        BY <1>1, <2>1 DEF SetupInv, ScriptInv, TestSoFar, Owners
  <2> QED BY <2>1, <2>2, <2>3 DEF ScriptInv, RoomIsLeft, SetUpSoFar, PostSoFar,
             ScriptsFailForAReason
<1> QED BY <1>2, GoesOn

\* A test that gives up.
LEMMA TestGivesUp ==
    ASSUME SetupInv, cmd.script = "test", Refuse, UNCHANGED worldVars,
           cmd.nodes = Len(nodes) =>
              \/ cmd.sender = Malformed
              \/ Node.extension # Least(Owners(cmd.sender))
              \/ extensions[Node.extension].machines # {Len(nodes)}
    PROVE  SetupInv'
<1>1. cmd \in Scripts
      BY DEF SetupInv, ScriptInv, ScriptIsKnown
<1>2. cmd'.script = "test" /\ cmd'.sender = cmd.sender /\ cmd'.nodes = cmd.nodes
      BY <1>1 DEF Refuse, Scripts
<1>3. ScriptsFailForAReason'
      BY <1>2 DEF ScriptsFailForAReason, worldVars, Node, Owners
<1> QED BY <1>1, <1>3, GivesUp

\* The node that runs is one of an extension that is there.
LEMMA NodeHasExtension ==
    ASSUME SetupInv, cmd.script = "test"
    PROVE  /\ nodes # <<>> /\ Node.extension \in DOMAIN extensions /\ Node.extension # 0
           /\ cmd.machine \in 0..MaxNodes /\ cmd.answered \in BOOLEAN
<1>1. nodes # <<>> /\ nodes \in Seq(Nodes) /\ extensions \in Seq(Extensions)
      BY DEF SetupInv, WorldInv, WorldTypes, ScriptInv, TestSoFar
<1>2. Node.extension \in DOMAIN extensions
      BY <1>1 DEF SetupInv, WorldInv, NodesAreOfFinished, Node
<1> QED BY <1>1, <1>2 DEF SetupInv, ScriptInv, ScriptIsKnown, Scripts

\* What a sender is bound to is the first extension registered for it.
LEMMA BoundIsFirst ==
    ASSUME SetupInv, cmd.sender \in DOMAIN senders, senders[cmd.sender] # 0
    PROVE  senders[cmd.sender] = Least(Owners(cmd.sender))
<1> DEFINE O == Owners(cmd.sender)
           first == Least(O)
<1>1. O \in SUBSET Nat
      BY OwnersAreFinite DEF SetupInv
<1>2. senders[cmd.sender] \in O /\ \A j \in O : senders[cmd.sender] <= j
      BY DEF SetupInv, WorldInv, BoundToTheFirst
<1>3. first \in O /\ \A j \in O : first <= j
      BY <1>1, <1>2, LeastExists
<1> HIDE DEF O, first
<1> DEFINE i == senders[cmd.sender]
<1>4. i \in O /\ \A j \in O : i <= j
      BY <1>2
<1> HIDE DEF i
<1>5. i = first
      BY <1>1, <1>3, <1>4
<1> QED BY <1>5 DEF O, first, i

LEMMA BindKeeps ==
    ASSUME SetupInv, SetExtensionId
    PROVE  SetupInv'
<1> DEFINE bound == cmd.sender # Malformed /\ senders[cmd.sender] # 0
           found == cmd.sender # Malformed /\ Owners(cmd.sender) # {}
           after == [cmd EXCEPT !.at = "hello", !.machine = cmd.machine,
                                !.answered = cmd.answered]
<1>1. /\ cmd.at = "bind" /\ cmd.script = "test" /\ cmd \in Scripts
      /\ cmd.at \in StepsOf("test")
      /\ UNCHANGED <<rejectsDuplicates, extensions, config, nodes, passed>>
      /\ \/ cmd.sender = Malformed
         \/ cmd.sender \in DOMAIN senders /\ Owners(cmd.sender) # {}
      BY StepsTellScripts DEF SetupInv, ScriptInv, ScriptIsKnown, TestSoFar, SetExtensionId,
         AtStep, StepsOf
<1>2. after = [cmd EXCEPT !.at = "hello"]
      BY <1>1 DEF Scripts
<1>3. CASE /\ bound
           /\ Go("hello") /\ UNCHANGED senders
  <2>1. WorldInv' /\ Then(after)
        BY <1>1, <1>2, <1>3, WorldFrame DEF SetupInv, worldVars, Go
  <2> QED BY <1>1, <1>3, <2>1, NodeHasExtension, TestGoesOn
<1>4. CASE /\ ~bound /\ found
           /\ senders' = [senders EXCEPT ![cmd.sender] = Least(Owners(cmd.sender))]
           /\ Go("hello")
  <2>1. cmd.sender \in DOMAIN senders /\ senders[cmd.sender] = 0 /\ Owners(cmd.sender) # {}
        BY <1>1, <1>4
  <2>2. /\ WorldInv' /\ DOMAIN senders' = DOMAIN senders /\ senders'[cmd.sender] # 0
        BY <1>1, <1>4, <2>1, Bound DEF SetupInv
  <2>3. Then(after)
        BY <1>2, <1>4 DEF Go
  <2> QED BY <1>1, <2>1, <2>2, <2>3, NodeHasExtension, TestGoesOn
<1>5. CASE /\ ~bound /\ ~found
           /\ Refuse /\ UNCHANGED senders
  <2>1. cmd.sender = Malformed
        BY <1>1, <1>5
  <2> QED BY <1>1, <1>5, <2>1, NodeHasExtension, TestGivesUp DEF worldVars
<1> QED BY <1>3, <1>4, <1>5 DEF SetExtensionId

LEMMA InstructionKeeps ==
    ASSUME SetupInv, SendSayHello \/ SendSayGoodbye
    PROVE  SetupInv'
<1>1. PICK next \in {"helloResult", "goodbyeResult"} :
         /\ cmd.at \in {"hello", "goodbye"}
         /\ LET machines == extensions[senders[cmd.sender]].machines IN
            IF machines = {} THEN Refuse
            ELSE \E machine \in machines :
                    Then([cmd EXCEPT !.at = next, !.machine = machine,
                                     !.answered = machine = Len(nodes)])
         /\ UNCHANGED worldVars
      BY DEF SendSayHello, SendSayGoodbye, SendInstruction, AtStep, worldVars
<1>2. /\ cmd.script = "test" /\ cmd \in Scripts /\ cmd.at \in StepsOf("test")
      /\ cmd.sender \in DOMAIN senders /\ senders[cmd.sender] # 0
      BY <1>1, StepsTellScripts DEF SetupInv, ScriptInv, ScriptIsKnown, TestSoFar, StepsOf
<1>3. WorldInv'
      BY <1>1, WorldFrame DEF SetupInv
<1> DEFINE machines == extensions[senders[cmd.sender]].machines
<1>4. senders[cmd.sender] \in DOMAIN extensions /\ machines \subseteq 1..MaxNodes
  <2>1. senders[cmd.sender] \in DOMAIN extensions
        BY <1>2 DEF SetupInv, WorldInv, BoundToTheFirst, Owners
  <2>2. extensions[senders[cmd.sender]] \in Extensions
        BY <2>1 DEF SetupInv, WorldInv, WorldTypes
  <2> QED BY <2>1, <2>2 DEF Extensions
<1>5. CASE machines = {}
  <2>1. Refuse
        BY <1>1, <1>5
  <2>2. Node.extension = Least(Owners(cmd.sender)) =>
           extensions[Node.extension].machines # {Len(nodes)}
        BY <1>2, <1>5, BoundIsFirst
  <2> QED BY <1>1, <1>2, <2>1, <2>2, TestGivesUp
<1>6. CASE machines # {}
  <2>1. PICK machine \in machines :
            Then([cmd EXCEPT !.at = next, !.machine = machine,
                             !.answered = machine = Len(nodes)])
        BY <1>1, <1>6
  <2>2. machine \in 0..MaxNodes
        BY <1>4
  <2>3. UNCHANGED <<extensions, nodes, senders>>
        BY <1>1 DEF worldVars
  <2> QED BY <1>2, <1>3, <2>1, <2>2, <2>3, TestGoesOn
<1> QED BY <1>5, <1>6

\* A test that waits for ever is where it was; its sender may be bound.
LEMMA WaitKeeps ==
    ASSUME SetupInv, WaitForever
    PROVE  SetupInv'
<1>1. /\ cmd.script = "test" /\ cmd \in Scripts
      /\ UNCHANGED <<rejectsDuplicates, extensions, config, nodes, passed>>
      /\ cmd' = [cmd EXCEPT !.at = "hung"] /\ deaths' \in 0..MaxDeaths
      BY StepsTellScripts, SetupBoundsAreNat
      DEF SetupInv, ScriptInv, ScriptIsKnown, WaitForever, AtStep
<1>2. WorldInv' /\ DOMAIN senders' = DOMAIN senders
  <2>1. CASE UNCHANGED senders
        BY <1>1, <2>1, WorldFrame DEF SetupInv, worldVars
  <2>2. CASE senders' # senders
    <3>1. /\ cmd.sender # Malformed /\ senders[cmd.sender] = 0 /\ Owners(cmd.sender) # {}
          /\ senders' = [senders EXCEPT ![cmd.sender] = Least(Owners(cmd.sender))]
          BY <2>2 DEF WaitForever
    <3>2. cmd.sender \in DOMAIN senders
          BY <1>1, <3>1 DEF SetupInv, ScriptInv, TestSoFar
    <3> QED BY <1>1, <3>1, <3>2, Bound DEF SetupInv
  <2> QED BY <2>1, <2>2
<1>3. /\ cmd' \in Scripts /\ cmd'.at = "hung" /\ cmd'.script = "test"
      /\ cmd'.nodes = cmd.nodes /\ cmd'.sender = cmd.sender
      BY <1>1 DEF Scripts
<1>4. ScriptIsKnown'
      BY <1>1, <1>3 DEF SetupInv, ScriptInv, ScriptIsKnown, StepsOf
<1>5. TestSoFar'
      BY <1>1, <1>2, <1>3 DEF SetupInv, ScriptInv, TestSoFar, Owners
<1> QED BY <1>2, <1>3, <1>4, <1>5 DEF SetupInv, ScriptInv, RoomIsLeft, SetUpSoFar, PostSoFar,
           ScriptsFailForAReason

\* A machine that did not answer is not the node's, if the node is the same.
LEMMA TimeoutKeeps ==
    ASSUME SetupInv, ResultTimeout
    PROVE  SetupInv'
<1>1. /\ cmd.at \in {"helloResult", "goodbyeResult"} /\ cmd.script = "test"
      /\ Refuse /\ UNCHANGED worldVars
      BY StepsTellScripts DEF SetupInv, ScriptInv, ResultTimeout, worldVars
<1>2. /\ cmd.machine \in extensions[senders[cmd.sender]].machines
      /\ cmd.nodes = Len(nodes) => cmd.machine # Len(nodes)
      /\ cmd.sender \in DOMAIN senders /\ senders[cmd.sender] # 0
      BY <1>1 DEF SetupInv, ScriptInv, TestSoFar, ResultTimeout
<1>3. cmd.nodes = Len(nodes) /\ Node.extension = Least(Owners(cmd.sender)) =>
         extensions[Node.extension].machines # {Len(nodes)}
      BY <1>2, BoundIsFirst
<1> QED BY <1>1, <1>3, TestGivesUp

LEMMA HelloIsVerified ==
    ASSUME SetupInv, VerifyHelloResult
    PROVE  SetupInv'
<1> DEFINE after == [cmd EXCEPT !.at = "goodbye", !.machine = cmd.machine,
                                !.answered = cmd.answered]
<1>1. /\ cmd.script = "test" /\ cmd \in Scripts /\ cmd.at \in StepsOf("test")
      /\ cmd.sender \in DOMAIN senders /\ senders[cmd.sender] # 0
      /\ UNCHANGED worldVars
      BY StepsTellScripts DEF SetupInv, ScriptInv, ScriptIsKnown, TestSoFar, StepsOf,
         VerifyHelloResult, AtStep, worldVars
<1>2. after = [cmd EXCEPT !.at = "goodbye"]
      BY <1>1 DEF Scripts
<1>3. WorldInv' /\ Then(after)
      BY <1>1, <1>2, WorldFrame DEF SetupInv, VerifyHelloResult, Go
<1>4. UNCHANGED <<extensions, nodes, senders>>
      BY <1>1 DEF worldVars
<1> QED BY <1>1, <1>3, <1>4, NodeHasExtension, TestGoesOn

\* A test that passes is of a machine of the extension that its sender is bound to.
LEMMA GoodbyeIsVerified ==
    ASSUME SetupInv, VerifyGoodbyeResult
    PROVE  SetupInv'
<1>1. /\ cmd.at = "goodbyeResult" /\ cmd.script = "test"
      /\ cmd' = NoScript /\ deaths' \in 0..MaxDeaths
      /\ passed' = {[sender |-> cmd.sender, machine |-> cmd.machine]}
      /\ UNCHANGED <<rejectsDuplicates, extensions, senders, config, nodes>>
      BY StepsTellScripts DEF SetupInv, ScriptInv, ScriptIsKnown, VerifyGoodbyeResult, AtStep
<1>2. /\ cmd.sender \in DOMAIN senders /\ senders[cmd.sender] # 0
      /\ cmd.machine \in extensions[senders[cmd.sender]].machines
      BY <1>1 DEF SetupInv, ScriptInv, TestSoFar
<1>3. senders[cmd.sender] \in DOMAIN extensions
      BY <1>2 DEF SetupInv, WorldInv, BoundToTheFirst, Owners
<1>4. cmd.machine \in DOMAIN nodes /\ nodes[cmd.machine].extension = senders[cmd.sender]
      BY <1>2, <1>3 DEF SetupInv, WorldInv, MachinesAreNodes
<1>5. PassedAreWired'
      BY <1>1, <1>2, <1>4 DEF PassedAreWired
<1>6. passed' \subseteq [sender : 1..MaxSenders, machine : 1..MaxNodes]
  <2>1. cmd.sender \in 1..MaxSenders /\ cmd.machine \in 1..MaxNodes
        BY <1>2, <1>4, SetupBoundsAreNat DEF SetupInv, WorldInv, WorldTypes
  <2> QED BY <1>1, <2>1
<1>7. WorldTypes'
      BY <1>1, <1>6 DEF SetupInv, WorldInv, WorldTypes
<1>8. /\ ExtensionsHaveSenders' /\ BoundToTheFirst' /\ FileIsFinished'
      /\ NodesAreOfFinished' /\ MachinesAreNodes'
      BY <1>1 DEF SetupInv, WorldInv, ExtensionsHaveSenders, BoundToTheFirst, Owners,
         FileIsFinished, Finished, NodesAreOfFinished, MachinesAreNodes
<1> QED BY <1>1, <1>5, <1>7, <1>8, Stops DEF WorldInv

-----------------------------------------------------------------------------
(* The invariant of the set-up                                             *)

LEMMA SetupInvInit == SetupInit => SetupInv
<1> SUFFICES ASSUME SetupInit PROVE SetupInv
    OBVIOUS
<1>1. /\ config.id = Absent /\ config.sender = Absent
      /\ config \in [kind : {"missing", "file"}, id : Malformed..MaxExtensions,
                     sender : Malformed..MaxSenders]
      BY SetupBoundsAreNat DEF SetupInit, NoFile, Absent, Malformed
<1>2. WorldInv
      BY <1>1, SetupBoundsAreNat DEF SetupInit, WorldInv, WorldTypes, ExtensionsHaveSenders,
         BoundToTheFirst, FileIsFinished, WellFormed, NodesAreOfFinished, MachinesAreNodes,
         PassedAreWired
<1>3. NoScript \in Scripts
      BY SetupBoundsAreNat DEF NoScript, Scripts, Ended, Malformed
<1>4. /\ cmd \in Scripts /\ cmd.script = "none" /\ cmd.at = "done" /\ cmd.nodes = 0
      BY <1>3 DEF SetupInit, NoScript
<1>5. ScriptIsKnown
      BY <1>4, SetupBoundsAreNat DEF SetupInit, ScriptIsKnown, StepsOf
<1> QED BY <1>2, <1>4, <1>5 DEF SetupInv, ScriptInv, RoomIsLeft, SetUpSoFar, PostSoFar,
           TestSoFar, ScriptsFailForAReason

LEMMA SetupInvStep == SetupInv /\ [SetupNext]_setupVars => SetupInv'
<1> SUFFICES ASSUME SetupInv, [SetupNext]_setupVars PROVE SetupInv'
    OBVIOUS
<1>1. CASE Step
      BY <1>1, PreflightKeeps, DeployKeeps, RegisterKeeps, SetupExtensionKeeps, ConfigKeeps,
         VersionKeeps, GovernanceKeeps, MachineKeeps, BindKeeps, InstructionKeeps, TimeoutKeeps,
         HelloIsVerified, GoodbyeIsVerified DEF Step
<1>2. ASSUME NEW env \in Environments,
             \/ StartPreBuild(env) \/ StartPostBuild(env)
             \/ \E sender \in DOMAIN senders : StartRegister(env, sender)
      PROVE  SetupInv'
  <2>1. CASE StartPreBuild(env)
        BY <2>1, Begins DEF StartPreBuild
  <2>2. CASE StartPostBuild(env)
        BY <2>2, Begins DEF StartPostBuild
  <2>3. ASSUME NEW sender \in DOMAIN senders, StartRegister(env, sender)
        PROVE  SetupInv'
        BY <2>3, Begins DEF StartRegister
  <2> QED BY <1>2, <2>1, <2>2, <2>3
<1>3. ASSUME NEW env \in Environments, NEW code \in Codes, StartNode(Variables(env), code)
      PROVE  SetupInv'
      BY <1>3, NodeStarts
<1>4. CASE StartTest
      BY <1>4, TestBegins
<1>5. CASE ScriptDies
      BY <1>5, Dies
<1>6. CASE WaitForever
      BY <1>6, WaitKeeps
<1>7. CASE UNCHANGED setupVars
  <2>1. UNCHANGED worldVars /\ UNCHANGED <<cmd, deaths>>
        BY <1>7 DEF setupVars, worldVars
  <2>2. WorldInv'
        BY <2>1, WorldFrame DEF SetupInv
  <2>3. ScriptIsKnown' /\ RoomIsLeft' /\ SetUpSoFar'
        BY <2>1 DEF worldVars, SetupInv, ScriptInv, ScriptIsKnown, RoomIsLeft, Owners,
           SetUpSoFar, Key
  <2>4. PostSoFar' /\ TestSoFar' /\ ScriptsFailForAReason'
        BY <2>1 DEF worldVars, SetupInv, ScriptInv, PostSoFar, Node, Supports, TestSoFar,
           ScriptsFailForAReason, Key, Owners
  <2> QED BY <2>2, <2>3, <2>4 DEF SetupInv, ScriptInv
<1> QED BY <1>1, <1>2, <1>3, <1>4, <1>5, <1>6, <1>7 DEF SetupNext

LEMMA AlwaysSetUp == SetupSpec => []SetupInv
BY SetupInvInit, SetupInvStep, PTL DEF SetupSpec

-----------------------------------------------------------------------------
(* What it is good for                                                     *)

\* Whatever scripts ran in whatever order, and wherever they died: what can be
\* read from extension.env is an extension whose set-up is finished, and the
\* sender that it was registered for.
THEOREM SetUpIsFinished == SetupSpec => []ConfigIsFinished
<1>1. SetupInv => ConfigIsFinished
      BY DEF SetupInv, WorldInv, WorldTypes, FileIsFinished, ScriptInv, ScriptIsKnown,
         ConfigIsFinished, SetupTypeOK
<1> QED BY <1>1, AlwaysSetUp, PTL

\* A test that passed spoke to a machine of the extension that its sender was
\* registered for.
THEOREM TestsAreTrue == SetupSpec => []TestedMeansWired
<1>1. SetupInv => TestedMeansWired
  <2> SUFFICES ASSUME SetupInv, NEW p \in passed
               PROVE  /\ senders[p.sender] = nodes[p.machine].extension
                      /\ extensions[nodes[p.machine].extension].sender = p.sender
      BY DEF TestedMeansWired
  <2>1. /\ p.sender \in DOMAIN senders /\ senders[p.sender] # 0
        /\ nodes[p.machine].extension = senders[p.sender]
        BY DEF SetupInv, WorldInv, PassedAreWired
  <2>2. senders[p.sender] \in Owners(p.sender)
        BY <2>1 DEF SetupInv, WorldInv, BoundToTheFirst
  <2> QED BY <2>1, <2>2 DEF Owners
<1> QED BY <1>1, AlwaysSetUp, PTL

\* A script that fails by itself, with the node that it began with, fails for
\* one of the reasons that the operator can do something about.
THEOREM FailuresHaveReasons == SetupSpec => []ScriptsFailForAReason
<1>1. SetupInv => ScriptsFailForAReason
      BY DEF SetupInv, ScriptInv
<1> QED BY <1>1, AlwaysSetUp, PTL

\* A set with at most one element does not have two.
LEMMA AtMostOne ==
    ASSUME NEW S, IsFiniteSet(S), Cardinality(S) <= 1, NEW x \in S, NEW y \in S
    PROVE  x = y
<1>1. Cardinality(S) \in Nat /\ Cardinality(S) # 0
      BY FS_CardinalityType, FS_EmptySet
<1>2. Cardinality(S) = 1
      BY <1>1
<1>3. PICK z : S = {z}
      BY <1>2, FS_Singleton
<1> QED BY <1>3

\* The register step, for a file that can be read: what it looked up was there,
\* and R7 found at most one extension of the sender.
LEMMA RegisterStepIsClean ==
    ASSUME NEW exts, NEW dark, NEW key, NEW f, f.kind # "nopath",
           WellFormed(f.id), WellFormed(f.sender), f.id \in DOMAIN exts,
           Clean(RegisterRegistrationChecks(exts, dark, key, f))
    PROVE  /\ f.id \notin dark
           /\ key \in exts[f.id].machineOwners
           /\ exts[f.id].evm
           /\ Cardinality(MatchingIds(exts, dark, f.sender)) <= 1
<1> DEFINE known == f.id \in DOMAIN exts
           sender == IF known THEN exts[f.id].sender ELSE Absent
           L(id, ok) == Check(id, f.id \notin dark /\ known /\ ok, "FAIL")
           one == Cardinality(MatchingIds(exts, dark, f.sender)) <= 1
           R7 == Check("R7", one, "WARN")
<1>1. RegisterRegistrationChecks(exts, dark, key, f) =
         Result("R1", "PASS")
            \union L("R2", sender = f.sender)
            \union L("R3", key \in exts[f.id].machineOwners)
            \union L("R4", exts[f.id].evm)
            \union R7
      BY DEF RegisterRegistrationChecks, WellFormed
<1>2. /\ Clean(L("R3", key \in exts[f.id].machineOwners))
      /\ Clean(L("R4", exts[f.id].evm)) /\ Clean(R7)
  <2> HIDE DEF L, R7
  <2> QED BY <1>1, CleanUnion
<1>3. f.id \notin dark /\ known /\ key \in exts[f.id].machineOwners
      BY <1>2, CleanCheck
<1>4. f.id \notin dark /\ known /\ exts[f.id].evm
      BY <1>2, CleanCheck
<1>5. one
  <2>1. Clean(Check("R7", one, "WARN"))
        BY <1>2
  <2> HIDE DEF one
  <2> QED BY <2>1, CleanCheck
<1> QED BY <1>3, <1>4, <1>5

\* verify-deploy tells the truth between two scripts: when its deploy and
\* register steps are clean, the extension of the file is set up for the
\* deployer and is the one its sender is or will be bound to, unless the lookup
\* of that one failed.
THEOREM ReportsAreTrue == SetupSpec => []CleanReportMeansReady
<1>1. SetupInv => CleanReportMeansReady
  <2> SUFFICES ASSUME SetupInv, NEW env \in Environments,
                      Clean(VerifyDeploy("deploy", env, Deployer(env), extensions, {}, config)),
                      NEW dark \in SUBSET DOMAIN extensions,
                      Clean(VerifyDeploy("register", env, Deployer(env), extensions, dark, config))
               PROVE  /\ WellFormed(config.id) /\ WellFormed(config.sender)
                      /\ extensions[config.id].sender = config.sender
                      /\ Deployer(env) \in extensions[config.id].machineOwners
                      /\ extensions[config.id].evm
                      /\ \/ /\ Least(Owners(config.sender)) = config.id
                            /\ senders[config.sender] \in {0, Least(Owners(config.sender))}
                         \/ Least(Owners(config.sender)) \in dark
      BY DEF CleanReportMeansReady
  <2> DEFINE first == Least(Owners(config.sender))
             matching == MatchingIds(extensions, dark, config.sender)
  <2>1. config.kind # "nopath"
        BY DEF SetupInv, WorldInv, WorldTypes
  <2>2. WellFormed(config.id) /\ WellFormed(config.sender)
        BY <2>1, OneStepIsVerified, DeployStepIsClean
  <2>3. /\ config.id \in DOMAIN extensions /\ extensions[config.id].sender = config.sender
        /\ config.sender \in DOMAIN senders
        BY <2>2 DEF SetupInv, WorldInv, FileIsFinished, ExtensionsHaveSenders
  <2>4. config.id \in Owners(config.sender)
        BY <2>3 DEF Owners
  <2>5. /\ config.id \notin dark /\ Deployer(env) \in extensions[config.id].machineOwners
        /\ extensions[config.id].evm /\ Cardinality(matching) <= 1
        BY <2>1, <2>2, <2>3, <2>4, OneStepIsVerified, RegisterStepIsClean
  <2>6. IsFiniteSet(Owners(config.sender)) /\ Owners(config.sender) \in SUBSET Nat
        BY OwnersAreFinite DEF SetupInv
  <2>7. first \in Owners(config.sender) /\ \A i \in Owners(config.sender) : first <= i
        BY <2>4, <2>6, LeastExists
  <2> HIDE DEF first
  <2>8. matching = Owners(config.sender) \ dark
        BY DEF MatchingIds, Owners
  <2>9. matching \in SUBSET Owners(config.sender) /\ config.id \in matching
        BY <2>4, <2>5, <2>8
  <2>10. IsFiniteSet(matching)
    <3> HIDE DEF matching
    <3> QED BY <2>6, <2>9, FS_Subset
  <2>11. first \notin dark => first = config.id
    <3>1. first \notin dark => first \in matching
          BY <2>7, <2>8
    <3> HIDE DEF matching
    <3> QED BY <2>5, <2>9, <2>10, <3>1, AtMostOne
  <2>12. senders[config.sender] \in {0, first}
    <3>1. senders[config.sender] # 0 =>
             /\ senders[config.sender] \in Owners(config.sender)
             /\ \A i \in Owners(config.sender) : senders[config.sender] <= i
          BY <2>3 DEF SetupInv, WorldInv, BoundToTheFirst
    <3> QED BY <2>6, <2>7, <3>1
  <2> QED BY <2>2, <2>3, <2>5, <2>11, <2>12 DEF first
<1> QED BY <1>1, AlwaysSetUp, PTL

\* A proxy that is checked without a complaint answers.
LEMMA CleanProxy ==
    ASSUME NEW id, NEW proxy, Clean(ProxyCheck(id, proxy))
    PROVE  proxy = "up"
<1>1. proxy # "unset"
      BY NotSkipped DEF ProxyCheck
<1>2. Clean(Check(id, proxy = "up", "WARN"))
      BY <1>1 DEF ProxyCheck
<1> QED BY <1>2, CleanCheck

\* The same, for one environment and one file.
LEMMA EnvironmentIsSeen ==
    ASSUME NEW env, NEW f,
           Clean(RegisterDeployChecks(env, f) \union RegisterServicesChecks(env, f)
                   \union RegisterTeeVersionChecks(env, f)
                   \union RegisterTeeMachineChecks(env) \union RegisterTestChecks(env, f))
    PROVE  /\ f.kind = "file" /\ WellFormed(f.id) /\ WellFormed(f.sender)
           /\ env.manager = "deployed" /\ env.funded /\ env.chainAnswers
           /\ env.proxy = "up" /\ env.normalProxy = "up" /\ ~env.portBusy
           /\ IsLocal(env) \/ env.deploymentKey # Absent
           /\ env.localMode = "false" => env.proxyKeySet /\ env.simulatedTee # "true"
<1>1. /\ Clean(RegisterDeployChecks(env, f)) /\ Clean(RegisterServicesChecks(env, f))
      /\ Clean(RegisterTeeVersionChecks(env, f)) /\ Clean(RegisterTeeMachineChecks(env))
      BY CleanUnion
<1>2. f.kind = "file"
  <2>1. Clean(IF f.kind # "file" THEN Result("V4", "SKIP")
              ELSE Check("V4", WellFormed(f.id), "FAIL"))
        BY <1>1, CleanUnion DEF RegisterTeeVersionChecks
  <2> QED BY <2>1, NotSkipped
<1>3. /\ WellFormed(f.id) /\ WellFormed(f.sender) /\ env.manager = "deployed" /\ env.funded
      BY <1>1, <1>2, DeployStepIsClean DEF AddressHasCode, KeyHasFunds
<1>4. IsLocal(env) \/ env.deploymentKey # Absent
  <2> DEFINE ok == env.deploymentKey # Absent \/ IsLocal(env)
  <2>1. Clean(Check("D5", ok, "WARN"))
        BY <1>1, CleanUnion DEF RegisterDeployChecks, CheckDeployerKeySource
  <2> HIDE DEF ok
  <2>2. ok
        BY <2>1, CleanCheck
  <2> QED BY <2>2 DEF ok
<1>5. env.chainAnswers
  <2>1. Clean(Check("D6", env.chainAnswers, "FAIL"))
        BY <1>1, CleanUnion DEF RegisterDeployChecks
  <2> QED BY <2>1, CleanCheck
<1>6. ~env.portBusy
  <2>1. Clean(Check("S5", ~env.portBusy, "WARN"))
        BY <1>1, CleanUnion DEF RegisterServicesChecks
  <2> QED BY <2>1, CleanCheck
<1>7. env.localMode = "false" => env.proxyKeySet
  <2> DEFINE ok == env.localMode # "false" \/ env.proxyKeySet
  <2>1. Clean(Check("S10", ok, "WARN"))
        BY <1>1, CleanUnion DEF RegisterServicesChecks
  <2> HIDE DEF ok
  <2>2. ok
        BY <2>1, CleanCheck
  <2> QED BY <2>2 DEF ok
<1>8. env.proxy = "up" /\ env.normalProxy = "up"
  <2>1. Clean(ProxyCheck("T5", env.normalProxy)) /\ Clean(ProxyCheck("T10", env.proxy))
        BY <1>1, CleanUnion DEF RegisterTeeMachineChecks
  <2> QED BY <2>1, CleanProxy
<1>9. env.localMode = "false" => env.simulatedTee # "true"
  <2> DEFINE ok == ~(env.simulatedTee = "true" /\ env.localMode = "false")
  <2>1. Clean(Check("T1", ok, "WARN"))
        BY <1>1, CleanUnion DEF RegisterTeeMachineChecks
  <2> HIDE DEF ok
  <2>2. ok
        BY <2>1, CleanCheck
  <2> QED BY <2>2 DEF ok
<1> QED BY <1>2, <1>3, <1>4, <1>5, <1>6, <1>7, <1>8, <1>9

\* Whatever environments and files there are, a verify-deploy that has nothing
\* to complain of has seen what the scripts need.
THEOREM ChecksSeeAll ==
    /\ \A environments, files : EnvironmentChecksCatch(environments, files)
    /\ SetupSpec => []ChecksCatch
<1>1. \A environments, files : EnvironmentChecksCatch(environments, files)
      BY EnvironmentIsSeen DEF EnvironmentChecksCatch
<1>2. ChecksCatch
      BY <1>1 DEF ChecksCatch
<1>3. SetupSpec => []ChecksCatch
      BY <1>2, PTL
<1> QED BY <1>1, <1>3
=============================================================================
