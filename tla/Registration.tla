---------------------------- MODULE Registration ----------------------------
(***************************************************************************)
(* extension/tools/pkg/fccutils/registration.go, run by                    *)
(* tools/cmd/register-tee: bringing a machine into production in up to     *)
(* four steps.                                                             *)
(*                                                                         *)
(*   r  register the machine, which also asks it for an attestation        *)
(*   R  ask for another attestation                                        *)
(*   a  ask the FTDC for an availability check of the attested machine     *)
(*   p  fetch the proof of the check and promote the machine it names      *)
(*                                                                         *)
(* After each of r, R and a the command writes what it has done to a state *)
(* file, which a later command started with --resume picks up.  A command  *)
(* may die at any moment; a transaction it gave up waiting for may still   *)
(* be mined.  The registry, the FTDC and the account's queue of            *)
(* transactions are external.                                              *)
(***************************************************************************)
EXTENDS Naturals, Sequences

CONSTANTS
    Machines,       \* machine identities: a rebuilt node has a new key
    NoMachine,
    MaxId,          \* bound: instruction ids somebody still remembers
    Commands,       \* the -command flags used: sets of steps
    MaxFaults       \* bound: deaths, timeouts, expiries, ... of a behaviour

Steps == {"r", "R", "a", "p"}
Ids == 1..MaxId
NoId == 0           \* common.Hash{}

ASSUME NoMachineIsNone == NoMachine \notin Machines
ASSUME CommandsAreSteps == Commands \subseteq SUBSET Steps
ASSUME BoundsAreNat == MaxId \in Nat /\ MaxFaults \in Nat

VARIABLES
    file,         \* the state file
    run,          \* the command that is running
    registered,   \* machines the registry knows
    production,   \* machines promoted
    attestation,  \* attestation[id]: whom it was asked of, challenge usable
    check,        \* check[id]: whom it is about, how far it is
    mempool,      \* transactions sent and not mined, in nonce order
    node,         \* the machine the proxies answer for now
    inSync,       \* the FTDC proxy's signing policy is acceptable
    reported,     \* what finished commands called registered
    faults

chain == <<registered, production, attestation, check>>
world == <<node, inSync>>
vars == <<file, run, chain, mempool, world, reported, faults>>

-----------------------------------------------------------------------------
(* The state file and the command                                          *)

\* registrationState; a missing file reads as the first of these.
Empty == [steps |-> {}, attest |-> NoId, instr |-> NoId]
Progress == [steps : SUBSET {"r", "R", "a"},
             attest : Ids \union {NoId}, instr : Ids \union {NoId}]

\* The file is missing, cannot be parsed, or holds a registrationState.
Files == [kind : {"missing", "torn", "saved"}, state : Progress]
Missing == [kind |-> "missing", state |-> Empty]
Torn == [kind |-> "torn", state |-> Empty]
Saved(state) == [kind |-> "saved", state |-> state]

\* at: the step in hand; part: before its transaction, waiting for it, or
\* about to save; mem: the registrationState in memory; attest, instr, tee:
\* the locals teeAttestInstructionID, instructionID and teeID; clean: the
\* command found no state file.
Runs == [at : Steps \union {"idle", "end"}, part : {"begin", "wait", "save"},
         command : Commands \union {{}}, tee : Machines \union {NoMachine},
         clean : BOOLEAN, mem : Progress,
         attest : Ids \union {NoId}, instr : Ids \union {NoId}]
NotRunning == [at |-> "idle", part |-> "begin", command |-> {},
               tee |-> NoMachine, clean |-> FALSE, mem |-> Empty,
               attest |-> NoId, instr |-> NoId]

Idle == run.at = "idle"
At(step, part) == run.at = step /\ run.part = part

\* The first step of the command among those given, in the order of the code.
NextStep(command, steps) ==
    CASE "r" \in command \cap steps -> "r"
      [] "r" \notin command \cap steps /\ "R" \in command \cap steps -> "R"
      [] command \cap steps \cap {"r", "R"} = {} /\ "a" \in command \cap steps -> "a"
      [] command \cap steps = {"p"} -> "p"
      [] OTHER -> "end"
After(step) ==
    NextStep(run.command, CASE step = "r" -> {"R", "a", "p"}
                            [] step = "R" -> {"a", "p"}
                            [] step = "a" -> {"p"}
                            [] OTHER -> {})

Fail == run' = NotRunning

-----------------------------------------------------------------------------
(* Transactions                                                            *)

Transactions == [kind : {"register", "attest", "check", "promote"},
                 tee : Machines, attest : Ids \union {NoId}]
Tx(kind, tee, attest) == [kind |-> kind, tee |-> tee, attest |-> attest]

NoAttestation == [tee |-> NoMachine, usable |-> FALSE]
NoCheck == [tee |-> NoMachine, stage |-> "dead"]

\* Ids a file, a command or a transaction still names; others are forgotten
\* and stand for new ones.
AttestsNamed == {file.state.attest, run.attest, run.mem.attest}
                    \union {mempool[i].attest : i \in 1..Len(mempool)}
ChecksNamed == {file.state.instr, run.instr, run.mem.instr}
New(named, id) == id \in Ids \ named /\ \A i \in Ids \ named : id <= i
Remember(f, named, none) == [i \in Ids |-> IF i \in named THEN f[i] ELSE none]

\* The contracts (external) accept a registration once, an attestation or a
\* promotion of a registered machine, and a check of the machine that was
\* asked for the attestation, once, while the challenge has not expired.
Accepted(tx) ==
    CASE tx.kind = "register" -> tx.tee \notin registered
      [] tx.kind \in {"attest", "promote"} -> tx.tee \in registered
      [] tx.kind = "check" ->
            tx.attest # NoId /\ attestation[tx.attest] = [tee |-> tx.tee, usable |-> TRUE]

TypeOK ==
    /\ file \in Files
    /\ run \in Runs
    /\ registered \subseteq Machines /\ production \subseteq Machines
    /\ attestation \in [Ids -> [tee : Machines \union {NoMachine}, usable : BOOLEAN]]
    /\ check \in [Ids -> [tee : Machines \union {NoMachine},
                          stage : {"dead", "asked", "proved"}]]
    /\ mempool \in Seq(Transactions)
    /\ node \in Machines
    /\ inSync \in BOOLEAN
    /\ reported \subseteq [tee : Machines, clean : BOOLEAN, command : Commands]
    /\ faults \in 0..MaxFaults

Init ==
    /\ file = Missing
    /\ run = NotRunning
    /\ registered = {} /\ production = {}
    /\ attestation = [i \in Ids |-> NoAttestation]
    /\ check = [i \in Ids |-> NoCheck]
    /\ mempool = <<>>
    /\ node \in Machines
    /\ inSync \in BOOLEAN
    /\ reported = {}
    /\ faults = 0

-----------------------------------------------------------------------------
(* register-tee and RegisterNode                                           *)

Begin(command, state, clean, flag) ==
    run' = [at |-> NextStep(command, Steps), part |-> "begin", command |-> command,
            tee |-> node, clean |-> clean, mem |-> state, attest |-> NoId,
            instr |-> IF "a" \in command THEN NoId ELSE flag]

\* Fault: the old state file is not removed, and is read.
FaultyStartFresh(command, flag) ==
    /\ Idle
    /\ Begin(command, file.state, TRUE, flag)
    /\ UNCHANGED <<file, chain, mempool, world, reported, faults>>

\* The default: an old state file is removed first.
StartFresh(command, flag) ==
    /\ Idle
    /\ file' = Missing
    /\ Begin(command, Empty, TRUE, flag)
    /\ UNCHANGED <<chain, mempool, world, reported, faults>>

\* With --resume, or when the old file could not be removed (only a warning).
\* A file that cannot be parsed ends the command.
StartResume(command, flag) ==
    /\ Idle
    /\ file.kind # "torn"
    /\ Begin(command, file.state, file.kind = "missing", flag)
    /\ UNCHANGED <<file, chain, mempool, world, reported, faults>>

\* Fault: the step is recorded before its transaction is known to be mined.
FaultySend(tx) ==
    /\ mempool' = Append(mempool, tx)
    /\ run' = [run EXCEPT !.part = "wait"]
    /\ file' = Saved([run.mem EXCEPT !.steps = @ \union ({run.at} \ {"p"})])
    /\ UNCHANGED <<chain, world, reported>>

Send(tx) ==
    /\ mempool' = Append(mempool, tx)
    /\ run' = [run EXCEPT !.part = "wait"]
    /\ UNCHANGED <<file, chain, world, reported>>

\* A step the state file already has: its id is taken from there.
Skip(step) ==
    /\ At(step, "begin")
    /\ step \in run.mem.steps
    /\ run' = IF step = "a"
              THEN [run EXCEPT !.at = After(step), !.instr = run.mem.instr]
              ELSE [run EXCEPT !.at = After(step), !.attest = run.mem.attest]
    /\ UNCHANGED <<file, chain, mempool, world, reported, faults>>

\* Fault: a machine the registry has is not asked for anything.
FaultySendRegister ==
    /\ At("r", "begin") /\ "r" \notin run.mem.steps
    /\ \/ run.tee \notin registered /\ Send(Tx("register", run.tee, NoId))
       \/ /\ run.tee \in registered
          /\ run' = [run EXCEPT !.at = After("r")]
          /\ UNCHANGED <<file, chain, mempool, world, reported>>
    /\ UNCHANGED faults

\* Step r: a machine the registry has is only asked for a fresh attestation.
\* A lookup that fails counts as not registered.
SendRegister ==
    /\ At("r", "begin") /\ "r" \notin run.mem.steps
    /\ \/ /\ Send(Tx(IF run.tee \in registered THEN "attest" ELSE "register",
                     run.tee, NoId))
          /\ UNCHANGED faults
       \/ /\ run.tee \in registered
          /\ faults < MaxFaults /\ faults' = faults + 1
          /\ Send(Tx("register", run.tee, NoId))

SendAttest ==
    /\ At("R", "begin") /\ "R" \notin run.mem.steps
    /\ Send(Tx("attest", run.tee, NoId))
    /\ UNCHANGED faults

\* Step a: CheckFTDCProxyPolicyConsistency refuses only a confirmed mismatch;
\* when a lookup fails the check is asked for all the same.
SendCheck ==
    /\ At("a", "begin") /\ "a" \notin run.mem.steps
    /\ \/ inSync /\ Send(Tx("check", run.tee, run.attest)) /\ UNCHANGED faults
       \/ /\ ~inSync
          /\ faults < MaxFaults /\ faults' = faults + 1
          /\ Send(Tx("check", run.tee, run.attest))
       \/ /\ ~inSync /\ Fail
          /\ UNCHANGED <<file, chain, mempool, world, reported, faults>>

\* Step p: the proof names the machine that is promoted.
SendPromote ==
    /\ At("p", "begin")
    /\ run.instr # NoId /\ check[run.instr].stage = "proved"
    /\ Send(Tx("promote", check[run.instr].tee, NoId))
    /\ UNCHANGED faults

\* Polling ends after 15 tries: always for a check that cannot be answered,
\* by bad luck for one that can.
PollTimeout ==
    /\ At("p", "begin")
    /\ IF run.instr = NoId THEN UNCHANGED faults
       ELSE IF check[run.instr].stage = "asked" /\ check[run.instr].tee = node
       THEN faults < MaxFaults /\ faults' = faults + 1
       ELSE check[run.instr].stage # "proved" /\ UNCHANGED faults
    /\ Fail
    /\ UNCHANGED <<file, chain, mempool, world, reported>>

\* CheckTx gives up after two minutes; the transaction stays where it is.
TxTimeout ==
    /\ run.part = "wait"
    /\ \/ mempool = <<>> /\ UNCHANGED faults
       \/ faults < MaxFaults /\ faults' = faults + 1
    /\ Fail
    /\ UNCHANGED <<file, chain, mempool, world, reported>>

\* The step is recorded in memory and, if the write works, in the file. A
\* write that fails leaves the old file or a torn one, and a warning.
Save ==
    /\ run.part = "save"
    /\ LET state == [steps |-> run.mem.steps \union {run.at},
                     attest |-> IF run.at = "a" THEN run.mem.attest ELSE run.attest,
                     instr |-> IF run.at = "a" THEN run.instr ELSE run.mem.instr]
       IN  /\ run' = [run EXCEPT !.mem = state, !.at = After(run.at), !.part = "begin"]
           /\ \/ file' = Saved(state) /\ UNCHANGED faults
              \/ /\ faults < MaxFaults /\ faults' = faults + 1
                 /\ file' \in {file, Torn}
    /\ UNCHANGED <<chain, mempool, world, reported>>

\* All steps done: the state file goes, and main reports the machine it read
\* from the proxy at the start.
Finish ==
    /\ run.at = "end"
    /\ file' = Missing
    /\ reported' = reported \union
                     {[tee |-> run.tee, clean |-> run.clean, command |-> run.command]}
    /\ run' = NotRunning
    /\ UNCHANGED <<chain, mempool, world, faults>>

Die ==
    /\ ~Idle
    /\ faults < MaxFaults /\ faults' = faults + 1
    /\ Fail
    /\ UNCHANGED <<file, chain, mempool, world, reported>>

-----------------------------------------------------------------------------
(* The chain and the world                                                 *)

\* The command that waits is waiting for the youngest transaction.
Awaited == run.part = "wait" /\ Len(mempool) = 1

\* What the command makes of its receipt: the instruction id of the event.
Receive(tx, id) ==
    run' = CASE tx.kind \in {"register", "attest"} ->
                    [run EXCEPT !.part = "save", !.attest = id]
             [] tx.kind = "check" -> [run EXCEPT !.part = "save", !.instr = id]
             [] OTHER -> [run EXCEPT !.at = "end", !.part = "begin"]

\* The oldest transaction is mined and accepted.
Mine ==
    /\ mempool # <<>>
    /\ LET tx == Head(mempool)
           named == IF tx.kind = "check" THEN ChecksNamed ELSE AttestsNamed
       IN  /\ Accepted(tx)
           /\ registered' = registered \union (IF tx.kind = "register" THEN {tx.tee} ELSE {})
           /\ production' = production \union (IF tx.kind = "promote" THEN {tx.tee} ELSE {})
           /\ \E id \in Ids :
                 /\ New(named, id)
                 /\ attestation' =
                      LET kept == Remember(attestation, AttestsNamed, NoAttestation) IN
                      CASE tx.kind \in {"register", "attest"} /\ Awaited ->
                              [kept EXCEPT ![id] = [tee |-> tx.tee, usable |-> TRUE]]
                        [] tx.kind = "check" -> [kept EXCEPT ![tx.attest].usable = FALSE]
                        [] OTHER -> kept
                 /\ check' =
                      LET kept == Remember(check, ChecksNamed, NoCheck) IN
                      IF tx.kind = "check" /\ Awaited
                      THEN [kept EXCEPT ![id] = [tee |-> tx.tee, stage |->
                                        IF inSync THEN "asked" ELSE "dead"]]
                      ELSE kept
                 /\ IF Awaited THEN Receive(tx, id) ELSE UNCHANGED run
    /\ mempool' = Tail(mempool)
    /\ UNCHANGED <<file, world, reported, faults>>

\* The oldest transaction is mined and reverts; its command fails.
Revert ==
    /\ mempool # <<>> /\ ~Accepted(Head(mempool))
    /\ mempool' = Tail(mempool)
    /\ IF Awaited THEN Fail ELSE UNCHANGED run
    /\ UNCHANGED <<file, chain, world, reported, faults>>

\* The machine the check is about answers, if it still exists.
Answer(id) ==
    /\ id \in ChecksNamed /\ check[id].stage = "asked" /\ check[id].tee = node
    /\ check' = [check EXCEPT ![id].stage = "proved"]
    /\ UNCHANGED <<file, run, registered, production, attestation, mempool,
                   world, reported, faults>>

Policy ==
    /\ inSync' = ~inSync
    /\ inSync => faults < MaxFaults
    /\ faults' = IF inSync THEN faults + 1 ELSE faults
    /\ UNCHANGED <<file, run, chain, mempool, node, reported>>

Fault(action) == faults < MaxFaults /\ faults' = faults + 1 /\ action

\* A challenge is not used in time.
Expire(id) ==
    /\ id \in AttestsNamed /\ attestation[id].usable
    /\ attestation' = [attestation EXCEPT ![id].usable = FALSE]
    /\ UNCHANGED <<file, run, registered, production, check, mempool, world, reported>>

\* The pending transactions are dropped.
Drop ==
    /\ mempool # <<>> /\ mempool' = <<>>
    /\ UNCHANGED <<file, run, chain, world, reported>>

\* The node is rebuilt or restarted, and is a new machine.
Rebuild ==
    /\ node' \in Machines \ (registered \union {node})
    /\ UNCHANGED <<file, run, chain, mempool, inSync, reported>>

Next ==
    \/ \E command \in Commands, flag \in {NoId} \union ChecksNamed :
          StartFresh(command, flag) \/ StartResume(command, flag)
    \/ \E step \in {"r", "R", "a"} : Skip(step)
    \/ SendRegister \/ SendAttest \/ SendCheck \/ SendPromote
    \/ PollTimeout \/ TxTimeout \/ Save \/ Finish \/ Die
    \/ Mine \/ Revert \/ Policy
    \/ \E id \in Ids : Answer(id) \/ Fault(Expire(id))
    \/ Fault(Drop) \/ Fault(Rebuild)

Spec == Init /\ [][Next]_vars

(***************************************************************************)
(* A command that runs keeps running, the chain mines, the FTDC answers    *)
(* and the proxy catches up with the policy; and an operator whose node is *)
(* not in production starts afresh again and again, whatever else it tries *)
(* (post-build.sh passes -command rRap and never --resume).                *)
(***************************************************************************)
Tool ==
    \/ \E step \in {"r", "R", "a"} : Skip(step)
    \/ SendRegister \/ SendAttest \/ SendCheck \/ SendPromote
    \/ PollTimeout \/ (mempool = <<>> /\ TxTimeout) \/ Save \/ Finish
Catchup == ~inSync /\ Policy
Retry ==
    /\ node \notin production
    /\ \E command \in Commands :
          {"r", "a", "p"} \subseteq command /\ StartFresh(command, NoId)

LiveSpec ==
    /\ Spec
    /\ WF_vars(Tool) /\ WF_vars(Mine \/ Revert)
    /\ WF_vars(\E id \in Ids : Answer(id)) /\ WF_vars(Catchup)
    /\ SF_vars(Retry)

-----------------------------------------------------------------------------
(* Properties                                                              *)

\* Whenever the command dies and whatever becomes of its transactions, the
\* state file claims no step that the chain has not accepted: an attestation
\* it names was asked of a registered machine, and so was a check (saveState
\* comes after CheckTx).
StateFileIsTrue ==
    LET state == file.state IN
    /\ state.steps \cap {"r", "R"} # {} =>
          state.attest \in Ids /\ attestation[state.attest].tee \in registered
    /\ "a" \in state.steps =>
          state.instr \in Ids /\ check[state.instr].tee \in registered

\* A command that began without a state file and says it registered a machine
\* has brought that machine into production, although it is the proof that
\* names the machine promoted (GetFTDCAvailabilityCheckResult, ToProduction).
CleanSuccessMeansProduction ==
    \A r \in reported :
        r.clean /\ {"a", "p"} \subseteq r.command => r.tee \in production

\* Once deaths, lost transactions, expired challenges and rebuilds cease, an
\* operator who starts afresh brings the node into production, whatever state
\* file, pending transaction or half registration was left behind.
FreshStartsSucceed == <>[](node \in production)

\* "Registered TEE node with id" (register-tee/main.go:72): the machine that a
\* command names, resumed or not, is in production.
SuccessMeansProduction ==
    \A r \in reported : {"r", "a", "p"} \subseteq r.command => r.tee \in production
=============================================================================
