--------------------------- MODULE ExtensionSetup ---------------------------
(***************************************************************************)
(* Bringing up an extension, as the operator does it with extension/scripts*)
(* and extension/tools:                                                    *)
(*                                                                         *)
(*   pre-build.sh       deploy an InstructionSender, register an extension *)
(*                      for it, write both to config/extension.env         *)
(*   start-services.sh  start a node for the extension of that file        *)
(*   post-build.sh      allow the node's code, set the governance,         *)
(*                      register the node's machine                        *)
(*   test.sh            send the node two instructions through the sender  *)
(*                      of that file                                       *)
(*                                                                         *)
(* Scripts run one at a time, fail, are killed and are run again, each in  *)
(* an environment of its own; nodes are restarted meanwhile.  The registry *)
(* is external.  How a machine registers is module Registration.           *)
(***************************************************************************)
EXTENDS DeployChecks

CONSTANTS
    Keys,             \* accounts (positive numbers)
    DevKey,           \* the hard-coded account
    Environments,     \* what .env may hold when a script runs
    NoEnvironment,    \* no script runs that reads it
    Codes,            \* builds of the extension
    MaxSenders, MaxExtensions, MaxNodes, MaxDeaths      \* bounds

Unset == 0
Names == {env.version : env \in Environments}       \* TEE_VERSION

ASSUME KeysAreAccounts == Keys \subseteq Nat \ {Unset} /\ DevKey \in Keys
ASSUME SetupBoundsAreNat == /\ MaxSenders \in Nat /\ MaxExtensions \in Nat
                            /\ MaxNodes \in Nat /\ MaxDeaths \in Nat

\* The keys and addresses of an environment are accounts or unset, and a list of
\* signers is finite.
ASSUME EnvironmentsAreRead ==
    \A env \in Environments :
        /\ env.deploymentKey \in Keys \union {Unset}
        /\ env.ownerKey \in Keys \union {Unset}
        /\ env.initialOwner \in Keys \union {Unset}
        /\ env.signers \subseteq Keys /\ IsFiniteSet(env.signers)
        /\ env.threshold \in Nat

VARIABLES
    rejectsDuplicates,  \* does the registry refuse a sender it has?
    extensions,         \* the registry's extensions, by id
    senders,            \* deployed InstructionSenders: _extensionId of each
    config,             \* config/extension.env
    nodes,              \* the nodes started so far; the last one is running
    cmd,                \* the script that runs, or how the last one ended
    passed,             \* the last test that passed: sender and machine
    deaths              \* the scripts that died or wait for ever

setupVars == <<rejectsDuplicates, extensions, senders, config, nodes, cmd, passed, deaths>>

-----------------------------------------------------------------------------
(* Environments                                                            *)

\* DefaultPrivateKey; EXTENSION_OWNER_KEY falls back to the former.
Deployer(env) == IF env.deploymentKey = Unset THEN DevKey ELSE env.deploymentKey
ExtensionOwner(env) == IF env.ownerKey = Unset THEN Deployer(env) ELSE env.ownerKey

GovernanceOf(signers, threshold, fallback) ==
    [signers |-> IF signers = {} THEN {fallback} ELSE signers,
     threshold |-> IF threshold = 0 THEN 1 ELSE threshold]

\* Fault: INITIAL_OWNER is not looked at.
FaultyDesiredGovernance(env) ==
    GovernanceOf(env.signers, env.threshold, ExtensionOwner(env))

\* set-governance: what the registry is told ...
DesiredGovernance(env) ==
    GovernanceOf(env.signers, env.threshold,
                 IF env.initialOwner = Unset THEN ExtensionOwner(env) ELSE env.initialOwner)

\* ... and docker-compose.yaml: what the node is told.
NodeGovernance(variables) ==
    GovernanceOf(variables.signers, variables.threshold,
                 IF variables.initialOwner = Unset THEN DevKey ELSE variables.initialOwner)
Variables(env) ==
    [signers |-> env.signers, threshold |-> env.threshold, initialOwner |-> env.initialOwner]
NoGovernance == [signers |-> {}, threshold |-> 0]

-----------------------------------------------------------------------------
(* The registry and the scripts                                            *)

NewExtension(sender, owner) ==
    [sender |-> sender, owner |-> owner, machineOwners |-> {}, projectOwners |-> {},
     evm |-> FALSE, versions |-> {}, governance |-> NoGovernance, machines |-> {}]

Supports(e, code) == \E v \in e.versions : v.code = code
Owners(sender) == {i \in DOMAIN extensions : extensions[i].sender = sender}
Least(S) == CHOOSE i \in S : \A j \in S : i <= j

Node == nodes[Len(nodes)]
Ended == {"done", "failed"}
AtStep(step) == cmd.at = step
Key == Deployer(cmd.env)

\* No script runs, and the last one did not fail by itself.
NoScript == [script |-> "none", at |-> "done", env |-> NoEnvironment, sender |-> 0,
         extension |-> 0, machine |-> 0, answered |-> FALSE, nodes |-> 0]

\* The command goes on as next, or is killed or gives up before it sees that
\* its transaction was mined.
Kill == deaths < MaxDeaths /\ deaths' = deaths + 1 /\ cmd' = NoScript
Then(next) == (cmd' = next /\ UNCHANGED deaths) \/ Kill
Go(step) == Then(IF step = "done" THEN NoScript ELSE [cmd EXCEPT !.at = step])
Refuse == cmd' = [cmd EXCEPT !.at = "failed"] /\ UNCHANGED deaths

Start(script, step, env, sender, extension) ==
    /\ cmd.at \in Ended
    /\ cmd' = [script |-> script, at |-> step, env |-> env, sender |-> sender,
               extension |-> extension, machine |-> 0, answered |-> FALSE,
               nodes |-> Len(nodes)]
    /\ UNCHANGED <<rejectsDuplicates, extensions, senders, config, nodes, passed, deaths>>

Extensions == [sender : 1..MaxSenders, owner : Keys, machineOwners : SUBSET Keys,
               projectOwners : SUBSET Keys, evm : BOOLEAN,
               versions : SUBSET [name : Names, code : Codes],
               governance : [signers : SUBSET Keys, threshold : Nat],
               machines : SUBSET (1..MaxNodes)]
Nodes == [extension : 1..MaxExtensions, code : Codes,
          env : {Variables(env) : env \in Environments}]
Scripts == [script : {"pre", "register", "post", "test", "none"},
            at : {"preflight", "deploy", "register", "machineOwner", "projectOwner",
                  "keyType", "config", "version", "governance", "machine",
                  "bind", "hello", "helloResult", "goodbye", "goodbyeResult",
                  "hung"} \union Ended,
            env : Environments \union {NoEnvironment}, sender : Malformed..MaxSenders,
            extension : 0..MaxExtensions, machine : 0..MaxNodes, answered : BOOLEAN,
            nodes : 0..MaxNodes]
SetupTypeOK ==
    /\ rejectsDuplicates \in BOOLEAN
    /\ extensions \in Seq(Extensions) /\ Len(extensions) <= MaxExtensions
    /\ senders \in Seq(0..MaxExtensions) /\ Len(senders) <= MaxSenders
    /\ config \in [kind : {"missing", "file"}, id : Malformed..MaxExtensions,
                   sender : Malformed..MaxSenders]
    /\ nodes \in Seq(Nodes) /\ Len(nodes) <= MaxNodes
    /\ cmd \in Scripts
    /\ passed \subseteq [sender : 1..MaxSenders, machine : 1..MaxNodes]
    /\ deaths \in 0..MaxDeaths

SetupInit ==
    /\ rejectsDuplicates \in BOOLEAN
    /\ extensions = <<>> /\ senders = <<>> /\ nodes = <<>>
    /\ config = NoFile
    /\ cmd = NoScript
    /\ passed = {}
    /\ deaths = 0

-----------------------------------------------------------------------------
(* pre-build.sh and register-extension                                     *)

StartPreBuild(env) ==
    /\ Len(senders) < MaxSenders /\ Len(extensions) < MaxExtensions
    /\ Start("pre", "preflight", env, 0, 0)

\* register-extension by hand, for a sender that is there.
StartRegister(env, sender) ==
    /\ Len(extensions) < MaxExtensions
    /\ Start("register", "register", env, sender, 0)

\* deploy-contract --preflight-only
Preflight ==
    /\ AtStep("preflight")
    /\ IF AddressNotZero(cmd.env) /\ AddressHasCode(cmd.env) /\ KeyHasFunds(cmd.env)
       THEN Go("deploy") ELSE Refuse
    /\ UNCHANGED <<rejectsDuplicates, extensions, senders, config, nodes, passed>>

DeployInstructionSender ==
    /\ AtStep("deploy")
    /\ senders' = Append(senders, 0)
    /\ Then([cmd EXCEPT !.at = "register", !.sender = Len(senders) + 1])
    /\ UNCHANGED <<rejectsDuplicates, extensions, config, nodes, passed>>

\* The id comes from the event; nothing looks for an extension that is there.
RegisterExtension ==
    /\ AtStep("register")
    /\ IF rejectsDuplicates /\ Owners(cmd.sender) # {}
       THEN Refuse /\ UNCHANGED extensions
       ELSE /\ extensions' = Append(extensions, NewExtension(cmd.sender, Key))
            /\ Then([cmd EXCEPT !.at = "machineOwner", !.extension = Len(extensions) + 1])
    /\ UNCHANGED <<rejectsDuplicates, senders, config, nodes, passed>>

\* A step of SetupExtension that is skipped when its effect is there.
Ensure(step, there, updated, next) ==
    /\ AtStep(step)
    /\ IF there THEN Go(next) /\ UNCHANGED extensions
       ELSE extensions' = [extensions EXCEPT ![cmd.extension] = updated] /\ Go(next)
    /\ UNCHANGED <<rejectsDuplicates, senders, config, nodes, passed>>

\* Fault: an error of the transaction is logged and forgotten.
FaultyAllowTeeMachineOwner ==
    LET e == extensions[cmd.extension] IN
    \/ Ensure("machineOwner", Key \in e.machineOwners,
              [e EXCEPT !.machineOwners = @ \union {Key}], "projectOwner")
    \/ Ensure("machineOwner", TRUE, e, "projectOwner")

AllowTeeMachineOwner ==
    LET e == extensions[cmd.extension] IN
    Ensure("machineOwner", Key \in e.machineOwners,
           [e EXCEPT !.machineOwners = @ \union {Key}], "projectOwner")

AllowTeeProjectOwner ==
    LET e == extensions[cmd.extension] IN
    Ensure("projectOwner", Key \in e.projectOwners,
           [e EXCEPT !.projectOwners = @ \union {Key}], "keyType")

AddSupportedKeyTypes ==
    LET e == extensions[cmd.extension] IN
    Ensure("keyType", e.evm, [e EXCEPT !.evm = TRUE], "config")

\* register-extension only prints the id; the operator may update the file, as
\* R2 suggests.
LeaveConfig ==
    /\ AtStep("config") /\ cmd.script = "register"
    /\ cmd' = NoScript
    /\ UNCHANGED <<rejectsDuplicates, extensions, senders, config, nodes, passed, deaths>>

\* A script that dies in the middle leaves part of the file.
WriteConfig ==
    /\ AtStep("config")
    /\ \/ config' = ConfigFile(cmd.extension, cmd.sender) /\ Go("done")
       \/ /\ cmd.script = "pre"
          /\ \E id \in {Absent, Malformed, cmd.extension}, sender \in {Absent, Malformed} :
                /\ sender = Malformed => id = cmd.extension
                /\ config' = ConfigFile(id, sender)
          /\ Kill
    /\ UNCHANGED <<rejectsDuplicates, extensions, senders, nodes, passed>>

-----------------------------------------------------------------------------
(* start-services.sh                                                       *)

\* The node gets its extension from the file; later writes do not reach it.
\* A node (external) that is given a malformed id does not come up.  It may be
\* restarted under a script that talks to it.
StartNode(variables, code) ==
    /\ WellFormed(config.id)
    /\ cmd.at \in Ended \/ cmd.script \in {"post", "test"}
    /\ Len(nodes) < MaxNodes
    /\ nodes' = Append(nodes, [extension |-> config.id, code |-> code, env |-> variables])
    /\ UNCHANGED <<rejectsDuplicates, extensions, senders, config, cmd, passed, deaths>>

-----------------------------------------------------------------------------
(* post-build.sh: each command asks the proxy for the node                 *)

StartPostBuild(env) == nodes # <<>> /\ Start("post", "version", env, 0, 0)

\* Fault: the extension is taken from the file.
FaultyTarget == IF WellFormed(config.id) THEN config.id ELSE Node.extension

\* The extension the node names in its answer.
Target == Node.extension

\* The registry (external) takes a name once, from the owner; its
\* "VersionAlreadyExists" passes for success, as does a build it supports.
AllowTeeVersion ==
    LET e == extensions[Target]
        owner == ExtensionOwner(cmd.env) = e.owner
        taken == \E v \in e.versions : v.name = cmd.env.version
        added == [name |-> cmd.env.version, code |-> Node.code]
    IN
    /\ AtStep("version")
    /\ \/ /\ Supports(e, Node.code) \/ (owner /\ taken)
          /\ Go("governance") /\ UNCHANGED extensions
       \/ /\ ~Supports(e, Node.code) /\ owner /\ ~taken
          /\ extensions' = [extensions EXCEPT ![Target].versions = @ \union {added}]
          /\ Go("governance")
       \/ /\ ~Supports(e, Node.code) /\ ~owner
          /\ Refuse /\ UNCHANGED extensions
    /\ UNCHANGED <<rejectsDuplicates, senders, config, nodes, passed>>

SetTeeGovernance ==
    LET e == extensions[Target]
        desired == DesiredGovernance(cmd.env)
        possible == desired.threshold <= Cardinality(desired.signers)
        owner == ExtensionOwner(cmd.env) = e.owner
    IN
    /\ AtStep("governance")
    /\ \/ /\ possible /\ e.governance = desired
          /\ Go("machine") /\ UNCHANGED extensions
       \/ /\ possible /\ e.governance # desired /\ owner
          /\ extensions' = [extensions EXCEPT ![Target].governance = desired]
          /\ Go("machine")
       \/ /\ ~possible \/ (e.governance # desired /\ ~owner)
          /\ Refuse /\ UNCHANGED extensions
    /\ UNCHANGED <<rejectsDuplicates, senders, config, nodes, passed>>

\* register-tee as a whole.  The registry (external) checks the code and the
\* governance of a new machine and who registers it; one that was registered
\* before is only attested again, which may not need all this.
RegisterTee ==
    LET e == extensions[Target]
        known == Len(nodes) \in e.machines
        acceptable == /\ Supports(e, Node.code)
                      /\ e.governance = NodeGovernance(Node.env)
                      /\ Key \in e.machineOwners
    IN
    /\ AtStep("machine")
    /\ \/ /\ known \/ acceptable
          /\ extensions' = [extensions EXCEPT ![Target].machines = @ \union {Len(nodes)}]
          /\ Go("done")
       \/ /\ ~acceptable
          /\ Refuse /\ UNCHANGED extensions
    /\ UNCHANGED <<rejectsDuplicates, senders, config, nodes, passed>>

-----------------------------------------------------------------------------
(* test.sh and InstructionSender.sol                                       *)

\* A malformed address is a contract that is not there.
StartTest ==
    /\ config.sender # Absent /\ nodes # <<>>
    /\ Start("test", "bind", NoEnvironment, config.sender, 0)

\* setExtensionId: the first extension of this sender, once; "already set"
\* passes for success.
SetExtensionId ==
    LET bound == cmd.sender # Malformed /\ senders[cmd.sender] # 0
        found == cmd.sender # Malformed /\ Owners(cmd.sender) # {}
    IN
    /\ AtStep("bind")
    /\ \/ /\ bound
          /\ Go("hello") /\ UNCHANGED senders
       \/ /\ ~bound /\ found
          /\ senders' = [senders EXCEPT ![cmd.sender] = Least(Owners(cmd.sender))]
          /\ Go("hello")
       \/ /\ ~bound /\ ~found
          /\ Refuse /\ UNCHANGED senders
    /\ UNCHANGED <<rejectsDuplicates, extensions, config, nodes, passed>>

\* getRandomTeeIds (external) picks one of the extension's machines; only a
\* running node answers.
SendInstruction(step, next) ==
    /\ AtStep(step)
    /\ LET machines == extensions[senders[cmd.sender]].machines IN
       IF machines = {} THEN Refuse
       ELSE \E machine \in machines :
               Then([cmd EXCEPT !.at = next, !.machine = machine,
                                !.answered = machine = Len(nodes)])
    /\ UNCHANGED <<rejectsDuplicates, extensions, senders, config, nodes, passed>>

SendSayHello == SendInstruction("hello", "helloResult")
SendSayGoodbye == SendInstruction("goodbye", "goodbyeResult")

\* setExtensionId, sayHello and sayGoodbye are the transactions whose receipts
\* are waited for with no deadline: when one is dropped, or is mined and its
\* receipt never seen, the script waits for ever.
WaitForever ==
    /\ \/ /\ AtStep("bind") /\ cmd.sender # Malformed
          /\ senders[cmd.sender] = 0 /\ Owners(cmd.sender) # {}
          /\ senders' \in {senders, [senders EXCEPT ![cmd.sender] =
                                                        Least(Owners(cmd.sender))]}
       \/ /\ cmd.at \in {"hello", "goodbye"}
          /\ extensions[senders[cmd.sender]].machines # {}
          /\ UNCHANGED senders
    /\ deaths < MaxDeaths /\ deaths' = deaths + 1
    /\ cmd' = [cmd EXCEPT !.at = "hung"]
    /\ UNCHANGED <<rejectsDuplicates, extensions, config, nodes, passed>>

\* Fault: the poll goes on for as long as the node may answer.
FaultyResultTimeout ==
    /\ cmd.at \in {"helloResult", "goodbyeResult"}
    /\ cmd.answered /\ cmd.machine # Len(nodes)
    /\ Refuse
    /\ UNCHANGED <<rejectsDuplicates, extensions, senders, config, nodes, passed>>

\* ActionResult: no answer for some time, or none in time from a node that
\* was restarted.
ResultTimeout ==
    /\ cmd.at \in {"helloResult", "goodbyeResult"}
    /\ ~cmd.answered \/ cmd.machine # Len(nodes)
    /\ Refuse
    /\ UNCHANGED <<rejectsDuplicates, extensions, senders, config, nodes, passed>>

VerifyHelloResult ==
    /\ AtStep("helloResult")
    /\ cmd.answered
    /\ Go("goodbye")
    /\ UNCHANGED <<rejectsDuplicates, extensions, senders, config, nodes, passed>>

VerifyGoodbyeResult ==
    /\ AtStep("goodbyeResult")
    /\ cmd.answered
    /\ cmd' = NoScript
    /\ passed' = {[sender |-> cmd.sender, machine |-> cmd.machine]}
    /\ UNCHANGED <<rejectsDuplicates, extensions, senders, config, nodes, deaths>>

-----------------------------------------------------------------------------
(* The specification                                                       *)

\* A script is killed, a transaction is not mined in time, a call fails; one
\* that waits for ever can only be killed.
ScriptDies ==
    /\ cmd.at \notin Ended
    /\ IF cmd.at = "hung" THEN cmd' = NoScript /\ UNCHANGED deaths ELSE Kill
    /\ UNCHANGED <<rejectsDuplicates, extensions, senders, config, nodes, passed>>

Step ==
    \/ Preflight \/ DeployInstructionSender \/ RegisterExtension
    \/ AllowTeeMachineOwner \/ AllowTeeProjectOwner \/ AddSupportedKeyTypes
    \/ LeaveConfig \/ WriteConfig
    \/ AllowTeeVersion \/ SetTeeGovernance \/ RegisterTee
    \/ SetExtensionId \/ SendSayHello \/ SendSayGoodbye
    \/ ResultTimeout \/ VerifyHelloResult \/ VerifyGoodbyeResult

SetupNext ==
    \/ Step
    \/ \E env \in Environments :
          \/ StartPreBuild(env) \/ StartPostBuild(env)
          \/ \E sender \in DOMAIN senders : StartRegister(env, sender)
    \/ \E variables \in {Variables(env) : env \in Environments}, code \in Codes :
          StartNode(variables, code)
    \/ StartTest
    \/ WaitForever
    \/ ScriptDies

\* A script that runs goes on (the waits of CheckTx, deploy-contract and
\* ActionResult have deadlines), unless it is in WaitForever: of that nothing is
\* assumed, nor that anybody kills the script.
SetupSpec == SetupInit /\ [][SetupNext]_setupVars /\ WF_setupVars(Step)

-----------------------------------------------------------------------------
(* What should hold                                                        *)

Finished(i) ==
    /\ extensions[i].owner \in extensions[i].machineOwners \cap extensions[i].projectOwners
    /\ extensions[i].evm

\* What can be read from the config file, however the scripts that wrote it
\* ended, is an extension whose set-up is finished and its own sender (the
\* node and the test start from it); with the type invariant.
ConfigIsFinished ==
    /\ SetupTypeOK
    /\ WellFormed(config.id) => Finished(config.id)
    /\ WellFormed(config.sender) => extensions[config.id].sender = config.sender

\* Between two scripts: when the deploy and register steps of verify-deploy
\* have nothing to complain of, the extension of the file is set up for the deployer, and the
\* sender of the file is, or will be, bound to it; unless the lookup of the
\* extension it will be bound to failed, which R7 does not tell.
CleanReportMeansReady ==
    cmd = NoScript => \A env \in Environments :
        LET Report(step, dark) ==
                VerifyDeploy(step, env, Deployer(env), extensions, dark, config)
        IN  Clean(Report("deploy", {})) =>
            \A dark \in SUBSET DOMAIN extensions : Clean(Report("register", dark)) =>
                /\ WellFormed(config.id) /\ WellFormed(config.sender)
                /\ extensions[config.id].sender = config.sender
                /\ Deployer(env) \in extensions[config.id].machineOwners
                /\ extensions[config.id].evm
                /\ LET first == Least(Owners(config.sender)) IN
                   \/ first = config.id /\ senders[config.sender] \in {0, first}
                   \/ first \in dark

\* A test that passed was answered by a machine of the extension that both the
\* sender under test and the node name: not by one that some other extension
\* or sender had registered, in whatever order the scripts were run.
TestedMeansWired ==
    \A p \in passed :
        LET i == nodes[p.machine].extension IN
        senders[p.sender] = i /\ extensions[i].sender = p.sender

\* post-build.sh and test.sh can be run again after any failure: they fail by
\* themselves only if the node was restarted meanwhile, or
\*   post: the owner's or the deployer's key is not the one pre-build.sh used,
\*         the governance variables are not those the node was started with
\*         or ask for more signatures than there are signers, neither they nor
\*         INITIAL_OWNER are set and the owner is not the address
\*         docker-compose.yaml falls back to, or the node's build is not
\*         supported and the version's name stands for another;
\*   test: the file's sender is cut off, the first extension of the sender is
\*         not the node's, or the node is not the extension's only machine.
ScriptsFailForAReason ==
    cmd.at = "failed" /\ cmd.nodes = Len(nodes) =>
    CASE cmd.script = "pre" -> ~Clean(VerifyDeploy("deploy", cmd.env, Key, extensions, {}, NoPath))
      [] cmd.script = "register" -> Cardinality(Owners(cmd.sender)) >= 1
      [] cmd.script = "post" ->
            LET e == extensions[Node.extension] IN
            \/ ExtensionOwner(cmd.env) # e.owner
            \/ Key # e.owner
            \/ Variables(cmd.env) # Node.env
            \/ cmd.env.threshold > 1 /\ cmd.env.threshold > Cardinality(cmd.env.signers)
            \/ /\ cmd.env.signers = {} /\ cmd.env.initialOwner = Unset
               /\ e.owner # DevKey
            \/ /\ ~Supports(e, Node.code)
               /\ \E v \in e.versions : v.name = cmd.env.version
      [] cmd.script = "test" ->
            \/ cmd.sender = Malformed
            \/ Node.extension # Least(Owners(cmd.sender))
            \/ extensions[Node.extension].machines # {Len(nodes)}

\* Every script ends, or waits for the receipt of one of the three transactions
\* of test.sh that are given no deadline; an answer that does not come, from a
\* node that is gone or was restarted, keeps none waiting.
EveryScriptEnds == cmd.at \notin Ended ~> cmd.at \in Ended \union {"hung"}

\* The checks that look at the environment and the file only: with nothing to
\* complain of, verify-deploy has seen a usable file, reachable proxies, a
\* free port, and on another network than the local one a key of its own and
\* no simulated attestation.
EnvironmentChecksCatch(environments, files) ==
    \A env \in environments, f \in files :
        Clean(RegisterDeployChecks(env, f) \union RegisterServicesChecks(env, f)
                \union RegisterTeeVersionChecks(env, f)
                \union RegisterTeeMachineChecks(env) \union RegisterTestChecks(env, f))
        => /\ f.kind = "file" /\ WellFormed(f.id) /\ WellFormed(f.sender)
           /\ env.manager = "deployed" /\ env.funded /\ env.chainAnswers
           /\ env.proxy = "up" /\ env.normalProxy = "up" /\ ~env.portBusy
           /\ IsLocal(env) \/ env.deploymentKey # Absent
           /\ env.localMode = "false" => env.proxyKeySet /\ env.simulatedTee # "true"

\* Every environment and file that the checks can meet, a value of each kind.
AllEnvironments ==
    [deploymentKey : {Unset, DevKey}, ownerKey : {Unset, DevKey},
     manager : {"zero", "nocode", "deployed"}, funded : BOOLEAN, chainAnswers : BOOLEAN,
     localMode : {"true", "false", "", "other"}, proxyKeySet : BOOLEAN,
     simulatedTee : {"true", "false"}, proxy : {"unset", "up", "down"},
     normalProxy : {"unset", "up", "down"}, portBusy : BOOLEAN]
AllFiles ==
    {NoPath, NoFile} \union
    {ConfigFile(id, sender) : id, sender \in {Absent, Malformed, 1}}

\* Whatever the environment and the file, a verify-deploy without a complaint
\* has seen what the scripts need. It depends on no variable, and TLC need
\* evaluate it in one state only, the first.
ChecksCatch ==
    cmd = NoScript /\ senders = <<>> /\ deaths = 0 /\ ~rejectsDuplicates =>
        EnvironmentChecksCatch(AllEnvironments, AllFiles)
=============================================================================
