---------------------------- MODULE DeployChecks ----------------------------
(***************************************************************************)
(* extension/tools/pkg/validate, run by tools/cmd/verify-deploy: what the  *)
(* operator is told about a deployment.  A report is a set of results, one *)
(* per check; the step a check belongs to, its name, message and fix are   *)
(* left out.                                                               *)
(*                                                                         *)
(* A config file (config/extension.env) holds two values, each absent,     *)
(* malformed or well-formed; extension ids, addresses and keys are         *)
(* positive numbers.  The registry numbers its public extensions from      *)
(* 65536 (InstructionSender.sol:33), here they are numbered from 1: the    *)
(* ids below, at which R7 looks too, have no sender to match.              *)
(***************************************************************************)
EXTENDS Integers, Sequences, FiniteSets

Absent == 0
Malformed == -1

\* extensionIDRegex and addressRegex: a value of exactly the right length.
WellFormed(value) == value \notin {Absent, Malformed}

NoFile == [kind |-> "missing", id |-> Absent, sender |-> Absent]
NoPath == [kind |-> "nopath", id |-> Absent, sender |-> Absent]
ConfigFile(id, sender) == [kind |-> "file", id |-> id, sender |-> sender]

Result(id, status) == {[id |-> id, status |-> status]}
Check(id, ok, otherwise) == Result(id, IF ok THEN "PASS" ELSE otherwise)
Has(results, statuses) == \E r \in results : r.status \in statuses

\* LOCAL_MODE: only these two values count as local ...
IsLocal(env) == env.localMode \in {"true", ""}

-----------------------------------------------------------------------------
(* validate.go                                                             *)

AddressNotZero(env) == env.manager # "zero"
AddressHasCode(env) == env.manager = "deployed"
KeyHasFunds(env) == env.funded

-----------------------------------------------------------------------------
(* One operator per step of the deployment                                 *)

\* D5: the hard-coded development key is used when none is set.
CheckDeployerKeySource(env) ==
    Check("D5", env.deploymentKey # Absent \/ IsLocal(env), "WARN")

\* D7
CheckExtensionEnvFormat(file) ==
    IF file.kind = "missing" THEN Result("D7", "SKIP")
    ELSE Check("D7", WellFormed(file.sender), "FAIL")
            \union Check("D7", WellFormed(file.id), "FAIL")

\* The code of a zero address is not looked up.
RegisterDeployChecks(env, file) ==
    Check("D3", AddressNotZero(env), "FAIL")
        \union (IF AddressNotZero(env)
                THEN Check("D1", AddressHasCode(env), "FAIL") ELSE {})
        \union CheckDeployerKeySource(env)
        \union Check("D5", KeyHasFunds(env), "FAIL")
        \union Check("D6", env.chainAnswers, "FAIL")
        \union (IF file.kind = "nopath" THEN {} ELSE CheckExtensionEnvFormat(file))

\* Fault: the newest extension is not looked at.
FaultyMatchingIds(extensions, dark, sender) ==
    {i \in 1..(Len(extensions) - 1) : i \notin dark /\ extensions[i].sender = sender}

\* R7's loop over all ids from 0 to below NextPublicExtensionId; a lookup that fails is skipped.
MatchingIds(extensions, dark, sender) ==
    {i \in DOMAIN extensions : i \notin dark /\ extensions[i].sender = sender}

\* R1, R2, R3, R4, R7. dark: the extensions whose lookups fail; an id no
\* extension has is answered with the zero address and with "no". R1 warns of
\* a counter of 0, which it is not even when there is no public extension.
RegisterRegistrationChecks(extensions, dark, key, file) ==
    LET known == file.id \in DOMAIN extensions
        Lookup(id, ok) == Check(id, file.id \notin dark /\ known /\ ok, "FAIL")
        sender == IF known THEN extensions[file.id].sender ELSE Absent
    IN  CASE file.kind = "nopath" \/ (file.id = Absent /\ file.sender = Absent) ->
                Result("R1-R7", "SKIP")
          [] file.id = Malformed \/ (file.id = Absent /\ file.sender # Absent) ->
                Result("R1", "PASS") \union Result("R2", "FAIL")
          [] OTHER ->
                Result("R1", "PASS")
                  \union (IF WellFormed(file.sender)
                          THEN Lookup("R2", sender = file.sender) ELSE {})
                  \union Lookup("R3", key \in extensions[file.id].machineOwners)
                  \union Lookup("R4", extensions[file.id].evm)
                  \union (IF WellFormed(file.sender)
                          THEN Check("R7", Cardinality(MatchingIds(extensions, dark,
                                                          file.sender)) <= 1, "WARN")
                          ELSE {})

\* S9, V6, T5, T10 and E3: GET /info of a proxy.
ProxyCheck(id, proxy) ==
    IF proxy = "unset" THEN Result(id, "SKIP") ELSE Check(id, proxy = "up", "WARN")

\* S2 (which fails when the file is missing), S5, S7, S9, S10
RegisterServicesChecks(env, file) ==
    (IF file.kind = "nopath" THEN Result("S2", "SKIP")
     ELSE Check("S2", WellFormed(file.id), "FAIL"))
        \union Check("S5", ~env.portBusy, "WARN")
        \union Result("S7", "PASS")
        \union ProxyCheck("S9", env.proxy)
        \union Check("S10", env.localMode # "false" \/ env.proxyKeySet, "WARN")

\* V2, V4, V6
RegisterTeeVersionChecks(env, file) ==
    Check("V2", env.ownerKey # Absent \/ env.deploymentKey # Absent \/ IsLocal(env), "WARN")
        \union (IF file.kind # "file" THEN Result("V4", "SKIP")
                ELSE Check("V4", WellFormed(file.id), "FAIL"))
        \union ProxyCheck("V6", env.proxy)

\* Fault: the warning about simulated attestation is lost.
FaultyRegisterTeeMachineChecks(env) ==
    ProxyCheck("T5", env.normalProxy) \union ProxyCheck("T10", env.proxy)

\* T1, T5, T10
RegisterTeeMachineChecks(env) ==
    Check("T1", ~(env.simulatedTee = "true" /\ env.localMode = "false"), "WARN")
        \union ProxyCheck("T5", env.normalProxy)
        \union ProxyCheck("T10", env.proxy)

\* E1, E3, E6
RegisterTestChecks(env, file) ==
    (IF file.kind # "file" THEN Result("E1", "SKIP")
     ELSE Check("E1", WellFormed(file.sender), "FAIL"))
        \union ProxyCheck("E3", env.proxy)
        \union Result("E6", "PASS")

-----------------------------------------------------------------------------
(* verify-deploy                                                           *)

\* The switch on --step.
VerifyDeploy(step, env, key, extensions, dark, file) ==
    LET In(s) == step \in {s, "all"} IN
    UNION {IF In("deploy") THEN RegisterDeployChecks(env, file) ELSE {},
           IF In("register")
           THEN RegisterRegistrationChecks(extensions, dark, key, file) ELSE {},
           IF In("services") THEN RegisterServicesChecks(env, file) ELSE {},
           IF In("tee-version") THEN RegisterTeeVersionChecks(env, file) ELSE {},
           IF In("tee-machine") THEN RegisterTeeMachineChecks(env) ELSE {},
           IF In("test") THEN RegisterTestChecks(env, file) ELSE {}}

\* Nothing to complain of: every check that was made passed, none was skipped.
Clean(results) == ~Has(results, {"WARN", "FAIL", "SKIP"})
=============================================================================
