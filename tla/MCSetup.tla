------------------------------ MODULE MCSetup -------------------------------
(* The dev key and another account; an operator who configures nothing, one  *)
(* with a key of its own who keeps the dev address as INITIAL_OWNER, and two *)
(* whose account is empty: one who forgot INITIAL_OWNER, and one who asks    *)
(* for more signatures than there are signers.                               *)
EXTENDS ExtensionSetup

CONSTANT noEnvironment

Unconfigured ==
    [deploymentKey |-> Unset, ownerKey |-> Unset, initialOwner |-> Unset,
     signers |-> {}, threshold |-> 0, version |-> 1,
     manager |-> "deployed", funded |-> TRUE, chainAnswers |-> TRUE,
     localMode |-> "true", proxyKeySet |-> FALSE, simulatedTee |-> "true",
     proxy |-> "up", normalProxy |-> "up", portBusy |-> FALSE]
Configured == [Unconfigured EXCEPT !.deploymentKey = 2, !.initialOwner = 1,
                                   !.localMode = "false"]
Forgetful == [Unconfigured EXCEPT !.deploymentKey = 2, !.funded = FALSE]
Mistaken == [Forgetful EXCEPT !.signers = {2}, !.threshold = 2]
MCEnvironments == {Unconfigured, Configured, Forgetful, Mistaken}

\* Scope: one operator has all extensions (another may run the later scripts);
\* nodes are restarted with the variables of the first, which do not ask for
\* two signatures; the first build is build 1 (builds are interchangeable).
InScope ==
    /\ \A i \in DOMAIN extensions : extensions[i].owner = extensions[1].owner
    /\ \A n \in DOMAIN nodes : nodes[n].env = nodes[1].env /\ nodes[n].env.threshold < 2
    /\ nodes # <<>> => nodes[1].code = 1
=============================================================================
