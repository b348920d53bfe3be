-------------------------- MODULE ExtensionContract --------------------------
(***************************************************************************)
(* What an extension server promises (extension/docs/extension-contract.md *)
(* section 5): handlers and reads of the state run one at a time.  So a    *)
(* request takes effect at one moment between its arrival and its answer,  *)
(* and no other request sees it half done.                                 *)
(*                                                                         *)
(* Outcomes(request, memory) is what a handler may make of the memory it   *)
(* finds: a set of [memory, answer].                                       *)
(***************************************************************************)
CONSTANTS Requests, Outcomes(_, _), Fresh, NoAnswer

VARIABLES
    memory,       \* what the handlers share
    answers       \* answers[request]

vars == <<memory, answers>>

Init ==
    /\ memory = Fresh
    /\ answers = [r \in Requests |-> NoAnswer]

Serve(r) ==
    /\ answers[r] = NoAnswer
    /\ \E outcome \in Outcomes(r, memory) :
          /\ memory' = outcome.memory
          /\ answers' = [answers EXCEPT ![r] = outcome.answer]

Next == \E r \in Requests : Serve(r)

Spec == Init /\ [][Next]_vars
=============================================================================
