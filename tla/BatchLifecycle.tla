--------------------------- MODULE BatchLifecycle ---------------------------
(***************************************************************************)
(* What the venue promises about batches, with no contract, enclave or     *)
(* clock in it.  Batches are numbered from 1 and handled one at a time.  A *)
(* batch is empty until its first order opens it; an open batch may be     *)
(* closed, which asks the enclave once to clear it; a closed batch may     *)
(* settle; an open or a closed one may be abandoned.  Either way it ends   *)
(* exactly once, and the next number follows.  OrderBook implements this   *)
(* specification.                                                          *)
(***************************************************************************)
EXTENDS Naturals, Sequences

VARIABLES
    id,       \* number of the batch in hand
    phase,    \* "empty", "open" or "closed"
    asked,    \* how often the enclave was asked to clear it
    ended     \* ended[b] is how batch b ended

vars == <<id, phase, asked, ended>>

Init ==
    /\ id = 1
    /\ phase = "empty"
    /\ asked = 0
    /\ ended = <<>>

Open ==
    /\ phase = "empty"
    /\ phase' = "open"
    /\ UNCHANGED <<id, asked, ended>>

Close ==
    /\ phase = "open"
    /\ phase' = "closed"
    /\ asked' = asked + 1
    /\ UNCHANGED <<id, ended>>

End(outcome) ==
    /\ id' = id + 1
    /\ phase' = "empty"
    /\ asked' = 0
    /\ ended' = Append(ended, outcome)

Settle ==
    /\ phase = "closed"
    /\ End("advanced")

Void ==
    /\ phase \in {"open", "closed"}
    /\ End("voided")

Next == Open \/ Close \/ Settle \/ Void

Spec == Init /\ [][Next]_vars
=============================================================================
