------------------------------ MODULE MCServers ------------------------------
(* Both servers: the language is chosen at the start and the other server    *)
(* sleeps.                                                                   *)
EXTENDS Servers

CONSTANTS h1, h2, g1, s1, s2, x1,   \* to the Go server
          o1, o2, m1, m2, r1, z1    \* to the server of the venue

VARIABLE language

GoRequests == {h1, h2, g1, s1, s2, x1}
GoKind(r) ==
    CASE r \in {h1, h2} -> "hello" [] r = g1 -> "goodbye"
      [] r \in {s1, s2} -> "state" [] OTHER -> "failed"
ToVenue == {o1, o2, m1, m2, r1, z1}
KindToVenue(r) ==
    CASE r \in {o1, o2} -> "order" [] r \in {m1, m2} -> "match"
      [] r = r1 -> "state" [] OTHER -> "malformed"

MCInit ==
    /\ language \in {"go", "typescript"}
    /\ Init /\ Venue!Init

MCNext ==
    \/ language = "go" /\ Next /\ UNCHANGED <<language, venueVars>>
    \/ language = "typescript" /\ Venue!Next /\ UNCHANGED <<language, vars>>

allVars == <<language, vars, venueVars>>

MCSpec ==
    /\ MCInit /\ [][MCNext]_allVars
    /\ \A r \in GoRequests : WF_allVars(language = "go" /\ Step(r)
                                           /\ UNCHANGED <<language, venueVars>>)
    /\ WF_allVars(/\ language = "typescript"
                  /\ \E r \in VenueRequests : Venue!Handle(r)
                  /\ UNCHANGED <<language, vars>>)
    /\ WF_allVars(/\ language = "typescript" /\ Venue!Exit
                  /\ UNCHANGED <<language, vars>>)

\* Every request to the Go server is answered
\* (ExtensionServer!EveryRequestAnswered).
EveryGoRequestAnswered == language = "go" => EveryRequestAnswered

\* No request waits for ever behind a handler that failed
\* (HandlerQueue!EveryQueuedRequestSettles).
EveryQueuedRequestSettles == Venue!EveryQueuedRequestSettles
=============================================================================
