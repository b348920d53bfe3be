--------------------------- MODULE ExtensionServer ---------------------------
(***************************************************************************)
(* extension/go/internal/extension: the platform's sample extension in Go. *)
(* net/http runs every request in a goroutine of its own, and a RWMutex    *)
(* guards the two counters and the two last texts.  Every access to one of *)
(* these fields is a step.                                                 *)
(***************************************************************************)
EXTENDS Naturals, FiniteSets

CONSTANTS
    Requests,
    Kind(_),      \* "hello", "goodbye", "state" or what is refused, below
    None

\* Refused before the lock: JSON that does not parse (400), an unknown op type
\* or command (501), a payload that does not decode or has no name (status 0).
Refusals == {"bad request", "not implemented", "failed"}
Greetings == {"hello", "goodbye"}

ASSUME NoneIsNoRequest == None \notin Requests
ASSUME KindsAreKnown ==
    \A r \in Requests : Kind(r) \in Greetings \union Refusals \union {"state"}

VARIABLES
    count,        \* greetingCount, farewellCount
    last,         \* lastGreeting, lastFarewell: whose text it is
    writer,       \* who holds the mutex
    readers,      \* who holds it for reading
    pc,
    number,       \* the local greetingNumber or farewellNumber
    snapshot      \* the local stateResponse

fields == <<count, last>>
vars == <<count, last, writer, readers, pc, number, snapshot>>

Nobody == [k \in Greetings |-> None]
NoCount == [k \in Greetings |-> 0]
Snapshots == [count : [Greetings -> Nat], last : [Greetings -> Requests \union {None}]]
NoSnapshot == [count |-> NoCount, last |-> Nobody]

TypeOK ==
    /\ count \in [Greetings -> Nat]
    /\ last \in [Greetings -> Requests \union {None}]
    /\ writer \in Requests \union {None}
    /\ readers \subseteq Requests
    /\ pc \in [Requests -> {"sent", "ready", "locked", "counted", "numbered",
                            "set", "reading", "half read", "answered"}]
    /\ number \in [Requests -> Nat]
    /\ snapshot \in [Requests -> Snapshots]

Init ==
    /\ count = NoCount
    /\ last = Nobody
    /\ writer = None
    /\ readers = {}
    /\ pc = [r \in Requests |-> "sent"]
    /\ number = [r \in Requests |-> 0]
    /\ snapshot = [r \in Requests |-> NoSnapshot]

Go(r, from, to) == pc[r] = from /\ pc' = [pc EXCEPT ![r] = to]

-----------------------------------------------------------------------------

\* actionHandler, processAction and processGreeting up to the handler's lock.
Decode(r) ==
    /\ Go(r, "sent", IF Kind(r) \in Refusals THEN "answered" ELSE "ready")
    /\ UNCHANGED <<fields, writer, readers, number, snapshot>>

\* Fault: the handlers do not lock.
FaultyLock(r) ==
    /\ Kind(r) \in Greetings
    /\ Go(r, "ready", "locked")
    /\ UNCHANGED <<fields, writer, readers, number, snapshot>>

Lock(r) ==
    /\ Kind(r) \in Greetings
    /\ Go(r, "ready", "locked")
    /\ writer = None /\ readers = {}
    /\ writer' = r
    /\ UNCHANGED <<fields, readers, number, snapshot>>

\* greetingCount++
Count(r) ==
    /\ Go(r, "locked", "counted")
    /\ count' = [count EXCEPT ![Kind(r)] = @ + 1]
    /\ UNCHANGED <<last, writer, readers, number, snapshot>>

\* greetingNumber := greetingCount
Number(r) ==
    /\ Go(r, "counted", "numbered")
    /\ number' = [number EXCEPT ![r] = count[Kind(r)]]
    /\ UNCHANGED <<fields, writer, readers, snapshot>>

\* lastGreeting = greeting
SetLast(r) ==
    /\ Go(r, "numbered", "set")
    /\ last' = [last EXCEPT ![Kind(r)] = r]
    /\ UNCHANGED <<count, writer, readers, number, snapshot>>

\* Fault: one of the handlers returns without unlocking.
FaultyUnlock(r) ==
    /\ Go(r, "set", "answered")
    /\ writer' = IF Kind(r) = "goodbye" THEN writer ELSE None
    /\ UNCHANGED <<fields, readers, number, snapshot>>

\* Unlock, and the answer.
Unlock(r) ==
    /\ Go(r, "set", "answered")
    /\ writer' = None
    /\ UNCHANGED <<fields, readers, number, snapshot>>

\* stateHandler: the fields are copied while nobody can write.
ReadLock(r) ==
    /\ Kind(r) = "state"
    /\ Go(r, "ready", "reading")
    /\ writer = None
    /\ readers' = readers \union {r}
    /\ UNCHANGED <<fields, writer, number, snapshot>>

ReadCount(r) ==
    /\ Go(r, "reading", "half read")
    /\ snapshot' = [snapshot EXCEPT ![r].count = count]
    /\ UNCHANGED <<fields, writer, readers, number>>

ReadUnlock(r) ==
    /\ Go(r, "half read", "answered")
    /\ snapshot' = [snapshot EXCEPT ![r].last = last]
    /\ readers' = readers \ {r}
    /\ UNCHANGED <<fields, writer, number>>

Step(r) ==
    \/ Decode(r)
    \/ Lock(r) \/ Count(r) \/ Number(r) \/ SetLast(r) \/ Unlock(r)
    \/ ReadLock(r) \/ ReadCount(r) \/ ReadUnlock(r)

Next == \E r \in Requests : Step(r)

Spec == Init /\ [][Next]_vars

\* The Go scheduler runs every goroutine that can run, and a RWMutex lets
\* nobody wait for ever.
LiveSpec == Spec /\ \A r \in Requests : WF_vars(Step(r))

-----------------------------------------------------------------------------
(* Properties                                                              *)

\* A handler takes effect at its last assignment; before that the abstract
\* counters are what they were without it.
HalfDone(k) == {r \in Requests : Kind(r) = k /\ pc[r] \in {"counted", "numbered"}}
Memory == [count |-> [k \in Greetings |-> count[k] - Cardinality(HalfDone(k))],
           last |-> last]

Answer(r) ==
    CASE pc[r] \in {"set", "answered"} /\ Kind(r) \in Greetings ->
            [status |-> "done", number |-> number[r], state |-> NoSnapshot]
      [] pc[r] = "answered" /\ Kind(r) = "state" ->
            [status |-> "done", number |-> 0, state |-> snapshot[r]]
      [] pc[r] = "answered" /\ Kind(r) \in Refusals ->
            [status |-> Kind(r), number |-> 0, state |-> NoSnapshot]
      [] OTHER -> None

\* A greeting counts, is numbered by the counter and becomes the last; a read
\* of the state finds counters and texts of the same moment.
Outcomes(r, m) ==
    {CASE Kind(r) \in Greetings ->
            [memory |-> [count |-> [m.count EXCEPT ![Kind(r)] = @ + 1],
                         last |-> [m.last EXCEPT ![Kind(r)] = r]],
             answer |-> [status |-> "done", number |-> m.count[Kind(r)] + 1,
                         state |-> NoSnapshot]]
       [] Kind(r) = "state" ->
            [memory |-> m, answer |-> [status |-> "done", number |-> 0, state |-> m]]
       [] OTHER ->
            [memory |-> m, answer |-> [status |-> Kind(r), number |-> 0,
                                       state |-> NoSnapshot]]}

Contract == INSTANCE ExtensionContract
                WITH memory <- Memory, answers <- [r \in Requests |-> Answer(r)],
                     Fresh <- NoSnapshot, NoAnswer <- None

\* However the goroutines interleave, numbers are given out without gap or
\* repetition, the last text belongs to the last number, and a state read sees
\* no handler half done ("a state read never observes a half-applied
\* mutation", extension-contract.md section 5).
ServesOneAtATime == Contract!Spec

\* Every request is answered, so the lock is released on every way.
EveryRequestAnswered == \A r \in Requests : <>(pc[r] = "answered")
=============================================================================
