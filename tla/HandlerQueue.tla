---------------------------- MODULE HandlerQueue ----------------------------
(***************************************************************************)
(* extension/typescript/src/base/server.ts with the handlers of            *)
(* app/handlers.ts: the server of the venue.  Node runs one piece of code  *)
(* at a time but changes between requests at every await, and both         *)
(* handlers await tee-node: an order while it is decrypted, a match while  *)
(* it is signed, between reading the book and consuming it.  A queue of    *)
(* promises keeps the next handler back until the last one has settled.    *)
(*                                                                         *)
(* The book is that of one batch.  Whether an order is refused once it is  *)
(* open (parseOrder, commit) is left to chance, as it is Enclave's         *)
(* subject.  Requests to tee-node end, by their own timeout if need be.    *)
(***************************************************************************)
EXTENDS Sequences, Naturals

CONSTANTS
    Requests,
    Kind(_),      \* "order", "match", "state", "malformed"
    None

VARIABLES
    book,         \* orders accepted and not matched
    cleared,      \* lastClearedBatch is this batch
    queue,        \* requests whose handler has not settled, in order
    pc,
    local,        \* the book that handleRunMatch has cleared
    answer,       \* what was answered
    rejected,     \* a handler has thrown
    up            \* the process lives

memory == <<book, cleared>>
vars == <<memory, queue, pc, local, answer, rejected, up>>

Status(status) == [status |-> status, orders |-> 0, matched |-> <<>>, cleared |-> FALSE]
Answers == [status : {0, 1, 4}, orders : Nat, matched : Seq(Requests), cleared : BOOLEAN]
Failed == Status(0)
Refused == Status(4)      \* 400, 404, 405, 501
Accepted(orders) == [Status(1) EXCEPT !.orders = orders]
Matched(orders) == [Status(1) EXCEPT !.matched = orders]
Snapshot(orders, done) == [Status(1) EXCEPT !.orders = orders, !.cleared = done]

TypeOK ==
    /\ book \in Seq(Requests)
    /\ cleared \in BOOLEAN
    /\ queue \in Seq(Requests)
    /\ \A i, j \in 1..Len(queue) : queue[i] = queue[j] => i = j
    /\ pc \in [Requests -> {"sent", "queued", "awaiting", "settled"}]
    /\ local \in [Requests -> Seq(Requests)]
    /\ \A r \in Requests : answer[r] # None => answer[r] \in Answers
    /\ rejected \in BOOLEAN
    /\ up \in BOOLEAN

Init ==
    /\ book = <<>>
    /\ cleared = FALSE
    /\ queue = <<>>
    /\ pc = [r \in Requests |-> "sent"]
    /\ local = [r \in Requests |-> <<>>]
    /\ answer = [r \in Requests |-> None]
    /\ rejected = FALSE
    /\ up = TRUE

-----------------------------------------------------------------------------

\* handleRequest and processAction up to the queue.
Arrive(r) ==
    /\ up /\ pc[r] = "sent"
    /\ IF Kind(r) = "malformed"
       THEN /\ pc' = [pc EXCEPT ![r] = "settled"]
            /\ answer' = [answer EXCEPT ![r] = Refused]
            /\ UNCHANGED queue
       ELSE /\ pc' = [pc EXCEPT ![r] = "queued"]
            /\ queue' = Append(queue, r)
            /\ UNCHANGED answer
    /\ UNCHANGED <<memory, local, rejected, up>>

\* Fault: a handler runs as soon as its request is there.
FaultyMayRun(r) == pc[r] = "queued"

\* serialize: a handler runs when those before it have settled.
MayRun(r) == pc[r] = "queued" /\ Head(queue) = r

\* Fault: the queue goes on only when the handler resolves with a success.
FaultySettle(r, result) ==
    /\ pc' = [pc EXCEPT ![r] = "settled"]
    /\ answer' = [answer EXCEPT ![r] = result]
    /\ queue' = IF result.status = 1 THEN Tail(queue) ELSE queue
    /\ UNCHANGED <<local, rejected, up>>

\* The handler settles, which lets the next one run, and is answered.
Settle(r, result) ==
    /\ pc' = [pc EXCEPT ![r] = "settled"]
    /\ answer' = [answer EXCEPT ![r] = result]
    /\ queue' = Tail(queue)
    /\ UNCHANGED <<local, rejected, up>>

Await(r, orders) ==
    /\ pc' = [pc EXCEPT ![r] = "awaiting"]
    /\ local' = [local EXCEPT ![r] = orders]
    /\ UNCHANGED <<memory, queue, answer, rejected, up>>

\* reportState has no await.
State(r) ==
    /\ up /\ MayRun(r) /\ Kind(r) = "state"
    /\ Settle(r, Snapshot(Len(book), cleared))
    /\ UNCHANGED memory

\* handleSubmitOrder to its await.
SubmitOrder(r) ==
    /\ up /\ MayRun(r) /\ Kind(r) = "order"
    /\ \/ Await(r, <<>>)
       \/ Settle(r, Failed) /\ UNCHANGED memory      \* no envelope, no ciphertext

\* And from there: the order is refused, or joins the book.
Decrypted(r) ==
    /\ up /\ pc[r] = "awaiting" /\ Kind(r) = "order"
    /\ \/ Settle(r, Failed) /\ UNCHANGED book
       \/ Settle(r, Accepted(Len(book) + 1)) /\ book' = Append(book, r)
    /\ UNCHANGED cleared

\* handleRunMatch to its await: the book is read and cleared.
RunMatch(r) ==
    /\ up /\ MayRun(r) /\ Kind(r) = "match"
    /\ \/ book # <<>> /\ Await(r, book)
       \/ Settle(r, Failed) /\ UNCHANGED memory      \* no envelope, or no orders

\* And from there: signing failed, or the book is consumed.
Signed(r) ==
    /\ up /\ pc[r] = "awaiting" /\ Kind(r) = "match"
    /\ \/ Settle(r, Failed) /\ UNCHANGED memory
       \/ Settle(r, Matched(local[r])) /\ book' = <<>> /\ cleared' = TRUE

\* A handler throws: commit's other errors, clear and encodeSettlement are not
\* caught.  The queue goes on, nothing is answered, and nobody handles the
\* rejection of serve.
Throw(r) ==
    /\ up
    /\ \/ MayRun(r) /\ Kind(r) = "match" /\ book # <<>>
       \/ pc[r] = "awaiting" /\ Kind(r) = "order"
    /\ pc' = [pc EXCEPT ![r] = "settled"]
    /\ queue' = Tail(queue)
    /\ rejected' = TRUE
    /\ UNCHANGED <<memory, local, answer, up>>

\* Node ends a process with an unhandled rejection; what is still to run before
\* that may run.
Exit ==
    /\ up /\ rejected
    /\ up' = FALSE
    /\ UNCHANGED <<memory, queue, pc, local, answer, rejected>>

Handle(r) ==
    \/ State(r) \/ SubmitOrder(r) \/ Decrypted(r) \/ RunMatch(r) \/ Signed(r)

Next ==
    \/ \E r \in Requests : Arrive(r) \/ Handle(r) \/ Throw(r)
    \/ Exit

Spec == Init /\ [][Next]_vars

\* What can run is run (Node's event loop; requests to tee-node time out after
\* 30 seconds).  No request has to be sent, and no handler has to throw.
LiveSpec == Spec /\ WF_vars(\E r \in Requests : Handle(r)) /\ WF_vars(Exit)

-----------------------------------------------------------------------------
(* Properties                                                              *)

\* What Enclave takes a handler for: one step from memory to memory.
Outcomes(r, m) ==
    LET failed == [memory |-> m, answer |-> Failed] IN
    CASE Kind(r) = "malformed" -> {[memory |-> m, answer |-> Refused]}
      [] Kind(r) = "state" ->
            {[memory |-> m, answer |-> Snapshot(Len(m.book), m.cleared)]}
      [] Kind(r) = "order" ->
            {failed, [memory |-> [m EXCEPT !.book = Append(@, r)],
                      answer |-> Accepted(Len(m.book) + 1)]}
      [] OTHER ->
            {failed} \union
            IF m.book = <<>> THEN {}
            ELSE {[memory |-> [book |-> <<>>, cleared |-> TRUE],
                   answer |-> Matched(m.book)]}

Contract == INSTANCE ExtensionContract
                WITH memory <- [book |-> book, cleared |-> cleared], answers <- answer,
                     Fresh <- [book |-> <<>>, cleared |-> FALSE], NoAnswer <- None

\* Although handlers await in the middle, each has the effect of one step: no
\* order is accepted into a book that a match has read and not yet consumed,
\* and lost with it, and no book is consumed without its result being answered.
HandlersAreAtomic == Contract!Spec

\* A handler that fails, or throws, does not keep the others waiting for ever
\* ("cannot wedge the server"); at worst the process ends.
EveryQueuedRequestSettles ==
    \A r \in Requests : pc[r] = "queued" ~> (pc[r] = "settled" \/ ~up)
=============================================================================
