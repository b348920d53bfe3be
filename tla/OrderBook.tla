------------------------------ MODULE OrderBook ------------------------------
(***************************************************************************)
(* contracts/src/OrderBook.sol: the batch lifecycle, on chain.             *)
(*                                                                         *)
(* A transaction is atomic, so every external function is one action; a    *)
(* revert leaves the state alone, so it is the action being disabled.  The *)
(* two Flare registries are external: which machine getRandomTeeIds draws  *)
(* is arbitrary, and sendInstructions may refuse any call, which is again  *)
(* the calling action not being taken.  It returns an id that is new for   *)
(* every call, so that the same request made twice is two instructions.    *)
(* A transaction with an empty ciphertext reverts, so Ciphertexts holds    *)
(* non-empty ones only.                                                    *)
(***************************************************************************)
EXTENDS Naturals, Sequences, FiniteSets

CONSTANTS
    Accounts,        \* addresses that send transactions
    Tees,            \* TEE machine addresses
    None,            \* address(0)
    ExtensionIds,    \* ids the registry may have given this contract
    Amounts,         \* vault balances a submitter may hold
    Ciphertexts,     \* opaque, non-empty
    Durations,       \* values the owner uses for the two delays
    U64, U32,        \* largest uint64 and uint32
    MaxBatch,        \* bound: last batch that accepts orders
    MaxOrders,       \* bound: orders submitted to one batch
    OpenBy, MaxTime  \* bounds: latest opening time, end of the clock

ASSUME NoneIsNoAddress == None \notin Accounts \union Tees
ASSUME DurationsAreUint64 == Durations \subseteq 0..U64
ASSUME WidthsAreNat == U64 \in Nat /\ U32 \in Nat \ {0}
ASSUME ClockFits == OpenBy \in Nat /\ MaxTime \in Nat /\ MaxTime <= U64
ASSUME IdsAndAmounts ==
    /\ ExtensionIds \subseteq Nat \ {0}
    /\ Amounts \subseteq Nat
    /\ MaxBatch \in Nat
    /\ MaxOrders \in Nat

VARIABLES
    extensionId,       \* 0 until setExtensionId has found it
    owner, settlement,
    minBatchDuration, voidDelay,
    currentBatchId, batchTee, batchOpenedAt, orderCount, batchClosed,
    now,               \* block.timestamp
    sent,              \* every instruction the registry has accepted
    ended              \* BatchAdvanced / BatchVoided events, in order

adminVars == <<extensionId, owner, settlement, minBatchDuration, voidDelay>>
batchVars == <<currentBatchId, batchTee, batchOpenedAt, orderCount, batchClosed>>
vars == <<adminVars, batchVars, now, sent, ended>>

SubmitMessages ==
    [cmd : {"SUBMIT_ORDER"}, tee : Tees, batch : Nat, id : Nat,
     sender : Accounts, base : Nat, quote : Nat, ciphertext : Ciphertexts]
MatchMessages == [cmd : {"RUN_MATCH"}, tee : Tees, batch : Nat, id : Nat]

TypeOK ==
    /\ extensionId \in ExtensionIds \union {0}
    /\ owner \in Accounts
    /\ settlement \in Accounts \union {None}
    /\ minBatchDuration \in 0..U64
    /\ voidDelay \in 0..U64
    /\ currentBatchId \in Nat \ {0}
    /\ batchTee \in Tees \union {None}
    /\ batchOpenedAt \in 0..U64
    /\ orderCount \in 0..U32
    /\ batchClosed \in BOOLEAN
    /\ now \in 0..MaxTime
    /\ IsFiniteSet(sent) /\ sent \subseteq SubmitMessages \union MatchMessages
    /\ ended \in Seq({"advanced", "voided"})

Init ==
    /\ extensionId = 0
    /\ owner \in Accounts
    /\ settlement = None
    /\ minBatchDuration \in Durations
    /\ voidDelay \in Durations
    /\ currentBatchId = 1
    /\ batchTee = None
    /\ batchOpenedAt = 0
    /\ orderCount = 0
    /\ batchClosed = FALSE
    /\ now = 0
    /\ sent = {}
    /\ ended = <<>>

-----------------------------------------------------------------------------
(* Trading                                                                 *)

NextInstruction == Cardinality(sent)
Orders(b) == {m \in sent : m.cmd = "SUBMIT_ORDER" /\ m.batch = b}
Matches(b) == {m \in sent : m.cmd = "RUN_MATCH" /\ m.batch = b}

\* Checked uint64 addition: a delay that overflows reverts like a young batch.
HasElapsed(delay) ==
    /\ batchOpenedAt + delay <= U64
    /\ now >= batchOpenedAt + delay

\* Fault: every order draws anew.
FaultyPinnedTee(drawn) ==
    /\ extensionId # 0
    /\ now <= OpenBy
    /\ batchTee' = drawn
    /\ batchOpenedAt' = now

\* _pinnedTee: the first order draws a machine, every later one reuses it.
PinnedTee(drawn) ==
    \/ /\ batchTee # None
       /\ drawn = batchTee
       /\ UNCHANGED <<batchTee, batchOpenedAt>>
    \/ /\ batchTee = None
       /\ extensionId # 0
       /\ now <= OpenBy
       /\ batchTee' = drawn
       /\ batchOpenedAt' = now

\* An unchecked uint32 increment: after U32 comes 0.
BumpOrderCount ==
    orderCount' = IF orderCount = U32 THEN 0 ELSE orderCount + 1

\* Fault: a closed batch still takes orders.
FaultySubmitOrder(sender, base, quote, ciphertext, drawn) ==
    /\ currentBatchId <= MaxBatch
    /\ Cardinality(Orders(currentBatchId)) < MaxOrders
    /\ base # 0 \/ quote # 0
    /\ PinnedTee(drawn)
    /\ sent' = sent \union
           {[cmd |-> "SUBMIT_ORDER", tee |-> drawn, batch |-> currentBatchId,
             id |-> NextInstruction, sender |-> sender, base |-> base,
             quote |-> quote, ciphertext |-> ciphertext]}
    /\ BumpOrderCount
    /\ UNCHANGED <<adminVars, currentBatchId, batchClosed, now, ended>>

SubmitOrder(sender, base, quote, ciphertext, drawn) ==
    /\ currentBatchId <= MaxBatch
    /\ Cardinality(Orders(currentBatchId)) < MaxOrders
    /\ ~batchClosed
    /\ base # 0 \/ quote # 0
    /\ PinnedTee(drawn)
    /\ sent' = sent \union
           {[cmd |-> "SUBMIT_ORDER", tee |-> drawn, batch |-> currentBatchId,
             id |-> NextInstruction, sender |-> sender, base |-> base,
             quote |-> quote, ciphertext |-> ciphertext]}
    /\ BumpOrderCount
    /\ UNCHANGED <<adminVars, currentBatchId, batchClosed, now, ended>>

RequestMatch ==
    /\ batchClosed' = TRUE
    /\ sent' = sent \union
           {[cmd |-> "RUN_MATCH", tee |-> batchTee, batch |-> currentBatchId,
             id |-> NextInstruction]}
    /\ UNCHANGED <<adminVars, currentBatchId, batchTee, batchOpenedAt,
                   orderCount, now, ended>>

\* Faults: an empty batch can be closed; a closed batch can be closed again.
FaultyCloseBatch ==
    /\ ~batchClosed
    /\ HasElapsed(minBatchDuration)
    /\ RequestMatch
FaultyCloseAgain ==
    /\ orderCount # 0
    /\ HasElapsed(minBatchDuration)
    /\ RequestMatch

CloseBatch ==
    /\ ~batchClosed
    /\ orderCount # 0
    /\ HasElapsed(minBatchDuration)
    /\ RequestMatch

\* Fault: the next batch keeps the machine.
FaultyKeepTee(outcome) ==
    /\ currentBatchId' = currentBatchId + 1
    /\ batchOpenedAt' = 0
    /\ orderCount' = 0
    /\ batchClosed' = FALSE
    /\ ended' = Append(ended, outcome)
    /\ UNCHANGED <<adminVars, now, sent, batchTee>>

NextBatch(outcome) ==
    /\ currentBatchId' = currentBatchId + 1
    /\ batchTee' = None
    /\ batchOpenedAt' = 0
    /\ orderCount' = 0
    /\ batchClosed' = FALSE
    /\ ended' = Append(ended, outcome)
    /\ UNCHANGED <<adminVars, now, sent>>

AdvanceBatch(caller) ==
    /\ caller = settlement
    /\ batchClosed
    /\ NextBatch("advanced")

\* Faults: only a closed batch can be voided; voiding reuses the batch number.
FaultyVoidBatch ==
    /\ batchClosed
    /\ HasElapsed(voidDelay)
    /\ NextBatch("voided")
FaultyVoidInPlace ==
    /\ orderCount # 0 \/ batchClosed
    /\ HasElapsed(voidDelay)
    /\ batchTee' = None
    /\ batchOpenedAt' = 0
    /\ orderCount' = 0
    /\ batchClosed' = FALSE
    /\ UNCHANGED <<adminVars, currentBatchId, now, sent, ended>>

VoidBatch ==
    /\ orderCount # 0 \/ batchClosed
    /\ HasElapsed(voidDelay)
    /\ NextBatch("voided")

-----------------------------------------------------------------------------
(* Administration                                                          *)

\* The registry scan answers with whichever id names this contract.
SetExtensionId(id) ==
    /\ extensionId = 0
    /\ extensionId' = id
    /\ UNCHANGED <<owner, settlement, minBatchDuration, voidDelay,
                   batchVars, now, sent, ended>>

SetSettlement(caller, address) ==
    /\ caller = owner
    /\ settlement' = address
    /\ UNCHANGED <<extensionId, owner, minBatchDuration, voidDelay,
                   batchVars, now, sent, ended>>

SetMinBatchDuration(caller, seconds) ==
    /\ caller = owner
    /\ minBatchDuration' = seconds
    /\ UNCHANGED <<extensionId, owner, settlement, voidDelay,
                   batchVars, now, sent, ended>>

SetVoidDelay(caller, seconds) ==
    /\ caller = owner
    /\ voidDelay' = seconds
    /\ UNCHANGED <<extensionId, owner, settlement, minBatchDuration,
                   batchVars, now, sent, ended>>

SetOwner(caller, address) ==
    /\ caller = owner
    /\ owner' = address
    /\ UNCHANGED <<extensionId, settlement, minBatchDuration, voidDelay,
                   batchVars, now, sent, ended>>

Tick ==
    /\ now < MaxTime
    /\ now' = now + 1
    /\ UNCHANGED <<adminVars, batchVars, sent, ended>>

-----------------------------------------------------------------------------

Trade ==
    \/ \E sender \in Accounts, base, quote \in Amounts,
          ciphertext \in Ciphertexts, drawn \in Tees :
          SubmitOrder(sender, base, quote, ciphertext, drawn)
    \/ CloseBatch
    \/ \E caller \in Accounts : AdvanceBatch(caller)
    \/ VoidBatch

Administer ==
    \/ \E id \in ExtensionIds : SetExtensionId(id)
    \/ \E caller, address \in Accounts :
          SetSettlement(caller, address) \/ SetOwner(caller, address)
    \/ \E caller \in Accounts, seconds \in Durations :
          SetMinBatchDuration(caller, seconds) \/ SetVoidDelay(caller, seconds)

Next == Trade \/ Administer \/ Tick

Spec == Init /\ [][Next]_vars

(***************************************************************************)
(* Blocks keep coming, and voidBatch is permissionless: some trader with   *)
(* orders in a stuck batch calls it once it is allowed.  Nothing is        *)
(* assumed of the enclave, the relayer or the operator.                    *)
(***************************************************************************)
LiveSpec == Spec /\ WF_vars(Tick) /\ WF_vars(VoidBatch)

-----------------------------------------------------------------------------
(* Properties                                                              *)

\* The book lives in one enclave's memory, so every instruction of a batch,
\* its orders and its match, goes to one machine (submitOrder, closeBatch).
OneEnclavePerBatch ==
    \A m1, m2 \in sent : m1.batch = m2.batch => m1.tee = m2.tee

\* The enclave is asked for a match once per batch: no batch, in hand or over,
\* has two requests, and the batch in hand is closed exactly if it has one (a
\* close may be attempted again, and again after the batch number moved on).
MatchRequestedOnce ==
    /\ \A m1, m2 \in sent :
          m1.cmd = "RUN_MATCH" /\ m2.cmd = "RUN_MATCH" /\ m1.batch = m2.batch => m1 = m2
    /\ batchClosed <=> Matches(currentBatchId) # {}

\* No order is sent for a batch whose match was already requested: the set of
\* orders the enclave is asked to clear is fixed by closeBatch.
NoOrderAfterMatch ==
    [][\A order \in sent' \ sent :
          order.cmd = "SUBMIT_ORDER" =>
              Matches(order.batch) = {}]_vars

\* A match is requested only of an enclave that was sent an order of the batch.
MatchHasOrders ==
    \A m \in sent : m.cmd = "RUN_MATCH" =>
        \E order \in sent : /\ order.cmd = "SUBMIT_ORDER"
                            /\ order.batch = m.batch
                            /\ order.tee = m.tee

\* The strengthening that makes the invariants above inductive: batchTee is
\* where the batch in hand lives, and nothing was ever sent for a later batch.
PinnedBeforeUse == batchTee = None => orderCount = 0 /\ ~batchClosed
SentToPinned ==
    \A m \in sent : /\ m.batch <= currentBatchId
                    /\ m.batch = currentBatchId => m.tee = batchTee
PinnedHasOrder ==
    batchTee # None => \E m \in sent : /\ m.cmd = "SUBMIT_ORDER"
                                      /\ m.batch = currentBatchId
                                      /\ m.tee = batchTee
IndInv ==
    /\ PinnedBeforeUse
    /\ SentToPinned
    /\ PinnedHasOrder
    /\ OneEnclavePerBatch
    /\ MatchRequestedOnce
    /\ MatchHasOrders

\* Every variable keeps its type, widths included, and the strengthened
\* invariant holds: what the proofs carry from step to step.
IInv == TypeOK /\ IndInv

\* Batches go through empty, open, closed and end exactly once, in order, and
\* are matched once: a second request would be no step of the lifecycle.
Phase == IF batchClosed THEN "closed"
         ELSE IF batchTee = None THEN "empty" ELSE "open"
Lifecycle == INSTANCE BatchLifecycle WITH id <- currentBatchId, phase <- Phase,
                 asked <- Cardinality(Matches(currentBatchId))
ImplementsLifecycle == Lifecycle!Spec

\* However enclave, relayer and registry behave, a batch that has an order is
\* eventually over, settled or abandoned (voidBatch), with two exceptions: its
\* counter has wrapped to 0 and no order follows, or the void delay is so large
\* that the age check overflows until the owner lowers it.
EveryBatchEnds ==
    \A b \in 1..MaxBatch :
        (currentBatchId = b /\ batchTee # None) ~>
            \/ currentBatchId > b
            \/ ~batchClosed /\ orderCount = 0
            \/ batchOpenedAt + voidDelay > U64
=============================================================================
