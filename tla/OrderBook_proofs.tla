--------------------------- MODULE OrderBook_proofs ---------------------------
(***************************************************************************)
(* Proofs about OrderBook: its type invariant, the inductive invariant     *)
(* behind the pinning and match properties, and that it implements         *)
(* BatchLifecycle.                                                         *)
(***************************************************************************)
EXTENDS OrderBook, FiniteSetTheorems, TLAPS

\* Instructions are numbered, and one more of them is again a finite set.
LEMMA OneMoreInstruction ==
    ASSUME TypeOK, NEW m
    PROVE  NextInstruction \in Nat /\ IsFiniteSet(sent \union {m})
BY FS_CardinalityType, FS_AddElement DEF TypeOK, NextInstruction

\* The actions that touch neither the batch nor the instructions sent.
LEMMA AdministerFrame ==
    ASSUME Administer \/ Tick
    PROVE  UNCHANGED <<batchVars, sent, ended>>
BY DEF Administer, Tick, SetExtensionId, SetSettlement, SetMinBatchDuration,
       SetVoidDelay, SetOwner, batchVars

\* What ending a batch does, whichever way it ends.
LEMMA EndFrame ==
    ASSUME (\E caller \in Accounts : AdvanceBatch(caller)) \/ VoidBatch
    PROVE  \/ batchClosed /\ NextBatch("advanced")
           \/ (orderCount # 0 \/ batchClosed) /\ NextBatch("voided")
BY DEF AdvanceBatch, VoidBatch

\* Every variable keeps its type in every step of the contract.
LEMMA TypeStep == TypeOK /\ PinnedBeforeUse /\ [Next]_vars => TypeOK'
<1> USE NoneIsNoAddress, DurationsAreUint64, WidthsAreNat, ClockFits, IdsAndAmounts
<1> SUFFICES ASSUME TypeOK, PinnedBeforeUse, [Next]_vars PROVE TypeOK'
    OBVIOUS
<1>1. CASE \E sender \in Accounts, base, quote \in Amounts,
             ciphertext \in Ciphertexts, drawn \in Tees :
             SubmitOrder(sender, base, quote, ciphertext, drawn)
  <2>1. PICK sender \in Accounts, base \in Amounts, quote \in Amounts,
             ciphertext \in Ciphertexts, drawn \in Tees :
             SubmitOrder(sender, base, quote, ciphertext, drawn)
        BY <1>1
  <2>2. /\ batchTee' \in Tees \union {None}
        /\ batchOpenedAt' \in 0..U64
        BY <2>1 DEF SubmitOrder, PinnedTee, TypeOK
  <2>3. orderCount' \in 0..U32
        BY <2>1 DEF SubmitOrder, BumpOrderCount, TypeOK
  <2>4. [cmd |-> "SUBMIT_ORDER", tee |-> drawn, batch |-> currentBatchId,
         id |-> NextInstruction, sender |-> sender, base |-> base,
         quote |-> quote, ciphertext |-> ciphertext] \in SubmitMessages
        BY <2>1, OneMoreInstruction DEF SubmitMessages, TypeOK
  <2>5. IsFiniteSet(sent') /\ sent' \subseteq SubmitMessages \union MatchMessages
        BY <2>1, <2>4, OneMoreInstruction DEF SubmitOrder, TypeOK
  <2>6. QED BY <2>1, <2>2, <2>3, <2>5 DEF SubmitOrder, TypeOK, adminVars
<1>2. CASE CloseBatch
  <2> DEFINE match == [cmd |-> "RUN_MATCH", tee |-> batchTee, batch |-> currentBatchId,
                       id |-> NextInstruction]
  <2>1. sent' = sent \union {match}
        BY <1>2 DEF CloseBatch, RequestMatch
  <2>2. batchTee \in Tees
        BY <1>2 DEF CloseBatch, PinnedBeforeUse, TypeOK
  <2>3. match \in MatchMessages
        BY <2>2, OneMoreInstruction DEF MatchMessages, TypeOK
  <2> HIDE DEF match
  <2>4. IsFiniteSet(sent') /\ sent' \subseteq SubmitMessages \union MatchMessages
        BY <2>1, <2>3, OneMoreInstruction DEF TypeOK
  <2>5. QED BY <1>2, <2>4 DEF CloseBatch, RequestMatch, TypeOK, adminVars
<1>3. CASE (\E caller \in Accounts : AdvanceBatch(caller)) \/ VoidBatch
  <2>1. NextBatch("advanced") \/ NextBatch("voided")
        BY <1>3, EndFrame
  <2>2. ended' \in Seq({"advanced", "voided"})
        BY <2>1 DEF NextBatch, TypeOK
  <2>3. /\ currentBatchId' = currentBatchId + 1
        /\ batchTee' = None /\ batchOpenedAt' = 0
        /\ orderCount' = 0 /\ batchClosed' = FALSE
        /\ UNCHANGED <<adminVars, now, sent>>
        BY <2>1 DEF NextBatch
  <2>4. /\ currentBatchId' \in Nat \ {0}
        /\ batchOpenedAt' \in 0..U64
        /\ orderCount' \in 0..U32
        /\ batchTee' \in Tees \union {None}
        BY <2>3 DEF TypeOK
  <2>5. batchClosed' \in BOOLEAN
        BY <2>3
  <2>6. UNCHANGED <<extensionId, owner, settlement, minBatchDuration,
                    voidDelay, now, sent>>
        BY <2>3 DEF adminVars
  <2>7. QED BY <2>2, <2>4, <2>5, <2>6 DEF TypeOK
<1>4. CASE Administer
      BY <1>4 DEF Administer, SetExtensionId, SetSettlement, SetOwner,
                  SetMinBatchDuration, SetVoidDelay, TypeOK, batchVars
<1>5. CASE Tick
      BY <1>5 DEF Tick, TypeOK, adminVars, batchVars
<1>6. CASE UNCHANGED vars
      BY <1>6 DEF vars, TypeOK, adminVars, batchVars
<1>7. QED BY <1>1, <1>2, <1>3, <1>4, <1>5, <1>6 DEF Next, Trade

\* A step that only ends a batch, administers or ticks keeps the instructions
\* sent, so the properties of the set of instructions alone carry over.
LEMMA IndStep == TypeOK /\ IndInv /\ [Next]_vars => IndInv'
<1> USE NoneIsNoAddress
<1> SUFFICES ASSUME TypeOK, IndInv, [Next]_vars PROVE IndInv'
    OBVIOUS
<1> USE DEF IndInv
<1>0. /\ currentBatchId \in Nat
      /\ \A m \in sent : m.batch \in Nat /\ m.tee \in Tees
      BY DEF TypeOK, SubmitMessages, MatchMessages
<1>1. CASE \E sender \in Accounts, base, quote \in Amounts,
             ciphertext \in Ciphertexts, drawn \in Tees :
             SubmitOrder(sender, base, quote, ciphertext, drawn)
  <2>1. PICK sender \in Accounts, base \in Amounts, quote \in Amounts,
             ciphertext \in Ciphertexts, drawn \in Tees :
             SubmitOrder(sender, base, quote, ciphertext, drawn)
        BY <1>1
  <2> DEFINE order ==
        [cmd |-> "SUBMIT_ORDER", tee |-> drawn, batch |-> currentBatchId,
         id |-> NextInstruction, sender |-> sender, base |-> base,
         quote |-> quote, ciphertext |-> ciphertext]
  <2>2. /\ ~batchClosed /\ ~batchClosed'
        /\ currentBatchId' = currentBatchId
        /\ sent' = sent \union {order}
        /\ batchTee' = drawn
        /\ drawn # None
        /\ batchTee # None => drawn = batchTee
        BY <2>1 DEF SubmitOrder, PinnedTee
  <2>3. /\ order.cmd = "SUBMIT_ORDER"
        /\ order.batch = currentBatchId
        /\ order.tee = drawn
        OBVIOUS
  <2> HIDE DEF order
  <2>4. \A m \in sent : m.batch = currentBatchId => m.tee = drawn
        BY <1>0, <2>2 DEF SentToPinned
  <2>5. PinnedBeforeUse'
        BY <2>2 DEF PinnedBeforeUse
  <2>6. SentToPinned'
        BY <1>0, <2>2, <2>3, <2>4 DEF SentToPinned
  <2>7. PinnedHasOrder'
        BY <2>2, <2>3 DEF PinnedHasOrder
  <2>8. OneEnclavePerBatch'
        BY <2>2, <2>3, <2>4 DEF OneEnclavePerBatch
  <2>9. MatchRequestedOnce'
        BY <2>2, <2>3 DEF MatchRequestedOnce, Matches
  <2>10. MatchHasOrders'
        BY <2>2, <2>3 DEF MatchHasOrders
  <2> QED BY <2>5, <2>6, <2>7, <2>8, <2>9, <2>10
<1>2. CASE CloseBatch
  <2> DEFINE match ==
        [cmd |-> "RUN_MATCH", tee |-> batchTee, batch |-> currentBatchId,
         id |-> NextInstruction]
  <2>1. /\ ~batchClosed /\ batchClosed'
        /\ UNCHANGED <<currentBatchId, batchTee, orderCount>>
        /\ sent' = sent \union {match}
        /\ batchTee # None
        BY <1>2 DEF CloseBatch, RequestMatch, PinnedBeforeUse
  <2>2. /\ match.cmd = "RUN_MATCH"
        /\ match.batch = currentBatchId
        /\ match.tee = batchTee
        OBVIOUS
  <2> HIDE DEF match
  <2>3. PinnedBeforeUse'
        BY <2>1 DEF PinnedBeforeUse
  <2>4. SentToPinned'
        BY <1>0, <2>1, <2>2 DEF SentToPinned
  <2>5. PinnedHasOrder'
        BY <2>1 DEF PinnedHasOrder
  <2>6. OneEnclavePerBatch'
        BY <2>1, <2>2 DEF OneEnclavePerBatch, SentToPinned
  <2>7. MatchRequestedOnce'
        BY <2>1, <2>2 DEF MatchRequestedOnce, Matches
  <2>8. MatchHasOrders'
        BY <2>1, <2>2 DEF MatchHasOrders, PinnedHasOrder
  <2> QED BY <2>3, <2>4, <2>5, <2>6, <2>7, <2>8
<1>3. CASE (\E caller \in Accounts : AdvanceBatch(caller)) \/ VoidBatch
  <2>1. /\ currentBatchId' = currentBatchId + 1
        /\ batchTee' = None
        /\ orderCount' = 0
        /\ ~batchClosed'
        /\ sent' = sent
        BY <1>3, EndFrame DEF NextBatch
  <2>2. \A m \in sent : m.batch <= currentBatchId
        BY DEF SentToPinned
  <2>3. \A m \in sent' : m.batch < currentBatchId'
        BY <1>0, <2>1, <2>2
  <2>4. PinnedBeforeUse' /\ PinnedHasOrder'
        BY <2>1 DEF PinnedBeforeUse, PinnedHasOrder
  <2>5. SentToPinned'
        BY <1>0, <2>1, <2>3 DEF SentToPinned
  <2>6. MatchRequestedOnce'
        BY <1>0, <2>1, <2>3 DEF MatchRequestedOnce, Matches
  <2>7. OneEnclavePerBatch' /\ MatchHasOrders'
        BY <2>1 DEF OneEnclavePerBatch, MatchHasOrders
  <2> QED BY <2>4, <2>5, <2>6, <2>7
<1>4. CASE Administer \/ Tick \/ UNCHANGED vars
  <2>1. UNCHANGED <<batchVars, sent, ended>>
        BY <1>4, AdministerFrame DEF vars
  <2> QED BY <2>1 DEF batchVars, PinnedBeforeUse, SentToPinned, PinnedHasOrder,
             OneEnclavePerBatch, MatchRequestedOnce, Matches, MatchHasOrders
<1> QED BY <1>1, <1>2, <1>3, <1>4 DEF Next, Trade

\* The type invariant, and every invariant of the order book, in every
\* reachable state, for any accounts, machines, delays, widths and bounds.
THEOREM Invariance == Spec => []IInv
<1>1. Init => TypeOK
  <2> SUFFICES ASSUME Init PROVE TypeOK
      OBVIOUS
  <2>1. ended \in Seq({"advanced", "voided"})
        BY DEF Init
  <2>2. IsFiniteSet(sent)
        BY FS_EmptySet DEF Init
  <2>3. /\ minBatchDuration \in 0..U64 /\ voidDelay \in 0..U64
        /\ batchOpenedAt \in 0..U64 /\ orderCount \in 0..U32
        /\ now \in 0..MaxTime /\ currentBatchId \in Nat \ {0}
        BY DurationsAreUint64, WidthsAreNat, ClockFits DEF Init
  <2> QED BY <2>1, <2>2, <2>3 DEF Init, TypeOK
<1>2. Init => IndInv
      BY DEF Init, IndInv, PinnedBeforeUse, SentToPinned, PinnedHasOrder,
             OneEnclavePerBatch, MatchRequestedOnce, Matches, MatchHasOrders
<1>3. TypeOK /\ IndInv /\ [Next]_vars => (TypeOK /\ IndInv)'
  <2>1. IndInv => PinnedBeforeUse
        BY DEF IndInv
  <2> QED BY <2>1, TypeStep, IndStep
<1> QED BY <1>1, <1>2, <1>3, PTL DEF Spec, IInv

\* Every variable of the order book keeps its type.
THEOREM TypeCorrectness == Spec => []TypeOK
BY Invariance, PTL DEF IInv

\* All instructions of a batch go to one enclave (submitOrder, closeBatch).
THEOREM Pinning == Spec => []OneEnclavePerBatch
<1>1. IndInv => OneEnclavePerBatch
      BY DEF IndInv
<1> QED BY <1>1, Invariance, PTL DEF IInv

\* The enclave is asked for a match once per batch, by the call that closes it,
\* however often a close is attempted (closeBatch).
THEOREM MatchOnce == Spec => []MatchRequestedOnce
<1>1. IndInv => MatchRequestedOnce
      BY DEF IndInv
<1> QED BY <1>1, Invariance, PTL DEF IInv

\* No order is sent for a batch whose match is already out (submitOrder).
THEOREM BookFixedByMatch == Spec => NoOrderAfterMatch
<1> DEFINE OrderStep ==
        \A order \in sent' \ sent :
            order.cmd = "SUBMIT_ORDER" =>
                Matches(order.batch) = {}
<1>1. IndInv /\ [Next]_vars => [OrderStep]_vars
  <2> SUFFICES ASSUME IndInv, Next,
                      NEW order \in sent' \ sent, order.cmd = "SUBMIT_ORDER"
               PROVE  Matches(order.batch) = {}
      OBVIOUS
  <2>1. CASE \E sender \in Accounts, base, quote \in Amounts,
               ciphertext \in Ciphertexts, drawn \in Tees :
               SubmitOrder(sender, base, quote, ciphertext, drawn)
    <3>1. order.batch = currentBatchId /\ ~batchClosed
          BY <2>1 DEF SubmitOrder
    <3> QED BY <3>1 DEF IndInv, MatchRequestedOnce, Matches
  <2>2. CASE CloseBatch
        BY <2>2 DEF CloseBatch, RequestMatch
  <2>3. CASE (\E caller \in Accounts : AdvanceBatch(caller)) \/ VoidBatch
        BY <2>3, EndFrame DEF NextBatch
  <2>4. CASE Administer \/ Tick
        BY <2>4, AdministerFrame
  <2> QED BY <2>1, <2>2, <2>3, <2>4 DEF Next, Trade
<1> QED BY <1>1, Invariance, PTL DEF Spec, NoOrderAfterMatch, IInv

\* A match is requested of an enclave that was sent an order (closeBatch).
THEOREM MatchNeedsOrders == Spec => []MatchHasOrders
<1>1. IndInv => MatchHasOrders
      BY DEF IndInv
<1> QED BY <1>1, Invariance, PTL DEF IInv

\* A batch with one match request, if it is closed, was asked for once.
LEMMA AskedIfClosed ==
    ASSUME NEW matches, NEW closed \in BOOLEAN,
           \A m1, m2 \in matches : m1 = m2,
           closed <=> matches # {}
    PROVE  Cardinality(matches) = IF closed THEN 1 ELSE 0
<1>1. CASE closed
  <2>1. PICK m \in matches : matches = {m}
        BY <1>1
  <2> QED BY <1>1, <2>1, FS_Singleton
<1>2. CASE ~closed
      BY <1>2, FS_EmptySet
<1> QED BY <1>1, <1>2

\* The contract implements the batch lifecycle: its first state is the
\* lifecycle's, and each step is a lifecycle step or leaves it alone.
THEOREM Refinement == Spec => ImplementsLifecycle
<1> DEFINE Asked == Cardinality(Matches(currentBatchId))
<1>1. Init => Lifecycle!Init
  <2> SUFFICES ASSUME Init PROVE Lifecycle!Init
      OBVIOUS
  <2>1. Matches(currentBatchId) = {}
        BY DEF Init, Matches
  <2> QED BY <2>1, FS_EmptySet DEF Init, Lifecycle!Init, Phase
<1>2. TypeOK /\ IndInv /\ [Next]_vars => [Lifecycle!Next]_(Lifecycle!vars)
  <2> SUFFICES ASSUME TypeOK, IndInv, [Next]_vars
               PROVE  [Lifecycle!Next]_(Lifecycle!vars)
      OBVIOUS
  <2>a. Asked = IF batchClosed THEN 1 ELSE 0
    <3>1. batchClosed \in BOOLEAN /\ MatchRequestedOnce
          BY DEF IndInv, TypeOK
    <3> QED BY <3>1, AskedIfClosed DEF MatchRequestedOnce, Matches
  <2>b. Asked' = IF batchClosed' THEN 1 ELSE 0
    <3>1. batchClosed' \in BOOLEAN /\ MatchRequestedOnce'
          BY TypeStep, IndStep DEF IndInv, TypeOK
    <3> QED BY <3>1, AskedIfClosed DEF MatchRequestedOnce, Matches
  <2> PinnedBeforeUse
      BY DEF IndInv
  <2> HIDE DEF Asked
  <2> SUFFICES [Lifecycle!Next]_<<currentBatchId, Phase, Asked, ended>>
      BY DEF Lifecycle!vars, Asked
  <2> USE NoneIsNoAddress DEF Phase, Lifecycle!Next
  <2>1. CASE \E sender \in Accounts, base, quote \in Amounts,
               ciphertext \in Ciphertexts, drawn \in Tees :
               SubmitOrder(sender, base, quote, ciphertext, drawn)
    <3>1. PICK drawn \in Tees :
              /\ ~batchClosed /\ batchTee' = drawn
              /\ UNCHANGED <<currentBatchId, batchClosed, ended>>
          BY <2>1 DEF SubmitOrder, PinnedTee
    <3>2. Asked' = Asked
          BY <3>1, <2>a, <2>b
    <3>3. CASE batchTee = None
          BY <3>1, <3>2, <3>3 DEF Lifecycle!Open, Asked
    <3>4. CASE batchTee # None
          BY <3>1, <3>2, <3>4
    <3> QED BY <3>3, <3>4
  <2>2. CASE CloseBatch
    <3>1. /\ ~batchClosed /\ batchClosed' /\ batchTee # None
          /\ UNCHANGED <<currentBatchId, ended>>
          BY <2>2 DEF CloseBatch, RequestMatch, PinnedBeforeUse
    <3>2. Asked' = Asked + 1
          BY <3>1, <2>a, <2>b
    <3> QED BY <3>1, <3>2 DEF Lifecycle!Close, Asked
  <2>3. CASE (\E caller \in Accounts : AdvanceBatch(caller)) \/ VoidBatch
    <3>1. Asked' = 0
          BY <2>3, <2>b, EndFrame DEF NextBatch
    <3>2. CASE batchClosed /\ NextBatch("advanced")
          BY <3>1, <3>2 DEF NextBatch, Lifecycle!Settle, Lifecycle!End, Asked
    <3>3. CASE (orderCount # 0 \/ batchClosed) /\ NextBatch("voided")
          BY <3>1, <3>3 DEF NextBatch, PinnedBeforeUse, Lifecycle!Void, Lifecycle!End, Asked
    <3> QED BY <2>3, <3>2, <3>3, EndFrame
  <2>4. CASE Administer \/ Tick \/ UNCHANGED vars
    <3>1. UNCHANGED <<batchVars, sent, ended>>
          BY <2>4, AdministerFrame DEF vars
    <3>2. Asked' = Asked
          BY <3>1, <2>a, <2>b DEF batchVars
    <3> QED BY <3>1, <3>2 DEF batchVars
  <2> QED BY <2>1, <2>2, <2>3, <2>4 DEF Next, Trade
<1> QED BY <1>1, <1>2, Invariance, PTL DEF Spec, IInv, ImplementsLifecycle, Lifecycle!Spec
=============================================================================
