---------------------------- MODULE Servers_proofs ----------------------------
(***************************************************************************)
(* Both servers implement ExtensionContract, for any number of requests of *)
(* any kinds.  In Go the mutex keeps the fields whole wherever it matters; *)
(* in TypeScript the promise queue makes one step of a handler that awaits *)
(* in the middle, which is how Enclave takes it.                           *)
(***************************************************************************)
EXTENDS Servers, FiniteSetTheorems, TLAPS

-----------------------------------------------------------------------------
(* The Go server                                                           *)

Writing(r) == pc[r] \in {"locked", "counted", "numbered", "set"}
Reading(r) == pc[r] \in {"reading", "half read"}

\* Who is in a handler holds the lock, in the mode of its kind.
LockHeld ==
    /\ \A r \in Requests : writer = r <=> Writing(r)
    /\ \A r \in Requests : r \in readers <=> Reading(r)
    /\ writer # None => readers = {}
    /\ \A r \in Requests : /\ Writing(r) => Kind(r) \in Greetings
                           /\ Reading(r) => Kind(r) = "state"

\* So what a handler has copied from the fields is still what they hold.
CopiesAreFresh ==
    \A r \in Requests :
        /\ pc[r] = "numbered" => number[r] = count[Kind(r)]
        /\ pc[r] = "half read" => snapshot[r].count = count

IInv == TypeOK /\ LockHeld /\ CopiesAreFresh

-----------------------------------------------------------------------------

\* The counters stay natural numbers.
LEMMA NextIsNat == \A n \in Nat : n + 1 \in Nat
OBVIOUS

\* The type invariant survives every step.
LEMMA TypeStep == TypeOK /\ LockHeld /\ [Next]_vars => TypeOK'
<1> SUFFICES ASSUME TypeOK, LockHeld, [Next]_vars PROVE TypeOK'
    OBVIOUS
<1>1. CASE UNCHANGED vars
      BY <1>1 DEF vars, TypeOK
<1>2. CASE Next
  <2>1. PICK r \in Requests : Step(r)
        BY <1>2 DEF Next
  <2> USE DEF TypeOK, Go, fields
  <2>2. CASE Decode(r)
        BY <2>2 DEF Decode
  <2>3. CASE Lock(r)
        BY <2>3 DEF Lock
  <2>4. CASE Count(r)
    <3>1. Kind(r) \in Greetings
          BY <2>4 DEF Count, LockHeld, Writing
    <3>2. PICK k \in Greetings : Kind(r) = k
          BY <3>1
    <3>3. count[k] \in Nat
          OBVIOUS
    <3>4. count' = [count EXCEPT ![k] = count[k] + 1]
          BY <2>4, <3>2, Zenon DEF Count
    <3>5. count' \in [Greetings -> Nat]
          BY <3>3, <3>4, NextIsNat, Zenon
    <3> QED BY <2>4, <3>5 DEF Count
  <2>5. CASE Number(r) \/ SetLast(r)
    <3>1. PICK k \in Greetings : Kind(r) = k
          BY <2>5 DEF Number, SetLast, LockHeld, Writing
    <3>2. count[k] \in Nat
          OBVIOUS
    <3> QED BY <2>5, <3>1, <3>2 DEF Number, SetLast
  <2>6. CASE Unlock(r)
        BY <2>6 DEF Unlock
  <2>7. CASE ReadLock(r)
        BY <2>7 DEF ReadLock
  <2>8. CASE ReadCount(r)
        BY <2>8 DEF ReadCount, Snapshots
  <2>9. CASE ReadUnlock(r)
        BY <2>9 DEF ReadUnlock, Snapshots
  <2> QED BY <2>1, <2>2, <2>3, <2>4, <2>5, <2>6, <2>7, <2>8, <2>9 DEF Step
<1> QED BY <1>1, <1>2

\* The lock is held by who it should be held by, after every step.
LEMMA LockStep == TypeOK /\ LockHeld /\ [Next]_vars => LockHeld'
<1> SUFFICES ASSUME TypeOK, LockHeld, [Next]_vars PROVE LockHeld'
    OBVIOUS
<1> USE NoneIsNoRequest DEF LockHeld, Writing, Reading
<1>1. CASE UNCHANGED vars
      BY <1>1 DEF vars
<1>2. CASE Next
  <2>1. PICK r \in Requests : Step(r)
        BY <1>2 DEF Next
  <2> USE DEF TypeOK, Go, fields
  <2>2. CASE Decode(r)
        BY <2>2 DEF Decode
  <2>3. CASE Lock(r)
        BY <2>3 DEF Lock
  <2>4. CASE Count(r)
        BY <2>4 DEF Count
  <2>5. CASE Number(r) \/ SetLast(r)
        BY <2>5 DEF Number, SetLast
  <2>6. CASE Unlock(r)
        BY <2>6 DEF Unlock
  <2>7. CASE ReadLock(r)
        BY <2>7 DEF ReadLock, Greetings
  <2>8. CASE ReadCount(r)
        BY <2>8 DEF ReadCount
  <2>9. CASE ReadUnlock(r)
        BY <2>9 DEF ReadUnlock
  <2> QED BY <2>1, <2>2, <2>3, <2>4, <2>5, <2>6, <2>7, <2>8, <2>9 DEF Step
<1> QED BY <1>1, <1>2

\* Nobody writes the fields between a handler's copy and its use of it.
LEMMA CopyStep == TypeOK /\ LockHeld /\ CopiesAreFresh /\ [Next]_vars => CopiesAreFresh'
<1> SUFFICES ASSUME TypeOK, LockHeld, CopiesAreFresh, [Next]_vars PROVE CopiesAreFresh'
    OBVIOUS
<1> USE NoneIsNoRequest DEF CopiesAreFresh
<1>1. CASE UNCHANGED vars
      BY <1>1 DEF vars
<1>2. CASE Next
  <2>1. PICK r \in Requests : Step(r)
        BY <1>2 DEF Next
  <2> USE DEF TypeOK, Go, fields
  <2>2. CASE Decode(r)
        BY <2>2 DEF Decode
  <2>3. CASE Lock(r) \/ ReadLock(r)
        BY <2>3 DEF Lock, ReadLock
  <2>4. CASE Count(r)
    <3>1. \A q \in Requests : pc'[q] \notin {"numbered", "half read"}
          BY <2>4 DEF Count, LockHeld, Writing, Reading
    <3> QED BY <3>1
  <2>5. CASE Number(r) \/ SetLast(r)
        BY <2>5 DEF Number, SetLast
  <2>6. CASE Unlock(r)
        BY <2>6 DEF Unlock
  <2>7. CASE ReadCount(r)
        BY <2>7 DEF ReadCount, Snapshots
  <2>8. CASE ReadUnlock(r)
        BY <2>8 DEF ReadUnlock
  <2> QED BY <2>1, <2>2, <2>3, <2>4, <2>5, <2>6, <2>7, <2>8 DEF Step
<1> QED BY <1>1, <1>2

\* In every reachable state the lock is held by the handlers that should hold
\* it, writers excluding everyone else, and what they copied is not stale.
THEOREM Exclusion == Spec => []IInv
<1>1. Init => IInv
      BY NoneIsNoRequest DEF Init, IInv, TypeOK, LockHeld, Writing, Reading,
         CopiesAreFresh, NoCount, Nobody, NoSnapshot, Snapshots
<1>2. IInv /\ [Next]_vars => IInv'
      BY TypeStep, LockStep, CopyStep DEF IInv
<1> QED BY <1>1, <1>2, PTL DEF Spec

-----------------------------------------------------------------------------
(* Refinement                                                              *)

\* Only the writer can be half done.
LEMMA HalfDoneIsTheWriter ==
    ASSUME LockHeld, NEW k \in Greetings
    PROVE  /\ HalfDone(k) = {} \/ \E r \in Requests : writer = r /\ HalfDone(k) = {r}
           /\ writer = None => HalfDone(k) = {}
BY NoneIsNoRequest DEF LockHeld, Writing, HalfDone

\* A step that neither enters nor leaves the half-done part of a handler, and
\* leaves the fields alone, leaves the abstract memory alone.
LEMMA MemoryFrame ==
    ASSUME UNCHANGED fields, \A k \in Greetings : HalfDone(k)' = HalfDone(k)
    PROVE  UNCHANGED Memory
BY DEF Memory, fields

\* An answer depends on its own request's locals alone.
LEMMA AnswerFrame ==
    ASSUME NEW q \in Requests,
           pc'[q] = pc[q], number'[q] = number[q], snapshot'[q] = snapshot[q]
    PROVE  Answer(q)' = Answer(q)
BY DEF Answer

\* A greeting is counted before its handler is done: what the counter is ahead
\* by is the handler that is half done.
LEMMA CountStep ==
    ASSUME IInv, NEW r \in Requests, Count(r)
    PROVE  UNCHANGED Memory
<1>1. Writing(r) /\ writer = r /\ writer' = r
      BY DEF IInv, LockHeld, Count, Writing, Go
<1>2. PICK k \in Greetings : Kind(r) = k
      BY <1>1 DEF IInv, LockHeld
<1>3. \A j \in Greetings : HalfDone(j) = {}
      BY <1>1, NoneIsNoRequest DEF IInv, LockHeld, Writing, HalfDone, Count, Go
<1>4. \A j \in Greetings : HalfDone(j)' = IF j = k THEN {r} ELSE {}
      BY <1>2, <1>3 DEF IInv, TypeOK, HalfDone, Count, Go
<1>5. Cardinality({}) = 0 /\ Cardinality({r}) = 1
      BY FS_EmptySet, FS_Singleton
<1>6. count' = [count EXCEPT ![k] = count[k] + 1] /\ last' = last
      BY <1>2, Zenon DEF Count
<1>7. \A j \in Greetings : count[j] \in Nat
      BY DEF IInv, TypeOK
<1>8. \A j \in Greetings : count'[j] - Cardinality(HalfDone(j)') = count[j] - Cardinality(HalfDone(j))
  <2> SUFFICES ASSUME NEW j \in Greetings
               PROVE  count'[j] - Cardinality(HalfDone(j)') = count[j] - Cardinality(HalfDone(j))
      OBVIOUS
  <2>1. CASE j = k
    <3>1. count'[j] = count[j] + 1
          BY <1>6, <2>1, Zenon DEF IInv, TypeOK
    <3> QED BY <3>1, <1>3, <1>4, <1>5, <1>7, <2>1
  <2>2. CASE j # k
    <3>1. count'[j] = count[j]
          BY <1>6, <2>2, Zenon DEF IInv, TypeOK
    <3> QED BY <3>1, <1>3, <1>4, <2>2
  <2> QED BY <2>1, <2>2
<1> QED BY <1>6, <1>8, Zenon DEF Memory

\* The others' answers stay as they are when one request's locals change.
LEMMA OthersFrame ==
    ASSUME TypeOK, NEW r \in Requests, NEW to,
           pc' = [pc EXCEPT ![r] = to],
           \A q \in Requests \ {r} : number'[q] = number[q] /\ snapshot'[q] = snapshot[q],
           NEW reply, Answer(r)' = reply
    PROVE  [q \in Requests |-> Answer(q)]' = [[q \in Requests |-> Answer(q)] EXCEPT ![r] = reply]
<1>1. \A q \in Requests \ {r} : Answer(q)' = Answer(q)
      BY AnswerFrame DEF TypeOK
<1> QED BY <1>1

\* A greeting takes effect with its last assignment.
LEMMA SetLastServes ==
    ASSUME IInv, NEW r \in Requests, SetLast(r)
    PROVE  Contract!Serve(r)
<1>1. Writing(r) /\ writer = r /\ Kind(r) \in Greetings
      BY DEF IInv, LockHeld, SetLast, Writing, Go
<1>2. PICK k \in Greetings : Kind(r) = k
      BY <1>1
<1>3. \A j \in Greetings : HalfDone(j) = IF j = k THEN {r} ELSE {}
      BY <1>1, <1>2, NoneIsNoRequest DEF IInv, LockHeld, Writing, HalfDone, SetLast, Go
<1>4. \A j \in Greetings : HalfDone(j)' = {}
      BY <1>3 DEF IInv, TypeOK, HalfDone, SetLast, Go
<1>5. Cardinality({}) = 0 /\ Cardinality({r}) = 1
      BY FS_EmptySet, FS_Singleton
<1>6. last' = [last EXCEPT ![k] = r] /\ count' = count
      BY <1>2, Zenon DEF SetLast
<1>7. \A j \in Greetings : count[j] \in Nat
      BY DEF IInv, TypeOK
<1> DEFINE before == [j \in Greetings |-> count[j] - Cardinality(HalfDone(j))]
<1>8. before[k] + 1 = count[k]
  <2>1. HalfDone(k) = {r} /\ count[k] \in Nat
        BY <1>3, <1>7
  <2>2. before[k] = count[k] - 1
        BY <2>1, <1>5
  <2> HIDE DEF before
  <2> QED BY <2>1, <2>2
<1>9. [j \in Greetings |-> count'[j] - Cardinality(HalfDone(j)')] = [before EXCEPT ![k] = before[k] + 1]
  <2>1. \A j \in Greetings : count'[j] - Cardinality(HalfDone(j)') = count[j]
    <3> SUFFICES ASSUME NEW j \in Greetings
                 PROVE  count'[j] - Cardinality(HalfDone(j)') = count[j]
        OBVIOUS
    <3>1. HalfDone(j)' = {} /\ count'[j] = count[j] /\ count[j] \in Nat
          BY <1>4, <1>6, <1>7
    <3> QED BY <3>1, <1>5
  <2>2. \A j \in Greetings \ {k} : before[j] = count[j]
    <3> SUFFICES ASSUME NEW j \in Greetings \ {k} PROVE before[j] = count[j]
        OBVIOUS
    <3>1. HalfDone(j) = {} /\ count[j] \in Nat
          BY <1>3, <1>7
    <3> QED BY <3>1, <1>5
  <2> HIDE DEF before
  <2>3. before = [j \in Greetings |-> before[j]]
        BY DEF before
  <2> QED BY <2>1, <2>2, <2>3, <1>8
<1> HIDE DEF before
<1>10. Memory = [count |-> before, last |-> last]
       BY DEF Memory, before
<1>11. Memory' = [count |-> [before EXCEPT ![k] = before[k] + 1], last |-> [last EXCEPT ![k] = r]]
       BY <1>9, <1>6, Zenon DEF Memory
<1>12. Answer(r) = None
       BY DEF Answer, SetLast, Go
<1>13. Answer(r)' = [status |-> "done", number |-> before[k] + 1, state |-> NoSnapshot]
  <2>1. pc'[r] = "set" /\ number'[r] = number[r] /\ number[r] = count[k]
        BY <1>2 DEF IInv, TypeOK, CopiesAreFresh, SetLast, Go
  <2> QED BY <2>1, <1>1, <1>8 DEF Answer
<1> HIDE DEF before
<1> DEFINE outcome == [memory |-> Memory', answer |-> Answer(r)']
<1>14. outcome \in Outcomes(r, Memory)
  <2>1. Memory.count = before /\ Memory.last = last
        BY <1>10
  <2>2. Outcomes(r, Memory) =
            {[memory |-> [count |-> [Memory.count EXCEPT ![k] = Memory.count[k] + 1],
                          last |-> [Memory.last EXCEPT ![k] = r]],
              answer |-> [status |-> "done", number |-> Memory.count[k] + 1,
                          state |-> NoSnapshot]]}
        BY <1>2 DEF Outcomes, Greetings
  <2> QED BY <2>1, <2>2, <1>11, <1>13
<1>15. [q \in Requests |-> Answer(q)]' = [[q \in Requests |-> Answer(q)] EXCEPT ![r] = Answer(r)']
  <2>1. TypeOK /\ pc' = [pc EXCEPT ![r] = "set"] /\ number' = number /\ snapshot' = snapshot
        BY DEF IInv, SetLast, Go
  <2> QED BY <2>1, OthersFrame
<1>16. outcome.memory = Memory' /\ outcome.answer = Answer(r)'
      OBVIOUS
<1> HIDE DEF outcome
<1> QED BY <1>12, <1>14, <1>15, <1>16 DEF Contract!Serve

\* A read of the state takes effect when it copies the last fields.
LEMMA ReadUnlockServes ==
    ASSUME IInv, NEW r \in Requests, ReadUnlock(r)
    PROVE  Contract!Serve(r)
<1>1. Reading(r) /\ r \in readers /\ Kind(r) = "state" /\ writer = None
      BY DEF IInv, TypeOK, LockHeld, ReadUnlock, Reading, Go
<1>2. \A j \in Greetings : HalfDone(j) = {} /\ HalfDone(j)' = {}
  <2>1. \A j \in Greetings : HalfDone(j) = {}
        BY <1>1, HalfDoneIsTheWriter DEF IInv
  <2>2. pc' = [pc EXCEPT ![r] = "answered"]
        BY DEF ReadUnlock, Go
  <2> QED BY <2>1, <2>2 DEF IInv, TypeOK, HalfDone
<1>3. UNCHANGED Memory
      BY <1>2, MemoryFrame DEF ReadUnlock, fields
<1>4. Memory = [count |-> count, last |-> last]
  <2>1. Cardinality({}) = 0
        BY FS_EmptySet
  <2>2. \A j \in Greetings : count[j] - Cardinality(HalfDone(j)) = count[j]
    <3> SUFFICES ASSUME NEW j \in Greetings
                 PROVE  count[j] - Cardinality(HalfDone(j)) = count[j]
        OBVIOUS
    <3>1. HalfDone(j) = {} /\ count[j] \in Nat
          BY <1>2 DEF IInv, TypeOK
    <3> QED BY <3>1, <2>1
  <2>3. count = [j \in Greetings |-> count[j]]
        BY DEF IInv, TypeOK
  <2> QED BY <2>2, <2>3 DEF Memory
<1>5. Answer(r) = None
      BY <1>1 DEF Answer, ReadUnlock, Go, Refusals, Greetings
<1>6. Answer(r)' = [status |-> "done", number |-> 0, state |-> Memory]
  <2>1. snapshot[r] \in Snapshots /\ snapshot[r].count = count
        BY DEF IInv, TypeOK, CopiesAreFresh, ReadUnlock, Go
  <2>2. snapshot'[r] = [snapshot[r] EXCEPT !.last = last]
        BY DEF IInv, TypeOK, ReadUnlock
  <2>3. snapshot'[r] = [count |-> count, last |-> last]
        BY <2>1, <2>2 DEF Snapshots
  <2>4. pc'[r] = "answered"
        BY DEF IInv, TypeOK, ReadUnlock, Go
  <2> QED BY <1>1, <1>4, <2>3, <2>4 DEF Answer, Greetings, Refusals
<1>7. [memory |-> Memory, answer |-> Answer(r)'] \in Outcomes(r, Memory)
      BY <1>1, <1>6 DEF Outcomes, Greetings
<1>8. [q \in Requests |-> Answer(q)]' = [[q \in Requests |-> Answer(q)] EXCEPT ![r] = Answer(r)']
  <2>1. /\ TypeOK /\ pc' = [pc EXCEPT ![r] = "answered"] /\ number' = number
        /\ \A q \in Requests \ {r} : snapshot'[q] = snapshot[q]
        BY DEF IInv, TypeOK, ReadUnlock, Go
  <2> QED BY <2>1, OthersFrame
<1> QED BY <1>3, <1>5, <1>7, <1>8 DEF Contract!Serve

\* What is refused is answered at once, without a look at the fields.
LEMMA RefusalServes ==
    ASSUME IInv, NEW r \in Requests, Decode(r), Kind(r) \in Refusals
    PROVE  Contract!Serve(r)
<1>1. pc[r] = "sent" /\ pc' = [pc EXCEPT ![r] = "answered"]
      BY DEF Decode, Go
<1>2. UNCHANGED Memory
  <2>1. \A j \in Greetings : HalfDone(j)' = HalfDone(j)
        BY <1>1 DEF IInv, TypeOK, HalfDone
  <2> QED BY <2>1, MemoryFrame DEF Decode
<1>3. Answer(r) = None
      BY <1>1 DEF Answer
<1>4. Answer(r)' = [status |-> Kind(r), number |-> 0, state |-> NoSnapshot]
  <2>1. pc'[r] = "answered"
        BY <1>1 DEF IInv, TypeOK
  <2> QED BY <2>1 DEF Answer, Greetings, Refusals
<1>5. [memory |-> Memory, answer |-> Answer(r)'] \in Outcomes(r, Memory)
      BY <1>4 DEF Outcomes, Greetings, Refusals
<1>6. [q \in Requests |-> Answer(q)]' = [[q \in Requests |-> Answer(q)] EXCEPT ![r] = Answer(r)']
  <2>1. TypeOK /\ number' = number /\ snapshot' = snapshot
        BY DEF IInv, Decode
  <2> QED BY <1>1, <2>1, OthersFrame
<1> QED BY <1>2, <1>3, <1>5, <1>6 DEF Contract!Serve

\* What a step leaves unanswered or answered, and the memory half-done handlers
\* are taken out of, is the same to the contract.
LEMMA Stutter ==
    ASSUME UNCHANGED Memory, \A q \in Requests : Answer(q)' = Answer(q)
    PROVE  UNCHANGED Contract!vars
BY DEF Contract!vars

\* Every interleaving of handlers and reads looks like requests served one at a
\* time (extension-contract.md section 5).
THEOREM Refinement == Spec => ServesOneAtATime
<1>1. Init => Contract!Init
  <2> SUFFICES ASSUME Init PROVE Contract!Init
      OBVIOUS
  <2>1. \A j \in Greetings : HalfDone(j) = {}
        BY DEF Init, HalfDone
  <2>2. \A j \in Greetings : count[j] - Cardinality(HalfDone(j)) = 0
        BY <2>1, FS_EmptySet DEF Init, NoCount
  <2>3. Memory = NoSnapshot
        BY <2>2 DEF Init, Memory, NoSnapshot, NoCount, Nobody
  <2>4. \A q \in Requests : Answer(q) = None
        BY DEF Init, Answer
  <2> QED BY <2>3, <2>4 DEF Contract!Init
<1>2. IInv /\ [Next]_vars => [Contract!Next]_(Contract!vars)
  <2> SUFFICES ASSUME IInv, [Next]_vars
               PROVE  Contract!Next \/ UNCHANGED Contract!vars
      OBVIOUS
  <2>1. CASE UNCHANGED vars
    <3>1. \A j \in Greetings : HalfDone(j)' = HalfDone(j)
          BY <2>1 DEF vars, HalfDone
    <3>2. UNCHANGED Memory
          BY <2>1, <3>1, MemoryFrame DEF vars, fields
    <3>3. \A q \in Requests : Answer(q)' = Answer(q)
          BY <2>1 DEF vars, Answer
    <3> QED BY <3>2, <3>3, Stutter
  <2>2. CASE Next
    <3>1. PICK r \in Requests : Step(r)
          BY <2>2 DEF Next
    <3> USE DEF IInv, TypeOK, Go
    <3>2. CASE Decode(r) /\ Kind(r) \in Refusals
          BY <3>2, RefusalServes DEF Contract!Next
    <3>3. CASE SetLast(r)
          BY <3>3, SetLastServes DEF Contract!Next
    <3>4. CASE ReadUnlock(r)
          BY <3>4, ReadUnlockServes DEF Contract!Next
    <3>5. CASE Count(r)
      <4>1. \A q \in Requests : Answer(q)' = Answer(q)
            BY <3>5 DEF Count, Answer
      <4> QED BY <3>5, <4>1, CountStep, Stutter
    <3>6. CASE Decode(r) /\ Kind(r) \notin Refusals
      <4>1. \A q \in Requests : Answer(q)' = Answer(q)
            BY <3>6 DEF Decode, Answer
      <4>2. \A j \in Greetings : HalfDone(j)' = HalfDone(j)
            BY <3>6 DEF Decode, HalfDone
      <4> QED BY <3>6, <4>1, <4>2, MemoryFrame, Stutter DEF Decode
    <3>7. CASE Lock(r)
      <4>1. \A q \in Requests : Answer(q)' = Answer(q)
            BY <3>7 DEF Lock, Answer
      <4>2. \A j \in Greetings : HalfDone(j)' = HalfDone(j)
            BY <3>7 DEF Lock, HalfDone
      <4> QED BY <3>7, <4>1, <4>2, MemoryFrame, Stutter DEF Lock
    <3>8. CASE Number(r)
      <4>1. \A q \in Requests : Answer(q)' = Answer(q)
            BY <3>8 DEF Number, Answer
      <4>2. \A j \in Greetings : HalfDone(j)' = HalfDone(j)
            BY <3>8 DEF Number, HalfDone
      <4> QED BY <3>8, <4>1, <4>2, MemoryFrame, Stutter DEF Number
    <3>9. CASE Unlock(r)
      <4>1. \A q \in Requests : Answer(q)' = Answer(q)
        <5>1. Kind(r) \in Greetings /\ pc[r] = "set" /\ pc'[r] = "answered"
              BY <3>9 DEF Unlock, LockHeld, Writing
        <5>2. Answer(r)' = Answer(r)
              BY <3>9, <5>1 DEF Unlock, Answer, Greetings, Refusals
        <5>3. \A q \in Requests \ {r} : Answer(q)' = Answer(q)
              BY <3>9, AnswerFrame DEF Unlock
        <5> QED BY <5>2, <5>3
      <4>2. \A j \in Greetings : HalfDone(j)' = HalfDone(j)
            BY <3>9 DEF Unlock, HalfDone
      <4> QED BY <3>9, <4>1, <4>2, MemoryFrame, Stutter DEF Unlock
    <3>10. CASE ReadLock(r) \/ ReadCount(r)
      <4>1. \A q \in Requests : Answer(q)' = Answer(q)
            BY <3>10 DEF ReadLock, ReadCount, Answer
      <4>2. \A j \in Greetings : HalfDone(j)' = HalfDone(j)
            BY <3>10 DEF ReadLock, ReadCount, HalfDone
      <4> QED BY <3>10, <4>1, <4>2, MemoryFrame, Stutter DEF ReadLock, ReadCount
    <3> QED BY <3>1, <3>2, <3>3, <3>4, <3>5, <3>6, <3>7, <3>8, <3>9, <3>10 DEF Step
  <2> QED BY <2>1, <2>2
<1> QED BY <1>1, <1>2, Exclusion, PTL DEF Spec, ServesOneAtATime, Contract!Spec

-----------------------------------------------------------------------------
(* The server of the venue                                                 *)

\* Who waits, for its turn or for tee-node, is in the queue; who has begun is
\* at its head.
Waiting(r) == at[r] \in {"queued", "awaiting"}
WaitsInQueue == \A r \in VenueRequests : Waiting(r) => \E i \in 1..Len(queue) : queue[i] = r
HeadHasBegun == \A r \in VenueRequests : at[r] = "awaiting" => Head(queue) = r

\* So the book that a match has read is still the book when it is signed.
BookIsFresh ==
    \A r \in VenueRequests : at[r] = "awaiting" /\ VenueKind(r) = "match" => local[r] = book /\ book # <<>>

Unanswered == \A r \in VenueRequests : at[r] # "settled" => answer[r] = None

QueueTypes ==
    /\ queue \in Seq(VenueRequests)
    /\ at \in [VenueRequests -> {"sent", "queued", "awaiting", "settled"}]
    /\ local = [r \in VenueRequests |-> local[r]]
    /\ answer = [r \in VenueRequests |-> answer[r]]

VenueInv == QueueTypes /\ WaitsInQueue /\ HeadHasBegun /\ BookIsFresh /\ Unanswered

-----------------------------------------------------------------------------
(* The queue                                                               *)

\* The head of a queue that someone waits in.
LEMMA HeadIsThere ==
    ASSUME VenueInv, NEW r \in VenueRequests, Waiting(r)
    PROVE  queue # <<>> /\ Head(queue) = queue[1] /\ Len(queue) >= 1
<1>1. PICK i \in 1..Len(queue) : queue[i] = r
      BY DEF VenueInv, WaitsInQueue
<1>2. queue \in Seq(VenueRequests)
      BY DEF VenueInv, QueueTypes
<1> QED BY <1>1, <1>2

\* When the handler at the head settles, nobody has begun, and the others wait.
LEMMA QueueMovesOn ==
    ASSUME VenueInv, NEW r \in VenueRequests, Waiting(r), Head(queue) = r,
           at' = [at EXCEPT ![r] = "settled"], queue' = Tail(queue)
    PROVE  /\ queue' \in Seq(VenueRequests)
           /\ at' \in [VenueRequests -> {"sent", "queued", "awaiting", "settled"}]
           /\ WaitsInQueue'
           /\ \A q \in VenueRequests : at'[q] # "awaiting"
<1>1. queue \in Seq(VenueRequests) /\ queue # <<>> /\ queue[1] = r
      /\ queue' \in Seq(VenueRequests) /\ Len(queue') = Len(queue) - 1
      /\ \A i \in 2..Len(queue) : queue'[i - 1] = queue[i]
      BY HeadIsThere DEF VenueInv, QueueTypes
<1>2. at' \in [VenueRequests -> {"sent", "queued", "awaiting", "settled"}]
      /\ at'[r] = "settled" /\ \A q \in VenueRequests \ {r} : at'[q] = at[q]
      BY DEF VenueInv, QueueTypes
<1>3. WaitsInQueue'
  <2> SUFFICES ASSUME NEW q \in VenueRequests, Waiting(q)'
               PROVE  \E i \in 1..Len(queue') : queue'[i] = q
      BY DEF WaitsInQueue
  <2>1. q # r /\ Waiting(q)
        BY <1>2 DEF Waiting
  <2>2. PICK i \in 1..Len(queue) : queue[i] = q
        BY <2>1 DEF VenueInv, WaitsInQueue
  <2>3. i \in 2..Len(queue) /\ i - 1 \in 1..Len(queue') /\ queue'[i - 1] = q
        BY <1>1, <2>1, <2>2
  <2> QED BY <2>3
<1>4. \A q \in VenueRequests : at'[q] # "awaiting"
      BY <1>2 DEF VenueInv, HeadHasBegun
<1> QED BY <1>1, <1>2, <1>3, <1>4

\* A handler settles, with an answer or by throwing.
LEMMA SettleKeeps ==
    ASSUME VenueInv, NEW r \in VenueRequests, Waiting(r), Head(queue) = r,
           at' = [at EXCEPT ![r] = "settled"], queue' = Tail(queue),
           UNCHANGED local, NEW result,
           answer' = answer \/ answer' = [answer EXCEPT ![r] = result]
    PROVE  VenueInv'
<1>1. QueueTypes' /\ WaitsInQueue' /\ HeadHasBegun' /\ BookIsFresh'
  <2>1. local' = [q \in VenueRequests |-> local'[q]] /\ answer' = [q \in VenueRequests |-> answer'[q]]
        BY DEF VenueInv, QueueTypes
  <2> QED BY <2>1, QueueMovesOn DEF QueueTypes, HeadHasBegun, BookIsFresh
<1>2. \A q \in VenueRequests : at'[q] # "settled" => q # r /\ at'[q] = at[q] /\ answer'[q] = answer[q]
      BY DEF VenueInv, QueueTypes
<1>3. Unanswered'
      BY <1>2 DEF VenueInv, Unanswered
<1> QED BY <1>1, <1>3 DEF VenueInv

\* A handler that reaches its await.
LEMMA AwaitKeeps ==
    ASSUME VenueInv, NEW r \in VenueRequests, at[r] = "queued", Head(queue) = r, NEW orders,
           Venue!Await(r, orders), VenueKind(r) = "match" => orders = book /\ book # <<>>
    PROVE  VenueInv'
<1>1. /\ at' = [at EXCEPT ![r] = "awaiting"] /\ local' = [local EXCEPT ![r] = orders]
      /\ UNCHANGED <<book, queue, answer>>
      BY DEF Venue!Await, Venue!memory
<1>2. QueueTypes'
      BY <1>1 DEF VenueInv, QueueTypes
<1>3. /\ at'[r] = "awaiting" /\ local'[r] = orders
      /\ \A q \in VenueRequests \ {r} : at'[q] = at[q] /\ local'[q] = local[q]
      BY <1>1 DEF VenueInv, QueueTypes
<1>4. WaitsInQueue'
      BY <1>1, <1>3 DEF VenueInv, WaitsInQueue, Waiting
<1>5. HeadHasBegun' /\ BookIsFresh' /\ Unanswered'
      BY <1>1, <1>3 DEF VenueInv, HeadHasBegun, BookIsFresh, Unanswered
<1> QED BY <1>2, <1>4, <1>5 DEF VenueInv

\* A request joins the end of the queue, or is refused before it.
LEMMA ArriveKeeps ==
    ASSUME VenueInv, NEW r \in VenueRequests, Venue!Arrive(r)
    PROVE  VenueInv'
<1>1. at[r] = "sent" /\ UNCHANGED <<book, local>>
      BY DEF Venue!Arrive, Venue!memory
<1>2. CASE VenueKind(r) = "malformed"
  <2>1. /\ at' = [at EXCEPT ![r] = "settled"] /\ answer' = [answer EXCEPT ![r] = Venue!Refused]
        /\ queue' = queue
        BY <1>2 DEF Venue!Arrive
  <2>2. QueueTypes'
        BY <1>1, <2>1 DEF VenueInv, QueueTypes
  <2>3. at'[r] = "settled" /\ \A q \in VenueRequests \ {r} : at'[q] = at[q] /\ answer'[q] = answer[q]
        BY <2>1 DEF VenueInv, QueueTypes
  <2>4. WaitsInQueue' /\ HeadHasBegun' /\ BookIsFresh' /\ Unanswered'
        BY <1>1, <2>1, <2>3 DEF VenueInv, WaitsInQueue, Waiting, HeadHasBegun, BookIsFresh, Unanswered
  <2> QED BY <2>2, <2>4 DEF VenueInv
<1>3. CASE VenueKind(r) # "malformed"
  <2>1. /\ at' = [at EXCEPT ![r] = "queued"] /\ queue' = Append(queue, r) /\ answer' = answer
        BY <1>3 DEF Venue!Arrive
  <2>2. /\ queue' \in Seq(VenueRequests) /\ Len(queue') = Len(queue) + 1 /\ Len(queue) \in Nat
        /\ queue'[Len(queue) + 1] = r
        /\ \A i \in 1..Len(queue) : queue'[i] = queue[i]
        /\ queue # <<>> => Head(queue') = Head(queue)
        BY <2>1 DEF VenueInv, QueueTypes
  <2>3. QueueTypes'
        BY <1>1, <2>1, <2>2 DEF VenueInv, QueueTypes
  <2>4. at'[r] = "queued" /\ \A q \in VenueRequests \ {r} : at'[q] = at[q]
        BY <2>1 DEF VenueInv, QueueTypes
  <2>5. WaitsInQueue'
    <3> SUFFICES ASSUME NEW q \in VenueRequests, Waiting(q)'
                 PROVE  \E i \in 1..Len(queue') : queue'[i] = q
        BY DEF WaitsInQueue
    <3>1. CASE q = r
          BY <2>2, <3>1
    <3>2. CASE q # r
      <4>1. PICK i \in 1..Len(queue) : queue[i] = q
            BY <2>4, <3>2 DEF VenueInv, WaitsInQueue, Waiting
      <4> QED BY <2>2, <4>1
    <3> QED BY <3>1, <3>2
  <2>6. HeadHasBegun'
    <3> SUFFICES ASSUME NEW q \in VenueRequests, at'[q] = "awaiting" PROVE Head(queue') = q
        BY DEF HeadHasBegun
    <3>1. at[q] = "awaiting"
          BY <2>4
    <3>2. Head(queue) = q /\ queue # <<>>
          BY <3>1, HeadIsThere DEF VenueInv, HeadHasBegun, Waiting
    <3> QED BY <2>2, <3>2
  <2>7. BookIsFresh' /\ Unanswered'
        BY <1>1, <2>1, <2>4 DEF VenueInv, BookIsFresh, Unanswered
  <2> QED BY <2>3, <2>5, <2>6, <2>7 DEF VenueInv
<1> QED BY <1>2, <1>3

\* What a handler does when it settles.
LEMMA HandleSettles ==
    ASSUME VenueInv, NEW r \in VenueRequests, Venue!Handle(r) \/ Venue!Throw(r)
    PROVE  \/ \E orders : /\ at[r] = "queued" /\ Head(queue) = r /\ Venue!Await(r, orders)
                          /\ VenueKind(r) = "match" => orders = book /\ book # <<>>
           \/ /\ Waiting(r) /\ Head(queue) = r
              /\ at' = [at EXCEPT ![r] = "settled"] /\ queue' = Tail(queue)
              /\ UNCHANGED local
              /\ answer' = answer \/ \E result : answer' = [answer EXCEPT ![r] = result]
<1>1. at[r] = "awaiting" => Head(queue) = r
      BY DEF VenueInv, HeadHasBegun
<1>2. CASE Venue!State(r)
      BY <1>2 DEF Venue!State, Venue!MayRun, Venue!Settle, Waiting
<1>3. CASE Venue!SubmitOrder(r)
      BY <1>3 DEF Venue!SubmitOrder, Venue!MayRun, Venue!Settle, Waiting
<1>4. CASE Venue!Decrypted(r)
      BY <1>1, <1>4 DEF Venue!Decrypted, Venue!Settle, Waiting
<1>5. CASE Venue!RunMatch(r)
      BY <1>5 DEF Venue!RunMatch, Venue!MayRun, Venue!Settle, Waiting
<1>6. CASE Venue!Signed(r)
      BY <1>1, <1>6 DEF Venue!Signed, Venue!Settle, Waiting
<1>7. CASE Venue!Throw(r)
      BY <1>1, <1>7 DEF Venue!Throw, Venue!MayRun, Waiting
<1> QED BY <1>2, <1>3, <1>4, <1>5, <1>6, <1>7 DEF Venue!Handle

\* One handler at a time has begun, and the book it has read does not change
\* under it, in every reachable state (serialize).
THEOREM OneHandlerBegun == Venue!Spec => []VenueInv
<1>1. Venue!Init => VenueInv
      BY DEF Venue!Init, VenueInv, QueueTypes, WaitsInQueue, Waiting, HeadHasBegun, BookIsFresh, Unanswered
<1>2. VenueInv /\ [Venue!Next]_(Venue!vars) => VenueInv'
  <2> SUFFICES ASSUME VenueInv, [Venue!Next]_(Venue!vars) PROVE VenueInv'
      OBVIOUS
  <2>1. CASE UNCHANGED Venue!vars \/ Venue!Exit
        BY <2>1 DEF Venue!vars, Venue!memory, Venue!Exit, VenueInv, QueueTypes, WaitsInQueue, Waiting, HeadHasBegun,
           BookIsFresh, Unanswered
  <2>2. ASSUME NEW r \in VenueRequests, Venue!Arrive(r) PROVE VenueInv'
        BY <2>2, ArriveKeeps
  <2>3. ASSUME NEW r \in VenueRequests, Venue!Handle(r) \/ Venue!Throw(r) PROVE VenueInv'
        BY <2>3, HandleSettles, AwaitKeeps, SettleKeeps
  <2> QED BY <2>1, <2>2, <2>3 DEF Venue!Next
<1> QED BY <1>1, <1>2, PTL DEF Venue!Spec

-----------------------------------------------------------------------------
(* The contract                                                            *)

VenueMemory == [book |-> book, cleared |-> cleared]

\* A step that answers a request with one of its outcomes is a step of the
\* contract.
LEMMA VenueServes ==
    ASSUME VenueInv, NEW r \in VenueRequests, at[r] # "settled", NEW outcome \in Venue!Outcomes(r, VenueMemory),
           VenueMemory' = outcome.memory, answer' = [answer EXCEPT ![r] = outcome.answer]
    PROVE  Venue!Contract!Next
<1>1. answer[r] = None
      BY DEF VenueInv, Unanswered
<1>2. Venue!Contract!Serve(r)
      BY <1>1, Zenon DEF Venue!Contract!Serve, VenueMemory
<1> QED BY <1>2 DEF Venue!Contract!Next

\* A request that fails leaves the memory as it was.
LEMMA FailureServes ==
    ASSUME VenueInv, NEW r \in VenueRequests, VenueKind(r) \in {"order", "match"}, at[r] # "settled",
           UNCHANGED <<book, cleared>>, Venue!Settle(r, Venue!Failed)
    PROVE  Venue!Contract!Next
<1> DEFINE outcome == [memory |-> VenueMemory, answer |-> Venue!Failed]
<1>1. outcome \in Venue!Outcomes(r, VenueMemory)
      BY DEF Venue!Outcomes
<1>2. VenueMemory' = outcome.memory /\ answer' = [answer EXCEPT ![r] = outcome.answer]
      BY DEF VenueMemory, Venue!Settle
<1> HIDE DEF outcome
<1> QED BY <1>1, <1>2, VenueServes

\* Although handlers await in the middle, each has the effect of one step
\* (server.ts: serialize; extension-contract.md section 5).
THEOREM VenueRefinement == Venue!Spec => HandlersAreAtomic
<1>1. Venue!Init => Venue!Contract!Init
      BY DEF Venue!Init, Venue!Contract!Init
<1>2. VenueInv /\ [Venue!Next]_(Venue!vars) => [Venue!Contract!Next]_(Venue!Contract!vars)
  <2> SUFFICES ASSUME VenueInv, [Venue!Next]_(Venue!vars)
               PROVE  Venue!Contract!Next \/ UNCHANGED Venue!Contract!vars
      OBVIOUS
  <2>1. CASE UNCHANGED Venue!vars \/ Venue!Exit
        BY <2>1 DEF Venue!vars, Venue!memory, Venue!Exit, Venue!Contract!vars
  <2>2. ASSUME NEW r \in VenueRequests, Venue!Arrive(r)
        PROVE  Venue!Contract!Next \/ UNCHANGED Venue!Contract!vars
    <3>1. at[r] = "sent" /\ UNCHANGED <<book, cleared>>
          BY <2>2 DEF Venue!Arrive, Venue!memory
    <3>2. CASE VenueKind(r) = "malformed"
      <4> DEFINE outcome == [memory |-> VenueMemory, answer |-> Venue!Refused]
      <4>1. outcome \in Venue!Outcomes(r, VenueMemory)
            BY <3>2 DEF Venue!Outcomes
      <4>2. VenueMemory' = outcome.memory /\ answer' = [answer EXCEPT ![r] = outcome.answer]
            BY <2>2, <3>1, <3>2 DEF VenueMemory, Venue!Arrive
      <4> HIDE DEF outcome
      <4> QED BY <3>1, <4>1, <4>2, VenueServes
    <3>3. CASE VenueKind(r) # "malformed"
          BY <2>2, <3>1, <3>3 DEF Venue!Arrive, Venue!Contract!vars
    <3> QED BY <3>2, <3>3
  <2>3. ASSUME NEW r \in VenueRequests, Venue!Throw(r)
        PROVE  Venue!Contract!Next \/ UNCHANGED Venue!Contract!vars
        BY <2>3 DEF Venue!Throw, Venue!memory, Venue!Contract!vars
  <2>4. ASSUME NEW r \in VenueRequests, Venue!State(r)
        PROVE  Venue!Contract!Next
    <3> DEFINE outcome == [memory |-> VenueMemory, answer |-> Venue!Snapshot(Len(book), cleared)]
    <3>1. outcome \in Venue!Outcomes(r, VenueMemory)
      <4>1. VenueKind(r) = "state" /\ VenueMemory.book = book /\ VenueMemory.cleared = cleared
            BY <2>4 DEF Venue!State, VenueMemory
      <4> QED BY <4>1 DEF Venue!Outcomes
    <3>2. VenueMemory' = outcome.memory /\ answer' = [answer EXCEPT ![r] = outcome.answer]
          BY <2>4 DEF Venue!State, Venue!Settle, Venue!memory, VenueMemory
    <3> HIDE DEF outcome
    <3> QED BY <2>4, <3>1, <3>2, VenueServes DEF Venue!State, Venue!MayRun
  <2>5. ASSUME NEW r \in VenueRequests, NEW orders, Venue!Await(r, orders)
        PROVE  UNCHANGED Venue!Contract!vars
        BY <2>5 DEF Venue!Await, Venue!memory, Venue!Contract!vars
  <2>6. ASSUME NEW r \in VenueRequests, Venue!SubmitOrder(r)
        PROVE  Venue!Contract!Next \/ UNCHANGED Venue!Contract!vars
    <3>1. CASE Venue!Settle(r, Venue!Failed) /\ UNCHANGED Venue!memory
          BY <2>6, <3>1, FailureServes DEF Venue!SubmitOrder, Venue!MayRun, Venue!memory
    <3> QED BY <2>5, <2>6, <3>1 DEF Venue!SubmitOrder
  <2>7. ASSUME NEW r \in VenueRequests, Venue!RunMatch(r)
        PROVE  Venue!Contract!Next \/ UNCHANGED Venue!Contract!vars
    <3>1. CASE Venue!Settle(r, Venue!Failed) /\ UNCHANGED Venue!memory
          BY <2>7, <3>1, FailureServes DEF Venue!RunMatch, Venue!MayRun, Venue!memory
    <3> QED BY <2>5, <2>7, <3>1 DEF Venue!RunMatch
  <2>8. ASSUME NEW r \in VenueRequests, Venue!Decrypted(r)
        PROVE  Venue!Contract!Next
    <3>1. at[r] = "awaiting" /\ VenueKind(r) = "order" /\ cleared' = cleared
          BY <2>8 DEF Venue!Decrypted
    <3>2. CASE Venue!Settle(r, Venue!Failed) /\ UNCHANGED book
          BY <3>1, <3>2, FailureServes
    <3>3. CASE Venue!Settle(r, Venue!Accepted(Len(book) + 1)) /\ book' = Append(book, r)
      <4> DEFINE outcome == [memory |-> [VenueMemory EXCEPT !.book = Append(@, r)],
                             answer |-> Venue!Accepted(Len(book) + 1)]
      <4>1. outcome \in Venue!Outcomes(r, VenueMemory)
        <5>1. VenueMemory.book = book
              BY DEF VenueMemory
        <5> QED BY <3>1, <5>1 DEF Venue!Outcomes
      <4>2. VenueMemory' = outcome.memory /\ answer' = [answer EXCEPT ![r] = outcome.answer]
            BY <3>1, <3>3 DEF Venue!Settle, VenueMemory
      <4> HIDE DEF outcome
      <4> QED BY <3>1, <4>1, <4>2, VenueServes
    <3> QED BY <2>8, <3>2, <3>3 DEF Venue!Decrypted
  <2>9. ASSUME NEW r \in VenueRequests, Venue!Signed(r)
        PROVE  Venue!Contract!Next
    <3>1. at[r] = "awaiting" /\ VenueKind(r) = "match" /\ local[r] = book /\ book # <<>>
          BY <2>9 DEF Venue!Signed, VenueInv, BookIsFresh
    <3>2. CASE Venue!Settle(r, Venue!Failed) /\ UNCHANGED Venue!memory
          BY <3>1, <3>2, FailureServes DEF Venue!memory
    <3>3. CASE Venue!Settle(r, Venue!Matched(local[r])) /\ book' = <<>> /\ cleared' = TRUE
      <4> DEFINE outcome == [memory |-> [book |-> <<>>, cleared |-> TRUE],
                             answer |-> Venue!Matched(book)]
      <4>1. outcome \in Venue!Outcomes(r, VenueMemory)
        <5>1. VenueMemory.book = book
              BY DEF VenueMemory
        <5> QED BY <3>1, <5>1 DEF Venue!Outcomes
      <4>2. VenueMemory' = outcome.memory /\ answer' = [answer EXCEPT ![r] = outcome.answer]
            BY <3>1, <3>3 DEF Venue!Settle, VenueMemory
      <4> HIDE DEF outcome
      <4> QED BY <3>1, <4>1, <4>2, VenueServes
    <3> QED BY <2>9, <3>2, <3>3 DEF Venue!Signed
  <2> QED BY <2>1, <2>2, <2>3, <2>4, <2>6, <2>7, <2>8, <2>9 DEF Venue!Next, Venue!Handle
<1> QED BY <1>1, <1>2, OneHandlerBegun, PTL DEF Venue!Spec, HandlersAreAtomic, Venue!HandlersAreAtomic, Venue!Contract!Spec
=============================================================================
