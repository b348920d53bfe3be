--------------------------- MODULE Midpoint_proofs ---------------------------
(***************************************************************************)
(* The venue, for any traders, machines, batches, amounts and oracle.      *)
(*                                                                         *)
(* First the settlement contract with the order book and the vault it      *)
(* drives, whatever payloads are signed and relayed: settling neither      *)
(* strands nor creates value, reverts exactly when a trader cannot pay its *)
(* part, and takes from a trader only for a batch that was asked for a     *)
(* match; and the contracts agree about which batches were settled.        *)
(*                                                                         *)
(* Then the venue end to end, whatever becomes of the instructions on      *)
(* their way: one result per batch, which the vault can carry out and      *)
(* which takes from each trader what that trader offered, on its terms.    *)
(***************************************************************************)
EXTENDS Midpoint, Clearing_proofs

-----------------------------------------------------------------------------
(* A loop of moves                                                         *)

Books == [VaultContract!Assets -> [Accounts -> Nat]]
States == [ok : BOOLEAN, book : Books]
MoveRecords == [from : Accounts, to : Accounts, asset : VaultContract!Assets, amount : Nat]

\* What a move brings to an account, and what it takes from it.
Brings(m, a, h) == IF m.asset = a /\ m.to = h THEN m.amount ELSE 0
Takes(m, a, h) == IF m.asset = a /\ m.from = h THEN m.amount ELSE 0
\* What the first n moves bring, and take.
Brought(moves, a, h, n) ==
    SumFunctionOnSet([i \in DOMAIN moves |-> Brings(moves[i], a, h)], 1..n)
Taken(moves, a, h, n) ==
    SumFunctionOnSet([i \in DOMAIN moves |-> Takes(moves[i], a, h)], 1..n)

\* The states a loop goes through.
After(state, moves) ==
    CHOOSE f : f = [n \in 0..Len(moves) |->
                       IF n = 0 THEN state ELSE ApplyMove(f[n - 1], moves[n])]

\* The intermediate states of a sequence of moves exist: each is the move applied
\* to the one before, and the last is the state after the pass.
LEMMA AfterRuns ==
    ASSUME NEW state, NEW moves \in Seq(MoveRecords)
    PROVE  /\ After(state, moves)[0] = state
           /\ \A n \in 1..Len(moves) :
                 After(state, moves)[n] = ApplyMove(After(state, moves)[n - 1], moves[n])
           /\ ApplyAll(state, moves) = After(state, moves)[Len(moves)]
<1> DEFINE Runs(f, n) == /\ f[0] = state
                         /\ \A k \in 1..n : f[k] = ApplyMove(f[k - 1], moves[k])
           A == {n \in Nat : \E f : Runs(f, n)}
<1>1. 0 \in A
  <2>1. Runs([n \in {0} |-> state], 0)
        OBVIOUS
  <2> QED BY <2>1
<1>2. \A n \in A : n + 1 \in A
  <2> TAKE n \in A
  <2>1. PICK f : Runs(f, n)
        OBVIOUS
  <2> DEFINE g == [k \in 0..(n + 1) |-> IF k = n + 1 THEN ApplyMove(f[n], moves[n + 1]) ELSE f[k]]
  <2>2. \A k \in 0..n : g[k] = f[k]
        OBVIOUS
  <2>3. g[n + 1] = ApplyMove(f[n], moves[n + 1])
        OBVIOUS
  <2> HIDE DEF g
  <2>4. Runs(g, n + 1)
    <3>1. g[0] = state
          BY <2>1, <2>2
    <3>2. ASSUME NEW k \in 1..(n + 1) PROVE g[k] = ApplyMove(g[k - 1], moves[k])
      <4>1. CASE k = n + 1
        <5>1. g[k - 1] = f[n] /\ n = k - 1
              BY <2>2, <4>1
        <5> QED BY <2>3, <4>1, <5>1
      <4>2. CASE k \in 1..n
        <5>1. g[k] = f[k] /\ g[k - 1] = f[k - 1]
              BY <2>2, <4>2
        <5>2. f[k] = ApplyMove(f[k - 1], moves[k])
              BY <2>1, <4>2
        <5> QED BY <5>1, <5>2
      <4> QED BY <4>1, <4>2
    <3> QED BY <3>1, <3>2
  <2> HIDE DEF Runs
  <2> QED BY <2>4
<1>3. Len(moves) \in A
  <2>1. Len(moves) \in Nat
        OBVIOUS
  <2> HIDE DEF A
  <2>2. A \subseteq Nat
        BY DEF A
  <2> QED BY <1>1, <1>2, <2>1, <2>2, NatIsLeast
<1>4. PICK f : Runs(f, Len(moves))
      BY <1>3
<1> DEFINE g == [n \in 0..Len(moves) |-> f[n]]
<1>5. g = [n \in 0..Len(moves) |-> IF n = 0 THEN state ELSE ApplyMove(g[n - 1], moves[n])]
  <2> SUFFICES ASSUME NEW n \in 0..Len(moves)
               PROVE  g[n] = IF n = 0 THEN state ELSE ApplyMove(g[n - 1], moves[n])
      OBVIOUS
  <2>1. CASE n = 0
        BY <1>4, <2>1
  <2>2. CASE n # 0
    <3>1. n \in 1..Len(moves) /\ n - 1 \in 0..Len(moves)
          BY <2>2
    <3>2. g[n] = f[n] /\ g[n - 1] = f[n - 1]
          BY <3>1
    <3>3. f[n] = ApplyMove(f[n - 1], moves[n])
          BY <1>4, <3>1
    <3> QED BY <2>2, <3>2, <3>3
  <2> QED BY <2>1, <2>2
<1> HIDE DEF g
<1>6. \E h : h = [n \in 0..Len(moves) |-> IF n = 0 THEN state ELSE ApplyMove(h[n - 1], moves[n])]
      BY <1>5
<1> DEFINE r == After(state, moves)
<1>7. r = [n \in 0..Len(moves) |-> IF n = 0 THEN state ELSE ApplyMove(r[n - 1], moves[n])]
      BY <1>6 DEF After
<1>8. ApplyAll(state, moves) = r[Len(moves)]
      BY DEF ApplyAll, After
<1> HIDE DEF r
<1>9. r[0] = state
      BY <1>7
<1>10. ASSUME NEW n \in 1..Len(moves) PROVE r[n] = ApplyMove(r[n - 1], moves[n])
  <2>1. n \in 0..Len(moves) /\ n # 0
        OBVIOUS
  <2> QED BY <1>7, <2>1
<1> QED BY <1>8, <1>9, <1>10 DEF r

\* One move: what it takes from one account it brings to another.
LEMMA MoveWorks ==
    ASSUME NEW state \in States, NEW m \in MoveRecords
    PROVE  LET r == ApplyMove(state, m) IN
           /\ r \in States
           /\ r.ok => /\ state.ok
                      /\ \A a \in VaultContract!Assets : \A h \in Accounts :
                            r.book[a][h] = state.book[a][h] + Brings(m, a, h) - Takes(m, a, h)
                      /\ \A a \in VaultContract!Assets :
                            SumFunctionOnSet(r.book[a], Accounts)
                              = SumFunctionOnSet(state.book[a], Accounts)
<1> DEFINE r == ApplyMove(state, m)
           a == m.asset
<1>0. /\ m.amount \in Nat /\ m.from \in Accounts /\ m.to \in Accounts /\ a \in VaultContract!Assets
      /\ state.book \in Books /\ state.ok \in BOOLEAN
      BY DEF MoveRecords, States
<1>1. CASE a = "quote" /\ m.amount = 0
  <2>1. r = state
        BY <1>1 DEF ApplyMove
  <2>2. \A b, h : Brings(m, b, h) = 0 /\ Takes(m, b, h) = 0
        BY <1>1 DEF Brings, Takes
  <2>3. \A b \in VaultContract!Assets : \A h \in Accounts : state.book[b][h] \in Nat
        BY <1>0 DEF Books
  <2>4. \A b \in VaultContract!Assets : \A h \in Accounts :
            state.book[b][h] = state.book[b][h] + Brings(m, b, h) - Takes(m, b, h)
        BY <2>2, <2>3
  <2> QED BY <2>1, <2>4
<1>2. CASE /\ ~(a = "quote" /\ m.amount = 0)
           /\ ~(state.ok /\ VaultContract!CanMove(state.book, m.from, a, m.amount))
  <2>1. r = [state EXCEPT !.ok = FALSE]
        BY <1>2 DEF ApplyMove
  <2> QED BY <2>1 DEF States
<1>3. CASE /\ ~(a = "quote" /\ m.amount = 0)
           /\ state.ok /\ VaultContract!CanMove(state.book, m.from, a, m.amount)
  <2> DEFINE book == VaultContract!Moved(state.book, m.from, m.to, a, m.amount)
             debited == [state.book[a] EXCEPT ![m.from] = @ - m.amount]
  <2>1. r = [ok |-> TRUE, book |-> book]
        BY <1>3 DEF ApplyMove
  <2>2. state.book[a] \in [Accounts -> Nat] /\ state.book[a][m.from] - m.amount \in Nat
        BY <1>0, <1>3 DEF Books, VaultContract!CanMove
  <2>3. debited \in [Accounts -> Nat]
        BY <1>0, <2>2
  <2>4. book[a] = [debited EXCEPT ![m.to] = @ + m.amount]
        BY <1>0 DEF Books, VaultContract!Moved
  <2>5. \A b \in VaultContract!Assets \ {a} : book[b] = state.book[b]
        BY <1>0 DEF Books, VaultContract!Moved
  <2>6. book[a] \in [Accounts -> Nat]
        BY <1>0, <2>3, <2>4
  <2>7. book = [b \in VaultContract!Assets |-> book[b]]
        BY <1>0 DEF Books, VaultContract!Moved
  <2>8. SumFunctionOnSet(book[a], Accounts) = SumFunctionOnSet(state.book[a], Accounts)
    <3>1. IsFiniteSet(Accounts)
          BY TradersAreFinite, FS_AddElement, FS_Singleton, FS_Union DEF Accounts
    <3>2. state.book[a] \in [Accounts -> Int] /\ m.amount \in Int
          BY <1>0, <2>2
    <3> QED BY <1>0, <2>4, <3>1, <3>2, SumOfTransfer
  <2>9. \A h \in Accounts : book[a][h] = state.book[a][h] + Brings(m, a, h) - Takes(m, a, h)
        BY <1>0, <2>2, <2>3, <2>4 DEF Brings, Takes
  <2> HIDE DEF book
  <2>10. book \in Books
    <3>1. \A b \in VaultContract!Assets : book[b] \in [Accounts -> Nat]
          BY <1>0, <2>5, <2>6 DEF Books
    <3> QED BY <2>7, <3>1 DEF Books
  <2>11. \A b \in VaultContract!Assets \ {a} : \A h \in Accounts :
            book[b][h] = state.book[b][h] + Brings(m, b, h) - Takes(m, b, h)
    <3>1. \A b \in VaultContract!Assets : \A h \in Accounts : state.book[b][h] \in Nat
          BY <1>0 DEF Books
    <3> QED BY <2>5, <3>1 DEF Brings, Takes
  <2> QED BY <1>3, <2>1, <2>5, <2>8, <2>9, <2>10, <2>11 DEF States
<1> QED BY <1>1, <1>2, <1>3

\* What a prefix of the moves brings to an account and takes from it, step by step.
LEMMA BroughtAndTaken ==
    ASSUME NEW moves \in Seq(MoveRecords), NEW a, NEW h
    PROVE  /\ \A n \in 0..Len(moves) : Brought(moves, a, h, n) \in Nat /\ Taken(moves, a, h, n) \in Nat
           /\ Brought(moves, a, h, 0) = 0 /\ Taken(moves, a, h, 0) = 0
           /\ \A n \in 1..Len(moves) :
                 /\ Brought(moves, a, h, n) = Brought(moves, a, h, n - 1) + Brings(moves[n], a, h)
                 /\ Taken(moves, a, h, n) = Taken(moves, a, h, n - 1) + Takes(moves[n], a, h)
                 /\ Brings(moves[n], a, h) \in Nat /\ Takes(moves[n], a, h) \in Nat
<1> DEFINE b == [i \in DOMAIN moves |-> Brings(moves[i], a, h)]
           t == [i \in DOMAIN moves |-> Takes(moves[i], a, h)]
<1>1. \A i \in 1..Len(moves) : moves[i] \in MoveRecords
      OBVIOUS
<1>2. \A i \in 1..Len(moves) : /\ b[i] = Brings(moves[i], a, h) /\ b[i] \in Nat
                               /\ t[i] = Takes(moves[i], a, h) /\ t[i] \in Nat
      BY <1>1 DEF Brings, Takes, MoveRecords
<1> HIDE DEF b, t
<1>3. ASSUME NEW n \in 0..Len(moves)
      PROVE  SumFunctionOnSet(b, 1..n) \in Nat /\ SumFunctionOnSet(t, 1..n) \in Nat
  <2>1. IsFiniteSet(1..n) /\ \A i \in 1..n : b[i] \in Nat /\ t[i] \in Nat
        BY <1>2, FS_Interval
  <2> QED BY <2>1, SumOfNaturals
<1>4. SumFunctionOnSet(b, 1..0) = 0 /\ SumFunctionOnSet(t, 1..0) = 0
  <2>1. 1..0 = {}
        OBVIOUS
  <2> QED BY <2>1, SumOfNone
<1>5. ASSUME NEW n \in 1..Len(moves)
      PROVE  /\ SumFunctionOnSet(b, 1..n) = SumFunctionOnSet(b, 1..(n - 1)) + b[n]
             /\ SumFunctionOnSet(t, 1..n) = SumFunctionOnSet(t, 1..(n - 1)) + t[n]
  <2>1. n - 1 \in Nat /\ (n - 1) + 1 = n
        OBVIOUS
  <2>2. \A i \in 1..((n - 1) + 1) : b[i] \in Int /\ t[i] \in Int
        BY <1>2
  <2>3. /\ SumFunctionOnSet(b, 1..((n - 1) + 1)) = SumFunctionOnSet(b, 1..(n - 1)) + b[(n - 1) + 1]
        /\ SumFunctionOnSet(t, 1..((n - 1) + 1)) = SumFunctionOnSet(t, 1..(n - 1)) + t[(n - 1) + 1]
        BY <2>1, <2>2, SumOfNext
  <2> QED BY <2>1, <2>3
<1> QED BY <1>2, <1>3, <1>4, <1>5 DEF Brought, Taken, b, t

\* The states of a loop of moves: each account has what it started with, what
\* the moves so far brought it and not what they took.
LEMMA LoopWorks ==
    ASSUME NEW state \in States, NEW moves \in Seq(MoveRecords)
    PROVE  \A n \in 0..Len(moves) :
              LET r == After(state, moves)[n] IN
              /\ r \in States
              /\ r.ok => /\ state.ok
                         /\ \A a \in VaultContract!Assets : \A h \in Accounts :
                               r.book[a][h]
                                 = state.book[a][h] + Brought(moves, a, h, n) - Taken(moves, a, h, n)
                         /\ \A a \in VaultContract!Assets :
                               SumFunctionOnSet(r.book[a], Accounts)
                                 = SumFunctionOnSet(state.book[a], Accounts)
<1> DEFINE r(n) == After(state, moves)[n]
           Holds(n) == /\ r(n) \in States
                       /\ r(n).ok =>
                           /\ state.ok
                           /\ \A a \in VaultContract!Assets : \A h \in Accounts :
                               r(n).book[a][h]
                                 = state.book[a][h] + Brought(moves, a, h, n) - Taken(moves, a, h, n)
                           /\ \A a \in VaultContract!Assets :
                               SumFunctionOnSet(r(n).book[a], Accounts)
                                 = SumFunctionOnSet(state.book[a], Accounts)
           A == {n \in Nat : n <= Len(moves) => Holds(n)}
<1>0. \A a \in VaultContract!Assets : \A h \in Accounts : state.book[a][h] \in Nat
      BY DEF States, Books
<1>1. 0 \in A
  <2>1. r(0) = state
        BY AfterRuns
  <2>2. \A a \in VaultContract!Assets : \A h \in Accounts :
            state.book[a][h] = state.book[a][h] + Brought(moves, a, h, 0) - Taken(moves, a, h, 0)
        BY <1>0, BroughtAndTaken
  <2> HIDE DEF r
  <2> QED BY <2>1, <2>2
<1>2. \A n \in A : n + 1 \in A
  <2> SUFFICES ASSUME NEW n \in A, n + 1 <= Len(moves)
               PROVE  Holds(n + 1)
      OBVIOUS
  <2>1. n \in Nat /\ n \in 0..Len(moves) /\ n + 1 \in 1..Len(moves) /\ (n + 1) - 1 = n
        OBVIOUS
  <2>2. Holds(n)
        BY <2>1
  <2>3. r(n + 1) = ApplyMove(r(n), moves[n + 1])
        BY <2>1, AfterRuns
  <2>4. moves[n + 1] \in MoveRecords
        BY <2>1
  <2> HIDE DEF r, A
  <2>5. /\ r(n + 1) \in States
        /\ r(n + 1).ok =>
              /\ r(n).ok
              /\ \A a \in VaultContract!Assets : \A h \in Accounts :
                    r(n + 1).book[a][h]
                      = r(n).book[a][h] + Brings(moves[n + 1], a, h) - Takes(moves[n + 1], a, h)
              /\ \A a \in VaultContract!Assets :
                    SumFunctionOnSet(r(n + 1).book[a], Accounts)
                      = SumFunctionOnSet(r(n).book[a], Accounts)
        BY <2>2, <2>3, <2>4, MoveWorks
  <2>6. ASSUME r(n + 1).ok, NEW a \in VaultContract!Assets, NEW h \in Accounts
        PROVE  r(n + 1).book[a][h]
                 = state.book[a][h] + Brought(moves, a, h, n + 1) - Taken(moves, a, h, n + 1)
    <3>1. r(n + 1).book[a][h]
             = r(n).book[a][h] + Brings(moves[n + 1], a, h) - Takes(moves[n + 1], a, h)
          BY <2>5, <2>6
    <3>2. r(n).book[a][h] = state.book[a][h] + Brought(moves, a, h, n) - Taken(moves, a, h, n)
          BY <2>2, <2>5, <2>6
    <3>3. /\ Brought(moves, a, h, n + 1) = Brought(moves, a, h, n) + Brings(moves[n + 1], a, h)
          /\ Taken(moves, a, h, n + 1) = Taken(moves, a, h, n) + Takes(moves[n + 1], a, h)
          /\ Brings(moves[n + 1], a, h) \in Nat /\ Takes(moves[n + 1], a, h) \in Nat
          BY <2>1, BroughtAndTaken
    <3>4. Brought(moves, a, h, n) \in Nat /\ Taken(moves, a, h, n) \in Nat
          BY <2>1, BroughtAndTaken
    <3> QED BY <1>0, <3>1, <3>2, <3>3, <3>4
  <2> QED BY <2>2, <2>5, <2>6
<1> HIDE DEF Holds
<1>3. ASSUME NEW n \in 0..Len(moves) PROVE Holds(n)
  <2>1. n \in Nat /\ n <= Len(moves) /\ A \subseteq Nat
        OBVIOUS
  <2>2. A = Nat
    <3> HIDE DEF A
    <3> QED BY <1>1, <1>2, <2>1, NatIsLeast
  <2> QED BY <2>1, <2>2
<1> QED BY <1>3 DEF Holds

\* A loop goes through when at every turn the account has the amount to give.
LEMMA LoopGoesThrough ==
    ASSUME NEW state \in States, state.ok, NEW moves \in Seq(MoveRecords),
           \A n \in 1..Len(moves) :
              LET m == moves[n] IN
              /\ m.amount > 0 \/ m.asset = "quote"
              /\ Taken(moves, m.asset, m.from, n)
                   <= state.book[m.asset][m.from] + Brought(moves, m.asset, m.from, n - 1)
    PROVE  ApplyAll(state, moves).ok
<1> DEFINE r(n) == After(state, moves)[n]
           A == {n \in Nat : n <= Len(moves) => r(n).ok}
<1>1. 0 \in A
      BY AfterRuns
<1>2. \A n \in A : n + 1 \in A
  <2> SUFFICES ASSUME NEW n \in A, n + 1 <= Len(moves)
               PROVE  r(n + 1).ok
      OBVIOUS
  <2> DEFINE m == moves[n + 1]
             a == m.asset
             h == m.from
  <2>1. n \in Nat /\ n \in 0..Len(moves) /\ n + 1 \in 1..Len(moves) /\ (n + 1) - 1 = n
        OBVIOUS
  <2>2. r(n).ok
        BY <2>1
  <2>3. r(n + 1) = ApplyMove(r(n), m)
        BY <2>1, AfterRuns
  <2>4. m \in MoveRecords
        BY <2>1
  <2>5. m.amount \in Nat /\ h \in Accounts /\ a \in VaultContract!Assets
        BY <2>4 DEF MoveRecords
  <2>6. r(n).book[a][h] = state.book[a][h] + Brought(moves, a, h, n) - Taken(moves, a, h, n)
        BY <2>1, <2>2, <2>5, LoopWorks
  <2>7. /\ Taken(moves, a, h, n + 1) = Taken(moves, a, h, n) + Takes(m, a, h)
        /\ Brought(moves, a, h, n) \in Nat /\ Taken(moves, a, h, n) \in Nat
    <3> HIDE DEF m, a, h
    <3>1. /\ Taken(moves, a, h, n + 1) = Taken(moves, a, h, n) + Takes(moves[n + 1], a, h)
          /\ Brought(moves, a, h, n) \in Nat /\ Taken(moves, a, h, n) \in Nat
          BY <2>1, BroughtAndTaken
    <3> QED BY <3>1 DEF m
  <2>8. Takes(m, a, h) = m.amount
        BY DEF Takes
  <2>9. /\ m.amount > 0 \/ a = "quote"
        /\ Taken(moves, a, h, n + 1) <= state.book[a][h] + Brought(moves, a, h, n)
        BY <2>1
  <2>10. state.book[a][h] \in Nat
        BY <2>5 DEF States, Books
  <2> HIDE DEF r, m, A
  <2>11. m.amount <= r(n).book[a][h]
        BY <2>5, <2>6, <2>7, <2>8, <2>9, <2>10
  <2> QED BY <2>2, <2>3, <2>5, <2>9, <2>11 DEF ApplyMove, VaultContract!CanMove
<1>3. Len(moves) \in Nat /\ A \subseteq Nat
      OBVIOUS
<1>4. A = Nat
  <2> HIDE DEF A
  <2> QED BY <1>1, <1>2, <1>3, NatIsLeast
<1> QED BY <1>3, <1>4, AfterRuns

-----------------------------------------------------------------------------
(* The two passes                                                          *)

FillRecords == [trader : Traders, side : Nat, size : Nat, quote : Nat]
Fills == Seq(FillRecords)

\* Each pass makes one move per fill, in the order of the fills.
LEMMA MovesOfFills ==
    ASSUME NEW fills \in Fills
    PROVE  /\ Collects(fills) \in Seq(MoveRecords) /\ Distributes(fills) \in Seq(MoveRecords)
           /\ Len(Collects(fills)) = Len(fills) /\ DOMAIN Collects(fills) = 1..Len(fills)
           /\ Len(Distributes(fills)) = Len(fills) /\ DOMAIN Distributes(fills) = 1..Len(fills)
           /\ DOMAIN fills = 1..Len(fills) /\ Len(fills) \in Nat
           /\ \A i \in 1..Len(fills) :
                 /\ fills[i].trader \in Traders /\ fills[i].size \in Nat /\ fills[i].quote \in Nat
                 /\ Collects(fills)[i] = Collect(fills[i])
                 /\ Distributes(fills)[i] = Distribute(fills[i])
<1>1. DOMAIN fills = 1..Len(fills) /\ Len(fills) \in Nat
      BY DEF Fills
<1>2. ASSUME NEW i \in 1..Len(fills)
      PROVE  /\ fills[i].trader \in Traders /\ fills[i].size \in Nat /\ fills[i].quote \in Nat
             /\ Collect(fills[i]) \in MoveRecords /\ Distribute(fills[i]) \in MoveRecords
  <2>0. fills[i] \in FillRecords
        BY DEF Fills
  <2>1. fills[i].trader \in Traders /\ fills[i].size \in Nat /\ fills[i].quote \in Nat
        BY <2>0 DEF FillRecords
  <2>2. /\ fills[i].trader \in Accounts /\ Venue \in Accounts
        /\ "base" \in VaultContract!Assets /\ "quote" \in VaultContract!Assets
        BY <2>1 DEF Accounts, VaultContract!Assets
  <2> QED BY <2>1, <2>2 DEF Collect, Distribute, MoveRecords
<1>3. /\ Collects(fills) = [i \in 1..Len(fills) |-> Collect(fills[i])]
      /\ Distributes(fills) = [i \in 1..Len(fills) |-> Distribute(fills[i])]
      BY <1>1 DEF Collects, Distributes
<1> QED BY <1>1, <1>2, <1>3

\* The first pass takes from each trader what it owes and gives it nothing; the
\* second takes nothing from it.
LEMMA TraderPays ==
    ASSUME NEW fills \in Fills, NEW t \in Traders, NEW a \in VaultContract!Assets
    PROVE  /\ \A n \in 0..Len(fills) : Brought(Collects(fills), a, t, n) = 0
           /\ Taken(Collects(fills), a, t, Len(fills)) = Owes(fills, t, a)
           /\ Taken(Distributes(fills), a, t, Len(fills)) = 0
<1> DEFINE cs == Collects(fills)
           in == [i \in DOMAIN cs |-> Brings(cs[i], a, t)]
           out == [i \in DOMAIN cs |-> Takes(cs[i], a, t)]
           owes == [i \in DOMAIN fills |->
                       LET m == Collect(fills[i])
                       IN  IF m.from = t /\ m.asset = a THEN m.amount ELSE 0]
<1>1. DOMAIN cs = 1..Len(fills) /\ DOMAIN fills = 1..Len(fills) /\ Len(fills) \in Nat
      BY MovesOfFills
<1>2. \A i \in 1..Len(fills) : in[i] = 0
  <2> TAKE i \in 1..Len(fills)
  <2>1. cs[i] = Collect(fills[i])
        BY MovesOfFills
  <2>2. cs[i].to = Venue
        BY <2>1 DEF Collect
  <2>3. in[i] = Brings(cs[i], a, t)
        BY <1>1
  <2> QED BY <2>2, <2>3, VenueIsNoTrader DEF Brings
<1>3. \A i \in 1..Len(fills) : out[i] = owes[i]
  <2> TAKE i \in 1..Len(fills)
  <2>1. cs[i] = Collect(fills[i])
        BY MovesOfFills
  <2> QED BY <1>1, <2>1 DEF Takes
<1>4. Owes(fills, t, a) = SumFunctionOnSet(owes, 1..Len(fills))
      BY <1>1 DEF Owes, SumFunction
<1> HIDE DEF in, out, owes
<1>5. ASSUME NEW n \in 0..Len(fills) PROVE SumFunctionOnSet(in, 1..n) = 0
  <2>1. IsFiniteSet(1..n) /\ \A i \in 1..n : in[i] = 0
        BY <1>1, <1>2, FS_Interval
  <2> QED BY <2>1, SumOfZeros
<1>6. SumFunctionOnSet(out, 1..Len(fills)) = SumFunctionOnSet(owes, 1..Len(fills))
  <2>1. IsFiniteSet(1..Len(fills))
        BY <1>1, FS_Interval
  <2> QED BY <1>3, <2>1, SumsAreEqual
<1>7. Taken(Distributes(fills), a, t, Len(fills)) = 0
  <2> DEFINE ds == Distributes(fills)
             spent == [i \in DOMAIN ds |-> Takes(ds[i], a, t)]
  <2>1. /\ DOMAIN ds = 1..Len(fills)
        /\ \A i \in 1..Len(fills) : ds[i] = Distribute(fills[i]) /\ fills[i].trader \in Traders
        BY MovesOfFills
  <2>2. \A i \in 1..Len(fills) : ds[i].from = Venue
        BY <2>1 DEF Distribute
  <2>3. \A i \in 1..Len(fills) : spent[i] = 0
        BY <2>1, <2>2, VenueIsNoTrader DEF Takes
  <2> HIDE DEF spent
  <2>4. SumFunctionOnSet(spent, 1..Len(fills)) = 0
    <3>1. IsFiniteSet(1..Len(fills))
          BY <1>1, FS_Interval
    <3> QED BY <2>3, <3>1, SumOfZeros
  <2> QED BY <2>4 DEF Taken, spent
<1> QED BY <1>4, <1>5, <1>6, <1>7 DEF Brought, Taken, in, out

\* The first pass brings the contract what buyers paid and sellers sold, the
\* second takes from it what sellers received and buyers bought.
LEMMA VenuePasses ==
    ASSUME NEW fills \in Fills, \A i \in DOMAIN fills : fills[i].side \in {0, 1}
    PROVE  /\ Brought(Collects(fills), "quote", Venue, Len(fills)) = Paid(fills)
           /\ Brought(Collects(fills), "base", Venue, Len(fills)) = Sold(fills)
           /\ Taken(Distributes(fills), "quote", Venue, Len(fills)) = Received(fills)
           /\ Taken(Distributes(fills), "base", Venue, Len(fills)) = Bought(fills)
           /\ \A a \in VaultContract!Assets : \A n \in 0..Len(fills) :
                 /\ Taken(Collects(fills), a, Venue, n) = 0
                 /\ Brought(Distributes(fills), a, Venue, n) = 0
<1> DEFINE cs == Collects(fills)
           ds == Distributes(fills)
           in(a) == [i \in DOMAIN cs |-> Brings(cs[i], a, Venue)]
           out(a) == [i \in DOMAIN ds |-> Takes(ds[i], a, Venue)]
           outBefore(a) == [i \in DOMAIN cs |-> Takes(cs[i], a, Venue)]
           inAfter(a) == [i \in DOMAIN ds |-> Brings(ds[i], a, Venue)]
           paid == [i \in DOMAIN fills |-> IF fills[i].side = 0 THEN fills[i].quote ELSE 0]
           sold == [i \in DOMAIN fills |-> IF fills[i].side = 1 THEN fills[i].size ELSE 0]
           received == [i \in DOMAIN fills |-> IF fills[i].side = 1 THEN fills[i].quote ELSE 0]
           bought == [i \in DOMAIN fills |-> IF fills[i].side = 0 THEN fills[i].size ELSE 0]
<1>1. /\ DOMAIN cs = 1..Len(fills) /\ DOMAIN ds = 1..Len(fills) /\ DOMAIN fills = 1..Len(fills)
      /\ Len(fills) \in Nat
      BY MovesOfFills
<1>2. ASSUME NEW i \in 1..Len(fills)
      PROVE  /\ in("quote")[i] = paid[i] /\ in("base")[i] = sold[i]
             /\ out("quote")[i] = received[i] /\ out("base")[i] = bought[i]
             /\ \A a \in VaultContract!Assets : outBefore(a)[i] = 0 /\ inAfter(a)[i] = 0
  <2>1. /\ cs[i] = Collect(fills[i]) /\ ds[i] = Distribute(fills[i])
        /\ fills[i].trader # Venue /\ fills[i].side \in {0, 1}
        BY <1>1, MovesOfFills, VenueIsNoTrader
  <2>2. CASE fills[i].side = 0
        BY <1>1, <2>1, <2>2 DEF Collect, Distribute, Brings, Takes
  <2>3. CASE fills[i].side = 1
        BY <1>1, <2>1, <2>3 DEF Collect, Distribute, Brings, Takes
  <2> QED BY <2>1, <2>2, <2>3
<1>3. /\ Paid(fills) = SumFunctionOnSet(paid, 1..Len(fills))
      /\ Sold(fills) = SumFunctionOnSet(sold, 1..Len(fills))
      /\ Received(fills) = SumFunctionOnSet(received, 1..Len(fills))
      /\ Bought(fills) = SumFunctionOnSet(bought, 1..Len(fills))
      BY <1>1 DEF Paid, Sold, Received, Bought, SumFunction
<1>4. IsFiniteSet(1..Len(fills)) /\ \A n \in 0..Len(fills) : IsFiniteSet(1..n)
      BY <1>1, FS_Interval
<1> HIDE DEF in, out, outBefore, inAfter, paid, sold, received, bought
<1>5. /\ SumFunctionOnSet(in("quote"), 1..Len(fills)) = SumFunctionOnSet(paid, 1..Len(fills))
      /\ SumFunctionOnSet(in("base"), 1..Len(fills)) = SumFunctionOnSet(sold, 1..Len(fills))
      /\ SumFunctionOnSet(out("quote"), 1..Len(fills)) = SumFunctionOnSet(received, 1..Len(fills))
      /\ SumFunctionOnSet(out("base"), 1..Len(fills)) = SumFunctionOnSet(bought, 1..Len(fills))
  <2>1. SumFunctionOnSet(in("quote"), 1..Len(fills)) = SumFunctionOnSet(paid, 1..Len(fills))
        BY <1>2, <1>4, SumsAreEqual
  <2>2. SumFunctionOnSet(in("base"), 1..Len(fills)) = SumFunctionOnSet(sold, 1..Len(fills))
        BY <1>2, <1>4, SumsAreEqual
  <2>3. SumFunctionOnSet(out("quote"), 1..Len(fills)) = SumFunctionOnSet(received, 1..Len(fills))
        BY <1>2, <1>4, SumsAreEqual
  <2>4. SumFunctionOnSet(out("base"), 1..Len(fills)) = SumFunctionOnSet(bought, 1..Len(fills))
        BY <1>2, <1>4, SumsAreEqual
  <2> QED BY <2>1, <2>2, <2>3, <2>4
<1>6. ASSUME NEW a \in VaultContract!Assets, NEW n \in 0..Len(fills)
      PROVE  SumFunctionOnSet(outBefore(a), 1..n) = 0 /\ SumFunctionOnSet(inAfter(a), 1..n) = 0
  <2>1. \A i \in 1..n : i \in 1..Len(fills)
        BY <1>1
  <2>2. \A i \in 1..n : outBefore(a)[i] = 0 /\ inAfter(a)[i] = 0
        BY <1>2, <2>1
  <2> QED BY <1>4, <2>2, SumOfZeros
<1> QED BY <1>3, <1>5, <1>6 DEF Brought, Taken, in, out, outBefore, inAfter

\* A prefix takes no more from an account than the whole pass.
LEMMA TakenGrows ==
    ASSUME NEW moves \in Seq(MoveRecords), NEW a, NEW h, NEW n \in 0..Len(moves)
    PROVE  Taken(moves, a, h, n) <= Taken(moves, a, h, Len(moves))
<1> DEFINE t == [i \in DOMAIN moves |-> Takes(moves[i], a, h)]
<1>1. \A i \in 1..Len(moves) : moves[i] \in MoveRecords /\ t[i] = Takes(moves[i], a, h)
      OBVIOUS
<1> HIDE DEF t
<1>2. \A i \in 1..Len(moves) : t[i] \in Nat
      BY <1>1 DEF Takes, MoveRecords
<1>3. Len(moves) \in Nat
      OBVIOUS
<1>4. IsFiniteSet(1..Len(moves)) /\ 1..n \in SUBSET (1..Len(moves))
      BY <1>3, FS_Interval
<1>5. SumFunctionOnSet(t, 1..n) <= SumFunctionOnSet(t, 1..Len(moves))
      BY <1>2, <1>4, SumOfPart
<1> QED BY <1>5 DEF Taken, t

\* What each trader is handed under fills, in one asset.
Gets(fills, trader, asset) == Brought(Distributes(fills), asset, trader, Len(fills))

\* What settling a conserving payload does to the vault's accounts: it goes
\* through exactly when everyone can hand over its part, leaves the contract's
\* own account as it was, owes everyone together what it owed, and each trader
\* what it owed it, less what the trader owes and more what it gets.
LEMMA FillsApply ==
    ASSUME NEW book \in Books, NEW fills \in Fills, Conserves(fills)
    PROVE  LET r == ApplyFills(book, fills) IN
           /\ r \in States
           /\ r.ok => \A a \in VaultContract!Assets :
                 /\ r.book[a][Venue] = book[a][Venue]
                 /\ SumFunctionOnSet(r.book[a], Accounts) = SumFunctionOnSet(book[a], Accounts)
                 /\ \A t \in Traders :
                       r.book[a][t] = book[a][t] + Gets(fills, t, a) - Owes(fills, t, a)
           /\ r.ok <=> \A t \in Traders, a \in VaultContract!Assets : Owes(fills, t, a) <= book[a][t]
<1> DEFINE N == Len(fills)
           cs == Collects(fills)
           ds == Distributes(fills)
           start == [ok |-> TRUE, book |-> book]
           c == ApplyAll(start, cs)
           r == ApplyAll(c, ds)
<1>0. /\ cs \in Seq(MoveRecords) /\ ds \in Seq(MoveRecords) /\ Len(cs) = N /\ Len(ds) = N
      /\ N \in Nat /\ N \in 0..N /\ start \in States /\ start.ok /\ start.book = book
      /\ r = ApplyFills(book, fills)
      BY MovesOfFills DEF States, ApplyFills
<1>00. /\ \A t \in Traders : t \in Accounts
       /\ Venue \in Accounts
       /\ \A a \in VaultContract!Assets : \A h \in Accounts : book[a][h] \in Nat
       /\ \A a \in VaultContract!Assets : a = "base" \/ a = "quote"
      BY DEF Books, Accounts, VaultContract!Assets
<1> HIDE DEF cs, ds, start
<1>1. /\ c \in States
      /\ c.ok => \A a \in VaultContract!Assets :
            /\ \A h \in Accounts : c.book[a][h] = book[a][h] + Brought(cs, a, h, N) - Taken(cs, a, h, N)
            /\ SumFunctionOnSet(c.book[a], Accounts) = SumFunctionOnSet(book[a], Accounts)
      BY <1>0, AfterRuns, LoopWorks
<1> HIDE DEF c
<1>2. /\ r \in States
      /\ r.ok => c.ok
      /\ r.ok => \A a \in VaultContract!Assets :
            /\ \A h \in Accounts : r.book[a][h] = c.book[a][h] + Brought(ds, a, h, N) - Taken(ds, a, h, N)
            /\ SumFunctionOnSet(r.book[a], Accounts) = SumFunctionOnSet(c.book[a], Accounts)
      BY <1>0, <1>1, AfterRuns, LoopWorks
<1> HIDE DEF r, N
<1>3. \A a \in VaultContract!Assets :
          /\ Brought(cs, a, Venue, N) = Taken(ds, a, Venue, N)
          /\ Taken(cs, a, Venue, N) = 0 /\ Brought(ds, a, Venue, N) = 0
          /\ Taken(ds, a, Venue, N) \in Nat
  <2>1. \A i \in DOMAIN fills : fills[i].side \in {0, 1}
        BY DEF Conserves
  <2>2. \A a \in VaultContract!Assets :
          /\ Brought(cs, a, Venue, N) = Taken(ds, a, Venue, N)
          /\ Taken(cs, a, Venue, N) = 0 /\ Brought(ds, a, Venue, N) = 0
        BY <1>0, <1>00, <2>1, VenuePasses DEF Conserves, cs, ds, N
  <2>3. \A a \in VaultContract!Assets : Taken(ds, a, Venue, N) \in Nat
        BY <1>0, BroughtAndTaken
  <2> QED BY <2>2, <2>3
<1>4. ASSUME r.ok, NEW a \in VaultContract!Assets
      PROVE  /\ r.book[a][Venue] = book[a][Venue]
             /\ SumFunctionOnSet(r.book[a], Accounts) = SumFunctionOnSet(book[a], Accounts)
             /\ \A t \in Traders :
                   r.book[a][t] = book[a][t] + Gets(fills, t, a) - Owes(fills, t, a)
  <2>1. r.book[a][Venue] = c.book[a][Venue] + 0 - Taken(ds, a, Venue, N)
        BY <1>00, <1>2, <1>3, <1>4
  <2>2. c.book[a][Venue] = book[a][Venue] + Taken(ds, a, Venue, N) - 0
        BY <1>00, <1>1, <1>2, <1>3, <1>4
  <2>3. book[a][Venue] \in Nat /\ Taken(ds, a, Venue, N) \in Nat
        BY <1>00, <1>3
  <2>4. ASSUME NEW t \in Traders
        PROVE  r.book[a][t] = book[a][t] + Gets(fills, t, a) - Owes(fills, t, a)
    <3>1. r.book[a][t] = c.book[a][t] + Gets(fills, t, a) - 0
      <4>1. Taken(ds, a, t, N) = 0
            BY TraderPays DEF ds, N
      <4> QED BY <1>00, <1>2, <1>4, <4>1 DEF Gets, ds, N
    <3>2. c.book[a][t] = book[a][t] + 0 - Owes(fills, t, a)
      <4>1. Brought(cs, a, t, N) = 0 /\ Taken(cs, a, t, N) = Owes(fills, t, a)
            BY <1>0, TraderPays DEF cs, N
      <4> QED BY <1>00, <1>1, <1>2, <1>4, <4>1
    <3>3. book[a][t] \in Nat /\ Owes(fills, t, a) \in Nat /\ Gets(fills, t, a) \in Nat
      <4>1. Taken(cs, a, t, N) = Owes(fills, t, a) /\ Taken(cs, a, t, N) \in Nat
            BY <1>0, TraderPays, BroughtAndTaken DEF cs, N
      <4>2. Brought(ds, a, t, N) \in Nat
            BY <1>0, BroughtAndTaken
      <4> QED BY <1>00, <4>1, <4>2 DEF Gets, ds, N
    <3> QED BY ONLY <3>1, <3>2, <3>3
  <2> QED BY <1>1, <1>2, <1>4, <2>1, <2>2, <2>3, <2>4
<1>5. ASSUME r.ok, NEW t \in Traders, NEW a \in VaultContract!Assets
      PROVE  Owes(fills, t, a) <= book[a][t]
  <2>1. c.book[a][t] = book[a][t] + Brought(cs, a, t, N) - Taken(cs, a, t, N)
        BY <1>00, <1>1, <1>2, <1>5
  <2>2. Brought(cs, a, t, N) = 0 /\ Taken(cs, a, t, N) = Owes(fills, t, a)
        BY <1>0, TraderPays DEF cs, N
  <2>3. c.book[a][t] \in Nat /\ book[a][t] \in Nat
        BY <1>00, <1>1 DEF States, Books
  <2>4. Taken(cs, a, t, N) \in Nat
        BY <1>0, BroughtAndTaken
  <2> QED BY <2>1, <2>2, <2>3, <2>4
<1>6. ASSUME \A t \in Traders, a \in VaultContract!Assets : Owes(fills, t, a) <= book[a][t]
      PROVE  c.ok
  <2>1. ASSUME NEW n \in 1..N
        PROVE  LET m == cs[n] IN
               /\ m.amount > 0 \/ m.asset = "quote"
               /\ Taken(cs, m.asset, m.from, n)
                    <= start.book[m.asset][m.from] + Brought(cs, m.asset, m.from, n - 1)
    <3> DEFINE m == cs[n]
               a == m.asset
               t == m.from
    <3>1. /\ m = Collect(fills[n]) /\ fills[n].trader \in Traders
          /\ fills[n].size \in Nat /\ fills[n].size # 0
          BY MovesOfFills DEF Conserves, cs, N
    <3>2. t \in Traders /\ a \in VaultContract!Assets /\ (m.amount > 0 \/ a = "quote")
          BY <3>1 DEF Collect, VaultContract!Assets
    <3>3. n \in 0..N /\ n - 1 \in 0..N
          BY <1>0
    <3> HIDE DEF m, a, t
    <3>4. Taken(cs, a, t, n) <= Taken(cs, a, t, N)
          BY <1>0, <3>3, TakenGrows
    <3>5. Brought(cs, a, t, n - 1) = 0 /\ Taken(cs, a, t, N) = Owes(fills, t, a)
          BY <3>2, <3>3, TraderPays DEF cs, N
    <3>6. Owes(fills, t, a) <= book[a][t] /\ book[a][t] \in Nat
          BY <1>00, <1>6, <3>2
    <3>7. Taken(cs, a, t, n) \in Nat /\ Taken(cs, a, t, N) \in Nat
          BY <1>0, <3>3, BroughtAndTaken
    <3>8. Taken(cs, a, t, n) <= start.book[a][t] + Brought(cs, a, t, n - 1)
          BY <1>0, <3>4, <3>5, <3>6, <3>7
    <3> QED BY <3>2, <3>8 DEF m, a, t
  <2> QED BY <1>0, <2>1, LoopGoesThrough DEF c
<1>7. ASSUME c.ok PROVE r.ok
  <2>1. ASSUME NEW n \in 1..N
        PROVE  LET m == ds[n] IN
               /\ m.amount > 0 \/ m.asset = "quote"
               /\ Taken(ds, m.asset, m.from, n)
                    <= c.book[m.asset][m.from] + Brought(ds, m.asset, m.from, n - 1)
    <3> DEFINE m == ds[n]
               a == m.asset
    <3>1. m = Distribute(fills[n]) /\ fills[n].size \in Nat /\ fills[n].size # 0
          BY MovesOfFills DEF Conserves, ds, N
    <3>2. m.from = Venue /\ a \in VaultContract!Assets /\ (m.amount > 0 \/ a = "quote")
          BY <3>1 DEF Distribute, VaultContract!Assets
    <3>3. n \in 0..N /\ n - 1 \in 0..N
          BY <1>0
    <3> HIDE DEF m, a
    <3>4. Taken(ds, a, Venue, n) <= Taken(ds, a, Venue, N)
          BY <1>0, <3>3, TakenGrows
    <3>5. c.book[a][Venue] = book[a][Venue] + Taken(ds, a, Venue, N) - 0
          BY <1>00, <1>1, <1>3, <1>7, <3>2
    <3>6. /\ book[a][Venue] \in Nat /\ Taken(ds, a, Venue, N) \in Nat
          /\ Taken(ds, a, Venue, n) \in Nat /\ Brought(ds, a, Venue, n - 1) \in Nat
          BY <1>0, <1>00, <3>2, <3>3, BroughtAndTaken
    <3>7. Taken(ds, a, Venue, n) <= c.book[a][Venue] + Brought(ds, a, Venue, n - 1)
          BY <3>4, <3>5, <3>6
    <3> QED BY <3>2, <3>7 DEF m, a
  <2> QED BY <1>0, <1>1, <1>7, <2>1, LoopGoesThrough DEF r
<1> QED BY <1>0, <1>2, <1>4, <1>5, <1>6, <1>7

-----------------------------------------------------------------------------
(* The order book's part                                                   *)

Closed == batchClosed => \E m \in sent : m.cmd = "RUN_MATCH" /\ m.batch = currentBatchId

\* The order book's variables keep their types, a machine is pinned before an
\* order is counted, and a batch is closed only once its match was requested.
BookInv == OrderBookContract!TypeOK /\ OrderBookContract!PinnedBeforeUse /\ Closed

\* OrderBook's sets are finite, and its instructions numbered, like any others.
LEMMA OneMoreInstruction ==
    ASSUME OrderBookContract!TypeOK, NEW m
    PROVE  /\ OrderBookContract!NextInstruction \in Nat
           /\ OrderBookContract!IsFiniteSet(sent \union {m})
<1>1. ASSUME NEW S
      PROVE  /\ OrderBookContract!IsFiniteSet(S) <=> IsFiniteSet(S)
             /\ OrderBookContract!Cardinality(S) = Cardinality(S)
      BY DEF OrderBookContract!IsFiniteSet, IsFiniteSet, OrderBookContract!Cardinality, Cardinality
<1>2. IsFiniteSet(sent)
      BY <1>1 DEF OrderBookContract!TypeOK
<1>3. Cardinality(sent) \in Nat /\ IsFiniteSet(sent \union {m})
      BY <1>2, FS_CardinalityType, FS_AddElement
<1> QED BY <1>1, <1>3 DEF OrderBookContract!NextInstruction

\* An order's instruction is for the batch in hand and goes to the pinned machine.
LEMMA SubmitKeepsBook ==
    ASSUME BookInv, NEW sender \in Accounts, NEW base \in Nat, NEW quote \in Nat,
           NEW ciphertext \in Ciphertexts, NEW drawn \in Tees,
           OrderBookContract!SubmitOrder(sender, base, quote, ciphertext, drawn)
    PROVE  BookInv'
<1> USE OrderBookFits
<1> DEFINE order == [cmd |-> "SUBMIT_ORDER", tee |-> drawn, batch |-> currentBatchId,
                     id |-> OrderBookContract!NextInstruction, sender |-> sender, base |-> base,
                     quote |-> quote, ciphertext |-> ciphertext]
<1>1. /\ ~batchClosed /\ sent' = sent \union {order}
      /\ UNCHANGED <<extensionId, owner, settlement, minBatchDuration, voidDelay,
                     currentBatchId, batchClosed, now, ended>>
      BY DEF OrderBookContract!SubmitOrder, OrderBookContract!adminVars
<1>2. batchTee' \in Tees /\ batchOpenedAt' \in 0..U64
      BY DEF OrderBookContract!SubmitOrder, OrderBookContract!PinnedTee, BookInv,
             OrderBookContract!TypeOK
<1>3. orderCount' \in 0..U32
      BY DEF OrderBookContract!SubmitOrder, OrderBookContract!BumpOrderCount, BookInv,
             OrderBookContract!TypeOK
<1>4. order \in OrderBookContract!SubmitMessages
      BY OneMoreInstruction DEF OrderBookContract!SubmitMessages, BookInv, OrderBookContract!TypeOK
<1> HIDE DEF order
<1>5. OrderBookContract!TypeOK'
      BY <1>1, <1>2, <1>3, <1>4, OneMoreInstruction DEF BookInv, OrderBookContract!TypeOK
<1>6. OrderBookContract!PinnedBeforeUse' /\ Closed'
      BY <1>1, <1>2 DEF OrderBookContract!PinnedBeforeUse, Closed
<1> QED BY <1>5, <1>6 DEF BookInv

\* A match is asked of the machine that was sent this batch's orders.
LEMMA CloseKeepsBook ==
    ASSUME BookInv, OrderBookContract!CloseBatch
    PROVE  BookInv'
<1> DEFINE match == [cmd |-> "RUN_MATCH", tee |-> batchTee, batch |-> currentBatchId,
                     id |-> OrderBookContract!NextInstruction]
<1>1. /\ sent' = sent \union {match} /\ batchClosed' = TRUE /\ orderCount # 0
      /\ UNCHANGED <<extensionId, owner, settlement, minBatchDuration, voidDelay,
                     currentBatchId, batchTee, batchOpenedAt, orderCount, now, ended>>
      BY DEF OrderBookContract!CloseBatch, OrderBookContract!RequestMatch,
             OrderBookContract!adminVars
<1>2. batchTee \in Tees
      BY <1>1 DEF BookInv, OrderBookContract!TypeOK, OrderBookContract!PinnedBeforeUse
<1>3. match \in OrderBookContract!MatchMessages
      BY <1>2, OneMoreInstruction DEF OrderBookContract!MatchMessages, BookInv, OrderBookContract!TypeOK
<1>4. match.cmd = "RUN_MATCH" /\ match.batch = currentBatchId
      OBVIOUS
<1> HIDE DEF match
<1>5. OrderBookContract!TypeOK'
      BY <1>1, <1>3, OneMoreInstruction DEF BookInv, OrderBookContract!TypeOK
<1>6. OrderBookContract!PinnedBeforeUse' /\ Closed'
      BY <1>1, <1>2, <1>4, OrderBookFits DEF OrderBookContract!PinnedBeforeUse, Closed
<1> QED BY <1>5, <1>6 DEF BookInv

\* Whichever way a batch ends, the next starts empty under an unused number.
LEMMA NextKeepsBook ==
    ASSUME BookInv, NEW outcome \in {"advanced", "voided"}, OrderBookContract!NextBatch(outcome)
    PROVE  BookInv'
<1>1. /\ currentBatchId' = currentBatchId + 1 /\ batchTee' = None /\ batchOpenedAt' = 0
      /\ orderCount' = 0 /\ batchClosed' = FALSE /\ ended' = Append(ended, outcome)
      /\ UNCHANGED <<extensionId, owner, settlement, minBatchDuration, voidDelay, now, sent>>
      BY DEF OrderBookContract!NextBatch, OrderBookContract!adminVars
<1>2. ended' \in Seq({"advanced", "voided"})
      BY <1>1 DEF BookInv, OrderBookContract!TypeOK
<1>3. /\ currentBatchId' \in Nat \ {0} /\ batchTee' \in Tees \union {None}
      /\ batchOpenedAt' \in 0..U64 /\ orderCount' \in 0..U32 /\ batchClosed' \in BOOLEAN
  <2>1. currentBatchId \in Nat \ {0}
        BY DEF BookInv, OrderBookContract!TypeOK
  <2>2. 0 \in 0..U64 /\ 0 \in 0..U32
        BY OrderBookFits
  <2>3. currentBatchId' \in Nat \ {0}
        BY <1>1, <2>1
  <2>4. batchTee' \in Tees \union {None}
        BY <1>1
  <2>5. batchOpenedAt' \in 0..U64 /\ orderCount' \in 0..U32
        BY ONLY <1>1, <2>2
  <2>6. batchClosed' \in BOOLEAN
        BY ONLY <1>1
  <2> QED BY <2>3, <2>4, <2>5, <2>6
<1>4. OrderBookContract!TypeOK'
      BY <1>1, <1>2, <1>3 DEF BookInv, OrderBookContract!TypeOK
<1> QED BY <1>1, <1>4 DEF BookInv, OrderBookContract!PinnedBeforeUse, Closed

\* Time alone changes nothing the invariant says.
LEMMA TickKeepsBook ==
    ASSUME BookInv, OrderBookContract!Tick
    PROVE  BookInv'
BY OrderBookFits
DEF BookInv, OrderBookContract!Tick, OrderBookContract!TypeOK, OrderBookContract!adminVars,
    OrderBookContract!batchVars, OrderBookContract!PinnedBeforeUse, Closed

\* Steps that leave the order book alone.
LEMMA BookFrame ==
    ASSUME BookInv, UNCHANGED orderBookVars
    PROVE  BookInv'
BY DEF BookInv, orderBookVars, OrderBookContract!TypeOK, OrderBookContract!PinnedBeforeUse, Closed

-----------------------------------------------------------------------------
(* The vault's part                                                        *)

Owed(a) == SumFunctionOnSet(balance[a], Accounts)

\* The vault's accounts are covered by its tokens, within the bound, and the
\* settlement contract's own account is empty.
VaultInv ==
    /\ VaultContract!TypeOK
    /\ \A a \in VaultContract!Assets :
          Owed(a) <= held[a] /\ held[a] <= MaxHeld /\ balance[a][Venue] = 0

\* The accounts can be summed over.
LEMMA AccountsAreFinite == IsFiniteSet(Accounts)
BY TradersAreFinite, FS_Singleton, FS_Union DEF Accounts

\* No balance exceeds what is owed in all, and that is held.
LEMMA OwedIsNat ==
    ASSUME VaultInv, NEW a \in VaultContract!Assets
    PROVE  /\ Owed(a) \in Nat /\ held[a] \in Nat
           /\ \A h \in Accounts : balance[a][h] \in Nat /\ balance[a][h] <= Owed(a)
                                                        /\ balance[a][h] <= MaxHeld
<1>1. held[a] \in Nat /\ \A h \in Accounts : balance[a][h] \in Nat
      BY DEF VaultInv, VaultContract!TypeOK
<1>2. Owed(a) \in Nat /\ \A h \in Accounts : balance[a][h] <= Owed(a)
      BY <1>1, AccountsAreFinite, SumOfNaturals DEF Owed
<1>3. Owed(a) <= held[a] /\ held[a] <= MaxHeld /\ MaxHeld \in Nat
      BY FundingFits DEF VaultInv
<1> QED BY <1>1, <1>2, <1>3

\* One account's balance changes, and what is owed changes as much.
LEMMA OneEntryChanges ==
    ASSUME NEW a \in VaultContract!Assets, NEW h \in Accounts, NEW v \in Nat,
           balance \in [VaultContract!Assets -> [Accounts -> Nat]],
           balance' = [balance EXCEPT ![a][h] = v]
    PROVE  /\ balance' \in [VaultContract!Assets -> [Accounts -> Nat]]
           /\ \A x \in Accounts \ {h} : balance'[a][x] = balance[a][x]
           /\ \A b \in VaultContract!Assets \ {a} : balance'[b] = balance[b]
           /\ SumFunctionOnSet(balance'[a], Accounts)
                 = SumFunctionOnSet(balance[a], Accounts) + (v - balance[a][h])
<1>1. /\ balance[a] \in [Accounts -> Nat] /\ balance'[a] = [balance[a] EXCEPT ![h] = v]
      /\ balance' \in [VaultContract!Assets -> [Accounts -> Nat]]
      /\ \A b \in VaultContract!Assets \ {a} : balance'[b] = balance[b]
      OBVIOUS
<1>2. PICK f, g, w : f = balance[a] /\ g = balance'[a] /\ w = v
      OBVIOUS
<1>3. /\ \A x \in Accounts : f[x] \in Int /\ g[x] \in Int
      /\ \A x \in Accounts \ {h} : g[x] = f[x]
      BY <1>1, <1>2
<1>4. h \in Accounts
      OBVIOUS
<1>5. IsFiniteSet(Accounts)
      BY AccountsAreFinite
<1>6. SumFunctionOnSet(g, Accounts) = SumFunctionOnSet(f, Accounts) + (g[h] - f[h])
      BY ONLY <1>3, <1>4, <1>5, SumOfOneChange
<1>7. g[h] = w
      BY <1>1, <1>2, <1>4
<1> QED BY <1>1, <1>2, <1>3, <1>6, <1>7

\* A deposit credits what arrived.
LEMMA DepositKeepsVault ==
    ASSUME VaultInv, NEW trader \in Traders, NEW a \in VaultContract!Assets, NEW amount \in Nat,
           NEW received \in 1..amount, VaultContract!Deposit(trader, a, amount, received)
    PROVE  VaultInv'
<1> DEFINE v == balance[a][trader] + received
<1>1. trader \in Accounts /\ trader # Venue /\ received \in Nat
      BY VenueIsNoTrader DEF Accounts
<1>2. balance \in [VaultContract!Assets -> [Accounts -> Nat]] /\ held \in [VaultContract!Assets -> Nat]
      BY DEF VaultInv, VaultContract!TypeOK
<1>3. v \in Nat
      BY <1>1, <1>2
<1>4. /\ balance' = [balance EXCEPT ![a][trader] = v]
      /\ held' = [held EXCEPT ![a] = @ + received] /\ held[a] + received <= MaxHeld
      /\ UNCHANGED <<frozen, vaultOwner, vaultSettlement>>
      BY DEF VaultContract!Deposit, VaultContract!roles
<1>5. /\ balance' \in [VaultContract!Assets -> [Accounts -> Nat]]
      /\ \A x \in Accounts \ {trader} : balance'[a][x] = balance[a][x]
      /\ \A b \in VaultContract!Assets \ {a} : balance'[b] = balance[b]
      /\ SumFunctionOnSet(balance'[a], Accounts) = SumFunctionOnSet(balance[a], Accounts) + (v - balance[a][trader])
  <2> HIDE DEF v
  <2> QED BY <1>1, <1>2, <1>3, <1>4, OneEntryChanges
<1>6. /\ held' \in [VaultContract!Assets -> Nat] /\ held'[a] = held[a] + received
      /\ \A b \in VaultContract!Assets \ {a} : held'[b] = held[b]
      BY <1>1, <1>2, <1>4
<1>7. Owed(a)' = Owed(a) + received
  <2>1. v - balance[a][trader] = received
        BY <1>1, <1>2
  <2> QED BY <1>5, <2>1 DEF Owed
<1>8. \A b \in VaultContract!Assets \ {a} : Owed(b)' = Owed(b)
      BY <1>5 DEF Owed
<1>9. \A b \in VaultContract!Assets : balance'[b][Venue] = balance[b][Venue]
      BY <1>1, <1>5 DEF Accounts
<1>10. Owed(a) \in Nat /\ held[a] \in Nat
      BY OwedIsNat
<1>11. VaultContract!TypeOK'
      BY <1>4, <1>5, <1>6 DEF VaultInv, VaultContract!TypeOK
<1>12. Owed(a)' <= held'[a] /\ held'[a] <= MaxHeld
      BY <1>1, <1>4, <1>6, <1>7, <1>10 DEF VaultInv
<1> QED BY <1>6, <1>8, <1>9, <1>11, <1>12 DEF VaultInv

\* A withdrawal takes from the balance what leaves the vault.
LEMMA WithdrawKeepsVault ==
    ASSUME VaultInv, NEW trader \in Traders, NEW a \in VaultContract!Assets, NEW amount \in Nat,
           VaultContract!Withdraw(trader, a, amount)
    PROVE  VaultInv'
<1> DEFINE v == balance[a][trader] - amount
<1>1. trader \in Accounts /\ trader # Venue
      BY VenueIsNoTrader DEF Accounts
<1>2. balance \in [VaultContract!Assets -> [Accounts -> Nat]] /\ held \in [VaultContract!Assets -> Nat]
      BY DEF VaultInv, VaultContract!TypeOK
<1>3. v \in Nat
      BY <1>1, <1>2 DEF VaultContract!Withdraw
<1>4. /\ balance' = [balance EXCEPT ![a][trader] = v]
      /\ held' = [held EXCEPT ![a] = @ - amount] /\ amount <= balance[a][trader]
      /\ UNCHANGED <<frozen, vaultOwner, vaultSettlement>>
      BY <1>1, <1>2 DEF VaultContract!Withdraw, VaultContract!roles
<1>5. /\ balance' \in [VaultContract!Assets -> [Accounts -> Nat]]
      /\ \A x \in Accounts \ {trader} : balance'[a][x] = balance[a][x]
      /\ \A b \in VaultContract!Assets \ {a} : balance'[b] = balance[b]
      /\ SumFunctionOnSet(balance'[a], Accounts) = SumFunctionOnSet(balance[a], Accounts) + (v - balance[a][trader])
  <2> HIDE DEF v
  <2> QED BY <1>1, <1>2, <1>3, <1>4, OneEntryChanges
<1>6. /\ Owed(a) \in Nat /\ held[a] \in Nat /\ balance[a][trader] <= Owed(a)
      /\ Owed(a) <= held[a] /\ held[a] <= MaxHeld /\ MaxHeld \in Nat
      BY <1>1, OwedIsNat, FundingFits DEF VaultInv
<1>7. balance[a][trader] \in Nat
      BY <1>1, <1>2
<1>8. held[a] - amount \in Nat
      BY <1>4, <1>6, <1>7
<1>9. /\ held' \in [VaultContract!Assets -> Nat] /\ held'[a] = held[a] - amount
      /\ \A b \in VaultContract!Assets \ {a} : held'[b] = held[b]
      BY <1>2, <1>4, <1>8
<1>10. Owed(a)' = Owed(a) - amount
  <2>1. v - balance[a][trader] = -amount
        BY <1>7
  <2>2. Owed(a)' = Owed(a) + (v - balance[a][trader])
        BY <1>5 DEF Owed
  <2> QED BY <1>6, <2>1, <2>2
<1>11. \A b \in VaultContract!Assets \ {a} : Owed(b)' = Owed(b)
      BY <1>5 DEF Owed
<1>12. \A b \in VaultContract!Assets : balance'[b][Venue] = balance[b][Venue]
      BY <1>1, <1>5 DEF Accounts
<1>13. VaultContract!TypeOK'
      BY <1>4, <1>5, <1>9 DEF VaultInv, VaultContract!TypeOK
<1>14. Owed(a)' <= held'[a] /\ held'[a] <= MaxHeld
      BY <1>6, <1>9, <1>10
<1> QED BY <1>9, <1>11, <1>12, <1>13, <1>14 DEF VaultInv

\* A settlement hands on between accounts what they hold, and no tokens move.
LEMMA SettleKeepsVault ==
    ASSUME VaultInv, NEW fills \in Fills, Conserves(fills),
           ApplyFills(balance, fills).ok, balance' = ApplyFills(balance, fills).book,
           frozen' = FALSE, UNCHANGED <<held, vaultOwner, vaultSettlement>>
    PROVE  VaultInv'
<1>1. balance \in Books
      BY DEF VaultInv, VaultContract!TypeOK, Books
<1>2. /\ balance' \in Books
      /\ \A a \in VaultContract!Assets : balance'[a][Venue] = balance[a][Venue] /\ Owed(a)' = Owed(a)
      BY <1>1, FillsApply DEF States, Owed
<1> QED BY <1>2 DEF VaultInv, VaultContract!TypeOK, Books

\* Steps that leave the vault alone.
LEMMA VaultFrame ==
    ASSUME VaultInv, UNCHANGED vaultVars
    PROVE  VaultInv'
BY DEF VaultInv, vaultVars, vaultRoles, VaultContract!TypeOK, Owed

-----------------------------------------------------------------------------
(* The three contracts                                                     *)

\* Each contract's part, and the settlement contract's own variables.
SettlementInv ==
    /\ BookInv
    /\ VaultInv
    /\ settlementOwner \in Accounts
    /\ bandBps \in Bands
    /\ lastSettledBatch \in Nat

\* The deployed contracts start in the invariant.
LEMMA InitHolds ==
    ASSUME Init
    PROVE  SettlementInv
<1>1. /\ \A h \in Traders : h \in Accounts /\ h # Venue
      /\ Venue \in Accounts /\ Accounts \ {Venue} = Traders
      /\ owner \in Accounts
      BY VenueIsNoTrader, DeployersTrade DEF Accounts, Init
<1>2. BookInv
  <2>1. OrderBookContract!TypeOK
    <3>1. /\ minBatchDuration \in 0..U64 /\ voidDelay \in 0..U64 /\ batchOpenedAt \in 0..U64
          /\ orderCount \in 0..U32 /\ now \in 0..MaxTime
          BY OrderBookFits DEF Init
    <3>2. /\ extensionId \in ExtensionIds /\ settlement = Venue /\ currentBatchId = 1
          /\ batchTee = None /\ batchClosed = FALSE /\ ended = <<>>
          BY DEF Init
    <3>3. /\ OrderBookContract!IsFiniteSet(sent)
          /\ sent \subseteq OrderBookContract!SubmitMessages \union OrderBookContract!MatchMessages
          BY FS_EmptySet DEF Init, OrderBookContract!IsFiniteSet, IsFiniteSet
    <3>4. ended \in Seq({"advanced", "voided"})
          BY ONLY <3>2
    <3>5. batchClosed \in BOOLEAN
          BY ONLY <3>2
    <3>6. /\ extensionId \in ExtensionIds \union {0} /\ settlement \in Accounts \union {None}
          /\ currentBatchId \in Nat \ {0} /\ batchTee \in Tees \union {None}
          BY ONLY <1>1, <3>2
    <3> QED BY <1>1, <3>1, <3>3, <3>4, <3>5, <3>6 DEF OrderBookContract!TypeOK
  <2> QED BY <2>1 DEF Init, BookInv, OrderBookContract!PinnedBeforeUse, Closed
<1>3. /\ Funding \in [VaultContract!Assets -> [Traders -> 0..MaxHeld]]
      /\ \A a \in VaultContract!Assets : SumFunction(Funding[a]) <= MaxHeld
      /\ MaxHeld \in Nat
      BY FundingFits DEF VaultContract!Assets
<1>4. /\ balance = [a \in VaultContract!Assets |->
                      [h \in Accounts |-> IF h = Venue THEN 0 ELSE Funding[a][h]]]
      /\ held = [a \in VaultContract!Assets |-> SumFunction(Funding[a])]
      BY DEF Init
<1>5. ASSUME NEW a \in VaultContract!Assets
      PROVE  /\ balance[a] \in [Accounts -> Nat]
             /\ balance[a][Venue] = 0
             /\ held[a] \in Nat /\ held[a] <= MaxHeld
             /\ Owed(a) = held[a]
  <2>1. /\ balance[a] = [h \in Accounts |-> IF h = Venue THEN 0 ELSE Funding[a][h]]
        /\ held[a] = SumFunction(Funding[a])
        /\ Funding[a] \in [Traders -> 0..MaxHeld] /\ SumFunction(Funding[a]) <= MaxHeld
        BY <1>3, <1>4
  <2>2. \A h \in Traders : Funding[a][h] \in Nat
        BY <1>3, <2>1
  <2>3. PICK f, g : f = balance[a] /\ g = Funding[a]
        OBVIOUS
  <2>4. /\ f[Venue] = 0
        /\ \A h \in Traders : f[h] = g[h]
        /\ \A h \in Traders : g[h] \in Nat
        /\ \A h \in Accounts : f[h] \in Nat
        BY <1>1, <2>1, <2>2, <2>3
  <2>5. SumFunctionOnSet(f, Accounts) = f[Venue] + SumFunctionOnSet(f, Traders)
    <3>1. \A h \in Accounts : f[h] \in Int
          BY <2>4
    <3>2. Venue \in Accounts /\ Accounts \ {Venue} = Traders
          BY <1>1
    <3>3. IsFiniteSet(Accounts)
          BY AccountsAreFinite
    <3>4. SumFunctionOnSet(f, Accounts) = f[Venue] + SumFunctionOnSet(f, Accounts \ {Venue})
          BY ONLY <3>1, <3>2, <3>3, SumWithout
    <3> QED BY <3>2, <3>4
  <2>6. SumFunctionOnSet(f, Traders) = SumFunctionOnSet(g, Traders)
    <3>1. \A h \in Traders : f[h] \in Int /\ f[h] = g[h]
          BY <2>4
    <3> QED BY <3>1, TradersAreFinite, SumsAreEqual
  <2>7. SumFunctionOnSet(g, Traders) \in Nat
        BY <2>4, TradersAreFinite, SumOfNaturals
  <2>8. SumFunction(g) = SumFunctionOnSet(g, Traders)
    <3>1. DOMAIN g = Traders
          BY <2>1, <2>3
    <3> QED BY <3>1 DEF SumFunction, SumFunctionOnSet, FoldFunction
  <2>9. balance[a] \in [Accounts -> Nat]
        BY <2>1, <2>3, <2>4
  <2> QED BY <2>1, <2>3, <2>4, <2>5, <2>6, <2>7, <2>8, <2>9 DEF Owed
<1>6. VaultContract!TypeOK
  <2>1. balance \in [VaultContract!Assets -> [Accounts -> Nat]]
        BY <1>4, <1>5
  <2>2. held \in [VaultContract!Assets -> Nat]
        BY <1>4, <1>5
  <2> QED BY <1>1, <2>1, <2>2 DEF Init, VaultContract!TypeOK
<1>7. VaultInv
  <2>1. \A a \in VaultContract!Assets : Owed(a) <= held[a]
        BY <1>5
  <2> QED BY <1>5, <1>6, <2>1 DEF VaultInv
<1> QED BY <1>1, <1>2, <1>7 DEF SettlementInv, Init

\* What a relayed payload does.
LEMMA SettlementHolds ==
    ASSUME SettlementInv, NEW payload, payload.fills \in Fills, NEW signer, NEW feed,
           Settle(payload, signer, feed)
    PROVE  SettlementInv'
<1>1. VaultInv'
  <2>1. /\ Conserves(payload.fills) /\ ApplyFills(balance, payload.fills).ok
        /\ balance' = ApplyFills(balance, payload.fills).book
        /\ frozen' = FALSE /\ UNCHANGED <<held, vaultOwner, vaultSettlement>>
        BY DEF Settle, vaultRoles
  <2> QED BY <2>1, SettleKeepsVault DEF SettlementInv
<1>2. BookInv'
  <2>1. OrderBookContract!NextBatch("advanced")
        BY DEF Settle, OrderBookContract!AdvanceBatch
  <2> QED BY <2>1, NextKeepsBook DEF SettlementInv
<1>3. /\ lastSettledBatch' = currentBatchId
      /\ UNCHANGED <<settlementOwner, bandBps>>
      BY DEF Settle
<1>4. lastSettledBatch' \in Nat
      BY <1>3 DEF SettlementInv, BookInv, OrderBookContract!TypeOK
<1> QED BY <1>1, <1>2, <1>3, <1>4 DEF SettlementInv

\* What a trader does: an order spends nothing, a deposit brings what it
\* credits, a withdrawal takes what it debits.
LEMMA TraderHolds ==
    ASSUME SettlementInv, TraderStep
    PROVE  SettlementInv'
<1>1. PICK trader \in Traders :
        \/ \E ciphertext \in Ciphertexts, drawn \in Tees : SubmitOrder(trader, ciphertext, drawn)
        \/ \E asset \in VaultContract!Assets, amount \in DepositAmounts :
              \E received \in 1..amount : Deposit(trader, asset, amount, received)
        \/ \E asset \in VaultContract!Assets, amount \in WithdrawAmounts :
              Withdraw(trader, asset, amount)
      BY DEF TraderStep
<1>2. trader \in Accounts
      BY DEF Accounts
<1>3. ASSUME NEW ciphertext \in Ciphertexts, NEW drawn \in Tees,
             SubmitOrder(trader, ciphertext, drawn)
      PROVE  SettlementInv'
  <2>1. /\ OrderBookContract!SubmitOrder(trader, balance["base"][trader],
              balance["quote"][trader], ciphertext, drawn)
        /\ UNCHANGED <<vaultVars, settlementVars>>
        BY <1>3 DEF SubmitOrder
  <2>2. \A a \in VaultContract!Assets : balance[a][trader] \in 0..MaxHeld
        BY <1>2, OwedIsNat DEF SettlementInv
  <2>3. balance["base"][trader] \in 0..MaxHeld /\ balance["quote"][trader] \in 0..MaxHeld
        BY <2>2 DEF VaultContract!Assets
  <2>4. BookInv'
        BY <1>2, <2>1, <2>3, SubmitKeepsBook DEF SettlementInv
  <2> QED BY <2>1, <2>4, VaultFrame DEF SettlementInv, settlementVars
<1>4. ASSUME NEW asset \in VaultContract!Assets, NEW amount \in DepositAmounts,
             NEW received \in 1..amount, Deposit(trader, asset, amount, received)
      PROVE  SettlementInv'
  <2>1. VaultInv'
        BY <1>4, DepositKeepsVault, AmountsAreNat DEF Deposit, SettlementInv
  <2>2. UNCHANGED <<orderBookVars, settlementVars>>
        BY <1>4 DEF Deposit
  <2> QED BY <2>1, <2>2, BookFrame DEF SettlementInv, settlementVars
<1>5. ASSUME NEW asset \in VaultContract!Assets, NEW amount \in WithdrawAmounts,
             Withdraw(trader, asset, amount)
      PROVE  SettlementInv'
  <2>1. VaultInv'
        BY <1>5, WithdrawKeepsVault, AmountsAreNat DEF Withdraw, SettlementInv
  <2>2. UNCHANGED <<orderBookVars, settlementVars>>
        BY <1>5 DEF Withdraw
  <2> QED BY <2>1, <2>2, BookFrame DEF SettlementInv, settlementVars
<1> QED BY <1>1, <1>3, <1>4, <1>5

\* Every step of the three contracts keeps it.
LEMMA StepHolds == SettlementInv /\ [Next]_vars => SettlementInv'
<1> SUFFICES ASSUME SettlementInv, [Next]_vars PROVE SettlementInv'
    OBVIOUS
<1>1. CASE UNCHANGED vars
      BY <1>1, BookFrame, VaultFrame DEF SettlementInv, vars, settlementVars
<1>2. CASE TraderStep
      BY <1>2, TraderHolds
<1>3. CASE CloseBatch
      BY <1>3, CloseKeepsBook, VaultFrame DEF SettlementInv, CloseBatch, settlementVars
<1>4. CASE VoidBatch
      BY <1>4, NextKeepsBook, VaultFrame
      DEF SettlementInv, VoidBatch, OrderBookContract!VoidBatch, settlementVars
<1>5. CASE Tick
      BY <1>5, TickKeepsBook, VaultFrame DEF SettlementInv, Tick, settlementVars
<1>6. CASE OwnerStep
  <2>1. PICK caller \in Traders :
            \/ \E band \in Bands : SetBandBps(caller, band)
            \/ \E address \in Traders : SetSettlementOwner(caller, address)
        BY <1>6 DEF OwnerStep
  <2>2. UNCHANGED <<orderBookVars, vaultVars, lastSettledBatch>>
        BY <2>1 DEF SetBandBps, SetSettlementOwner
  <2>3. settlementOwner' \in Accounts /\ bandBps' \in Bands
        BY <2>1 DEF SetBandBps, SetSettlementOwner, SettlementInv, Accounts
  <2> QED BY <2>2, <2>3, BookFrame, VaultFrame DEF SettlementInv
<1>7. CASE RelayStep
  <2>1. PICK payload \in Payloads, signer \in Tees, feed \in Feeds : Settle(payload, signer, feed)
        BY <1>7 DEF RelayStep
  <2>2. payload.fills \in Fills
        BY PayloadsNameTraders DEF Fills, FillRecords
  <2> QED BY <2>1, <2>2, SettlementHolds
<1> QED BY <1>1, <1>2, <1>3, <1>4, <1>5, <1>6, <1>7 DEF Next, BatchStep

\* So it holds throughout.
LEMMA AlwaysHolds == Spec => []SettlementInv
<1>1. Init => SettlementInv
      BY InitHolds
<1> QED BY <1>1, StepHolds, PTL DEF Spec

\* Whatever is signed about traders, the contract's own account is empty
\* between transactions (_applyFills).
THEOREM NothingStays == Spec => []PassThroughIsEmpty
<1>1. SettlementInv => PassThroughIsEmpty
      BY DEF SettlementInv, BookInv, VaultInv, PassThroughIsEmpty, TypeOK
<1> QED BY <1>1, AlwaysHolds, PTL

\* The two passes revert exactly when some trader cannot pay its own part, for
\* any number of fills in any order (_applyFills).
THEOREM EachPaysItsPart == Spec => []AppliesIffEveryoneCanPay
<1>1. SettlementInv => AppliesIffEveryoneCanPay
  <2> SUFFICES ASSUME SettlementInv, NEW fills \in ConservingFills
               PROVE  ApplyFills(balance, fills).ok <=>
                         \A trader \in Traders, asset \in VaultContract!Assets :
                             Owes(fills, trader, asset) <= balance[asset][trader]
      BY DEF AppliesIffEveryoneCanPay
  <2>1. balance \in Books
        BY DEF SettlementInv, VaultInv, VaultContract!TypeOK, Books
  <2>2. fills \in Fills /\ Conserves(fills)
        BY PayloadsNameTraders DEF ConservingFills, Fills, FillRecords
  <2> QED BY <2>1, <2>2, FillsApply
<1> QED BY <1>1, AlwaysHolds, PTL

\* The vault stays solvent under the settlement contract: deposits, withdrawals
\* and whole settlements together never owe more than is held (Vault, settle).
THEOREM SettlingIsSolvent == Spec => []VaultContract!Solvent
<1>1. SettlementInv => VaultContract!Solvent
  <2>1. \A a \in VaultContract!Assets : VaultContract!Owed(a) = Owed(a)
        BY DEF Owed, VaultContract!Owed, VaultContract!SumFunctionOnSet,
               VaultContract!FoldFunctionOnSet, VaultContract!MapThenFoldSet,
               SumFunctionOnSet, FoldFunctionOnSet, MapThenFoldSet
  <2> QED BY <2>1 DEF SettlementInv, VaultInv, VaultContract!Solvent
<1> QED BY <1>1, AlwaysHolds, PTL

\* A trader loses balance only by withdrawing itself, as much as leaves the vault
\* and nobody else anything, or to a batch that was asked for a match (withdraw,
\* settle).
THEOREM OnlyAMatchSpends == Spec => BalanceFallsOnlyInMatch
<1> DEFINE OwnWithdrawal(a, t) ==
               balance' = [balance EXCEPT ![a][t] = @ - (held[a] - held'[a])]
           Matched ==
               /\ lastSettledBatch' = currentBatchId
               /\ \E m \in sent : m.cmd = "RUN_MATCH" /\ m.batch = currentBatchId
           Allowed ==
               \A a \in VaultContract!Assets, t \in Traders :
                   balance'[a][t] < balance[a][t] =>
                       \/ OwnWithdrawal(a, t)
                       \/ Matched
<1>1. SettlementInv /\ [Next]_vars => [Allowed]_vars
  <2> SUFFICES ASSUME SettlementInv, [Next]_vars, NEW a \in VaultContract!Assets, NEW t \in Traders,
                      balance'[a][t] < balance[a][t]
               PROVE  OwnWithdrawal(a, t) \/ Matched
      OBVIOUS
  <2>1. /\ t \in Accounts /\ held[a] \in Nat
        /\ balance \in [VaultContract!Assets -> [Accounts -> Nat]]
        /\ held \in [VaultContract!Assets -> Nat]
        BY OwedIsNat DEF SettlementInv, VaultInv, VaultContract!TypeOK, Accounts
  <2>2. balance[a][t] \in Nat
        BY <2>1
  <2>3. balance' # balance
        BY <2>2
  <2>4. CASE RelayStep
        BY <2>4 DEF RelayStep, Settle, SettlementInv, BookInv, Closed
  <2>5. CASE TraderStep
    <3>1. PICK trader \in Traders :
              \/ \E asset \in VaultContract!Assets, amount \in DepositAmounts :
                    \E received \in 1..amount : Deposit(trader, asset, amount, received)
              \/ \E asset \in VaultContract!Assets, amount \in WithdrawAmounts :
                    Withdraw(trader, asset, amount)
          BY <2>3, <2>5 DEF TraderStep, SubmitOrder, vaultVars
    <3>2. trader \in Accounts
          BY DEF Accounts
    <3>3. ASSUME NEW asset \in VaultContract!Assets, NEW amount \in DepositAmounts,
                 NEW received \in 1..amount, Deposit(trader, asset, amount, received)
          PROVE  FALSE
      <4>1. balance' = [balance EXCEPT ![asset][trader] = @ + received]
            BY <3>3 DEF Deposit, VaultContract!Deposit
      <4>2. received \in Nat
            BY AmountsAreNat
      <4>3. balance'[a][t] = balance[a][t] \/ balance'[a][t] = balance[a][t] + received
            BY <2>1, <3>2, <4>1
      <4> QED BY <2>2, <4>2, <4>3
    <3>4. ASSUME NEW asset \in VaultContract!Assets, NEW amount \in WithdrawAmounts,
                 Withdraw(trader, asset, amount)
          PROVE  OwnWithdrawal(a, t)
      <4>1. /\ balance' = [balance EXCEPT ![asset][trader] = @ - amount]
            /\ held' = [held EXCEPT ![asset] = @ - amount] /\ amount > 0
            BY <3>4 DEF Withdraw, VaultContract!Withdraw
      <4>2. amount \in Nat
            BY AmountsAreNat
      <4>3. asset = a
        <5>1. asset # a => balance'[a] = balance[a]
              BY <2>1, <4>1
        <5> QED BY <2>2, <5>1
      <4>4. t = trader
        <5>1. t # trader => balance'[a][t] = balance[a][t]
              BY <2>1, <3>2, <4>1, <4>3
        <5> QED BY <2>2, <5>1
      <4>5. held'[a] = held[a] - amount
            BY <2>1, <4>1, <4>3
      <4>6. held[a] - held'[a] = amount
            BY <2>1, <4>2, <4>5
      <4> QED BY <4>1, <4>3, <4>4, <4>6
    <3> QED BY <3>1, <3>3, <3>4
  <2>6. CASE BatchStep \/ OwnerStep \/ UNCHANGED vars
        BY <2>3, <2>6 DEF BatchStep, CloseBatch, VoidBatch, Tick, OwnerStep, SetBandBps,
           SetSettlementOwner, vars, vaultVars
  <2> QED BY <2>4, <2>5, <2>6 DEF Next
<1> QED BY <1>1, AlwaysHolds, PTL DEF Spec, BalanceFallsOnlyInMatch

-----------------------------------------------------------------------------
(* The batches                                                             *)

\* The order book's log has one entry per batch that has ended.
LogIsComplete ==
    /\ currentBatchId \in Nat \ {0}
    /\ ended \in Seq({"advanced", "voided"})
    /\ Len(ended) = currentBatchId - 1
    /\ lastSettledBatch \in Nat

BatchesInv == LogIsComplete /\ SettledMeansAdvanced

\* The log grows at its end.
LEMMA LogGrows ==
    ASSUME BatchesInv, NEW outcome \in {"advanced", "voided"}, ended' = Append(ended, outcome),
           currentBatchId' = currentBatchId + 1
    PROVE  /\ ended' \in Seq({"advanced", "voided"}) /\ Len(ended') = currentBatchId' - 1
           /\ currentBatchId' \in Nat \ {0} /\ DOMAIN ended' = 1..currentBatchId
           /\ \A b \in DOMAIN ended : b \in DOMAIN ended' /\ b < currentBatchId /\ ended'[b] = ended[b]
           /\ ended'[currentBatchId] = outcome
           /\ \A b \in DOMAIN ended' : b = currentBatchId \/ b \in DOMAIN ended
BY DEF BatchesInv, LogIsComplete

\* settle names the batch in hand and advances past it.
LEMMA SettleKeeps ==
    ASSUME BatchesInv, currentBatchId' = currentBatchId + 1, ended' = Append(ended, "advanced"),
           lastSettledBatch' = currentBatchId
    PROVE  BatchesInv'
<1>1. LogIsComplete'
      BY LogGrows DEF BatchesInv, LogIsComplete
<1>2. lastSettledBatch' < currentBatchId'
      BY DEF BatchesInv, LogIsComplete
<1>3. \A b \in DOMAIN ended' : ended'[b] = "advanced" => b <= lastSettledBatch'
      BY LogGrows DEF BatchesInv, LogIsComplete
<1>4. ended'[lastSettledBatch'] = "advanced"
      BY LogGrows
<1> QED BY <1>1, <1>2, <1>3, <1>4 DEF BatchesInv, SettledMeansAdvanced

\* voidBatch does not.
LEMMA VoidKeeps ==
    ASSUME BatchesInv, currentBatchId' = currentBatchId + 1, ended' = Append(ended, "voided"),
           lastSettledBatch' = lastSettledBatch
    PROVE  BatchesInv'
<1>1. LogIsComplete'
      BY LogGrows DEF BatchesInv, LogIsComplete
<1>2. lastSettledBatch' < currentBatchId'
      BY DEF BatchesInv, LogIsComplete, SettledMeansAdvanced
<1>3. \A b \in DOMAIN ended' : ended'[b] = "advanced" => b <= lastSettledBatch'
      BY LogGrows DEF BatchesInv, SettledMeansAdvanced
<1>4. lastSettledBatch' # 0 => ended'[lastSettledBatch'] = "advanced"
  <2>1. lastSettledBatch # 0 => lastSettledBatch \in DOMAIN ended
        BY DEF BatchesInv, LogIsComplete, SettledMeansAdvanced
  <2> QED BY <2>1, LogGrows DEF BatchesInv, SettledMeansAdvanced
<1> QED BY <1>1, <1>2, <1>3, <1>4 DEF BatchesInv, SettledMeansAdvanced

\* Every other transaction leaves the batches alone.
LEMMA BatchesFrame ==
    ASSUME BatchesInv, UNCHANGED <<currentBatchId, ended, lastSettledBatch>>
    PROVE  BatchesInv'
BY DEF BatchesInv, LogIsComplete, SettledMeansAdvanced

\* No batch both settles and voids, none settles twice, and none settles before
\* it is current, whoever relays what (settle, advanceBatch, voidBatch).
THEOREM Agreement == Spec => []SettledMeansAdvanced
<1>1. Init => BatchesInv
      BY DEF Init, BatchesInv, LogIsComplete, SettledMeansAdvanced
<1>2. BatchesInv /\ [Next]_vars => BatchesInv'
  <2> SUFFICES ASSUME BatchesInv, [Next]_vars PROVE BatchesInv'
      OBVIOUS
  <2>1. CASE UNCHANGED vars
        BY <2>1, BatchesFrame DEF vars, orderBookVars, settlementVars
  <2>2. CASE TraderStep
    <3>1. UNCHANGED <<currentBatchId, ended, lastSettledBatch>>
          BY <2>2 DEF TraderStep, SubmitOrder, Deposit, Withdraw, OrderBookContract!SubmitOrder,
             orderBookVars, settlementVars
    <3> QED BY <3>1, BatchesFrame
  <2>3. CASE CloseBatch \/ Tick
    <3>1. UNCHANGED <<currentBatchId, ended, lastSettledBatch>>
          BY <2>3 DEF CloseBatch, Tick, OrderBookContract!CloseBatch, OrderBookContract!RequestMatch,
             OrderBookContract!Tick, OrderBookContract!batchVars, settlementVars
    <3> QED BY <3>1, BatchesFrame
  <2>4. CASE VoidBatch
    <3>1. /\ currentBatchId' = currentBatchId + 1 /\ ended' = Append(ended, "voided")
          /\ lastSettledBatch' = lastSettledBatch
          BY <2>4 DEF VoidBatch, OrderBookContract!VoidBatch, OrderBookContract!NextBatch,
             settlementVars
    <3> QED BY <3>1, VoidKeeps
  <2>5. CASE OwnerStep
    <3>1. UNCHANGED <<currentBatchId, ended, lastSettledBatch>>
          BY <2>5 DEF OwnerStep, SetBandBps, SetSettlementOwner, orderBookVars
    <3> QED BY <3>1, BatchesFrame
  <2>6. CASE RelayStep
    <3>1. PICK payload \in Payloads, signer \in Tees, feed \in Feeds :
              Settle(payload, signer, feed)
          BY <2>6 DEF RelayStep
    <3>2. /\ currentBatchId' = currentBatchId + 1 /\ ended' = Append(ended, "advanced")
          /\ lastSettledBatch' = currentBatchId
          BY <3>1 DEF Settle, OrderBookContract!AdvanceBatch, OrderBookContract!NextBatch
    <3> QED BY <3>2, SettleKeeps
  <2> QED BY <2>1, <2>2, <2>3, <2>4, <2>5, <2>6 DEF Next, BatchStep
<1>3. BatchesInv => SettledMeansAdvanced
      BY DEF BatchesInv
<1> QED BY <1>1, <1>2, <1>3, PTL DEF Spec

-----------------------------------------------------------------------------
(* What a payload asks of traders                                          *)

\* A trader's fills in a payload.
BidFills(fills, t) == {i \in DOMAIN fills : fills[i].trader = t /\ fills[i].side = 0}
AskFills(fills, t) == {i \in DOMAIN fills : fills[i].trader = t /\ fills[i].side = 1}

\* The fills a machine signs are fills the contract can decode.
LEMMA NetFillsDecode ==
    ASSUME NEW fills \in Seq(Machines!NetFills)
    PROVE  /\ fills \in Fills /\ Len(fills) \in Nat /\ DOMAIN fills = 1..Len(fills)
           /\ \A i \in 1..Len(fills) :
                 /\ fills[i].trader \in Traders /\ fills[i].side \in {0, 1}
                 /\ fills[i].size \in Nat \ {0} /\ fills[i].quote \in Nat
<1>1. Machines!NetFills \in SUBSET FillRecords
      BY DEF Machines!NetFills, FillRecords
<1>2. Len(fills) \in Nat /\ DOMAIN fills = 1..Len(fills)
      OBVIOUS
<1>3. \A i \in 1..Len(fills) : fills[i] \in Machines!NetFills
      BY <1>2
<1>4. fills \in Fills
      BY <1>1 DEF Fills
<1>5. \A i \in 1..Len(fills) :
         /\ fills[i].trader \in Traders /\ fills[i].side \in {0, 1}
         /\ fills[i].size \in Nat \ {0} /\ fills[i].quote \in Nat
      BY <1>3 DEF Machines!NetFills
<1> QED BY <1>2, <1>4, <1>5

\* Buyers owe quote for base, sellers base for quote.
LEMMA OwedAndGot ==
    ASSUME NEW fills \in Seq(Machines!NetFills), NEW t \in Traders
    PROVE  /\ Owes(fills, t, "quote") = SumFunctionOnSet(Quotes(fills), BidFills(fills, t))
           /\ Owes(fills, t, "base") = SumFunctionOnSet(Sizes(fills), AskFills(fills, t))
           /\ Gets(fills, t, "base") = SumFunctionOnSet(Sizes(fills), BidFills(fills, t))
           /\ Gets(fills, t, "quote") = SumFunctionOnSet(Quotes(fills), AskFills(fills, t))
<1> DEFINE N == Len(fills)
           bids == BidFills(fills, t)
           asks == AskFills(fills, t)
           z == Sizes(fills)
           q == Quotes(fills)
           owes(a) == [i \in DOMAIN fills |->
                          LET m == Collect(fills[i])
                          IN  IF m.from = t /\ m.asset = a THEN m.amount ELSE 0]
           gets(a) == [i \in DOMAIN Distributes(fills) |-> Brings(Distributes(fills)[i], a, t)]
<1>1. /\ fills \in Fills /\ N \in Nat /\ DOMAIN fills = 1..N
      /\ \A i \in 1..N : /\ fills[i].trader \in Traders /\ fills[i].side \in {0, 1}
                         /\ fills[i].size \in Nat \ {0} /\ fills[i].quote \in Nat
      BY NetFillsDecode
<1>2. /\ DOMAIN Distributes(fills) = 1..N
      /\ \A i \in 1..N : Distributes(fills)[i] = Distribute(fills[i])
      BY <1>1, MovesOfFills
<1>3. \A i \in 1..N : z[i] = fills[i].size /\ q[i] = fills[i].quote
      BY <1>1 DEF Sizes, Quotes
<1>4. bids \in SUBSET (1..N) /\ asks \in SUBSET (1..N)
      BY <1>1 DEF BidFills, AskFills
<1>5. ASSUME NEW i \in 1..N
      PROVE  /\ owes("quote")[i] = IF i \in bids THEN q[i] ELSE 0
             /\ owes("base")[i] = IF i \in asks THEN z[i] ELSE 0
  <2>1. CASE fills[i].side = 0
        BY <1>1, <1>3, <2>1 DEF Collect, BidFills, AskFills
  <2>2. CASE fills[i].side = 1
        BY <1>1, <1>3, <2>2 DEF Collect, BidFills, AskFills
  <2> QED BY <1>1, <2>1, <2>2
<1>6. ASSUME NEW i \in 1..N
      PROVE  /\ gets("base")[i] = IF i \in bids THEN z[i] ELSE 0
             /\ gets("quote")[i] = IF i \in asks THEN q[i] ELSE 0
  <2>0. Venue # t
        BY VenueIsNoTrader
  <2>1. CASE fills[i].side = 0
        BY <1>1, <1>2, <1>3, <2>1 DEF Distribute, Brings, BidFills, AskFills
  <2>2. CASE fills[i].side = 1
        BY <1>1, <1>2, <1>3, <2>2 DEF Distribute, Brings, BidFills, AskFills
  <2> QED BY <1>1, <2>1, <2>2
<1>7. /\ Owes(fills, t, "quote") = SumFunctionOnSet(owes("quote"), 1..N)
      /\ Owes(fills, t, "base") = SumFunctionOnSet(owes("base"), 1..N)
      BY <1>1 DEF Owes, SumFunction
<1>8. /\ Gets(fills, t, "base") = SumFunctionOnSet(gets("base"), 1..N)
      /\ Gets(fills, t, "quote") = SumFunctionOnSet(gets("quote"), 1..N)
      BY DEF Gets, Brought
<1> HIDE DEF N, bids, asks, z, q, owes, gets
<1>9. IsFiniteSet(1..N)
  <2>1. N \in Int
        BY <1>1
  <2> QED BY ONLY <2>1, FS_Interval
<1>10. ASSUME NEW f, NEW g, NEW T \in SUBSET (1..N), \A i \in 1..N : g[i] \in Nat,
              \A i \in 1..N : f[i] = IF i \in T THEN g[i] ELSE 0
       PROVE  SumFunctionOnSet(f, 1..N) = SumFunctionOnSet(g, T)
  <2>1. SumFunctionOnSet(f, 1..N) = SumFunctionOnSet(f, T)
    <3>1. /\ \A i \in 1..N : f[i] \in Int
          /\ \A i \in (1..N) \ T : f[i] = 0
          BY <1>10
    <3> QED BY <1>9, <3>1, SumOfSupport
  <2>2. SumFunctionOnSet(f, T) = SumFunctionOnSet(g, T)
    <3>1. IsFiniteSet(T) /\ \A i \in T : f[i] = g[i]
          BY <1>9, <1>10, FS_Subset
    <3> QED BY <3>1, SumsAreEqual
  <2> QED BY <2>1, <2>2
<1>11. \A i \in 1..N : z[i] \in Nat /\ q[i] \in Nat
       BY <1>1, <1>3
<1>12. /\ SumFunctionOnSet(owes("quote"), 1..N) = SumFunctionOnSet(q, bids)
       /\ SumFunctionOnSet(owes("base"), 1..N) = SumFunctionOnSet(z, asks)
       /\ SumFunctionOnSet(gets("base"), 1..N) = SumFunctionOnSet(z, bids)
       /\ SumFunctionOnSet(gets("quote"), 1..N) = SumFunctionOnSet(q, asks)
  <2>1. SumFunctionOnSet(owes("quote"), 1..N) = SumFunctionOnSet(q, bids)
        BY <1>4, <1>5, <1>10, <1>11
  <2>2. SumFunctionOnSet(owes("base"), 1..N) = SumFunctionOnSet(z, asks)
        BY <1>4, <1>5, <1>10, <1>11
  <2>3. SumFunctionOnSet(gets("base"), 1..N) = SumFunctionOnSet(z, bids)
        BY <1>4, <1>6, <1>10, <1>11
  <2>4. SumFunctionOnSet(gets("quote"), 1..N) = SumFunctionOnSet(q, asks)
        BY <1>4, <1>6, <1>10, <1>11
  <2> QED BY <2>1, <2>2, <2>3, <2>4
<1> QED BY <1>7, <1>8, <1>12 DEF bids, asks, z, q

\* A fill of a payload is on terms that an order offered: within its size, for
\* less than a unit over its limit, or more than two under.
OnOffer(f, o) ==
    /\ f.trader = o.trader
    /\ f.side = IF o.side = "BUY" THEN 0 ELSE 1
    /\ f.size <= o.size
    /\ f.side = 0 => (f.quote - 1) * PriceScale < f.size * o.limitPrice
    /\ f.side = 1 => f.size * o.limitPrice < (f.quote + 2) * PriceScale

\* The fills are on terms of offers, each of its own: offer[d] for d in D.
IsOffered(fills, offer, D, src) ==
    /\ src \in Injection(DOMAIN fills, D)
    /\ \A i \in DOMAIN fills : OnOffer(fills[i], offer[src[i]])
AreOffers(offer, D) ==
    \A d \in D : /\ offer[d].side \in {"BUY", "SELL"}
                 /\ offer[d].limitPrice \in Nat /\ offer[d].size \in Nat
OffersOn(side, offer, D, t) == {d \in D : offer[d].trader = t /\ offer[d].side = side}
OfferSizes(offer, D) == [d \in D |-> offer[d].size]
OfferQuotes(offer, D) == [d \in D |-> QuoteAmount(offer[d].size, offer[d].limitPrice)]

\* What a machine signs for a book is on the terms of its orders.
LEMMA PayloadIsOffered ==
    ASSUME NEW orders, IsBook(orders), \A i \in DOMAIN orders : orders[i].trader \in Traders,
           NEW b
    PROVE  LET p == Machines!Payload(b, Clear(orders))
           IN  /\ p.batch = b /\ p.fills \in Seq(Machines!NetFills)
               /\ \E src : IsOffered(p.fills, orders, DOMAIN orders, src)
<1> DEFINE fills == Clear(orders).fills
           net == [i \in DOMAIN fills |->
                      [fills[i] EXCEPT !.side = IF @ = "BUY" THEN 0 ELSE 1]]
<1>1. /\ fills \in Seq(FillsOf(orders))
      /\ \E src \in Injection(DOMAIN fills, DOMAIN orders) :
             \A i \in DOMAIN fills : OnTerms(fills[i], orders[src[i]])
      BY ClearOnTerms
<1>2. LET p == Machines!Payload(b, Clear(orders)) IN p.batch = b /\ p.fills = net
      BY DEF Machines!Payload
<1> HIDE DEF fills
<1>3. Len(fills) \in Nat /\ DOMAIN fills = 1..Len(fills) /\ DOMAIN net = DOMAIN fills
      BY <1>1
<1>4. ASSUME NEW i \in DOMAIN fills
      PROVE  /\ net[i] \in Machines!NetFills
             /\ net[i].trader = fills[i].trader /\ net[i].size = fills[i].size
             /\ net[i].quote = fills[i].quote
             /\ fills[i].side \in {"BUY", "SELL"}
             /\ net[i].side = IF fills[i].side = "BUY" THEN 0 ELSE 1
  <2>1. fills[i] \in FillsOf(orders)
        BY <1>1, <1>3
  <2>2. net[i] = [fills[i] EXCEPT !.side = IF @ = "BUY" THEN 0 ELSE 1]
        BY <1>3
  <2> HIDE DEF net
  <2> QED BY <2>1, <2>2 DEF FillsOf, Machines!NetFills
<1>5. net \in Seq(Machines!NetFills)
  <2>1. net = [i \in 1..Len(fills) |-> net[i]]
        BY <1>3
  <2> HIDE DEF net
  <2> QED BY <1>3, <1>4, <2>1
<1>6. PICK src \in Injection(DOMAIN fills, DOMAIN orders) :
          \A i \in DOMAIN fills : OnTerms(fills[i], orders[src[i]])
      BY <1>1
<1>7. ASSUME NEW i \in DOMAIN fills PROVE OnOffer(net[i], orders[src[i]])
  <2>1. OnTerms(fills[i], orders[src[i]])
        BY <1>6
  <2> HIDE DEF net
  <2> QED BY <1>4, <2>1 DEF OnTerms, OnOffer
<1>8. IsOffered(net, orders, DOMAIN orders, src)
      BY <1>3, <1>6, <1>7 DEF IsOffered
<1> HIDE DEF net
<1> QED BY <1>2, <1>5, <1>8

\* It nets to zero in base and in quote: it passes settle's check.
LEMMA PayloadConserves ==
    ASSUME NEW orders, IsBook(orders), NEW b
    PROVE  Conserves(Machines!Payload(b, Clear(orders)).fills)
<1> DEFINE fills == Clear(orders).fills
           net == [i \in DOMAIN fills |->
                      [fills[i] EXCEPT !.side = IF @ = "BUY" THEN 0 ELSE 1]]
<1>1. /\ fills \in Seq(FillsOf(orders)) /\ Machines!Payload(b, Clear(orders)).fills = net
      BY ClearOnTerms DEF Machines!Payload
<1> HIDE DEF fills
<1>2. Len(fills) \in Nat /\ DOMAIN fills = 1..Len(fills) /\ DOMAIN net = DOMAIN fills
      BY <1>1
<1>3. PICK n \in Nat : n = Len(fills)
      BY <1>2
<1>4. ASSUME NEW i \in 1..n
      PROVE  /\ net[i].size = fills[i].size /\ fills[i].size \in Nat \ {0}
             /\ net[i].quote = fills[i].quote /\ fills[i].quote \in Nat
             /\ fills[i].side \in {"BUY", "SELL"}
             /\ net[i].side = IF fills[i].side = "BUY" THEN 0 ELSE 1
  <2>1. fills[i] \in FillsOf(orders)
        BY <1>1, <1>2, <1>3
  <2>2. net[i] = [fills[i] EXCEPT !.side = IF @ = "BUY" THEN 0 ELSE 1]
        BY <1>2, <1>3
  <2> HIDE DEF net
  <2> QED BY <2>1, <2>2 DEF FillsOf
<1>5. DOMAIN net = 1..n
      BY <1>2, <1>3
<1> DEFINE bids == {i \in 1..n : fills[i].side = "BUY"}
           asks == {i \in 1..n : fills[i].side = "SELL"}
<1>6. /\ SumFunctionOnSet(Sizes(fills), bids) = SumFunctionOnSet(Sizes(fills), asks)
      /\ SumFunctionOnSet(Quotes(fills), bids) = SumFunctionOnSet(Quotes(fills), asks)
  <2>1. CASE Clear(orders).volume = 0
    <3>1. Clear(orders) = NoTrade
          BY <2>1, ClearIsTraced
    <3>2. fills = <<>>
          BY <3>1 DEF NoTrade, fills
    <3>3. bids = {} /\ asks = {}
          BY <1>3, <3>2
    <3> QED BY <3>3
  <2>2. CASE Clear(orders).volume # 0
    <3>1. PICK src : TracedFills(orders, fills, Clear(orders).clearingPrice, Clear(orders).volume, src)
          BY <2>2, ClearIsTraced DEF fills
    <3> QED BY <1>2, <1>3, <3>1 DEF TracedFills
  <2> QED BY <2>1, <2>2
<1>7. /\ \A i \in 1..n : Sizes(fills)[i] = fills[i].size /\ Quotes(fills)[i] = fills[i].quote
      BY <1>2, <1>3 DEF Sizes, Quotes
<1>8. IsFiniteSet(1..n)
  <2>1. n \in Int
        BY <1>3
  <2> QED BY ONLY <2>1, FS_Interval
<1>9. bids \in SUBSET (1..n) /\ asks \in SUBSET (1..n)
      OBVIOUS
<1> HIDE DEF net
<1>10. ASSUME NEW f, NEW g, DOMAIN f = 1..n, NEW T \in SUBSET (1..n),
              \A i \in 1..n : g[i] \in Nat /\ f[i] = IF i \in T THEN g[i] ELSE 0
       PROVE  SumFunction(f) = SumFunctionOnSet(g, T)
  <2>1. SumFunction(f) = SumFunctionOnSet(f, 1..n)
        BY ONLY <1>10 DEF SumFunction, SumFunctionOnSet, FoldFunction
  <2>2. SumFunctionOnSet(f, 1..n) = SumFunctionOnSet(f, T)
    <3>1. /\ \A i \in 1..n : f[i] \in Int
          /\ \A i \in (1..n) \ T : f[i] = 0
          BY ONLY <1>10
    <3> QED BY ONLY <1>8, <1>10, <3>1, SumOfSupport
  <2>3. SumFunctionOnSet(f, T) = SumFunctionOnSet(g, T)
    <3>1. IsFiniteSet(T) /\ \A i \in T : f[i] = g[i]
          BY <1>8, <1>10, FS_Subset
    <3> QED BY ONLY <3>1, SumsAreEqual
  <2> QED BY <2>1, <2>2, <2>3
<1> DEFINE size(s) == [i \in DOMAIN net |-> IF net[i].side = s THEN net[i].size ELSE 0]
           quote(s) == [i \in DOMAIN net |-> IF net[i].side = s THEN net[i].quote ELSE 0]
<1>11. /\ \A i \in 1..n : /\ size(0)[i] = IF i \in bids THEN Sizes(fills)[i] ELSE 0
                          /\ size(1)[i] = IF i \in asks THEN Sizes(fills)[i] ELSE 0
                          /\ quote(0)[i] = IF i \in bids THEN Quotes(fills)[i] ELSE 0
                          /\ quote(1)[i] = IF i \in asks THEN Quotes(fills)[i] ELSE 0
                          /\ Sizes(fills)[i] \in Nat /\ Quotes(fills)[i] \in Nat
       /\ DOMAIN size(0) = 1..n /\ DOMAIN size(1) = 1..n
       /\ DOMAIN quote(0) = 1..n /\ DOMAIN quote(1) = 1..n
       BY <1>4, <1>5, <1>7
<1>12. /\ Bought(net) = SumFunction(size(0)) /\ Sold(net) = SumFunction(size(1))
       /\ Paid(net) = SumFunction(quote(0)) /\ Received(net) = SumFunction(quote(1))
       BY DEF Bought, Sold, Paid, Received
<1> HIDE DEF size, quote, bids, asks
<1>13. Bought(net) = Sold(net)
  <2>1. SumFunction(size(0)) = SumFunctionOnSet(Sizes(fills), bids)
    <3>1. /\ DOMAIN size(0) = 1..n /\ bids \in SUBSET (1..n)
          /\ \A i \in 1..n : /\ Sizes(fills)[i] \in Nat
                            /\ size(0)[i] = IF i \in bids THEN Sizes(fills)[i] ELSE 0
          BY <1>9, <1>11
    <3> QED BY ONLY <1>10, <3>1
  <2>2. SumFunction(size(1)) = SumFunctionOnSet(Sizes(fills), asks)
    <3>1. /\ DOMAIN size(1) = 1..n /\ asks \in SUBSET (1..n)
          /\ \A i \in 1..n : /\ Sizes(fills)[i] \in Nat
                            /\ size(1)[i] = IF i \in asks THEN Sizes(fills)[i] ELSE 0
          BY <1>9, <1>11
    <3> QED BY ONLY <1>10, <3>1
  <2> QED BY <1>6, <1>12, <2>1, <2>2
<1>14. Paid(net) = Received(net)
  <2>1. SumFunction(quote(0)) = SumFunctionOnSet(Quotes(fills), bids)
    <3>1. /\ DOMAIN quote(0) = 1..n /\ bids \in SUBSET (1..n)
          /\ \A i \in 1..n : /\ Quotes(fills)[i] \in Nat
                            /\ quote(0)[i] = IF i \in bids THEN Quotes(fills)[i] ELSE 0
          BY <1>9, <1>11
    <3> QED BY ONLY <1>10, <3>1
  <2>2. SumFunction(quote(1)) = SumFunctionOnSet(Quotes(fills), asks)
    <3>1. /\ DOMAIN quote(1) = 1..n /\ asks \in SUBSET (1..n)
          /\ \A i \in 1..n : /\ Quotes(fills)[i] \in Nat
                            /\ quote(1)[i] = IF i \in asks THEN Quotes(fills)[i] ELSE 0
          BY <1>9, <1>11
    <3> QED BY ONLY <1>10, <3>1
  <2> QED BY <1>6, <1>12, <2>1, <2>2
<1>15. \A i \in DOMAIN net : net[i].size # 0 /\ net[i].side \in {0, 1}
       BY <1>4, <1>5
<1>16. Conserves(net)
       BY <1>13, <1>14, <1>15 DEF Conserves
<1> QED BY <1>1, <1>16 DEF net

\* Products of naturals grow with both factors, and quotes with them.
LEMMA QuotesGrow ==
    ASSUME NEW s1 \in Nat, NEW s2 \in Nat, s1 <= s2, NEW limit \in Nat
    PROVE  QuoteAmount(s1, limit) <= QuoteAmount(s2, limit)
<1>1. PriceScale \in Nat /\ PriceScale > 0 /\ s1 * limit \in Nat /\ s2 * limit \in Nat
      BY PriceScaleIsPositive
<1>2. s1 * limit <= s2 * limit
      BY ProductsKeepOrder
<1>3. QuoteAmount(s1, limit) = (s1 * limit) \div PriceScale /\ QuoteAmount(s1, limit) \in Nat
      BY QuoteAmountIsNat DEF QuoteAmount
<1>4. QuoteAmount(s2, limit) = (s2 * limit) \div PriceScale /\ QuoteAmount(s2, limit) \in Nat
      BY QuoteAmountIsNat DEF QuoteAmount
<1>5. QuoteAmount(s1, limit) * PriceScale <= s1 * limit
      BY <1>1, <1>3, QuotientIsLargest
<1>6. QuoteAmount(s1, limit) * PriceScale <= s2 * limit
  <2>1. PICK x \in Int : x = QuoteAmount(s1, limit) * PriceScale
        BY <1>1, <1>3
  <2> QED BY <1>1, <1>2, <1>5, <2>1
<1>7. QuoteAmount(s1, limit) <= (s2 * limit) \div PriceScale
      BY <1>1, <1>3, <1>6, QuotientIsLargest
<1> QED BY <1>4, <1>7

\* What a payload on the terms of offers takes from a trader is within its
\* offers: the base of its asks, and the quote of its bids at their limits with
\* one unit per fill.
LEMMA FillsWithinOffers ==
    ASSUME NEW fills \in Seq(Machines!NetFills), NEW offer, NEW D, IsFiniteSet(D),
           AreOffers(offer, D), NEW src, IsOffered(fills, offer, D, src), NEW t \in Traders
    PROVE  LET asks == OffersOn("SELL", offer, D, t)
               bids == OffersOn("BUY", offer, D, t)
               more == [d \in D |-> OfferQuotes(offer, D)[d] + 1]
           IN  /\ Owes(fills, t, "base") <= SumFunctionOnSet(OfferSizes(offer, D), asks)
               /\ Owes(fills, t, "quote") <= SumFunctionOnSet(OfferQuotes(offer, D), bids)
                                               + Cardinality(BidFills(fills, t))
               /\ Owes(fills, t, "quote") <= SumFunctionOnSet(more, bids)
<1> DEFINE N == Len(fills)
           asks == OffersOn("SELL", offer, D, t)
           bids == OffersOn("BUY", offer, D, t)
           sizes == OfferSizes(offer, D)
           quotes == OfferQuotes(offer, D)
           more == [d \in D |-> OfferQuotes(offer, D)[d] + 1]
           q == Quotes(fills)
           z == Sizes(fills)
           bid == BidFills(fills, t)
           ask == AskFills(fills, t)
           at == [i \in DOMAIN fills |-> quotes[src[i]]]
           upto == [i \in DOMAIN fills |-> quotes[src[i]] + 1]
           one == [i \in DOMAIN fills |-> 1]
<1>1. /\ N \in Nat /\ DOMAIN fills = 1..N
      /\ \A i \in 1..N : /\ fills[i].trader \in Traders /\ fills[i].side \in {0, 1}
                         /\ fills[i].size \in Nat \ {0} /\ fills[i].quote \in Nat
      BY NetFillsDecode
<1>2. bid \in SUBSET (1..N) /\ ask \in SUBSET (1..N)
      BY <1>1 DEF BidFills, AskFills
<1>3. asks \in SUBSET D /\ bids \in SUBSET D
      BY DEF OffersOn
<1>4. \A d \in D : sizes[d] = offer[d].size /\ sizes[d] \in Nat
      BY DEF AreOffers, OfferSizes
<1>5. ASSUME NEW d \in D
      PROVE  /\ quotes[d] = QuoteAmount(offer[d].size, offer[d].limitPrice)
             /\ quotes[d] \in Nat /\ more[d] = quotes[d] + 1 /\ more[d] \in Nat
  <2>1. offer[d].size \in Nat /\ offer[d].limitPrice \in Nat
        BY DEF AreOffers
  <2>2. quotes[d] = QuoteAmount(offer[d].size, offer[d].limitPrice) /\ more[d] = quotes[d] + 1
        BY DEF OfferQuotes
  <2>3. QuoteAmount(offer[d].size, offer[d].limitPrice) \in Nat
        BY <2>1, QuoteAmountIsNat
  <2> HIDE DEF quotes, more
  <2> QED BY <2>2, <2>3
<1>6. /\ src \in [DOMAIN fills -> D]
      /\ \A i, j \in DOMAIN fills : src[i] = src[j] => i = j
      /\ \A i \in DOMAIN fills : OnOffer(fills[i], offer[src[i]])
      BY DEF IsOffered, Injection, IsInjective
<1>7. \A i \in 1..N : z[i] = fills[i].size /\ q[i] = fills[i].quote
      BY <1>1 DEF Sizes, Quotes
<1>8. \A i \in 1..N : at[i] = quotes[src[i]] /\ upto[i] = quotes[src[i]] + 1 /\ one[i] = 1
      BY <1>1
<1>9. /\ Owes(fills, t, "quote") = SumFunctionOnSet(q, bid)
      /\ Owes(fills, t, "base") = SumFunctionOnSet(z, ask)
      BY OwedAndGot
<1> HIDE DEF N, asks, bids, sizes, quotes, more, q, z, bid, ask, at, upto, one
<1>10. ASSUME NEW i \in ask
       PROVE  src[i] \in asks /\ z[i] \in Int /\ z[i] <= sizes[src[i]]
  <2>1. i \in 1..N /\ fills[i].trader = t /\ fills[i].side = 1
        BY <1>2 DEF ask, AskFills
  <2>2. src[i] \in D /\ OnOffer(fills[i], offer[src[i]])
        BY <1>1, <1>6, <2>1
  <2>3. offer[src[i]].side = "SELL" /\ offer[src[i]].trader = t /\ fills[i].size <= offer[src[i]].size
        BY <2>1, <2>2 DEF OnOffer, AreOffers
  <2> QED BY <1>1, <1>4, <1>7, <2>1, <2>2, <2>3 DEF asks, OffersOn
<1>11. ASSUME NEW i \in bid
       PROVE  src[i] \in bids /\ q[i] \in Int /\ q[i] <= quotes[src[i]] + 1
  <2>1. i \in 1..N /\ fills[i].trader = t /\ fills[i].side = 0
        BY <1>2 DEF bid, BidFills
  <2>2. src[i] \in D /\ OnOffer(fills[i], offer[src[i]])
        BY <1>1, <1>6, <2>1
  <2>3. PICK o : o = offer[src[i]]
        OBVIOUS
  <2>4. /\ o.side = "BUY" /\ o.trader = t /\ fills[i].size <= o.size
        /\ (fills[i].quote - 1) * PriceScale < fills[i].size * o.limitPrice
        BY <2>1, <2>2, <2>3 DEF OnOffer, AreOffers
  <2>5. o.size \in Nat /\ o.limitPrice \in Nat
        BY <2>2, <2>3 DEF AreOffers
  <2>6. fills[i].size \in Nat /\ fills[i].quote \in Nat
        BY <1>1, <2>1
  <2>7. fills[i].quote <= QuoteAmount(fills[i].size, o.limitPrice) + 1
        BY <2>4, <2>5, <2>6, QuoteNearLimit
  <2>8. QuoteAmount(fills[i].size, o.limitPrice) <= QuoteAmount(o.size, o.limitPrice)
        BY <2>4, <2>5, <2>6, QuotesGrow
  <2>9. QuoteAmount(fills[i].size, o.limitPrice) \in Nat
        BY <2>5, <2>6, QuoteAmountIsNat
  <2>10. quotes[src[i]] = QuoteAmount(o.size, o.limitPrice) /\ quotes[src[i]] \in Nat
        BY <1>5, <2>2, <2>3
  <2>11. src[i] \in bids
        BY <2>2, <2>3, <2>4 DEF bids, OffersOn
  <2>12. q[i] = fills[i].quote
        BY <1>7, <2>1
  <2> QED BY ONLY <2>6, <2>7, <2>8, <2>9, <2>10, <2>11, <2>12
<1>12. IsFiniteSet(asks) /\ IsFiniteSet(bids)
       BY <1>3, FS_Subset
<1>13. /\ [i \in ask |-> src[i]] \in Injection(ask, asks)
       /\ [i \in bid |-> src[i]] \in Injection(bid, bids)
  <2>1. [i \in ask |-> src[i]] \in Injection(ask, asks)
        BY <1>1, <1>2, <1>6, <1>10 DEF Injection, IsInjective
  <2>2. [i \in bid |-> src[i]] \in Injection(bid, bids)
        BY <1>1, <1>2, <1>6, <1>11 DEF Injection, IsInjective
  <2> QED BY <2>1, <2>2
<1>14. SumFunctionOnSet(z, ask) <= SumFunctionOnSet(sizes, asks)
  <2> DEFINE s == [i \in ask |-> src[i]]
  <2>1. \A i \in ask : z[i] \in Int /\ z[i] <= sizes[s[i]]
        BY <1>10
  <2>2. \A d \in asks : sizes[d] \in Nat
        BY <1>3, <1>4
  <2>3. s \in Injection(ask, asks)
        BY <1>13
  <2> HIDE DEF s
  <2> QED BY ONLY <1>12, <2>1, <2>2, <2>3, SumThroughInjection
<1>15. SumFunctionOnSet(q, bid) <= SumFunctionOnSet(more, bids)
  <2> DEFINE s == [i \in bid |-> src[i]]
  <2>1. \A i \in bid : q[i] \in Int /\ q[i] <= more[s[i]]
        BY <1>3, <1>5, <1>11
  <2>2. \A d \in bids : more[d] \in Nat
        BY <1>3, <1>5
  <2>3. s \in Injection(bid, bids)
        BY <1>13
  <2> HIDE DEF s
  <2> QED BY ONLY <1>12, <2>1, <2>2, <2>3, SumThroughInjection
<1>16. \A i \in bid : /\ q[i] \in Int /\ upto[i] \in Int /\ at[i] \in Int /\ one[i] \in Int
                      /\ q[i] <= upto[i] /\ upto[i] = at[i] + one[i] /\ one[i] = 1
                      /\ at[i] = quotes[src[i]]
  <2> TAKE i \in bid
  <2>1. i \in 1..N /\ src[i] \in D
        BY <1>1, <1>2, <1>6
  <2> QED BY <1>5, <1>8, <1>11, <2>1
<1>17. SumFunctionOnSet(at, bid) <= SumFunctionOnSet(quotes, bids)
  <2> DEFINE s == [i \in bid |-> src[i]]
  <2>1. \A i \in bid : at[i] \in Int /\ at[i] <= quotes[s[i]]
        BY <1>16
  <2>2. \A d \in bids : quotes[d] \in Nat
        BY <1>3, <1>5
  <2>3. s \in Injection(bid, bids)
        BY <1>13
  <2> HIDE DEF s
  <2> QED BY ONLY <1>12, <2>1, <2>2, <2>3, SumThroughInjection
<1>18. IsFiniteSet(bid)
  <2>1. N \in Int
        BY <1>1
  <2>2. IsFiniteSet(1..N)
        BY ONLY <2>1, FS_Interval
  <2> QED BY <1>2, <2>2, FS_Subset
<1>19. SumFunctionOnSet(q, bid) <= SumFunctionOnSet(quotes, bids) + Cardinality(bid)
  <2>1. SumFunctionOnSet(q, bid) <= SumFunctionOnSet(upto, bid)
        BY <1>16, <1>18, SumsAreOrdered
  <2>2. SumFunctionOnSet(upto, bid) = SumFunctionOnSet(at, bid) + SumFunctionOnSet(one, bid)
        BY <1>16, <1>18, SumOfSums
  <2>3. SumFunctionOnSet(one, bid) = Cardinality(bid)
    <3>1. \A i \in bid : one[i] = IF i \in bid THEN 1 ELSE 0
          BY <1>16
    <3> QED BY ONLY <1>18, <3>1, SumCounts
  <2>4. /\ SumFunctionOnSet(q, bid) \in Int /\ SumFunctionOnSet(upto, bid) \in Int
        /\ SumFunctionOnSet(at, bid) \in Int /\ SumFunctionOnSet(one, bid) \in Int
    <3>1. /\ \A i \in bid : q[i] \in Int
          /\ \A i \in bid : upto[i] \in Int
          /\ \A i \in bid : at[i] \in Int
          /\ \A i \in bid : one[i] \in Int
          BY <1>16
    <3> QED BY ONLY <1>18, <3>1, SumIsInt
  <2>5. SumFunctionOnSet(quotes, bids) \in Int
    <3>1. \A d \in bids : quotes[d] \in Int
          BY <1>3, <1>5
    <3> QED BY ONLY <1>12, <3>1, SumIsInt
  <2> QED BY ONLY <1>17, <2>1, <2>2, <2>3, <2>4, <2>5
<1> QED BY <1>9, <1>14, <1>15, <1>19 DEF asks, bids, sizes, quotes, more, bid

-----------------------------------------------------------------------------
(* Where orders and fills come from                                        *)

\* The messages of a batch whose ciphertext is the sender's own, for the batch.
Offers(msgs, b) ==
    {m \in msgs : /\ m.cmd = "SUBMIT_ORDER" /\ m.sender = m.ciphertext.trader
                  /\ m.batch = b /\ m.ciphertext.batch = b}

\* Each order of the book is that of a message of its own, and so is each fill
\* on the terms of one.
Matches(o, c) == /\ o.trader = c.trader /\ o.side = c.side
                 /\ o.limitPrice = c.limitPrice /\ o.size = c.size
BookFrom(book, msgs, b) ==
    \E src \in Injection(DOMAIN book, Offers(msgs, b)) :
        \A i \in DOMAIN book : Matches(book[i], src[i].ciphertext)
FillsFrom(fills, msgs, b) ==
    \E src \in Injection(DOMAIN fills, Offers(msgs, b)) :
        \A i \in DOMAIN fills : OnOffer(fills[i], src[i].ciphertext)

\* More messages take nothing away.
LEMMA OffersGrow ==
    ASSUME NEW msgs, NEW more, msgs \subseteq more, NEW b
    PROVE  /\ \A book : BookFrom(book, msgs, b) => BookFrom(book, more, b)
           /\ \A fills : FillsFrom(fills, msgs, b) => FillsFrom(fills, more, b)
<1>1. Offers(msgs, b) \subseteq Offers(more, b)
      BY DEF Offers
<1>2. \A S : Injection(S, Offers(msgs, b)) \subseteq Injection(S, Offers(more, b))
      BY <1>1 DEF Injection
<1> QED BY <1>2 DEF BookFrom, FillsFrom

\* An empty book comes from nothing.
LEMMA NothingFromNothing ==
    ASSUME NEW msgs, NEW b
    PROVE  BookFrom(<<>>, msgs, b)
<1> DEFINE src == [i \in {} |-> i]
           none == <<>>
<1>1. DOMAIN none = {}
      OBVIOUS
<1>2. src \in Injection(DOMAIN none, Offers(msgs, b))
      BY <1>1 DEF Injection, IsInjective
<1> QED BY <1>1, <1>2 DEF BookFrom

\* A message that was not handled before brings one order more.
LEMMA OneOrderMore ==
    ASSUME NEW book \in Seq(Machines!RestingOrders), NEW msgs, NEW b, BookFrom(book, msgs, b),
           NEW m, m \notin msgs, m \in Offers(msgs \union {m}, b),
           NEW o \in Machines!RestingOrders, Matches(o, m.ciphertext)
    PROVE  BookFrom(Append(book, o), msgs \union {m}, b)
<1> DEFINE N == Len(book)
           D == Offers(msgs, b)
           E == Offers(msgs \union {m}, b)
           longer == Append(book, o)
<1>1. PICK src \in Injection(DOMAIN book, D) :
          \A i \in DOMAIN book : Matches(book[i], src[i].ciphertext)
      BY DEF BookFrom
<1>2. /\ N \in Nat /\ DOMAIN book = 1..N /\ DOMAIN longer = 1..(N + 1)
      /\ longer[N + 1] = o /\ \A i \in 1..N : longer[i] = book[i] /\ i # N + 1 /\ i \in 1..(N + 1)
      OBVIOUS
<1>3. D \subseteq E /\ m \in E /\ m \notin D
      BY DEF Offers
<1> DEFINE new == [i \in 1..(N + 1) |-> IF i = N + 1 THEN m ELSE src[i]]
<1>4. /\ src \in [1..N -> D] /\ \A i, j \in 1..N : src[i] = src[j] => i = j
      BY <1>1, <1>2 DEF Injection, IsInjective
<1>5. /\ new[N + 1] = m /\ \A i \in 1..N : new[i] = src[i] /\ new[i] \in D
      /\ DOMAIN new = 1..(N + 1)
      /\ \A i \in 1..(N + 1) : i \in 1..N \/ i = N + 1
      BY <1>2, <1>4
<1>6. new = [i \in 1..(N + 1) |-> new[i]]
      OBVIOUS
<1> HIDE DEF N, D, E, longer, new
<1>7. new \in Injection(1..(N + 1), E)
  <2>1. \A i \in 1..(N + 1) : new[i] \in E
        BY <1>3, <1>5
  <2>2. new \in [1..(N + 1) -> E]
        BY <1>6, <2>1
  <2>3. \A i, j \in 1..(N + 1) : new[i] = new[j] => i = j
        BY <1>3, <1>4, <1>5
  <2> QED BY <1>5, <2>2, <2>3 DEF Injection, IsInjective
<1>8. \A i \in 1..(N + 1) : Matches(longer[i], new[i].ciphertext)
      BY <1>1, <1>2, <1>5
<1> QED BY <1>2, <1>7, <1>8 DEF BookFrom, E, longer

\* Fills on the terms of a book are on those of the messages it came from.
LEMMA FillsOfTheBook ==
    ASSUME NEW book, NEW msgs, NEW b, BookFrom(book, msgs, b),
           NEW fills, NEW src, IsOffered(fills, book, DOMAIN book, src)
    PROVE  FillsFrom(fills, msgs, b)
<1>1. PICK from \in Injection(DOMAIN book, Offers(msgs, b)) :
          \A i \in DOMAIN book : Matches(book[i], from[i].ciphertext)
      BY DEF BookFrom
<1> DEFINE both == [i \in DOMAIN fills |-> from[src[i]]]
<1>2. /\ src \in [DOMAIN fills -> DOMAIN book]
      /\ \A i, j \in DOMAIN fills : src[i] = src[j] => i = j
      /\ \A i \in DOMAIN fills : OnOffer(fills[i], book[src[i]])
      BY DEF IsOffered, Injection, IsInjective
<1>3. /\ from \in [DOMAIN book -> Offers(msgs, b)]
      /\ \A i, j \in DOMAIN book : from[i] = from[j] => i = j
      BY <1>1 DEF Injection, IsInjective
<1>4. both \in Injection(DOMAIN fills, Offers(msgs, b))
      BY <1>2, <1>3 DEF Injection, IsInjective
<1>5. ASSUME NEW i \in DOMAIN fills PROVE OnOffer(fills[i], both[i].ciphertext)
  <2>1. PICK o, c : o = book[src[i]] /\ c = both[i].ciphertext
        OBVIOUS
  <2>2. Matches(o, c) /\ OnOffer(fills[i], o)
        BY <1>1, <1>2, <2>1
  <2>3. OnOffer(fills[i], c)
        BY ONLY <2>2 DEF Matches, OnOffer
  <2> QED BY <2>1, <2>3
<1> QED BY <1>4, <1>5 DEF FillsFrom

-----------------------------------------------------------------------------
(* What a book commits its traders to                                      *)

AskSize(book, t) ==
    SumFunctionOnSet(OfferSizes(book, DOMAIN book), OffersOn("SELL", book, DOMAIN book, t))
BidQuote(book, t) ==
    SumFunctionOnSet(OfferQuotes(book, DOMAIN book), OffersOn("BUY", book, DOMAIN book, t))

\* A machine's book is one the auction clears.
LEMMA BooksAreBooks ==
    ASSUME NEW book \in Seq(Machines!RestingOrders)
    PROVE  /\ IsBook(book) /\ IsFiniteSet(DOMAIN book) /\ AreOffers(book, DOMAIN book)
           /\ \A i \in DOMAIN book : book[i].trader \in Traders
<1>1. Len(book) \in Nat /\ DOMAIN book = 1..Len(book)
      OBVIOUS
<1>2. \A i \in DOMAIN book : book[i] \in Machines!RestingOrders
      OBVIOUS
<1>3. \A i \in DOMAIN book : /\ book[i].side \in {"BUY", "SELL"} /\ book[i].trader \in Traders
                             /\ book[i].limitPrice \in Nat \ {0} /\ book[i].size \in Nat \ {0}
      BY <1>2 DEF Machines!RestingOrders
<1>4. IsFiniteSet(1..Len(book))
      BY ONLY <1>1, FS_Interval
<1> QED BY <1>1, <1>3, <1>4 DEF IsBook, AreOffers

\* An order adds to its own trader's side, and to nothing else.
LEMMA OneOrderAdds ==
    ASSUME NEW book \in Seq(Machines!RestingOrders), NEW o \in Machines!RestingOrders, NEW t
    PROVE  /\ AskSize(Append(book, o), t)
                = AskSize(book, t) + IF o.trader = t /\ o.side = "SELL" THEN o.size ELSE 0
           /\ BidQuote(Append(book, o), t)
                = BidQuote(book, t) + IF o.trader = t /\ o.side = "BUY"
                                      THEN QuoteAmount(o.size, o.limitPrice) ELSE 0
           /\ AskSize(book, t) \in Nat /\ BidQuote(book, t) \in Nat
<1> DEFINE N == Len(book)
           longer == Append(book, o)
<1>1. /\ N \in Nat /\ DOMAIN book = 1..N /\ DOMAIN longer = 1..(N + 1)
      /\ longer[N + 1] = o
      /\ \A i \in 1..N : longer[i] = book[i] /\ i # N + 1 /\ i \in 1..(N + 1)
      /\ \A i \in 1..(N + 1) : i \in 1..N \/ i = N + 1
      OBVIOUS
<1>2. longer \in Seq(Machines!RestingOrders)
      OBVIOUS
<1> HIDE DEF longer, N
<1>3. IsFiniteSet(1..(N + 1)) /\ IsFiniteSet(1..N)
  <2>1. N \in Int /\ N + 1 \in Int
        BY <1>1
  <2> QED BY ONLY <2>1, FS_Interval
<1>4. ASSUME NEW f, NEW g, \A i \in 1..(N + 1) : g[i] \in Nat,
             \A i \in 1..N : f[i] = g[i], NEW side \in {"BUY", "SELL"}
      PROVE  /\ SumFunctionOnSet(g, OffersOn(side, longer, DOMAIN longer, t))
                  = SumFunctionOnSet(f, OffersOn(side, book, DOMAIN book, t))
                      + (IF o.trader = t /\ o.side = side THEN g[N + 1] ELSE 0)
             /\ SumFunctionOnSet(f, OffersOn(side, book, DOMAIN book, t)) \in Nat
  <2> DEFINE old == OffersOn(side, book, DOMAIN book, t)
             new == OffersOn(side, longer, DOMAIN longer, t)
  <2>1. /\ old \in SUBSET (1..N) /\ new \in SUBSET (1..(N + 1)) /\ N + 1 \notin old
        /\ new = IF o.trader = t /\ o.side = side THEN old \union {N + 1} ELSE old
        BY <1>1 DEF OffersOn
  <2> HIDE DEF old, new
  <2>2. IsFiniteSet(old) /\ IsFiniteSet(new)
        BY <1>3, <2>1, FS_Subset
  <2>3. /\ SumFunctionOnSet(g, old) = SumFunctionOnSet(f, old)
        /\ SumFunctionOnSet(f, old) \in Nat
    <3>1. \A i \in old : g[i] = f[i] /\ f[i] \in Nat
          BY <1>1, <1>4, <2>1
    <3>2. SumFunctionOnSet(g, old) = SumFunctionOnSet(f, old)
          BY ONLY <2>2, <3>1, SumsAreEqual
    <3>3. SumFunctionOnSet(f, old) \in Nat
          BY ONLY <2>2, <3>1, SumOfNaturals
    <3> QED BY <3>2, <3>3
  <2>4. CASE o.trader = t /\ o.side = side
    <3>1. N + 1 \in new /\ new \ {N + 1} = old
          BY <2>1, <2>4
    <3>2. \A i \in new : g[i] \in Int
          BY <1>4, <2>1
    <3>3. SumFunctionOnSet(g, new) = g[N + 1] + SumFunctionOnSet(g, old)
          BY ONLY <2>2, <3>1, <3>2, SumWithout
    <3>4. g[N + 1] \in Nat
          BY <3>1, <2>1, <1>4
    <3> QED BY <2>3, <2>4, <3>3, <3>4 DEF old, new
  <2>5. CASE ~(o.trader = t /\ o.side = side)
        BY <2>1, <2>3, <2>5 DEF old, new
  <2> QED BY <2>4, <2>5
<1>5. \A i \in 1..(N + 1) : longer[i].size \in Nat /\ longer[i].limitPrice \in Nat
      BY <1>1, <1>2, BooksAreBooks DEF AreOffers
<1>6. /\ SumFunctionOnSet(OfferSizes(longer, DOMAIN longer), OffersOn("SELL", longer, DOMAIN longer, t))
           = SumFunctionOnSet(OfferSizes(book, DOMAIN book), OffersOn("SELL", book, DOMAIN book, t))
               + (IF o.trader = t /\ o.side = "SELL" THEN o.size ELSE 0)
      /\ SumFunctionOnSet(OfferSizes(book, DOMAIN book), OffersOn("SELL", book, DOMAIN book, t)) \in Nat
  <2> DEFINE f == OfferSizes(book, DOMAIN book)
             g == OfferSizes(longer, DOMAIN longer)
  <2>1. \A i \in 1..(N + 1) : g[i] \in Nat
        BY <1>1, <1>5 DEF OfferSizes
  <2>2. \A i \in 1..N : f[i] = g[i]
        BY <1>1 DEF OfferSizes
  <2>3. N + 1 \in 1..(N + 1)
        BY <1>1
  <2>4. g[N + 1] = o.size
        BY <1>1, <2>3 DEF OfferSizes
  <2> HIDE DEF f, g
  <2>5. "SELL" \in {"BUY", "SELL"}
        OBVIOUS
  <2> QED BY <1>4, <2>1, <2>2, <2>4, <2>5 DEF f, g
<1>7. /\ SumFunctionOnSet(OfferQuotes(longer, DOMAIN longer), OffersOn("BUY", longer, DOMAIN longer, t))
           = SumFunctionOnSet(OfferQuotes(book, DOMAIN book), OffersOn("BUY", book, DOMAIN book, t))
               + (IF o.trader = t /\ o.side = "BUY" THEN QuoteAmount(o.size, o.limitPrice) ELSE 0)
      /\ SumFunctionOnSet(OfferQuotes(book, DOMAIN book), OffersOn("BUY", book, DOMAIN book, t)) \in Nat
  <2> DEFINE f == OfferQuotes(book, DOMAIN book)
             g == OfferQuotes(longer, DOMAIN longer)
  <2>1. \A i \in 1..(N + 1) : g[i] = QuoteAmount(longer[i].size, longer[i].limitPrice)
        BY <1>1 DEF OfferQuotes
  <2>2. \A i \in 1..N : f[i] = QuoteAmount(book[i].size, book[i].limitPrice)
        BY <1>1 DEF OfferQuotes
  <2> HIDE DEF f, g
  <2>3. \A i \in 1..(N + 1) : g[i] \in Nat
        BY <1>5, <2>1, QuoteAmountIsNat
  <2>4. \A i \in 1..N : f[i] = g[i]
        BY <1>1, <2>1, <2>2
  <2>5. N + 1 \in 1..(N + 1)
        BY <1>1
  <2>6. g[N + 1] = QuoteAmount(o.size, o.limitPrice)
        BY <1>1, <2>1, <2>5
  <2>7. "BUY" \in {"BUY", "SELL"}
        OBVIOUS
  <2> QED BY <1>4, <2>3, <2>4, <2>6, <2>7 DEF f, g
<1> QED BY <1>6, <1>7 DEF AskSize, BidQuote, longer

\* An empty book commits nobody to anything.
LEMMA NothingAsked ==
    ASSUME NEW t
    PROVE  AskSize(<<>>, t) = 0 /\ BidQuote(<<>>, t) = 0
<1>1. PICK none : none = <<>>
      OBVIOUS
<1>2. \A side : OffersOn(side, none, DOMAIN none, t) = {}
  <2>1. DOMAIN none = {}
        BY <1>1
  <2> QED BY <2>1 DEF OffersOn
<1> QED BY <1>1, <1>2, SumOfNone DEF AskSize, BidQuote

-----------------------------------------------------------------------------
(* The invariant of the venue                                              *)

\* Only traders send orders, for batches that accept them, and a batch that has
\* an order is one of those.
MessagesInv ==
    /\ IsFiniteSet(sent)
    /\ \A m \in sent :
          /\ m.batch \in Batches
          /\ m.cmd = "SUBMIT_ORDER" => /\ m.sender \in Traders /\ m.ciphertext \in Ciphertexts
                                       /\ m.base \in Nat /\ m.quote \in Nat
    /\ orderCount # 0 => currentBatchId \in Batches

\* The trader's own balance, as an order of the batch carried it, backs an amount.
SentBy(m, t, b) == m.cmd = "SUBMIT_ORDER" /\ m.sender = t /\ m.batch = b
BackedBase(amount, t, b, msgs) ==
    amount = 0 \/ \E m \in msgs : SentBy(m, t, b) /\ amount <= m.base
BackedQuote(amount, extra, t, b, msgs) ==
    amount <= extra \/ \E m \in msgs : SentBy(m, t, b) /\ amount <= m.quote + extra

\* A machine's commitments are what its books ask of each trader, and no more
\* than a balance that came with an order of that trader.
CommitmentsAddUp ==
    \A tee \in Tees, b \in Batches, t \in Traders :
        /\ committed[tee][b][t].base = AskSize(books[tee][b], t)
        /\ committed[tee][b][t].quote = BidQuote(books[tee][b], t)
CommitmentsBacked ==
    \A tee \in Tees, b \in Batches, t \in Traders :
        /\ BackedBase(committed[tee][b][t].base, t, b, sent)
        /\ BackedQuote(committed[tee][b][t].quote, 0, t, b, sent)

\* Books hold orders of messages the machine was given, each at most once.
BooksTraced == \A tee \in Tees, b \in Batches : BookFrom(books[tee][b], handled, b)

\* So what is signed keeps to the terms of orders that were sent, and is backed.
FillsBacked(fills, b, msgs) ==
    \A t \in Traders :
        /\ BackedBase(Owes(fills, t, "base"), t, b, msgs)
        /\ BackedQuote(Owes(fills, t, "quote"), Cardinality(BidFills(fills, t)), t, b, msgs)
ResultsTraced == \A r \in signed : FillsFrom(r.payload.fills, sent, r.payload.batch)
ResultsBacked == \A r \in signed : FillsBacked(r.payload.fills, r.payload.batch, sent)
ResultsConserve == \A r \in signed : Conserves(r.payload.fills)

MachinesInv ==
    /\ Machines!TypeOK
    /\ CommitmentsAddUp
    /\ CommitmentsBacked
    /\ BooksTraced
    /\ ResultsTraced
    /\ ResultsBacked
    /\ ResultsConserve

VenueInv == SettlementInv /\ MessagesInv /\ MachinesInv

-----------------------------------------------------------------------------

\* Amounts owed are naturals, and so is the number of bids and what a book asks.
LEMMA OwesIsNat ==
    ASSUME NEW fills \in Seq(Machines!NetFills), NEW t \in Traders
    PROVE  /\ Owes(fills, t, "base") \in Nat /\ Owes(fills, t, "quote") \in Nat
           /\ Gets(fills, t, "base") \in Nat /\ Gets(fills, t, "quote") \in Nat
           /\ Cardinality(BidFills(fills, t)) \in Nat
           /\ \A book \in Seq(Machines!RestingOrders) :
                 AskSize(book, t) \in Nat /\ BidQuote(book, t) \in Nat
<1> DEFINE N == Len(fills)
<1>1. /\ N \in Nat /\ DOMAIN fills = 1..N
      /\ \A i \in 1..N : /\ fills[i].trader \in Traders /\ fills[i].side \in {0, 1}
                         /\ fills[i].size \in Nat \ {0} /\ fills[i].quote \in Nat
      BY NetFillsDecode
<1>2. \A i \in 1..N : Sizes(fills)[i] \in Nat /\ Quotes(fills)[i] \in Nat
      BY <1>1 DEF Sizes, Quotes
<1> HIDE DEF N
<1>3. N \in Int
      BY <1>1
<1>4. IsFiniteSet(1..N)
      BY ONLY <1>3, FS_Interval
<1>5. BidFills(fills, t) \in SUBSET (1..N) /\ AskFills(fills, t) \in SUBSET (1..N)
      BY <1>1 DEF BidFills, AskFills
<1>6. IsFiniteSet(BidFills(fills, t)) /\ IsFiniteSet(AskFills(fills, t))
      BY ONLY <1>4, <1>5, FS_Subset
<1>7. Cardinality(BidFills(fills, t)) \in Nat
      BY <1>6, FS_CardinalityType
<1>8. \A T \in SUBSET (1..N) : IsFiniteSet(T) =>
          SumFunctionOnSet(Sizes(fills), T) \in Nat /\ SumFunctionOnSet(Quotes(fills), T) \in Nat
  <2> TAKE T \in SUBSET (1..N)
  <2> HAVE IsFiniteSet(T)
  <2>1. (\A i \in T : Sizes(fills)[i] \in Nat) /\ (\A i \in T : Quotes(fills)[i] \in Nat)
        BY <1>2
  <2> QED BY ONLY <2>1, IsFiniteSet(T), SumOfNaturals
<1>9. /\ Owes(fills, t, "base") \in Nat /\ Owes(fills, t, "quote") \in Nat
      /\ Gets(fills, t, "base") \in Nat /\ Gets(fills, t, "quote") \in Nat
      BY <1>5, <1>6, <1>8, OwedAndGot
<1>10. ASSUME NEW book \in Seq(Machines!RestingOrders)
       PROVE  AskSize(book, t) \in Nat /\ BidQuote(book, t) \in Nat
  <2>1. /\ IsFiniteSet(DOMAIN book) /\ AreOffers(book, DOMAIN book)
        BY BooksAreBooks
  <2>2. \A side : /\ OffersOn(side, book, DOMAIN book, t) \in SUBSET DOMAIN book
                  /\ IsFiniteSet(OffersOn(side, book, DOMAIN book, t))
        BY <2>1, FS_Subset DEF OffersOn
  <2>3. \A i \in DOMAIN book : OfferSizes(book, DOMAIN book)[i] \in Nat
        BY <2>1 DEF AreOffers, OfferSizes
  <2>4. \A i \in DOMAIN book : OfferQuotes(book, DOMAIN book)[i] \in Nat
    <3>1. \A i \in DOMAIN book : QuoteAmount(book[i].size, book[i].limitPrice) \in Nat
          BY <2>1, QuoteAmountIsNat DEF AreOffers
    <3> QED BY <3>1 DEF OfferQuotes
  <2>5. AskSize(book, t) \in Nat
    <3>1. \A i \in OffersOn("SELL", book, DOMAIN book, t) : OfferSizes(book, DOMAIN book)[i] \in Nat
          BY <2>2, <2>3
    <3> QED BY <2>2, <3>1, SumOfNaturals DEF AskSize
  <2>6. BidQuote(book, t) \in Nat
    <3>1. \A i \in OffersOn("BUY", book, DOMAIN book, t) : OfferQuotes(book, DOMAIN book)[i] \in Nat
          BY <2>2, <2>4
    <3> QED BY <2>2, <3>1, SumOfNaturals DEF BidQuote
  <2> QED BY <2>5, <2>6
<1> QED BY <1>7, <1>9, <1>10

\* What is backed stays so when messages are added.
LEMMA BackingStays ==
    ASSUME NEW msgs, NEW more, msgs \subseteq more, NEW t, NEW b
    PROVE  /\ \A x : BackedBase(x, t, b, msgs) => BackedBase(x, t, b, more)
           /\ \A x, n : BackedQuote(x, n, t, b, msgs) => BackedQuote(x, n, t, b, more)
           /\ \A fills : FillsBacked(fills, b, msgs) => FillsBacked(fills, b, more)
BY DEF BackedBase, BackedQuote, FillsBacked

\* What happens on chain at most adds messages.
LEMMA MachinesAreLeftAlone ==
    ASSUME MachinesInv, UNCHANGED machineVars, sent \subseteq sent'
    PROVE  MachinesInv'
<1>1. UNCHANGED <<running, books, committed, lastClearedBatch, lastClearingPrice,
                  handled, signed>>
      BY DEF machineVars
<1>2. Machines!TypeOK'
      BY <1>1 DEF MachinesInv, Machines!TypeOK
<1>3. CommitmentsAddUp'
      BY <1>1 DEF MachinesInv, CommitmentsAddUp
<1>4. CommitmentsBacked'
  <2>1. ASSUME NEW tee \in Tees, NEW b \in Batches, NEW t \in Traders
        PROVE  /\ BackedBase(committed'[tee][b][t].base, t, b, sent')
               /\ BackedQuote(committed'[tee][b][t].quote, 0, t, b, sent')
        BY <1>1, BackingStays DEF MachinesInv, CommitmentsBacked
  <2> QED BY <2>1 DEF CommitmentsBacked
<1>5. BooksTraced'
      BY <1>1 DEF MachinesInv, BooksTraced
<1>6. ResultsTraced'
  <2>1. ASSUME NEW r \in signed PROVE FillsFrom(r.payload.fills, sent', r.payload.batch)
        BY OffersGrow DEF MachinesInv, ResultsTraced
  <2> QED BY <1>1, <2>1 DEF ResultsTraced
<1>7. ResultsBacked'
  <2>1. ASSUME NEW r \in signed PROVE FillsBacked(r.payload.fills, r.payload.batch, sent')
    <3>1. FillsBacked(r.payload.fills, r.payload.batch, sent)
          BY DEF MachinesInv, ResultsBacked
    <3>2. \A fills : FillsBacked(fills, r.payload.batch, sent)
                        => FillsBacked(fills, r.payload.batch, sent')
          BY BackingStays
    <3> QED BY ONLY <3>1, <3>2
  <2> QED BY <1>1, <2>1 DEF ResultsBacked
<1>8. ResultsConserve'
      BY <1>1 DEF MachinesInv, ResultsConserve
<1> QED BY <1>2, <1>3, <1>4, <1>5, <1>6, <1>7, <1>8 DEF MachinesInv

\* A machine that is given an order (handleSubmitOrder).
LEMMA OrderHolds ==
    ASSUME MachinesInv, MessagesInv, NEW tee \in Tees, NEW m \in sent,
           Machines!HandleSubmitOrder(tee, m)
    PROVE  MachinesInv'
<1> DEFINE c == m.ciphertext
           b == m.batch
           t == c.trader
           o == [trader |-> c.trader, side |-> c.side, limitPrice |-> c.limitPrice,
                 size |-> c.size]
           next == Machines!WithOrder(committed[tee][b][t], c)
<1>1. /\ m.cmd = "SUBMIT_ORDER" /\ m \notin handled /\ handled' = handled \union {m}
      /\ UNCHANGED <<sent, running, lastClearedBatch, lastClearingPrice, signed>>
      BY DEF Machines!HandleSubmitOrder, Machines!Deliver
<1>2. /\ b \in Batches /\ m.sender \in Traders /\ c \in Ciphertexts
      /\ m.base \in Nat /\ m.quote \in Nat
      BY <1>1 DEF MessagesInv
<1>3. c.side \in {"BUY", "SELL"} /\ c.limitPrice \in Nat /\ c.size \in Nat
      BY <1>2, CiphertextsDecode
<1>4. Machines!TypeOK
      BY DEF MachinesInv
<1>5. handled' \subseteq sent' /\ handled \subseteq handled'
      BY <1>1, <1>4 DEF Machines!TypeOK
<1>6. ResultsTraced' /\ ResultsBacked' /\ ResultsConserve'
      BY <1>1 DEF MachinesInv, ResultsTraced, ResultsBacked, ResultsConserve
<1>7. CASE ~(Machines!Parses(tee, m) /\ Machines!Covered(tee, m))
  <2>1. UNCHANGED <<books, committed>>
        BY <1>7 DEF Machines!HandleSubmitOrder
  <2>2. Machines!TypeOK'
        BY <1>1, <1>4, <1>5, <2>1 DEF Machines!TypeOK
  <2>3. CommitmentsAddUp' /\ CommitmentsBacked'
        BY <1>1, <2>1 DEF MachinesInv, CommitmentsAddUp, CommitmentsBacked
  <2>4. BooksTraced'
    <3>1. ASSUME NEW k \in Tees, NEW d \in Batches PROVE BookFrom(books[k][d], handled', d)
          BY <1>5, OffersGrow DEF MachinesInv, BooksTraced
    <3> QED BY <2>1, <3>1 DEF BooksTraced
  <2> QED BY <1>6, <2>2, <2>3, <2>4 DEF MachinesInv
<1>8. CASE Machines!Parses(tee, m) /\ Machines!Covered(tee, m)
  <2>1. /\ committed' = [committed EXCEPT ![tee][b][t] = next]
        /\ books' = [books EXCEPT ![tee][b] = Append(@, o)]
        BY <1>8 DEF Machines!HandleSubmitOrder
  <2>2. /\ c.trader = m.sender /\ c.batch = m.batch /\ c.limitPrice > 0 /\ c.size > 0
        BY <1>8 DEF Machines!Parses
  <2>3. t \in Traders /\ o \in Machines!RestingOrders
        BY <1>2, <1>3, <2>2 DEF Machines!RestingOrders
  <2>4. QuoteAmount(c.size, c.limitPrice) \in Nat
        BY <1>3, QuoteAmountIsNat
  <2>5. PICK old : old = committed[tee][b][t]
        OBVIOUS
  <2>6. old \in [base : Nat, quote : Nat]
        BY <1>2, <1>4, <2>3, <2>5 DEF Machines!TypeOK
  <2>7. /\ next \in [base : Nat, quote : Nat]
        /\ next.base = old.base + IF c.side = "SELL" THEN c.size ELSE 0
        /\ next.quote = old.quote + IF c.side = "BUY" THEN QuoteAmount(c.size, c.limitPrice) ELSE 0
    <3>1. PICK quote \in Nat : quote = QuoteAmount(c.size, c.limitPrice)
          BY <2>4
    <3>2. next = IF c.side = "SELL" THEN [old EXCEPT !.base = old.base + c.size]
                                    ELSE [old EXCEPT !.quote = old.quote + quote]
          BY <2>5, <3>1 DEF Machines!WithOrder
    <3> HIDE DEF next
    <3> QED BY <1>3, <2>6, <3>1, <3>2
  <2>8. IF c.side = "SELL" THEN next.base <= m.base ELSE next.quote <= m.quote
        BY <1>8 DEF Machines!Covered
  <2> HIDE DEF next, o, c, b, t
  <2>9. books \in [Tees -> [Batches -> Seq(Machines!RestingOrders)]]
        BY <1>4 DEF Machines!TypeOK
  <2>10. committed \in [Tees -> [Batches -> [Traders -> [base : Nat, quote : Nat]]]]
        BY <1>4 DEF Machines!TypeOK
  <2>11. /\ books'[tee][b] = Append(books[tee][b], o)
         /\ books[tee][b] \in Seq(Machines!RestingOrders)
         /\ \A k \in Tees, d \in Batches : ~(k = tee /\ d = b) => books'[k][d] = books[k][d]
        BY <1>2, <2>1, <2>9
  <2>12. /\ committed'[tee][b][t] = next
         /\ \A k \in Tees, d \in Batches, u \in Traders :
               ~(k = tee /\ d = b /\ u = t) => committed'[k][d][u] = committed[k][d][u]
        BY <1>2, <2>1, <2>3, <2>10
  <2>13. Machines!TypeOK'
    <3>1. books' \in [Tees -> [Batches -> Seq(Machines!RestingOrders)]]
      <4>1. Append(books[tee][b], o) \in Seq(Machines!RestingOrders)
            BY <2>3, <2>11
      <4> QED BY <1>2, <2>1, <2>9, <4>1
    <3>2. committed' \in [Tees -> [Batches -> [Traders -> [base : Nat, quote : Nat]]]]
          BY <1>2, <2>1, <2>3, <2>7, <2>10
    <3> QED BY <1>1, <1>4, <1>5, <3>1, <3>2 DEF Machines!TypeOK
  <2>14. CommitmentsAddUp'
    <3>1. ASSUME NEW k \in Tees, NEW d \in Batches, NEW u \in Traders
          PROVE  /\ committed'[k][d][u].base = AskSize(books'[k][d], u)
                 /\ committed'[k][d][u].quote = BidQuote(books'[k][d], u)
      <4>1. /\ committed[k][d][u].base = AskSize(books[k][d], u)
            /\ committed[k][d][u].quote = BidQuote(books[k][d], u)
            BY DEF MachinesInv, CommitmentsAddUp
      <4>2. CASE ~(k = tee /\ d = b)
            BY <2>11, <2>12, <4>1, <4>2
      <4>3. CASE k = tee /\ d = b
        <5>1. /\ AskSize(books'[k][d], u) = AskSize(books[k][d], u)
                   + IF o.trader = u /\ o.side = "SELL" THEN o.size ELSE 0
              /\ BidQuote(books'[k][d], u) = BidQuote(books[k][d], u)
                   + IF o.trader = u /\ o.side = "BUY"
                     THEN QuoteAmount(o.size, o.limitPrice) ELSE 0
              /\ AskSize(books[k][d], u) \in Nat /\ BidQuote(books[k][d], u) \in Nat
          <6>1. PICK book \in Seq(Machines!RestingOrders) : book = books[tee][b]
                BY <2>11
          <6>2. books'[k][d] = Append(book, o) /\ books[k][d] = book
                BY <2>11, <4>3, <6>1
          <6> QED BY <2>3, <6>2, OneOrderAdds
        <5>2. o.trader = t /\ o.side = c.side /\ o.size = c.size /\ o.limitPrice = c.limitPrice
              BY DEF o, t
        <5>3. CASE u = t
              BY <2>5, <2>7, <2>12, <4>1, <4>3, <5>1, <5>2, <5>3
        <5>4. CASE u # t
              BY <2>12, <4>1, <4>3, <5>1, <5>2, <5>4
        <5> QED BY <5>3, <5>4
      <4> QED BY <4>2, <4>3
    <3> QED BY <3>1 DEF CommitmentsAddUp
  <2>15. CommitmentsBacked'
    <3>1. ASSUME NEW k \in Tees, NEW d \in Batches, NEW u \in Traders
          PROVE  /\ BackedBase(committed'[k][d][u].base, u, d, sent)
                 /\ BackedQuote(committed'[k][d][u].quote, 0, u, d, sent)
      <4>1. /\ BackedBase(committed[k][d][u].base, u, d, sent)
            /\ BackedQuote(committed[k][d][u].quote, 0, u, d, sent)
            BY DEF MachinesInv, CommitmentsBacked
      <4>2. CASE ~(k = tee /\ d = b /\ u = t)
            BY <2>12, <4>1, <4>2
      <4>3. CASE k = tee /\ d = b /\ u = t
        <5>1. SentBy(m, t, b)
              BY <1>1, <2>2 DEF SentBy, t, b, c
        <5>2. BackedBase(next.base, t, b, sent)
          <6>1. CASE c.side = "SELL"
                BY <2>8, <5>1, <6>1 DEF BackedBase
          <6>2. CASE c.side # "SELL"
                BY <2>5, <2>6, <2>7, <4>1, <4>3, <6>2
          <6> QED BY <6>1, <6>2
        <5>3. BackedQuote(next.quote, 0, t, b, sent)
          <6>1. CASE c.side = "BUY"
            <7>1. next.quote <= m.quote + 0
                  BY <1>2, <2>7, <2>8, <6>1
            <7> QED BY <5>1, <7>1 DEF BackedQuote
          <6>2. CASE c.side # "BUY"
                BY <2>5, <2>6, <2>7, <4>1, <4>3, <6>2
          <6> QED BY <6>1, <6>2
        <5> QED BY <2>12, <4>3, <5>2, <5>3
      <4> QED BY <4>2, <4>3
    <3> QED BY <1>1, <3>1 DEF CommitmentsBacked
  <2>16. BooksTraced'
    <3>1. ASSUME NEW k \in Tees, NEW d \in Batches PROVE BookFrom(books'[k][d], handled', d)
      <4>1. BookFrom(books[k][d], handled, d)
            BY DEF MachinesInv, BooksTraced
      <4>2. CASE ~(k = tee /\ d = b)
            BY <1>5, <2>11, <4>1, <4>2, OffersGrow
      <4>3. CASE k = tee /\ d = b
        <5>1. m \in Offers(handled \union {m}, b)
              BY <1>1, <2>2 DEF Offers, b, c
        <5>2. Matches(o, m.ciphertext)
              BY DEF Matches, o, c
        <5>3. BookFrom(Append(books[tee][b], o), handled \union {m}, b)
              BY <1>1, <2>3, <2>11, <4>1, <4>3, <5>1, <5>2, OneOrderMore
        <5> QED BY <1>1, <2>11, <4>3, <5>3
      <4> QED BY <4>2, <4>3
    <3> QED BY <3>1 DEF BooksTraced
  <2> QED BY <1>6, <2>13, <2>14, <2>15, <2>16 DEF MachinesInv
<1> QED BY <1>7, <1>8

\* A machine that is asked to match, and signs what it clears (handleRunMatch).
LEMMA MatchHolds ==
    ASSUME MachinesInv, MessagesInv, NEW tee \in Tees, NEW m \in sent,
           Machines!HandleRunMatch(tee, m)
    PROVE  MachinesInv'
<1> DEFINE b == m.batch
           book == books[tee][b]
           result == Clear(book)
           payload == Machines!Payload(b, result)
<1>1. /\ handled' = handled \union {m} /\ UNCHANGED <<sent, running>>
      /\ b \in Batches
      BY DEF Machines!HandleRunMatch, Machines!Deliver, MessagesInv
<1>2. Machines!TypeOK
      BY DEF MachinesInv
<1>3. handled' \subseteq sent' /\ handled \subseteq handled'
      BY <1>1, <1>2 DEF Machines!TypeOK
<1>4. CASE UNCHANGED <<Machines!memory, signed>>
  <2>1. UNCHANGED <<books, committed, lastClearedBatch, lastClearingPrice, signed>>
        BY <1>4 DEF Machines!memory
  <2>2. Machines!TypeOK'
        BY <1>1, <1>2, <1>3, <2>1 DEF Machines!TypeOK
  <2>3. /\ CommitmentsAddUp' /\ CommitmentsBacked'
        /\ ResultsTraced' /\ ResultsBacked' /\ ResultsConserve'
        BY <1>1, <2>1 DEF MachinesInv, CommitmentsAddUp, CommitmentsBacked,
           ResultsTraced, ResultsBacked, ResultsConserve
  <2>4. BooksTraced'
    <3>1. ASSUME NEW k \in Tees, NEW d \in Batches PROVE BookFrom(books[k][d], handled', d)
          BY <1>3, OffersGrow DEF MachinesInv, BooksTraced
    <3> QED BY <2>1, <3>1 DEF BooksTraced
  <2> QED BY <2>2, <2>3, <2>4 DEF MachinesInv
<1>5. CASE ~(UNCHANGED <<Machines!memory, signed>>)
  <2>1. /\ signed' = signed \union {[payload |-> payload, signer |-> tee]}
        /\ books' = [books EXCEPT ![tee][b] = <<>>]
        /\ committed' = [committed EXCEPT ![tee][b] = [t \in Traders |-> Machines!Nothing]]
        /\ lastClearedBatch' = [lastClearedBatch EXCEPT ![tee] = b]
        /\ lastClearingPrice' = [lastClearingPrice EXCEPT ![tee] = result.clearingPrice]
        BY <1>5 DEF Machines!HandleRunMatch, Machines!Consume
  <2>2. books \in [Tees -> [Batches -> Seq(Machines!RestingOrders)]]
        BY <1>2 DEF Machines!TypeOK
  <2>3. committed \in [Tees -> [Batches -> [Traders -> [base : Nat, quote : Nat]]]]
        BY <1>2 DEF Machines!TypeOK
  <2>4. book \in Seq(Machines!RestingOrders)
        BY <1>1, <2>2
  <2>5. /\ IsBook(book) /\ IsFiniteSet(DOMAIN book) /\ AreOffers(book, DOMAIN book)
        /\ \A i \in DOMAIN book : book[i].trader \in Traders
        BY <2>4, BooksAreBooks
  <2>6. /\ payload.batch = b /\ payload.fills \in Seq(Machines!NetFills)
        /\ \E src : IsOffered(payload.fills, book, DOMAIN book, src)
        /\ Conserves(payload.fills)
        BY <2>5, PayloadIsOffered, PayloadConserves
  <2>7. result.clearingPrice \in Nat
        BY <2>5, ClearOnTerms
  <2>8. PICK p : p = payload
        OBVIOUS
  <2>9. PICK src : IsOffered(p.fills, book, DOMAIN book, src)
        BY <2>6, <2>8
  <2> HIDE DEF b, book, result, payload
  <2>10. FillsFrom(p.fills, sent, b)
    <3>1. BookFrom(book, handled, b)
          BY <1>1 DEF MachinesInv, BooksTraced, book
    <3>2. BookFrom(book, sent, b)
          BY <1>2, <3>1, OffersGrow DEF Machines!TypeOK
    <3> QED BY <2>9, <3>2, FillsOfTheBook
  <2>11. FillsBacked(p.fills, b, sent)
    <3>1. ASSUME NEW t \in Traders
          PROVE  /\ BackedBase(Owes(p.fills, t, "base"), t, b, sent)
                 /\ BackedQuote(Owes(p.fills, t, "quote"),
                                Cardinality(BidFills(p.fills, t)), t, b, sent)
      <4> DEFINE owesBase == Owes(p.fills, t, "base")
                 owesQuote == Owes(p.fills, t, "quote")
                 n == Cardinality(BidFills(p.fills, t))
      <4>1. owesBase <= AskSize(book, t) /\ owesQuote <= BidQuote(book, t) + n
            BY <2>5, <2>6, <2>8, <2>9, FillsWithinOffers DEF AskSize, BidQuote
      <4>2. /\ BackedBase(AskSize(book, t), t, b, sent)
            /\ BackedQuote(BidQuote(book, t), 0, t, b, sent)
            BY <1>1 DEF MachinesInv, CommitmentsAddUp, CommitmentsBacked, book
      <4>3. /\ owesBase \in Nat /\ owesQuote \in Nat /\ n \in Nat
            /\ AskSize(book, t) \in Nat /\ BidQuote(book, t) \in Nat
            BY <2>4, <2>6, <2>8, OwesIsNat
      <4> HIDE DEF owesBase, owesQuote, n
      <4>4. \A x \in sent : SentBy(x, t, b) => x.base \in Nat /\ x.quote \in Nat
            BY DEF MessagesInv, SentBy
      <4>5. BackedBase(owesBase, t, b, sent)
        <5>1. CASE AskSize(book, t) = 0
              BY <4>1, <4>3, <5>1 DEF BackedBase
        <5>2. CASE \E x \in sent : SentBy(x, t, b) /\ AskSize(book, t) <= x.base
          <6>1. PICK x \in sent : SentBy(x, t, b) /\ AskSize(book, t) <= x.base
                BY <5>2
          <6>2. owesBase <= x.base
                BY <4>1, <4>3, <4>4, <6>1
          <6> QED BY <6>1, <6>2 DEF BackedBase
        <5> QED BY <4>2, <5>1, <5>2 DEF BackedBase
      <4>6. BackedQuote(owesQuote, n, t, b, sent)
        <5>1. CASE BidQuote(book, t) <= 0
          <6>1. owesQuote <= n
                BY <4>1, <4>3, <5>1
          <6> QED BY <6>1 DEF BackedQuote
        <5>2. CASE \E x \in sent : SentBy(x, t, b) /\ BidQuote(book, t) <= x.quote + 0
          <6>1. PICK x \in sent : SentBy(x, t, b) /\ BidQuote(book, t) <= x.quote + 0
                BY <5>2
          <6>2. owesQuote <= x.quote + n
                BY <4>1, <4>3, <4>4, <6>1
          <6> QED BY <6>1, <6>2 DEF BackedQuote
        <5> QED BY <4>2, <5>1, <5>2 DEF BackedQuote
      <4> QED BY <4>5, <4>6 DEF owesBase, owesQuote, n
    <3> QED BY <3>1 DEF FillsBacked
  <2>12. ResultsTraced'
    <3>1. \A r \in signed' : FillsFrom(r.payload.fills, sent, r.payload.batch)
          BY <2>1, <2>6, <2>8, <2>10 DEF MachinesInv, ResultsTraced
    <3> QED BY <1>1, <3>1 DEF ResultsTraced
  <2>13. ResultsBacked'
    <3>1. \A r \in signed' : FillsBacked(r.payload.fills, r.payload.batch, sent)
          BY <2>1, <2>6, <2>8, <2>11 DEF MachinesInv, ResultsBacked
    <3> QED BY <1>1, <3>1 DEF ResultsBacked
  <2>14. /\ books'[tee][b] = <<>>
         /\ \A k \in Tees, d \in Batches : ~(k = tee /\ d = b) => books'[k][d] = books[k][d]
        BY <1>1, <2>1, <2>2 DEF b
  <2>15. /\ \A u \in Traders : committed'[tee][b][u] = [base |-> 0, quote |-> 0]
         /\ \A k \in Tees, d \in Batches, u \in Traders :
               ~(k = tee /\ d = b) => committed'[k][d][u] = committed[k][d][u]
        BY <1>1, <2>1, <2>3 DEF b, Machines!Nothing
  <2>16. Machines!TypeOK'
    <3>1. books' \in [Tees -> [Batches -> Seq(Machines!RestingOrders)]]
      <4>1. <<>> \in Seq(Machines!RestingOrders)
            OBVIOUS
      <4> QED BY <2>1, <2>2, <4>1
    <3>2. committed' \in [Tees -> [Batches -> [Traders -> [base : Nat, quote : Nat]]]]
      <4>1. [t \in Traders |-> Machines!Nothing] \in [Traders -> [base : Nat, quote : Nat]]
            BY DEF Machines!Nothing
      <4> QED BY <2>1, <2>3, <4>1
    <3>3. lastClearedBatch' \in [Tees -> Batches \union {0}]
          BY <1>1, <1>2, <2>1 DEF Machines!TypeOK, b
    <3>4. lastClearingPrice' \in [Tees -> Nat]
          BY <1>2, <2>1, <2>7 DEF Machines!TypeOK
    <3>5. running' \in [Tees -> BOOLEAN]
          BY <1>1, <1>2 DEF Machines!TypeOK
    <3>6. \A r \in signed' : /\ r.signer \in Tees /\ r.payload.batch \in Batches
                             /\ r.payload.fills \in Seq(Machines!NetFills)
          BY <1>1, <1>2, <2>1, <2>6 DEF Machines!TypeOK, b
    <3> QED BY <1>3, <3>1, <3>2, <3>3, <3>4, <3>5, <3>6 DEF Machines!TypeOK
  <2>17. CommitmentsAddUp'
    <3>1. ASSUME NEW k \in Tees, NEW d \in Batches, NEW u \in Traders
          PROVE  /\ committed'[k][d][u].base = AskSize(books'[k][d], u)
                 /\ committed'[k][d][u].quote = BidQuote(books'[k][d], u)
      <4>1. CASE k = tee /\ d = b
            BY <2>14, <2>15, <4>1, NothingAsked
      <4>2. CASE ~(k = tee /\ d = b)
            BY <2>14, <2>15, <4>2 DEF MachinesInv, CommitmentsAddUp
      <4> QED BY <4>1, <4>2
    <3> QED BY <3>1 DEF CommitmentsAddUp
  <2>18. CommitmentsBacked'
    <3>1. ASSUME NEW k \in Tees, NEW d \in Batches, NEW u \in Traders
          PROVE  /\ BackedBase(committed'[k][d][u].base, u, d, sent)
                 /\ BackedQuote(committed'[k][d][u].quote, 0, u, d, sent)
      <4>1. CASE k = tee /\ d = b
            BY <2>15, <4>1 DEF BackedBase, BackedQuote
      <4>2. CASE ~(k = tee /\ d = b)
            BY <2>15, <4>2 DEF MachinesInv, CommitmentsBacked
      <4> QED BY <4>1, <4>2
    <3> QED BY <1>1, <3>1 DEF CommitmentsBacked
  <2>19. BooksTraced'
    <3>1. ASSUME NEW k \in Tees, NEW d \in Batches PROVE BookFrom(books'[k][d], handled', d)
      <4>1. CASE k = tee /\ d = b
            BY <2>14, <4>1, NothingFromNothing
      <4>2. CASE ~(k = tee /\ d = b)
        <5>1. BookFrom(books[k][d], handled, d)
              BY DEF MachinesInv, BooksTraced
        <5> QED BY <1>3, <2>14, <4>2, <5>1, OffersGrow
      <4> QED BY <4>1, <4>2
    <3> QED BY <3>1 DEF BooksTraced
  <2>20. ResultsConserve'
        BY <2>1, <2>6 DEF MachinesInv, ResultsConserve
  <2> QED BY <2>12, <2>13, <2>16, <2>17, <2>18, <2>19, <2>20 DEF MachinesInv
<1> QED BY <1>4, <1>5

\* A machine that dies forgets its books; what it signed is out.
LEMMA CrashHolds ==
    ASSUME MachinesInv, NEW tee \in Tees, Machines!Crash(tee)
    PROVE  MachinesInv'
<1>1. /\ books' = [books EXCEPT ![tee] = Machines!NoBooks]
      /\ committed' = [committed EXCEPT ![tee] = Machines!NothingCommitted]
      /\ lastClearedBatch' = [lastClearedBatch EXCEPT ![tee] = 0]
      /\ lastClearingPrice' = [lastClearingPrice EXCEPT ![tee] = 0]
      /\ running' = [running EXCEPT ![tee] = FALSE]
      /\ UNCHANGED <<sent, handled, signed>>
      BY DEF Machines!Crash
<1>2. /\ running \in [Tees -> BOOLEAN]
      /\ books \in [Tees -> [Batches -> Seq(Machines!RestingOrders)]]
      /\ committed \in [Tees -> [Batches -> [Traders -> [base : Nat, quote : Nat]]]]
      /\ lastClearedBatch \in [Tees -> Batches \union {0}]
      /\ lastClearingPrice \in [Tees -> Nat]
      BY DEF MachinesInv, Machines!TypeOK
<1>3. /\ \A k \in Tees \ {tee} : books'[k] = books[k] /\ committed'[k] = committed[k]
      /\ books'[tee] = Machines!NoBooks /\ committed'[tee] = Machines!NothingCommitted
      BY <1>1, <1>2
<1>4. \A b \in Batches : Machines!NoBooks[b] = <<>>
      BY DEF Machines!NoBooks
<1>5. \A b \in Batches, t \in Traders :
         Machines!NothingCommitted[b][t] = [base |-> 0, quote |-> 0]
      BY DEF Machines!NothingCommitted, Machines!Nothing
<1>6. /\ Machines!NoBooks \in [Batches -> Seq(Machines!RestingOrders)]
      /\ Machines!NothingCommitted \in [Batches -> [Traders -> [base : Nat, quote : Nat]]]
  <2>1. <<>> \in Seq(Machines!RestingOrders)
        OBVIOUS
  <2> QED BY <2>1 DEF Machines!NoBooks, Machines!NothingCommitted, Machines!Nothing
<1>7. Machines!TypeOK'
  <2>1. running' \in [Tees -> BOOLEAN]
        BY <1>1, <1>2
  <2>2. books' \in [Tees -> [Batches -> Seq(Machines!RestingOrders)]]
        BY <1>1, <1>2, <1>6
  <2>3. committed' \in [Tees -> [Batches -> [Traders -> [base : Nat, quote : Nat]]]]
        BY <1>1, <1>2, <1>6
  <2>4. lastClearedBatch' \in [Tees -> Batches \union {0}] /\ lastClearingPrice' \in [Tees -> Nat]
        BY <1>1, <1>2
  <2>5. /\ handled' \subseteq sent'
        /\ \A r \in signed' : /\ r.signer \in Tees /\ r.payload.batch \in Batches
                              /\ r.payload.fills \in Seq(Machines!NetFills)
        BY <1>1 DEF MachinesInv, Machines!TypeOK
  <2> QED BY <2>1, <2>2, <2>3, <2>4, <2>5 DEF Machines!TypeOK
<1>8. ASSUME NEW k \in Tees, NEW b \in Batches
      PROVE  /\ BookFrom(books'[k][b], handled, b)
             /\ \A t \in Traders :
                  /\ committed'[k][b][t].base = AskSize(books'[k][b], t)
                  /\ committed'[k][b][t].quote = BidQuote(books'[k][b], t)
                  /\ BackedBase(committed'[k][b][t].base, t, b, sent)
                  /\ BackedQuote(committed'[k][b][t].quote, 0, t, b, sent)
  <2>1. CASE k # tee
        BY <1>3, <2>1 DEF MachinesInv, BooksTraced, CommitmentsAddUp, CommitmentsBacked
  <2>2. CASE k = tee
    <3>1. /\ books'[k][b] = <<>>
          /\ \A t \in Traders : committed'[k][b][t].base = 0 /\ committed'[k][b][t].quote = 0
          BY <1>3, <1>4, <1>5, <2>2
    <3> QED BY <3>1, NothingFromNothing, NothingAsked DEF BackedBase, BackedQuote
  <2> QED BY <2>1, <2>2
<1>9. BooksTraced' /\ CommitmentsAddUp' /\ CommitmentsBacked'
      BY <1>1, <1>8 DEF BooksTraced, CommitmentsAddUp, CommitmentsBacked
<1>10. ResultsTraced' /\ ResultsBacked' /\ ResultsConserve'
       BY <1>1 DEF MachinesInv, ResultsTraced, ResultsBacked, ResultsConserve
<1> QED BY <1>7, <1>9, <1>10 DEF MachinesInv

\* An order carries its sender's balances, and takes the batch in hand.
LEMMA SubmitAddsAMessage ==
    ASSUME MessagesInv, SettlementInv, NEW trader \in Traders, NEW ciphertext \in Ciphertexts,
           NEW drawn \in Tees, SubmitOrder(trader, ciphertext, drawn)
    PROVE  MessagesInv' /\ sent \subseteq sent'
<1> DEFINE m == [cmd |-> "SUBMIT_ORDER", tee |-> drawn, batch |-> currentBatchId,
                 id |-> OrderBookContract!NextInstruction, sender |-> trader,
                 base |-> balance["base"][trader], quote |-> balance["quote"][trader], ciphertext |-> ciphertext]
<1>1. /\ currentBatchId <= MaxBatch /\ sent' = sent \union {m}
      /\ currentBatchId' = currentBatchId
      BY DEF SubmitOrder, OrderBookContract!SubmitOrder
<1>2. currentBatchId \in Batches
      BY <1>1, OrderBookFits DEF SettlementInv, BookInv, OrderBookContract!TypeOK, Batches
<1>3. balance["base"][trader] \in Nat /\ balance["quote"][trader] \in Nat
  <2>1. /\ balance \in [VaultContract!Assets -> [Accounts -> Nat]] /\ trader \in Accounts
        /\ "base" \in VaultContract!Assets /\ "quote" \in VaultContract!Assets
        BY DEF SettlementInv, VaultInv, VaultContract!TypeOK, VaultContract!Assets, Accounts
  <2> QED BY <2>1
<1>4. /\ m.batch \in Batches /\ m.sender \in Traders /\ m.ciphertext \in Ciphertexts
      /\ m.base \in Nat /\ m.quote \in Nat
      BY <1>2, <1>3
<1> HIDE DEF m
<1>5. IsFiniteSet(sent')
      BY <1>1, FS_AddElement DEF MessagesInv
<1> QED BY <1>1, <1>2, <1>4, <1>5 DEF MessagesInv

\* A match is asked for a batch that has an order.
LEMMA CloseAddsAMessage ==
    ASSUME MessagesInv, CloseBatch
    PROVE  MessagesInv' /\ sent \subseteq sent'
<1> DEFINE m == [cmd |-> "RUN_MATCH", tee |-> batchTee, batch |-> currentBatchId,
                 id |-> OrderBookContract!NextInstruction]
<1>1. /\ orderCount # 0 /\ sent' = sent \union {m}
      /\ currentBatchId' = currentBatchId
      BY DEF CloseBatch, OrderBookContract!CloseBatch, OrderBookContract!RequestMatch
<1>2. m.cmd # "SUBMIT_ORDER" /\ m.batch \in Batches /\ currentBatchId \in Batches
      BY <1>1 DEF MessagesInv
<1> HIDE DEF m
<1>3. IsFiniteSet(sent')
      BY <1>1, FS_AddElement DEF MessagesInv
<1> QED BY <1>1, <1>2, <1>3 DEF MessagesInv

\* What a batch leaves behind when it ends.
LEMMA EndingAddsNoMessage ==
    ASSUME MessagesInv, sent' = sent, orderCount' = 0
    PROVE  MessagesInv' /\ sent \subseteq sent'
BY DEF MessagesInv

\* The transactions on chain.
LEMMA OnChainHolds ==
    ASSUME VenueInv, OnChain
    PROVE  VenueInv'
<1>1. SettlementInv /\ MessagesInv /\ MachinesInv /\ UNCHANGED machineVars
      BY DEF VenueInv, OnChain
<1>2. CASE TraderStep
  <2>1. SettlementInv'
        BY <1>1, <1>2, TraderHolds
  <2>2. PICK trader \in Traders :
           \/ \E ciphertext \in Ciphertexts, drawn \in Tees :
                 SubmitOrder(trader, ciphertext, drawn)
           \/ \E asset \in VaultContract!Assets, amount \in DepositAmounts :
                 \E received \in 1..amount : Deposit(trader, asset, amount, received)
           \/ \E asset \in VaultContract!Assets, amount \in WithdrawAmounts :
                 Withdraw(trader, asset, amount)
        BY <1>2 DEF TraderStep
  <2>3. CASE \E ciphertext \in Ciphertexts, drawn \in Tees :
                 SubmitOrder(trader, ciphertext, drawn)
        BY <1>1, <2>1, <2>3, SubmitAddsAMessage, MachinesAreLeftAlone DEF VenueInv
  <2>4. CASE UNCHANGED orderBookVars
    <3>1. MessagesInv' /\ sent \subseteq sent'
          BY <1>1, <2>4 DEF MessagesInv, orderBookVars
    <3> QED BY <1>1, <2>1, <3>1, MachinesAreLeftAlone DEF VenueInv
  <2> QED BY <2>2, <2>3, <2>4 DEF Deposit, Withdraw
<1>3. CASE CloseBatch
  <2>1. SettlementInv'
        BY <1>1, <1>3, StepHolds DEF Next, BatchStep
  <2> QED BY <1>1, <1>3, <2>1, CloseAddsAMessage, MachinesAreLeftAlone DEF VenueInv
<1>4. CASE VoidBatch
  <2>1. SettlementInv'
        BY <1>1, <1>4, StepHolds DEF Next, BatchStep
  <2>2. sent' = sent /\ orderCount' = 0
        BY <1>4 DEF VoidBatch, OrderBookContract!VoidBatch, OrderBookContract!NextBatch
  <2> QED BY <1>1, <2>1, <2>2, EndingAddsNoMessage, MachinesAreLeftAlone DEF VenueInv
<1>5. CASE Tick
  <2>1. SettlementInv'
        BY <1>1, <1>5, StepHolds DEF Next, BatchStep
  <2>2. UNCHANGED <<sent, orderCount, currentBatchId>>
        BY <1>5 DEF Tick, OrderBookContract!Tick, OrderBookContract!batchVars
  <2>3. MessagesInv' /\ sent \subseteq sent'
        BY <1>1, <2>2 DEF MessagesInv
  <2> QED BY <1>1, <2>1, <2>3, MachinesAreLeftAlone DEF VenueInv
<1>6. CASE Relay
  <2>1. PICK r \in signed, feed \in Feeds : Settle(r.payload, r.signer, feed)
        BY <1>6 DEF Relay
  <2>2. r.payload.fills \in Fills
    <3>1. r.payload.fills \in Seq(Machines!NetFills)
          BY <1>1 DEF MachinesInv, Machines!TypeOK
    <3> QED BY <3>1, NetFillsDecode
  <2>3. SettlementInv'
        BY <1>1, <2>1, <2>2, SettlementHolds
  <2>4. sent' = sent /\ orderCount' = 0
        BY <2>1 DEF Settle, OrderBookContract!AdvanceBatch, OrderBookContract!NextBatch
  <2> QED BY <1>1, <2>3, <2>4, EndingAddsNoMessage, MachinesAreLeftAlone DEF VenueInv
<1> QED BY <1>2, <1>3, <1>4, <1>5, <1>6 DEF OnChain, BatchStep

\* The chain is left alone by what machines do.
LEMMA InEnclaveHolds ==
    ASSUME VenueInv, InEnclave
    PROVE  VenueInv'
<1>1. SettlementInv /\ MessagesInv /\ MachinesInv /\ UNCHANGED chainVars
      BY DEF VenueInv, InEnclave
<1>2. PICK tee \in Tees :
         \/ \E m \in sent : Machines!HandleSubmitOrder(tee, m) \/ Machines!HandleRunMatch(tee, m)
         \/ Machines!Crash(tee)
      BY DEF InEnclave, Machines!Next
<1>3. sent' = sent
      BY <1>2 DEF Machines!HandleSubmitOrder, Machines!HandleRunMatch, Machines!Deliver,
         Machines!Crash
<1>4. MessagesInv'
      BY <1>1, <1>3 DEF MessagesInv, chainVars
<1>5. UNCHANGED vars
      BY <1>1, <1>3 DEF chainVars, vars, orderBookVars, vaultVars, vaultRoles, settlementVars
<1>6. SettlementInv'
      BY <1>1, <1>5, StepHolds
<1>7. MachinesInv'
      BY <1>1, <1>2, OrderHolds, MatchHolds, CrashHolds
<1> QED BY <1>4, <1>6, <1>7 DEF VenueInv

\* Every step of the venue keeps the invariant, and it holds at the start.
LEMMA VenueStepHolds == VenueInv /\ [VenueNext]_venueVars => VenueInv'
<1> SUFFICES ASSUME VenueInv, [VenueNext]_venueVars PROVE VenueInv'
    OBVIOUS
<1>1. CASE UNCHANGED venueVars
  <2>1. UNCHANGED vars /\ UNCHANGED machineVars /\ sent' = sent
        BY <1>1 DEF venueVars, chainVars, vars, orderBookVars, vaultVars, vaultRoles, settlementVars
  <2>2. SettlementInv'
        BY <2>1, StepHolds DEF VenueInv
  <2>3. MessagesInv'
        BY <2>1 DEF VenueInv, MessagesInv, vars, orderBookVars
  <2> QED BY <2>1, <2>2, <2>3, MachinesAreLeftAlone DEF VenueInv
<1> QED BY <1>1, OnChainHolds, InEnclaveHolds DEF VenueNext

\* The market starts in its invariant.
LEMMA VenueInitHolds == VenueInit => VenueInv
<1> SUFFICES ASSUME VenueInit PROVE VenueInv
    OBVIOUS
<1>1. SettlementInv
      BY InitHolds DEF VenueInit
<1>2. sent = {} /\ orderCount = 0
      BY DEF VenueInit, Init
<1>3. MessagesInv
      BY <1>2, FS_EmptySet DEF MessagesInv
<1>4. /\ running = [tee \in Tees |-> TRUE]
      /\ books = [tee \in Tees |-> Machines!NoBooks]
      /\ committed = [tee \in Tees |-> Machines!NothingCommitted]
      /\ lastClearedBatch = [tee \in Tees |-> 0]
      /\ lastClearingPrice = [tee \in Tees |-> 0]
      /\ handled = {} /\ signed = {}
      BY DEF VenueInit, Machines!Init
<1>5. /\ Machines!NoBooks \in [Batches -> Seq(Machines!RestingOrders)]
      /\ Machines!NothingCommitted \in [Batches -> [Traders -> [base : Nat, quote : Nat]]]
  <2>1. <<>> \in Seq(Machines!RestingOrders)
        OBVIOUS
  <2> QED BY <2>1 DEF Machines!NoBooks, Machines!NothingCommitted, Machines!Nothing
<1>6. Machines!TypeOK
      BY <1>4, <1>5 DEF Machines!TypeOK
<1>7. \A tee \in Tees, b \in Batches, t \in Traders :
         /\ books[tee][b] = <<>>
         /\ committed[tee][b][t].base = 0 /\ committed[tee][b][t].quote = 0
      BY <1>4 DEF Machines!NoBooks, Machines!NothingCommitted, Machines!Nothing
<1>8. CommitmentsAddUp /\ CommitmentsBacked
      BY <1>7, NothingAsked DEF CommitmentsAddUp, CommitmentsBacked, BackedBase, BackedQuote
<1>9. BooksTraced
  <2>1. \A tee \in Tees, b \in Batches : books[tee][b] = <<>>
        BY <1>4 DEF Machines!NoBooks
  <2> QED BY <2>1, NothingFromNothing DEF BooksTraced
<1>10. ResultsTraced /\ ResultsBacked /\ ResultsConserve
       BY <1>4 DEF ResultsTraced, ResultsBacked, ResultsConserve
<1> QED BY <1>1, <1>3, <1>6, <1>8, <1>9, <1>10 DEF VenueInv, MachinesInv

\* The invariant of the market holds throughout.
LEMMA VenueAlwaysHolds == VenueSpec => []VenueInv
BY VenueInitHolds, VenueStepHolds, PTL DEF VenueSpec

-----------------------------------------------------------------------------
(* What machines sign                                                      *)

IsMatch(m) == m.cmd = "RUN_MATCH"

\* The order book asks once per batch: no request is for a later batch than the
\* one in hand, and one for that batch means that it is closed.  What is sent for
\* the batch in hand goes to its machine, and what was settled lies behind it.
AskedOnce ==
    /\ currentBatchId \in Nat /\ lastSettledBatch \in Nat
    /\ lastSettledBatch < currentBatchId
    /\ \A m \in sent : /\ m.batch \in Nat /\ m.batch <= currentBatchId
                       /\ m.batch = currentBatchId => m.tee = batchTee
    /\ \A m \in sent : IsMatch(m) /\ m.batch = currentBatchId => batchClosed
    /\ \A m1, m2 \in sent : IsMatch(m1) /\ IsMatch(m2) /\ m1.batch = m2.batch => m1 = m2

\* What is signed answers a request that was delivered to the signer.
AnswersARequest ==
    /\ handled \subseteq sent
    /\ \A r \in signed : \E m \in handled :
          IsMatch(m) /\ m.batch = r.payload.batch /\ m.tee = r.signer

AnswersInv == AskedOnce /\ AnswersARequest /\ OneResultPerBatch

\* The machines do not touch the order book, and it not them.
LEMMA MachinesFrame ==
    ASSUME AnswersInv, UNCHANGED machineVars, AskedOnce', sent \subseteq sent'
    PROVE  AnswersInv'
BY DEF AnswersInv, AnswersARequest, OneResultPerBatch, machineVars

\* An order is sent for the batch in hand, while it is open.
LEMMA SubmitKeeps ==
    ASSUME AskedOnce, BookInv, NEW sender, NEW base, NEW quote, NEW ciphertext, NEW drawn,
           OrderBookContract!SubmitOrder(sender, base, quote, ciphertext, drawn),
           UNCHANGED lastSettledBatch
    PROVE  AskedOnce' /\ sent \subseteq sent'
<1>1. /\ sent' = sent \union
             {[cmd |-> "SUBMIT_ORDER", tee |-> drawn, batch |-> currentBatchId,
               id |-> OrderBookContract!NextInstruction, sender |-> sender, base |-> base,
               quote |-> quote, ciphertext |-> ciphertext]}
      /\ currentBatchId' = currentBatchId /\ batchClosed' = batchClosed
      BY DEF OrderBookContract!SubmitOrder
<1>2. batchTee' = drawn /\ (batchTee # None => drawn = batchTee)
      BY DEF OrderBookContract!SubmitOrder, OrderBookContract!PinnedTee
<1>3. ASSUME NEW m \in sent PROVE m.tee # None
      BY OrderBookFits
      DEF BookInv, OrderBookContract!TypeOK, OrderBookContract!SubmitMessages,
          OrderBookContract!MatchMessages
<1>4. \A m \in sent : m.batch = currentBatchId => m.tee = drawn
      BY <1>2, <1>3 DEF AskedOnce
<1> QED BY <1>1, <1>2, <1>4 DEF AskedOnce, IsMatch

\* The match of a batch is asked for when it is not closed, and closes it.
LEMMA CloseKeeps ==
    ASSUME AskedOnce, OrderBookContract!CloseBatch, UNCHANGED lastSettledBatch
    PROVE  AskedOnce' /\ sent \subseteq sent'
<1>1. /\ ~batchClosed /\ batchClosed' = TRUE /\ currentBatchId' = currentBatchId
      /\ batchTee' = batchTee
      /\ sent' = sent \union {[cmd |-> "RUN_MATCH", tee |-> batchTee, batch |-> currentBatchId,
                                id |-> OrderBookContract!NextInstruction]}
      BY DEF OrderBookContract!CloseBatch, OrderBookContract!RequestMatch
<1> QED BY <1>1 DEF AskedOnce, IsMatch

\* A batch that ends leaves its number behind.
LEMMA NextBatchKeeps ==
    ASSUME AskedOnce, currentBatchId' = currentBatchId + 1, sent' = sent,
           lastSettledBatch' \in {lastSettledBatch, currentBatchId}
    PROVE  AskedOnce'
BY DEF AskedOnce, IsMatch

\* The transactions on chain.
LEMMA OnChainKeeps ==
    ASSUME AnswersInv, BookInv, OnChain
    PROVE  AnswersInv'
<1>1. UNCHANGED machineVars /\ AskedOnce
      BY DEF OnChain, AnswersInv
<1>2. CASE TraderStep
  <2>1. PICK trader \in Traders :
           \/ \E ciphertext \in Ciphertexts, drawn \in Tees :
                 SubmitOrder(trader, ciphertext, drawn)
           \/ \E asset \in VaultContract!Assets, amount \in DepositAmounts :
                 \E received \in 1..amount : Deposit(trader, asset, amount, received)
           \/ \E asset \in VaultContract!Assets, amount \in WithdrawAmounts :
                 Withdraw(trader, asset, amount)
        BY <1>2 DEF TraderStep
  <2>2. CASE \E ciphertext \in Ciphertexts, drawn \in Tees :
                 SubmitOrder(trader, ciphertext, drawn)
        BY <1>1, <2>2, SubmitKeeps, MachinesFrame DEF SubmitOrder, settlementVars
  <2>3. CASE UNCHANGED <<orderBookVars, settlementVars>>
    <3>1. UNCHANGED <<currentBatchId, batchTee, batchClosed, sent, lastSettledBatch>>
          BY <2>3 DEF orderBookVars, settlementVars
    <3> QED BY <1>1, <3>1, MachinesFrame DEF AskedOnce, IsMatch
  <2> QED BY <2>1, <2>2, <2>3 DEF Deposit, Withdraw
<1>3. CASE CloseBatch
      BY <1>1, <1>3, CloseKeeps, MachinesFrame DEF CloseBatch, settlementVars
<1>4. CASE VoidBatch
  <2>1. /\ currentBatchId' = currentBatchId + 1 /\ sent' = sent
        /\ lastSettledBatch' = lastSettledBatch
        BY <1>4 DEF VoidBatch, OrderBookContract!VoidBatch, OrderBookContract!NextBatch,
           settlementVars
  <2> QED BY <1>1, <2>1, NextBatchKeeps, MachinesFrame
<1>5. CASE Tick
  <2>1. UNCHANGED <<currentBatchId, batchTee, batchClosed, sent, lastSettledBatch>>
        BY <1>5 DEF Tick, OrderBookContract!Tick, OrderBookContract!batchVars, settlementVars
  <2> QED BY <1>1, <2>1, MachinesFrame DEF AskedOnce, IsMatch
<1>6. CASE Relay
  <2>1. /\ currentBatchId' = currentBatchId + 1 /\ sent' = sent
        /\ lastSettledBatch' = currentBatchId
        BY <1>6 DEF Relay, Settle, OrderBookContract!AdvanceBatch,
           OrderBookContract!NextBatch
  <2> QED BY <1>1, <2>1, NextBatchKeeps, MachinesFrame
<1> QED BY <1>2, <1>3, <1>4, <1>5, <1>6 DEF OnChain, BatchStep

\* A machine signs for a request that it had not been given before.
LEMMA HandleRunMatchKeeps ==
    ASSUME AnswersInv, NEW tee \in Tees, NEW m \in sent, Machines!HandleRunMatch(tee, m),
           UNCHANGED chainVars
    PROVE  AnswersInv'
<1> DEFINE payload == Machines!Payload(m.batch, Clear(books[tee][m.batch]))
           result == [payload |-> payload, signer |-> tee]
<1>1. /\ IsMatch(m) /\ m \notin handled /\ handled' = handled \union {m} /\ sent' = sent
      /\ m.tee = tee
      /\ signed' = signed \/ signed' = signed \union {result}
      BY DEF Machines!HandleRunMatch, Machines!Deliver, IsMatch
<1>2. result.payload.batch = m.batch /\ result.signer = tee
      BY DEF Machines!Payload
<1> HIDE DEF result
<1>3. AskedOnce'
      BY <1>1 DEF AnswersInv, AskedOnce, IsMatch, chainVars
<1>4. AnswersARequest'
      BY <1>1, <1>2 DEF AnswersInv, AnswersARequest
<1>5. \A r \in signed : r.payload.batch # m.batch
      BY <1>1 DEF AnswersInv, AnswersARequest, AskedOnce
<1>6. OneResultPerBatch'
      BY <1>1, <1>2, <1>5 DEF AnswersInv, OneResultPerBatch
<1> QED BY <1>3, <1>4, <1>6 DEF AnswersInv

\* What else a machine does signs nothing.
LEMMA InEnclaveKeeps ==
    ASSUME AnswersInv, InEnclave
    PROVE  AnswersInv'
<1>1. PICK tee \in Tees :
         \/ \E m \in sent : Machines!HandleSubmitOrder(tee, m) \/ Machines!HandleRunMatch(tee, m)
         \/ Machines!Crash(tee)
      BY DEF InEnclave, Machines!Next
<1>2. UNCHANGED chainVars
      BY DEF InEnclave
<1>3. ASSUME NEW m \in sent, Machines!HandleSubmitOrder(tee, m) PROVE AnswersInv'
  <2>1. handled' = handled \union {m} /\ sent' = sent /\ signed' = signed
        BY <1>3 DEF Machines!HandleSubmitOrder, Machines!Deliver
  <2> QED BY <1>2, <2>1 DEF AnswersInv, AskedOnce, IsMatch, AnswersARequest, OneResultPerBatch, chainVars
<1>4. CASE Machines!Crash(tee)
      BY <1>2, <1>4 DEF Machines!Crash, AnswersInv, AskedOnce, IsMatch, AnswersARequest,
         OneResultPerBatch, chainVars
<1> QED BY <1>1, <1>2, <1>3, <1>4, HandleRunMatchKeeps

\* Requests are made once and answered once, throughout.
LEMMA AnswersHold == VenueSpec => []AnswersInv
<1>1. VenueInit => AnswersInv
      BY DEF VenueInit, Init, Machines!Init, AnswersInv, AskedOnce, AnswersARequest, OneResultPerBatch
<1>2. VenueInv /\ AnswersInv /\ [VenueNext]_venueVars => AnswersInv'
  <2> SUFFICES ASSUME VenueInv, AnswersInv, [VenueNext]_venueVars PROVE AnswersInv'
      OBVIOUS
  <2>1. CASE UNCHANGED venueVars
        BY <2>1 DEF venueVars, chainVars, machineVars, AnswersInv, AskedOnce, IsMatch, AnswersARequest,
           OneResultPerBatch
  <2>2. BookInv
        BY DEF VenueInv, SettlementInv
  <2> QED BY <2>1, <2>2, OnChainKeeps, InEnclaveKeeps DEF VenueNext
<1> QED BY <1>1, <1>2, VenueAlwaysHolds, PTL DEF VenueSpec

\* Relayers never have two outcomes of a batch to choose between, because the
\* order book never sends a second request for it, under whatever id: it closes
\* a batch once and never reuses its number (closeBatch, voidBatch).
THEOREM OneResult == VenueSpec => []OneResultPerBatch
<1>1. AnswersInv => OneResultPerBatch
      BY DEF AnswersInv
<1> QED BY <1>1, AnswersHold, PTL

\* What a machine signed for the batch in hand is what settle asks for, and every
\* trader that still holds what it held when it ordered can hand over its part,
\* whatever was sent, lost, repeated or forgotten on the way, and whatever the
\* others did (commit, handleRunMatch, clear, settle).
THEOREM Payable == VenueSpec => []PayableUnlessWithdrawn
<1>1. VenueInv /\ AnswersInv => PayableUnlessWithdrawn
  <2> SUFFICES ASSUME VenueInv, AnswersInv PROVE PayableUnlessWithdrawn
      OBVIOUS
  <2>1. SettlementInv /\ MessagesInv /\ MachinesInv
        BY DEF VenueInv
  <2>2. VenueTypeOK
        BY <2>1 DEF VenueTypeOK, TypeOK, SettlementInv, BookInv, VaultInv, MachinesInv
  <2>3. ASSUME NEW r \in signed, NEW t \in Traders, r.payload.batch = currentBatchId,
               \A m \in sent : m.cmd = "SUBMIT_ORDER" /\ m.sender = t /\ m.batch = currentBatchId =>
                  balance["base"][t] >= m.base /\ balance["quote"][t] >= m.quote
        PROVE  LET fills == r.payload.fills
                   bids == {i \in DOMAIN fills : fills[i].trader = t /\ fills[i].side = 0}
               IN  /\ Owes(fills, t, "base") <= balance["base"][t]
                   /\ Owes(fills, t, "quote") <= balance["quote"][t] + Cardinality(bids)
    <3> DEFINE fills == r.payload.fills
               n == Cardinality(BidFills(fills, t))
    <3>1. /\ BackedBase(Owes(fills, t, "base"), t, currentBatchId, sent)
          /\ BackedQuote(Owes(fills, t, "quote"), n, t, currentBatchId, sent)
          BY <2>1, <2>3 DEF MachinesInv, ResultsBacked, FillsBacked
    <3>2. fills \in Seq(Machines!NetFills)
          BY <2>1 DEF MachinesInv, Machines!TypeOK
    <3>3. /\ Owes(fills, t, "base") \in Nat /\ Owes(fills, t, "quote") \in Nat /\ n \in Nat
          BY <3>2, OwesIsNat
    <3>4. balance["base"][t] \in Nat /\ balance["quote"][t] \in Nat
      <4>1. /\ balance \in [VaultContract!Assets -> [Accounts -> Nat]] /\ t \in Accounts
            /\ "base" \in VaultContract!Assets /\ "quote" \in VaultContract!Assets
            BY <2>1 DEF SettlementInv, VaultInv, VaultContract!TypeOK, VaultContract!Assets, Accounts
      <4> QED BY <4>1
    <3>5. \A m \in sent : SentBy(m, t, currentBatchId) =>
             /\ m.base \in Nat /\ m.base <= balance["base"][t]
             /\ m.quote \in Nat /\ m.quote <= balance["quote"][t]
          BY <2>1, <2>3, <3>4 DEF MessagesInv, SentBy
    <3> HIDE DEF n, fills
    <3>6. Owes(fills, t, "base") <= balance["base"][t]
          BY <3>1, <3>3, <3>4, <3>5 DEF BackedBase
    <3>7. Owes(fills, t, "quote") <= balance["quote"][t] + n
          BY <3>1, <3>3, <3>4, <3>5 DEF BackedQuote
    <3> QED BY <3>6, <3>7 DEF n, fills, BidFills
  <2>4. ASSUME NEW r \in signed, r.payload.batch = currentBatchId
        PROVE  batchClosed /\ r.signer = batchTee /\ lastSettledBatch < currentBatchId
    <3>1. PICK m \in handled : IsMatch(m) /\ m.batch = r.payload.batch /\ m.tee = r.signer
          BY DEF AnswersInv, AnswersARequest
    <3>2. m \in sent
          BY <3>1 DEF AnswersInv, AnswersARequest
    <3> QED BY <2>4, <3>1, <3>2 DEF AnswersInv, AskedOnce
  <2>5. \A r \in signed : Conserves(r.payload.fills)
        BY <2>1 DEF MachinesInv, ResultsConserve
  <2> QED BY <2>2, <2>3, <2>4, <2>5 DEF PayableUnlessWithdrawn
<1> QED BY <1>1, VenueAlwaysHolds, AnswersHold, PTL

-----------------------------------------------------------------------------
(* What a settlement does to a trader                                      *)

\* Settling a signed result is what moves the last settled batch, and it gives
\* each trader what the result says.
LEMMA SettlingTrades ==
    ASSUME VenueInv, [VenueNext]_venueVars, Settles
    PROVE  \E r \in signed :
              /\ r.payload.batch = lastSettledBatch'
              /\ r.payload.fills \in Seq(Machines!NetFills)
              /\ FillsFrom(r.payload.fills, sent, r.payload.batch)
              /\ \A t \in Traders, a \in {"base", "quote"} :
                    Gain(a, t) = Gets(r.payload.fills, t, a) - Owes(r.payload.fills, t, a)
<1>1. Relay
  <2>1. CASE UNCHANGED venueVars
        BY <2>1 DEF venueVars, chainVars, Settles
  <2>2. CASE InEnclave
        BY <2>2 DEF InEnclave, chainVars, Settles
  <2>3. CASE TraderStep \/ BatchStep
    <3>1. UNCHANGED lastSettledBatch
          BY <2>3 DEF TraderStep, SubmitOrder, Deposit, Withdraw, BatchStep, CloseBatch, VoidBatch,
             Tick, settlementVars
    <3> QED BY <3>1 DEF Settles
  <2> QED BY <2>1, <2>2, <2>3 DEF VenueNext, OnChain
<1>2. PICK r \in signed, feed \in Feeds : Settle(r.payload, r.signer, feed)
      BY <1>1 DEF Relay
<1>3. PICK fills : fills = r.payload.fills
      OBVIOUS
<1>4. fills \in Seq(Machines!NetFills) /\ FillsFrom(fills, sent, r.payload.batch)
      BY <1>3 DEF VenueInv, MachinesInv, Machines!TypeOK, ResultsTraced
<1>5. /\ r.payload.batch = lastSettledBatch' /\ Conserves(fills)
      /\ ApplyFills(balance, fills).ok /\ balance' = ApplyFills(balance, fills).book
      BY <1>2, <1>3 DEF Settle
<1>6. balance \in Books /\ fills \in Fills
      BY <1>4, NetFillsDecode
      DEF VenueInv, SettlementInv, VaultInv, VaultContract!TypeOK, Books
<1>7. \A a \in VaultContract!Assets, t \in Traders :
         balance'[a][t] = balance[a][t] + Gets(fills, t, a) - Owes(fills, t, a)
      BY <1>5, <1>6, FillsApply
<1>8. ASSUME NEW t \in Traders, NEW a \in {"base", "quote"}
      PROVE  Gain(a, t) = Gets(fills, t, a) - Owes(fills, t, a)
  <2>1. a \in VaultContract!Assets /\ t \in Accounts
        BY DEF VaultContract!Assets, Accounts
  <2>2. balance[a][t] \in Int
        BY <1>6, <2>1 DEF Books
  <2>3. Gets(fills, t, a) \in Int /\ Owes(fills, t, a) \in Int
    <3>1. CASE a = "base"
          BY <1>4, <3>1, OwesIsNat
    <3>2. CASE a = "quote"
          BY <1>4, <3>2, OwesIsNat
    <3> QED BY <3>1, <3>2
  <2>4. balance'[a][t] = balance[a][t] + Gets(fills, t, a) - Owes(fills, t, a)
        BY <1>7, <2>1
  <2> QED BY <2>2, <2>3, <2>4 DEF Gain
<1> QED BY <1>3, <1>4, <1>5, <1>8

\* A settlement takes from a trader at most what it offered itself, whoever
\* else sent, repeated or relayed what (parseOrder, handleRunMatch, settle).
THEOREM Charged == VenueSpec => ChargedOnlyAsOffered
<1>1. ASSUME VenueInv, [VenueNext]_venueVars, Settles, NEW t \in Traders
      PROVE  LET asks == OwnOrdersOn("SELL", t, lastSettledBatch')
                 bids == OwnOrdersOn("BUY", t, lastSettledBatch')
             IN  /\ -Gain("base", t) <= SumFunction([m \in asks |-> m.ciphertext.size])
                 /\ -Gain("quote", t) <= SumFunction([m \in bids |-> AtLimit(m) + 1])
  <2>1. PICK r \in signed :
           /\ r.payload.batch = lastSettledBatch'
           /\ r.payload.fills \in Seq(Machines!NetFills)
           /\ FillsFrom(r.payload.fills, sent, r.payload.batch)
           /\ \A a \in {"base", "quote"} :
                 Gain(a, t) = Gets(r.payload.fills, t, a) - Owes(r.payload.fills, t, a)
        BY <1>1, SettlingTrades
  <2>2. PICK fills, b : fills = r.payload.fills /\ b = r.payload.batch
        OBVIOUS
  <2> DEFINE D == Offers(sent, b)
             offer == [m \in D |-> m.ciphertext]
             asks == OwnOrdersOn("SELL", t, b)
             bids == OwnOrdersOn("BUY", t, b)
  <2>3. PICK src \in Injection(DOMAIN fills, D) :
           \A i \in DOMAIN fills : OnOffer(fills[i], src[i].ciphertext)
        BY <2>1, <2>2 DEF FillsFrom
  <2>4. \A d \in D : offer[d] = d.ciphertext
        OBVIOUS
  <2>5. IsFiniteSet(sent) /\ \A m \in D : m.ciphertext \in Ciphertexts
        BY <1>1 DEF VenueInv, MessagesInv, Offers
  <2>6. D \in SUBSET sent
        BY DEF Offers
  <2>7. IsFiniteSet(D)
        BY <2>5, <2>6, FS_Subset
  <2>8. AreOffers(offer, D)
        BY <2>4, <2>5, CiphertextsDecode DEF AreOffers
  <2>9. IsOffered(fills, offer, D, src)
    <3>1. \A i \in DOMAIN fills : src[i] \in D
          BY <2>3 DEF Injection
    <3> QED BY <2>3, <2>4, <3>1 DEF IsOffered
  <2>10. /\ OffersOn("SELL", offer, D, t) = asks
         /\ OffersOn("BUY", offer, D, t) = bids
         BY DEF OffersOn, Offers, OwnOrdersOn, OwnOrders
  <2>11. \A d \in D : /\ OfferSizes(offer, D)[d] = d.ciphertext.size
                      /\ OfferQuotes(offer, D)[d] + 1 = AtLimit(d) + 1
         BY <2>4 DEF OfferSizes, OfferQuotes, AtLimit
  <2> HIDE DEF D, offer, asks, bids
  <2> DEFINE more == [d \in D |-> OfferQuotes(offer, D)[d] + 1]
             sizes == [m \in asks |-> m.ciphertext.size]
             limits == [m \in bids |-> AtLimit(m) + 1]
  <2>12. /\ Owes(fills, t, "base") <= SumFunctionOnSet(OfferSizes(offer, D), asks)
         /\ Owes(fills, t, "quote") <= SumFunctionOnSet(more, bids)
         BY <2>1, <2>2, <2>7, <2>8, <2>9, <2>10, FillsWithinOffers
  <2>13. asks \in SUBSET D /\ bids \in SUBSET D
         BY <2>10 DEF OffersOn
  <2>14. IsFiniteSet(asks) /\ IsFiniteSet(bids)
         BY <2>7, <2>13, FS_Subset
  <2>15. SumFunctionOnSet(OfferSizes(offer, D), asks) = SumFunction(sizes)
    <3>1. \A m \in asks : OfferSizes(offer, D)[m] = sizes[m]
          BY <2>11, <2>13
    <3>2. DOMAIN sizes = asks
          OBVIOUS
    <3> HIDE DEF sizes
    <3>3. SumFunctionOnSet(OfferSizes(offer, D), asks) = SumFunctionOnSet(sizes, asks)
          BY ONLY <2>14, <3>1, SumsAreEqual
    <3> QED BY ONLY <3>2, <3>3 DEF SumFunction, SumFunctionOnSet, FoldFunction
  <2>16. SumFunctionOnSet(more, bids) = SumFunction(limits)
    <3>1. \A m \in bids : more[m] = limits[m]
          BY <2>11, <2>13
    <3>2. DOMAIN limits = bids
          OBVIOUS
    <3> HIDE DEF limits, more
    <3>3. SumFunctionOnSet(more, bids) = SumFunctionOnSet(limits, bids)
          BY ONLY <2>14, <3>1, SumsAreEqual
    <3> QED BY ONLY <3>2, <3>3 DEF SumFunction, SumFunctionOnSet, FoldFunction
  <2>17. /\ Gets(fills, t, "base") \in Nat /\ Owes(fills, t, "base") \in Nat
         /\ Gets(fills, t, "quote") \in Nat /\ Owes(fills, t, "quote") \in Nat
         BY <2>1, <2>2, OwesIsNat
  <2>18. /\ Gain("base", t) = Gets(fills, t, "base") - Owes(fills, t, "base")
         /\ Gain("quote", t) = Gets(fills, t, "quote") - Owes(fills, t, "quote")
         BY <2>1, <2>2
  <2>19. SumFunction(sizes) \in Int /\ SumFunction(limits) \in Int
    <3>1. \A m \in asks : OfferSizes(offer, D)[m] \in Int
      <4>1. \A d \in D : d.ciphertext.size \in Nat
            BY <2>5, CiphertextsDecode DEF D
      <4> QED BY <2>11, <2>13, <4>1
    <3>2. \A m \in bids : more[m] \in Int
      <4>1. \A d \in D : AtLimit(d) \in Nat
            BY <2>5, CiphertextsDecode, QuoteAmountIsNat DEF D, AtLimit
      <4> QED BY <2>11, <2>13, <4>1
    <3> HIDE DEF more, sizes, limits
    <3>3. SumFunctionOnSet(OfferSizes(offer, D), asks) \in Int
          BY ONLY <2>14, <3>1, SumIsInt
    <3>4. SumFunctionOnSet(more, bids) \in Int
          BY ONLY <2>14, <3>2, SumIsInt
    <3> QED BY <2>15, <2>16, <3>3, <3>4
  <2> HIDE DEF sizes, limits, more
  <2>20. -Gain("base", t) <= SumFunction(sizes) /\ -Gain("quote", t) <= SumFunction(limits)
         BY ONLY <2>12, <2>15, <2>16, <2>17, <2>18, <2>19
  <2> QED BY <2>1, <2>2, <2>20 DEF asks, bids, sizes, limits
<1>2. VenueInv /\ [VenueNext]_venueVars =>
        [Settles => \A t \in Traders :
          LET asks == OwnOrdersOn("SELL", t, lastSettledBatch')
              bids == OwnOrdersOn("BUY", t, lastSettledBatch')
          IN  /\ -Gain("base", t) <= SumFunction([m \in asks |-> m.ciphertext.size])
              /\ -Gain("quote", t) <= SumFunction([m \in bids |-> AtLimit(m) + 1])]_venueVars
      BY <1>1
<1> QED BY <1>2, VenueAlwaysHolds, PTL DEF VenueSpec, ChargedOnlyAsOffered

\* A trader with one order in a batch has at most one fill, on its terms.
LEMMA OneOrderOneFill ==
    ASSUME NEW b, NEW t \in Traders, NEW m, OwnOrders(t, b) = {m},
           NEW fills \in Seq(Machines!NetFills), FillsFrom(fills, sent, b)
    PROVE  \/ BidFills(fills, t) = {} /\ AskFills(fills, t) = {}
           \/ \E i \in DOMAIN fills :
                 /\ OnOffer(fills[i], m.ciphertext)
                 /\ fills[i].side = 0 => BidFills(fills, t) = {i} /\ AskFills(fills, t) = {}
                 /\ fills[i].side = 1 => BidFills(fills, t) = {} /\ AskFills(fills, t) = {i}
<1>1. PICK src \in Injection(DOMAIN fills, Offers(sent, b)) :
         \A i \in DOMAIN fills : OnOffer(fills[i], src[i].ciphertext)
      BY DEF FillsFrom
<1>2. /\ src \in [DOMAIN fills -> Offers(sent, b)]
      /\ \A i, j \in DOMAIN fills : src[i] = src[j] => i = j
      BY <1>1 DEF Injection, IsInjective
<1>3. ASSUME NEW i \in DOMAIN fills, fills[i].trader = t PROVE src[i] = m
  <2>1. src[i] \in Offers(sent, b) /\ src[i].ciphertext.trader = t
        BY <1>1, <1>2, <1>3 DEF OnOffer
  <2>2. src[i] \in OwnOrders(t, b)
        BY <2>1 DEF Offers, OwnOrders
  <2> QED BY <2>2
<1>4. CASE \A i \in DOMAIN fills : fills[i].trader # t
      BY <1>4 DEF BidFills, AskFills
<1>5. CASE \E i \in DOMAIN fills : fills[i].trader = t
  <2>1. PICK i \in DOMAIN fills : fills[i].trader = t
        BY <1>5
  <2>2. \A j \in DOMAIN fills : fills[j].trader = t => j = i
        BY <1>2, <1>3, <2>1
  <2>3. OnOffer(fills[i], m.ciphertext)
        BY <1>1, <1>3, <2>1
  <2> QED BY <2>1, <2>2, <2>3 DEF BidFills, AskFills
<1> QED BY <1>4, <1>5

\* A trader with exactly one order in a batch trades on its own side, and its
\* net gain is within its limit: a buyer pays less than one quote unit over, a
\* seller receives less than two under (clear, withQuote, _applyFills).
THEOREM WithinLimit == VenueSpec => TradedWithinLimit
<1>1. ASSUME VenueInv, [VenueNext]_venueVars, Settles, NEW t \in Traders,
             NEW m \in OwnOrders(t, lastSettledBatch'),
             Cardinality(OwnOrders(t, lastSettledBatch')) = 1
      PROVE  LET base == Gain("base", t)
                 quote == Gain("quote", t)
             IN  /\ IF m.ciphertext.side = "BUY" THEN base >= 0 /\ quote <= 0
                                                 ELSE base <= 0 /\ quote >= 0
                 /\ base # 0 =>
                       quote * PriceScale + base * m.ciphertext.limitPrice
                           > -PriceScale * IF base > 0 THEN 1 ELSE 2
  <2>1. PICK r \in signed :
           /\ r.payload.batch = lastSettledBatch'
           /\ r.payload.fills \in Seq(Machines!NetFills)
           /\ FillsFrom(r.payload.fills, sent, r.payload.batch)
           /\ \A a \in {"base", "quote"} :
                 Gain(a, t) = Gets(r.payload.fills, t, a) - Owes(r.payload.fills, t, a)
        BY <1>1, SettlingTrades
  <2>2. PICK fills, b, base, quote, c :
           /\ fills = r.payload.fills /\ b = lastSettledBatch' /\ c = m.ciphertext
           /\ base = Gain("base", t) /\ quote = Gain("quote", t)
        OBVIOUS
  <2>3. OwnOrders(t, b) = {m}
    <3>1. IsFiniteSet(OwnOrders(t, b))
      <4>1. IsFiniteSet(sent) /\ OwnOrders(t, b) \in SUBSET sent
            BY <1>1 DEF VenueInv, MessagesInv, OwnOrders
      <4> QED BY ONLY <4>1, FS_Subset
    <3>2. PICK x : OwnOrders(t, b) = {x}
          BY <1>1, <2>2, <3>1, FS_Singleton
    <3> QED BY <1>1, <2>2, <3>2
  <2>4. c.side \in {"BUY", "SELL"} /\ c.limitPrice \in Nat /\ c.size \in Nat
    <3>1. c \in Ciphertexts
          BY <1>1, <2>2 DEF VenueInv, MessagesInv, OwnOrders
    <3> QED BY <3>1, CiphertextsDecode
  <2>5. fills \in Seq(Machines!NetFills) /\ FillsFrom(fills, sent, b)
        BY <2>1, <2>2
  <2>6. /\ base = SumFunctionOnSet(Sizes(fills), BidFills(fills, t))
                    - SumFunctionOnSet(Sizes(fills), AskFills(fills, t))
        /\ quote = SumFunctionOnSet(Quotes(fills), AskFills(fills, t))
                    - SumFunctionOnSet(Quotes(fills), BidFills(fills, t))
        BY <2>1, <2>2, <2>5, OwedAndGot
  <2>7. PriceScale \in Nat /\ PriceScale > 0
        BY PriceScaleIsPositive
  <2>8. /\ IF c.side = "BUY" THEN base >= 0 /\ quote <= 0 ELSE base <= 0 /\ quote >= 0
        /\ base # 0 => quote * PriceScale + base * c.limitPrice
                           > -PriceScale * IF base > 0 THEN 1 ELSE 2
    <3>1. CASE BidFills(fills, t) = {} /\ AskFills(fills, t) = {}
      <4>1. base = 0 /\ quote = 0
            BY <2>6, <3>1, SumOfNone
      <4> QED BY ONLY <4>1
    <3>2. CASE \E i \in DOMAIN fills :
                 /\ OnOffer(fills[i], c)
                 /\ fills[i].side = 0 => BidFills(fills, t) = {i} /\ AskFills(fills, t) = {}
                 /\ fills[i].side = 1 => BidFills(fills, t) = {} /\ AskFills(fills, t) = {i}
      <4>1. PICK i \in DOMAIN fills :
                 /\ OnOffer(fills[i], c)
                 /\ fills[i].side = 0 => BidFills(fills, t) = {i} /\ AskFills(fills, t) = {}
                 /\ fills[i].side = 1 => BidFills(fills, t) = {} /\ AskFills(fills, t) = {i}
            BY <3>2
      <4>2. /\ fills[i].side \in {0, 1} /\ fills[i].size \in Nat \ {0} /\ fills[i].quote \in Nat
            BY <2>5, NetFillsDecode
      <4>3. PICK s, q : s = fills[i].size /\ q = fills[i].quote
            OBVIOUS
      <4>4. /\ SumFunctionOnSet(Sizes(fills), {i}) = s
            /\ SumFunctionOnSet(Quotes(fills), {i}) = q
        <5>1. /\ Sizes(fills)[i] = s /\ Quotes(fills)[i] = q
              BY <4>3 DEF Sizes, Quotes
        <5>2. \A f : f[i] \in Int => SumFunctionOnSet(f, {i}) = f[i]
          <6> TAKE f
          <6> HAVE f[i] \in Int
          <6>1. IsFiniteSet({i}) /\ i \in {i} /\ {i} \ {i} = {} /\ \A x \in {i} : f[x] \in Int
                BY FS_Singleton
          <6>2. SumFunctionOnSet(f, {i}) = f[i] + SumFunctionOnSet(f, {i} \ {i})
                BY ONLY <6>1, SumWithout
          <6> QED BY <6>1, <6>2, SumOfNone
        <5>3. Sizes(fills)[i] \in Int /\ Quotes(fills)[i] \in Int
              BY <4>2, <4>3, <5>1
        <5> QED BY ONLY <5>1, <5>2, <5>3
      <4>5. CASE fills[i].side = 0
        <5>1. base = s /\ quote = -q
          <6>1. base = s - 0 /\ quote = 0 - q
                BY <2>6, <4>1, <4>4, <4>5, SumOfNone
          <6> QED BY <4>2, <4>3, <6>1
        <5>2. c.side = "BUY" /\ (q - 1) * PriceScale < s * c.limitPrice
              BY <2>4, <4>1, <4>3, <4>5 DEF OnOffer
        <5>3. s \in Nat \ {0} /\ q \in Nat
              BY <4>2, <4>3
        <5> QED BY ONLY <2>4, <2>7, <5>1, <5>2, <5>3
      <4>6. CASE fills[i].side = 1
        <5>1. base = -s /\ quote = q
          <6>1. base = 0 - s /\ quote = q - 0
                BY <2>6, <4>1, <4>4, <4>6, SumOfNone
          <6> QED BY <4>2, <4>3, <6>1
        <5>2. c.side = "SELL" /\ s * c.limitPrice < (q + 2) * PriceScale
              BY <2>4, <4>1, <4>3, <4>6 DEF OnOffer
        <5>3. s \in Nat \ {0} /\ q \in Nat
              BY <4>2, <4>3
        <5> QED BY ONLY <2>4, <2>7, <5>1, <5>2, <5>3
      <4> QED BY <4>2, <4>5, <4>6
    <3>3. \/ BidFills(fills, t) = {} /\ AskFills(fills, t) = {}
          \/ \E i \in DOMAIN fills :
                /\ OnOffer(fills[i], m.ciphertext)
                /\ fills[i].side = 0 => BidFills(fills, t) = {i} /\ AskFills(fills, t) = {}
                /\ fills[i].side = 1 => BidFills(fills, t) = {} /\ AskFills(fills, t) = {i}
          BY <2>3, <2>5, OneOrderOneFill
    <3>4. c = m.ciphertext
          BY <2>2
    <3> QED BY ONLY <3>1, <3>2, <3>3, <3>4
  <2> QED BY ONLY <2>2, <2>8
<1>2. VenueInv /\ [VenueNext]_venueVars =>
        [Settles => \A t \in Traders : \A m \in OwnOrders(t, lastSettledBatch') :
          Cardinality(OwnOrders(t, lastSettledBatch')) = 1 =>
              LET base == Gain("base", t)
                  quote == Gain("quote", t)
              IN  /\ IF m.ciphertext.side = "BUY" THEN base >= 0 /\ quote <= 0
                                                  ELSE base <= 0 /\ quote >= 0
                  /\ base # 0 =>
                        quote * PriceScale + base * m.ciphertext.limitPrice
                            > -PriceScale * IF base > 0 THEN 1 ELSE 2]_venueVars
      BY <1>1
<1> QED BY <1>2, VenueAlwaysHolds, PTL DEF VenueSpec, TradedWithinLimit
=============================================================================
