--------------------------------- MODULE Sums ---------------------------------
(***************************************************************************)
(* Facts about SumFunctionOnSet(f, S), the sum of f[x] for x in S, that    *)
(* the proofs about balances rest on.  The library defines the sum by      *)
(* recursion over the subsets of S; its value is established here by       *)
(* picking a least counterexample, which needs no induction over an        *)
(* operator.                                                               *)
(***************************************************************************)
EXTENDS Integers, Functions, FiniteSetTheorems, WellFoundedInduction, TLAPS

\* A set of naturals that holds 0 and is closed under successor is all of Nat.
LEMMA NatIsLeast ==
    ASSUME NEW A \in SUBSET Nat, 0 \in A, \A n \in A : n + 1 \in A
    PROVE  A = Nat
<1> DEFINE B == Nat \ A
<1> SUFFICES ASSUME B # {} PROVE FALSE
    OBVIOUS
<1>1. B \subseteq Nat
      OBVIOUS
<1> HIDE DEF B
<1>2. PICK x \in B : \A y \in B : ~(<<y, x>> \in OpToRel(<, Nat))
      BY <1>1, NatLessThanWellFounded, WFMin
<1>3. \A y \in B : ~(y < x)
      BY <1>1, <1>2 DEF OpToRel
<1>4. x \in Nat /\ x # 0
      BY DEF B
<1>5. x - 1 \in Nat /\ x - 1 < x /\ (x - 1) + 1 = x
      BY <1>4
<1>6. x - 1 \in A
      BY <1>3, <1>5 DEF B
<1> QED BY <1>5, <1>6 DEF B

\* A family of subsets that takes in a set once it has the set without any one
\* of its elements has every finite set.
LEMMA FiniteSetsAreBuilt ==
    ASSUME NEW S, IsFiniteSet(S), NEW F,
           \A s \in SUBSET S : (\A x \in s : s \ {x} \in F) => s \in F
    PROVE  S \in F
<1> DEFINE A == {n \in Nat : \A s \in SUBSET S : Cardinality(s) = n => s \in F}
<1>1. 0 \in A
  <2>1. \A s \in SUBSET S : Cardinality(s) = 0 => s = {}
        BY FS_Subset, FS_EmptySet
  <2> QED BY <2>1
<1>2. \A n \in A : n + 1 \in A
  <2> SUFFICES ASSUME NEW n \in A, NEW s \in SUBSET S, Cardinality(s) = n + 1
               PROVE  s \in F
      OBVIOUS
  <2>1. \A x \in s : s \ {x} \in F
    <3> TAKE x \in s
    <3>1. IsFiniteSet(s)
          BY FS_Subset
    <3>2. Cardinality(s \ {x}) = n
          BY <3>1, FS_RemoveElement
    <3> QED BY <3>2
  <2> QED BY <2>1
<1> HIDE DEF A
<1>3. A \subseteq Nat
      BY DEF A
<1>4. A = Nat
      BY <1>1, <1>2, <1>3, NatIsLeast
<1>5. Cardinality(S) \in Nat
      BY FS_CardinalityType
<1> QED BY <1>4, <1>5 DEF A

-----------------------------------------------------------------------------
(* What the library's recursion computes                                   *)

\* One unfolding of the recursion, and the function it defines.
Unfolded(f, s, g) ==
    IF s = {} THEN 0 ELSE LET x == CHOOSE x \in s : TRUE IN f[x] + g[s \ {x}]
Partial(f, S) == CHOOSE g : g = [s \in SUBSET S |-> Unfolded(f, s, g)]

LEMMA SumUnfolds ==
    ASSUME NEW f, NEW S
    PROVE  SumFunctionOnSet(f, S) = Partial(f, S)[S]
BY DEF SumFunctionOnSet, FoldFunctionOnSet, MapThenFoldSet, Unfolded, Partial

\* The recursion is well founded: the function exists.
LEMMA PartialExists ==
    ASSUME NEW f, NEW S, IsFiniteSet(S)
    PROVE  \A s \in SUBSET S : Partial(f, S)[s] = Unfolded(f, s, Partial(f, S))
<1> DEFINE Upto(n, g) == \A s \in SUBSET S : Cardinality(s) <= n => g[s] = Unfolded(f, s, g)
           A == {n \in Nat : \E g : Upto(n, g)}
<1>0. \A s \in SUBSET S : IsFiniteSet(s) /\ Cardinality(s) \in Nat /\ Cardinality(s) <= Cardinality(S)
      BY FS_Subset, FS_CardinalityType
<1>1. \A s \in SUBSET S : s # {} => 
         /\ (CHOOSE x \in s : TRUE) \in s 
         /\ s \ {CHOOSE x \in s : TRUE} \in SUBSET S
         /\ Cardinality(s \ {CHOOSE x \in s : TRUE}) = Cardinality(s) - 1
  <2> TAKE s \in SUBSET S
  <2> HAVE s # {}
  <2>1. (CHOOSE x \in s : TRUE) \in s
        OBVIOUS
  <2> QED BY <1>0, <2>1, FS_RemoveElement
<1>2. 0 \in A
  <2>1. Upto(0, [s \in SUBSET S |-> 0])
    <3>1. \A s \in SUBSET S : Cardinality(s) <= 0 => s = {}
          BY <1>0, FS_EmptySet
    <3> QED BY <3>1 DEF Unfolded
  <2> QED BY <2>1
<1>3. \A n \in A : n + 1 \in A
  <2> TAKE n \in A
  <2>1. PICK g : Upto(n, g)
        OBVIOUS
  <2> DEFINE h == [s \in SUBSET S |-> Unfolded(f, s, g)]
  <2>2. Upto(n + 1, h)
    <3> SUFFICES ASSUME NEW s \in SUBSET S, Cardinality(s) <= n + 1
                 PROVE  h[s] = Unfolded(f, s, h)
        OBVIOUS
    <3>1. CASE s = {}
          BY <3>1 DEF Unfolded
    <3>2. CASE s # {}
      <4> DEFINE x == CHOOSE x \in s : TRUE
      <4>1. s \ {x} \in SUBSET S /\ Cardinality(s \ {x}) <= n
            BY <1>0, <1>1, <3>2
      <4>2. g[s \ {x}] = h[s \ {x}]
            BY <2>1, <4>1
      <4>3. Unfolded(f, s, g) = f[x] + g[s \ {x}] /\ Unfolded(f, s, h) = f[x] + h[s \ {x}]
            BY <3>2 DEF Unfolded
      <4> QED BY <4>2, <4>3
    <3> QED BY <3>1, <3>2
  <2> HIDE DEF h
  <2> QED BY <2>2
<1>4. Cardinality(S) \in A
  <2> HIDE DEF A
  <2>1. A \subseteq Nat
        BY DEF A
  <2>2. A = Nat
        BY <1>2, <1>3, <2>1, NatIsLeast
  <2> QED BY <2>2, <1>0
<1>5. PICK g : Upto(Cardinality(S), g)
      BY <1>4
<1> DEFINE h == [s \in SUBSET S |-> g[s]]
<1>6. h = [s \in SUBSET S |-> Unfolded(f, s, h)]
  <2> SUFFICES ASSUME NEW s \in SUBSET S PROVE h[s] = Unfolded(f, s, h)
      OBVIOUS
  <2>1. g[s] = Unfolded(f, s, g)
        BY <1>0, <1>5
  <2>2. Unfolded(f, s, g) = Unfolded(f, s, h)
        BY <1>1 DEF Unfolded
  <2> QED BY <2>1, <2>2
<1> HIDE DEF h
<1>7. \E k : k = [s \in SUBSET S |-> Unfolded(f, s, k)]
      BY <1>6
<1>8. Partial(f, S) = [s \in SUBSET S |-> Unfolded(f, s, Partial(f, S))]
      BY <1>7 DEF Partial
<1> QED BY <1>8

\* Its value at a set does not depend on the set it was started from.
LEMMA PartialAgrees ==
    ASSUME NEW f, NEW S, IsFiniteSet(S), NEW T \in SUBSET S
    PROVE  Partial(f, S)[T] = SumFunctionOnSet(f, T)
<1> DEFINE F == {s \in SUBSET T : Partial(f, S)[s] = Partial(f, T)[s]}
<1>1. IsFiniteSet(T)
      BY FS_Subset
<1>2. ASSUME NEW s \in SUBSET T, \A x \in s : s \ {x} \in F
      PROVE  s \in F
  <2>1. Partial(f, S)[s] = Unfolded(f, s, Partial(f, S))
        BY PartialExists
  <2>2. Partial(f, T)[s] = Unfolded(f, s, Partial(f, T))
        BY <1>1, PartialExists
  <2>3. Unfolded(f, s, Partial(f, S)) = Unfolded(f, s, Partial(f, T))
    <3>1. CASE s = {}
          BY <3>1 DEF Unfolded
    <3>2. CASE s # {}
      <4>1. s \ {CHOOSE x \in s : TRUE} \in F
            BY <1>2, <3>2
      <4> QED BY <3>2, <4>1 DEF Unfolded
    <3> QED BY <3>1, <3>2
  <2> QED BY <2>1, <2>2, <2>3
<1> HIDE DEF F
<1>3. T \in F
      BY <1>1, <1>2, FiniteSetsAreBuilt
<1> QED BY <1>3, SumUnfolds DEF F

-----------------------------------------------------------------------------
(* The sum of integers over a finite set                                   *)

LEMMA SumOfNone ==
    ASSUME NEW f
    PROVE  SumFunctionOnSet(f, {}) = 0
<1>1. IsFiniteSet({}) /\ {} \in SUBSET {}
      BY FS_EmptySet
<1>2. Partial(f, {})[{}] = Unfolded(f, {}, Partial(f, {}))
      BY <1>1, PartialExists
<1> QED BY <1>2, SumUnfolds DEF Unfolded

\* The term the library takes out first.
LEMMA SumTakesOne ==
    ASSUME NEW f, NEW S, IsFiniteSet(S), S # {}
    PROVE  \E x \in S : SumFunctionOnSet(f, S) = f[x] + SumFunctionOnSet(f, S \ {x})
<1> DEFINE x == CHOOSE x \in S : TRUE
<1>1. x \in S
      OBVIOUS
<1>2. Partial(f, S)[S] = Unfolded(f, S, Partial(f, S))
      BY PartialExists
<1>3. Partial(f, S)[S \ {x}] = SumFunctionOnSet(f, S \ {x})
      BY PartialAgrees
<1> QED BY <1>1, <1>2, <1>3, SumUnfolds DEF Unfolded

LEMMA SumIsInt ==
    ASSUME NEW S, IsFiniteSet(S), NEW f, \A x \in S : f[x] \in Int
    PROVE  SumFunctionOnSet(f, S) \in Int
<1> DEFINE F == {s \in SUBSET S : SumFunctionOnSet(f, s) \in Int}
<1>1. ASSUME NEW s \in SUBSET S, \A x \in s : s \ {x} \in F
      PROVE  s \in F
  <2>1. CASE s = {}
        BY <2>1, SumOfNone
  <2>2. CASE s # {}
    <3>1. PICK x \in s : SumFunctionOnSet(f, s) = f[x] + SumFunctionOnSet(f, s \ {x})
          BY <2>2, FS_Subset, SumTakesOne
    <3> QED BY <1>1, <3>1
  <2> QED BY <2>1, <2>2
<1> HIDE DEF F
<1>2. S \in F
      BY <1>1, FiniteSetsAreBuilt
<1> QED BY <1>2 DEF F

\* Any term may be taken out.
LEMMA SumWithout ==
    ASSUME NEW S, IsFiniteSet(S), NEW f, \A x \in S : f[x] \in Int, NEW e \in S
    PROVE  SumFunctionOnSet(f, S) = f[e] + SumFunctionOnSet(f, S \ {e})
<1> DEFINE F == {s \in SUBSET S :
                    \A x \in s : SumFunctionOnSet(f, s) = f[x] + SumFunctionOnSet(f, s \ {x})}
<1>1. ASSUME NEW s \in SUBSET S, \A x \in s : s \ {x} \in F
      PROVE  s \in F
  <2> SUFFICES ASSUME NEW x \in s
               PROVE  SumFunctionOnSet(f, s) = f[x] + SumFunctionOnSet(f, s \ {x})
      OBVIOUS
  <2>1. PICK y \in s : SumFunctionOnSet(f, s) = f[y] + SumFunctionOnSet(f, s \ {y})
        BY FS_Subset, SumTakesOne
  <2>2. CASE x = y
        BY <2>1, <2>2
  <2>3. CASE x # y
    <3> DEFINE rest == SumFunctionOnSet(f, (s \ {x}) \ {y})
    <3>1. (s \ {y}) \ {x} = (s \ {x}) \ {y}
          OBVIOUS
    <3>2. SumFunctionOnSet(f, s \ {y}) = f[x] + rest
          BY <1>1, <2>3, <3>1
    <3>3. SumFunctionOnSet(f, s \ {x}) = f[y] + rest
          BY <1>1, <2>3
    <3>4. rest \in Int
      <4>1. IsFiniteSet((s \ {x}) \ {y})
            BY FS_Subset
      <4> QED BY <4>1, SumIsInt
    <3>5. f[x] \in Int /\ f[y] \in Int
          OBVIOUS
    <3> HIDE DEF rest
    <3>6. f[y] + (f[x] + rest) = f[x] + (f[y] + rest)
          BY <3>4, <3>5
    <3> QED BY <2>1, <3>2, <3>3, <3>6
  <2> QED BY <2>2, <2>3
<1> HIDE DEF F
<1>2. S \in F
      BY <1>1, FiniteSetsAreBuilt
<1> QED BY <1>2 DEF F

\* Equal terms give equal sums.
LEMMA SumsAreEqual ==
    ASSUME NEW S, IsFiniteSet(S), NEW f, NEW g, \A x \in S : f[x] = g[x]
    PROVE  SumFunctionOnSet(f, S) = SumFunctionOnSet(g, S)
<1> DEFINE F == {s \in SUBSET S : Partial(f, S)[s] = Partial(g, S)[s]}
<1>1. ASSUME NEW s \in SUBSET S, \A x \in s : s \ {x} \in F
      PROVE  s \in F
  <2>1. Partial(f, S)[s] = Unfolded(f, s, Partial(f, S))
        BY PartialExists
  <2>2. Partial(g, S)[s] = Unfolded(g, s, Partial(g, S))
        BY PartialExists
  <2>3. Unfolded(f, s, Partial(f, S)) = Unfolded(g, s, Partial(g, S))
    <3>1. CASE s = {}
          BY <3>1 DEF Unfolded
    <3>2. CASE s # {}
      <4>1. (CHOOSE x \in s : TRUE) \in S /\ s \ {CHOOSE x \in s : TRUE} \in F
            BY <1>1, <3>2
      <4> QED BY <3>2, <4>1 DEF Unfolded
    <3> QED BY <3>1, <3>2
  <2> QED BY <2>1, <2>2, <2>3
<1> HIDE DEF F
<1>2. S \in F
      BY <1>1, FiniteSetsAreBuilt
<1> QED BY <1>2, SumUnfolds DEF F

\* A sum of naturals is a natural, and no term exceeds it.
LEMMA SumOfNaturals ==
    ASSUME NEW S, IsFiniteSet(S), NEW f, \A x \in S : f[x] \in Nat
    PROVE  SumFunctionOnSet(f, S) \in Nat /\ \A x \in S : f[x] <= SumFunctionOnSet(f, S)
<1> DEFINE F == {s \in SUBSET S : SumFunctionOnSet(f, s) \in Nat}
<1>1. ASSUME NEW s \in SUBSET S, \A x \in s : s \ {x} \in F
      PROVE  s \in F
  <2>1. CASE s = {}
        BY <2>1, SumOfNone
  <2>2. CASE s # {}
    <3>1. PICK x \in s : SumFunctionOnSet(f, s) = f[x] + SumFunctionOnSet(f, s \ {x})
          BY <2>2, FS_Subset, SumTakesOne
    <3> QED BY <1>1, <3>1
  <2> QED BY <2>1, <2>2
<1>2. ASSUME NEW s \in SUBSET S
      PROVE  SumFunctionOnSet(f, s) \in Nat
  <2> HIDE DEF F
  <2>1. s \in F
        BY <1>1, FS_Subset, FiniteSetsAreBuilt
  <2> QED BY <2>1 DEF F
<1>3. ASSUME NEW x \in S
      PROVE  f[x] <= SumFunctionOnSet(f, S)
  <2>1. SumFunctionOnSet(f, S) = f[x] + SumFunctionOnSet(f, S \ {x})
        BY SumWithout
  <2>2. SumFunctionOnSet(f, S \ {x}) \in Nat
        BY <1>2
  <2> QED BY <2>1, <2>2
<1> QED BY <1>2, <1>3

\* Part of a sum of naturals is at most the whole.
LEMMA SumOfPart ==
    ASSUME NEW S, IsFiniteSet(S), NEW f, \A x \in S : f[x] \in Nat, NEW T \in SUBSET S
    PROVE  SumFunctionOnSet(f, T) <= SumFunctionOnSet(f, S)
<1> DEFINE F == {s \in SUBSET S : T \subseteq s => SumFunctionOnSet(f, T) <= SumFunctionOnSet(f, s)}
<1>1. ASSUME NEW s \in SUBSET S, \A x \in s : s \ {x} \in F, T \subseteq s
      PROVE  SumFunctionOnSet(f, T) <= SumFunctionOnSet(f, s)
  <2>1. SumFunctionOnSet(f, T) \in Nat
        BY FS_Subset, SumOfNaturals
  <2>2. CASE T = s
        BY <2>1, <2>2
  <2>3. CASE T # s
    <3>1. PICK x \in s : x \notin T
          BY <1>1, <2>3
    <3>2. IsFiniteSet(s) /\ IsFiniteSet(s \ {x})
          BY FS_Subset
    <3>3. SumFunctionOnSet(f, s) = f[x] + SumFunctionOnSet(f, s \ {x})
          BY <3>2, SumWithout
    <3>4. SumFunctionOnSet(f, T) <= SumFunctionOnSet(f, s \ {x})
          BY <1>1, <3>1
    <3>5. SumFunctionOnSet(f, s \ {x}) \in Nat /\ f[x] \in Nat
          BY <3>2, SumOfNaturals
    <3> QED BY <2>1, <3>3, <3>4, <3>5
  <2> QED BY <2>2, <2>3
<1>2. S \in F
  <2>1. \A s \in SUBSET S : (\A x \in s : s \ {x} \in F) => s \in F
        BY <1>1
  <2> HIDE DEF F
  <2> QED BY <2>1, FiniteSetsAreBuilt
<1> QED BY <1>2

LEMMA SumOfZeros ==
    ASSUME NEW S, IsFiniteSet(S), NEW f, \A x \in S : f[x] = 0
    PROVE  SumFunctionOnSet(f, S) = 0
<1> DEFINE F == {s \in SUBSET S : SumFunctionOnSet(f, s) = 0}
<1>1. ASSUME NEW s \in SUBSET S, \A x \in s : s \ {x} \in F
      PROVE  s \in F
  <2>1. CASE s = {}
        BY <2>1, SumOfNone
  <2>2. CASE s # {}
    <3>1. PICK x \in s : SumFunctionOnSet(f, s) = f[x] + SumFunctionOnSet(f, s \ {x})
          BY <2>2, FS_Subset, SumTakesOne
    <3> QED BY <1>1, <3>1
  <2> QED BY <2>1, <2>2
<1> HIDE DEF F
<1>2. S \in F
      BY <1>1, FiniteSetsAreBuilt
<1> QED BY <1>2 DEF F

\* Changing one term changes the sum by as much.
LEMMA SumOfOneChange ==
    ASSUME NEW S, IsFiniteSet(S), NEW f, NEW g, NEW e \in S,
           \A x \in S : f[x] \in Int /\ g[x] \in Int,
           \A x \in S \ {e} : g[x] = f[x]
    PROVE  SumFunctionOnSet(g, S) = SumFunctionOnSet(f, S) + (g[e] - f[e])
<1>1. SumFunctionOnSet(f, S) = f[e] + SumFunctionOnSet(f, S \ {e})
      BY SumWithout
<1>2. SumFunctionOnSet(g, S) = g[e] + SumFunctionOnSet(g, S \ {e})
      BY SumWithout
<1>3. IsFiniteSet(S \ {e})
      BY FS_Subset
<1>4. SumFunctionOnSet(g, S \ {e}) = SumFunctionOnSet(f, S \ {e})
      BY <1>3, SumsAreEqual
<1>5. SumFunctionOnSet(f, S \ {e}) \in Int
      BY <1>3, SumIsInt
<1> QED BY <1>1, <1>2, <1>4, <1>5

\* The sum of sums, term by term.
LEMMA SumOfSums ==
    ASSUME NEW S, IsFiniteSet(S), NEW f, NEW g, NEW h,
           \A x \in S : f[x] \in Int /\ g[x] \in Int /\ h[x] = f[x] + g[x]
    PROVE  SumFunctionOnSet(h, S) = SumFunctionOnSet(f, S) + SumFunctionOnSet(g, S)
<1> DEFINE F == {s \in SUBSET S : SumFunctionOnSet(h, s)
                                    = SumFunctionOnSet(f, s) + SumFunctionOnSet(g, s)}
<1>1. ASSUME NEW s \in SUBSET S, \A x \in s : s \ {x} \in F
      PROVE  s \in F
  <2>1. CASE s = {}
        BY <2>1, SumOfNone
  <2>2. CASE s # {}
    <3>1. PICK x \in s : SumFunctionOnSet(h, s) = h[x] + SumFunctionOnSet(h, s \ {x})
          BY <2>2, FS_Subset, SumTakesOne
    <3>2. IsFiniteSet(s) /\ IsFiniteSet(s \ {x})
          BY FS_Subset
    <3>3. /\ SumFunctionOnSet(f, s) = f[x] + SumFunctionOnSet(f, s \ {x})
          /\ SumFunctionOnSet(g, s) = g[x] + SumFunctionOnSet(g, s \ {x})
          BY <3>2, SumWithout
    <3>4. SumFunctionOnSet(f, s \ {x}) \in Int /\ SumFunctionOnSet(g, s \ {x}) \in Int
          BY <3>2, SumIsInt
    <3>5. SumFunctionOnSet(h, s \ {x})
            = SumFunctionOnSet(f, s \ {x}) + SumFunctionOnSet(g, s \ {x})
          BY <1>1
    <3> QED BY <3>1, <3>3, <3>4, <3>5
  <2> QED BY <2>1, <2>2
<1> HIDE DEF F
<1>2. S \in F
      BY <1>1, FiniteSetsAreBuilt
<1> QED BY <1>2 DEF F

\* The sum over a prefix of the naturals, one term longer.
LEMMA SumOfNext ==
    ASSUME NEW n \in Nat, NEW f, \A i \in 1..(n + 1) : f[i] \in Int
    PROVE  SumFunctionOnSet(f, 1..(n + 1)) = SumFunctionOnSet(f, 1..n) + f[n + 1]
<1>1. IsFiniteSet(1..(n + 1)) /\ IsFiniteSet(1..n)
      BY FS_Interval
<1>2. (1..(n + 1)) \ {n + 1} = 1..n /\ n + 1 \in 1..(n + 1)
      OBVIOUS
<1>3. SumFunctionOnSet(f, 1..(n + 1)) = f[n + 1] + SumFunctionOnSet(f, 1..n)
  <2>1. SumFunctionOnSet(f, 1..(n + 1))
          = f[n + 1] + SumFunctionOnSet(f, (1..(n + 1)) \ {n + 1})
        BY <1>1, <1>2, SumWithout
  <2> QED BY <1>2, <2>1
<1>4. SumFunctionOnSet(f, 1..n) \in Int
      BY <1>1, SumIsInt
<1>5. f[n + 1] \in Int
      BY <1>2
<1> QED BY <1>3, <1>4, <1>5

\* Taking from one term what is then given to another, or to the same one,
\* leaves the sum as it was.
LEMMA SumOfTransfer ==
    ASSUME NEW S, IsFiniteSet(S), NEW f \in [S -> Int], NEW from \in S, NEW to \in S, NEW n \in Int
    PROVE  SumFunctionOnSet([[f EXCEPT ![from] = @ - n] EXCEPT ![to] = @ + n], S)
             = SumFunctionOnSet(f, S)
<1> DEFINE g == [f EXCEPT ![from] = @ - n]
           h == [g EXCEPT ![to] = @ + n]
<1>1. g \in [S -> Int] /\ g[from] = f[from] - n /\ \A x \in S \ {from} : g[x] = f[x]
      OBVIOUS
<1>2. h \in [S -> Int] /\ h[to] = g[to] + n /\ \A x \in S \ {to} : h[x] = g[x]
      BY <1>1
<1>3. f[from] \in Int /\ SumFunctionOnSet(f, S) \in Int
      BY SumIsInt
<1>4. g[to] \in Int
      BY <1>1
<1> HIDE DEF g, h
<1>5. SumFunctionOnSet(g, S) = SumFunctionOnSet(f, S) + (g[from] - f[from])
      BY <1>1, SumOfOneChange
<1>6. SumFunctionOnSet(h, S) = SumFunctionOnSet(g, S) + (h[to] - g[to])
      BY <1>1, <1>2, SumOfOneChange
<1>7. SumFunctionOnSet(h, S) = SumFunctionOnSet(f, S)
  <2> DEFINE s == SumFunctionOnSet(f, S)
  <2>1. SumFunctionOnSet(g, S) = s + ((f[from] - n) - f[from])
        BY <1>1, <1>5
  <2>2. SumFunctionOnSet(h, S) = SumFunctionOnSet(g, S) + ((g[to] + n) - g[to])
        BY <1>2, <1>6
  <2> HIDE DEF s
  <2>3. s \in Int
        BY <1>3 DEF s
  <2>4. SumFunctionOnSet(h, S) = s
        BY <1>3, <1>4, <2>1, <2>2, <2>3
  <2> QED BY <2>4 DEF s
<1> QED BY <1>7 DEF g, h

\* The sum over two sets that have nothing in common.
LEMMA SumOfUnion ==
    ASSUME NEW A, NEW B, IsFiniteSet(A), IsFiniteSet(B), A \cap B = {},
           NEW f, \A x \in A \cup B : f[x] \in Int
    PROVE  SumFunctionOnSet(f, A \cup B) = SumFunctionOnSet(f, A) + SumFunctionOnSet(f, B)
<1> DEFINE F == {s \in SUBSET B : SumFunctionOnSet(f, A \cup s)
                                    = SumFunctionOnSet(f, A) + SumFunctionOnSet(f, s)}
<1>1. ASSUME NEW s \in SUBSET B, \A x \in s : s \ {x} \in F
      PROVE  s \in F
  <2>1. CASE s = {}
    <3>1. SumFunctionOnSet(f, A) \in Int
          BY SumIsInt
    <3>2. A \cup s = A /\ SumFunctionOnSet(f, s) = 0
          BY <2>1, SumOfNone
    <3>3. SumFunctionOnSet(f, A \cup s) = SumFunctionOnSet(f, A) + SumFunctionOnSet(f, s)
          BY ONLY <3>1, <3>2
    <3> QED BY <3>3
  <2>2. CASE s # {}
    <3>1. PICK x \in s : TRUE
          BY <2>2
    <3>2. IsFiniteSet(s) /\ IsFiniteSet(A \cup s) /\ IsFiniteSet(s \ {x})
          BY FS_Subset, FS_Union
    <3>3. (A \cup s) \ {x} = A \cup (s \ {x})
          OBVIOUS
    <3>4. SumFunctionOnSet(f, A \cup s) = f[x] + SumFunctionOnSet(f, (A \cup s) \ {x})
          BY <3>2, SumWithout
    <3>5. SumFunctionOnSet(f, s) = f[x] + SumFunctionOnSet(f, s \ {x})
          BY <3>2, SumWithout
    <3>6. SumFunctionOnSet(f, A \cup (s \ {x})) = SumFunctionOnSet(f, A) + SumFunctionOnSet(f, s \ {x})
          BY <1>1
    <3>7. SumFunctionOnSet(f, A) \in Int /\ SumFunctionOnSet(f, s \ {x}) \in Int /\ f[x] \in Int
      <4>1. \A y \in s \ {x} : f[y] \in Int
            OBVIOUS
      <4> QED BY <3>2, <4>1, SumIsInt
    <3>8. SumFunctionOnSet(f, (A \cup s) \ {x}) = SumFunctionOnSet(f, A) + SumFunctionOnSet(f, s \ {x})
          BY ONLY <3>3, <3>6
    <3>9. SumFunctionOnSet(f, A \cup s) = SumFunctionOnSet(f, A) + SumFunctionOnSet(f, s)
          BY ONLY <3>4, <3>5, <3>7, <3>8
    <3> QED BY <3>9
  <2> QED BY <2>1, <2>2
<1> HIDE DEF F
<1>2. B \in F
      BY <1>1, FiniteSetsAreBuilt
<1> QED BY <1>2 DEF F

\* A factor common to every term.
LEMMA SumOfMultiples ==
    ASSUME NEW S, IsFiniteSet(S), NEW f, NEW h, NEW c \in Int,
           \A x \in S : f[x] \in Int /\ h[x] = f[x] * c
    PROVE  SumFunctionOnSet(h, S) = SumFunctionOnSet(f, S) * c
<1> DEFINE F == {s \in SUBSET S : SumFunctionOnSet(h, s) = SumFunctionOnSet(f, s) * c}
<1>1. ASSUME NEW s \in SUBSET S, \A x \in s : s \ {x} \in F
      PROVE  s \in F
  <2>1. CASE s = {}
        BY <2>1, SumOfNone
  <2>2. CASE s # {}
    <3>1. PICK x \in s : TRUE
          BY <2>2
    <3>2. IsFiniteSet(s) /\ IsFiniteSet(s \ {x})
          BY FS_Subset
    <3>3. \A y \in s : f[y] \in Int /\ h[y] \in Int
          OBVIOUS
    <3>4. SumFunctionOnSet(h, s) = h[x] + SumFunctionOnSet(h, s \ {x})
          BY <3>2, <3>3, SumWithout
    <3>5. SumFunctionOnSet(f, s) = f[x] + SumFunctionOnSet(f, s \ {x})
          BY <3>2, <3>3, SumWithout
    <3>6. SumFunctionOnSet(h, s \ {x}) = SumFunctionOnSet(f, s \ {x}) * c
          BY <1>1
    <3>7. SumFunctionOnSet(f, s \ {x}) \in Int
      <4>1. \A y \in s \ {x} : f[y] \in Int
            BY <3>3
      <4> QED BY <3>2, <4>1, SumIsInt
    <3>8. h[x] = f[x] * c /\ f[x] \in Int
          OBVIOUS
    <3>9. \A a, b \in Int : a * c + b * c = (a + b) * c
          OBVIOUS
    <3>10. SumFunctionOnSet(h, s) = f[x] * c + SumFunctionOnSet(f, s \ {x}) * c
          BY <3>4, <3>6, <3>8
    <3>11. SumFunctionOnSet(h, s) = (f[x] + SumFunctionOnSet(f, s \ {x})) * c
          BY ONLY <3>7, <3>8, <3>9, <3>10
    <3> QED BY <3>5, <3>11
  <2> QED BY <2>1, <2>2
<1> HIDE DEF F
<1>2. S \in F
      BY <1>1, FiniteSetsAreBuilt
<1> QED BY <1>2 DEF F

\* Terms of at most b sum to at most b for each element.
LEMMA SumIsBounded ==
    ASSUME NEW S, IsFiniteSet(S), NEW f, NEW b \in Int,
           \A x \in S : f[x] \in Int /\ f[x] <= b
    PROVE  SumFunctionOnSet(f, S) <= Cardinality(S) * b
<1> DEFINE F == {s \in SUBSET S : SumFunctionOnSet(f, s) <= Cardinality(s) * b}
<1>1. ASSUME NEW s \in SUBSET S, \A x \in s : s \ {x} \in F
      PROVE  s \in F
  <2>1. CASE s = {}
        BY <2>1, SumOfNone, FS_EmptySet
  <2>2. CASE s # {}
    <3>1. PICK x \in s : TRUE
          BY <2>2
    <3>2. IsFiniteSet(s) /\ IsFiniteSet(s \ {x})
          BY FS_Subset
    <3>3. \A y \in s : f[y] \in Int
          OBVIOUS
    <3>4. SumFunctionOnSet(f, s) = f[x] + SumFunctionOnSet(f, s \ {x})
          BY <3>2, <3>3, SumWithout
    <3>5. SumFunctionOnSet(f, s \ {x}) <= Cardinality(s \ {x}) * b
          BY <1>1
    <3>6. Cardinality(s \ {x}) = Cardinality(s) - 1 /\ Cardinality(s) \in Nat
          BY <3>2, FS_RemoveElement, FS_CardinalityType
    <3>7. SumFunctionOnSet(f, s \ {x}) \in Int
      <4>1. \A y \in s \ {x} : f[y] \in Int
            BY <3>3
      <4> QED BY <3>2, <4>1, SumIsInt
    <3>8. f[x] <= b /\ f[x] \in Int
          OBVIOUS
    <3>9. \A n \in Int : (n - 1) * b = n * b - b /\ n * b \in Int
          OBVIOUS
    <3>10. SumFunctionOnSet(f, s) <= Cardinality(s) * b
          BY ONLY <3>4, <3>5, <3>6, <3>7, <3>8, <3>9, b \in Int
    <3> QED BY <3>10
  <2> QED BY <2>1, <2>2
<1> HIDE DEF F
<1>2. S \in F
      BY <1>1, FiniteSetsAreBuilt
<1> QED BY <1>2 DEF F

\* Counting the elements of a part.
LEMMA SumCounts ==
    ASSUME NEW S, IsFiniteSet(S), NEW T \in SUBSET S, NEW f,
           \A x \in S : f[x] = IF x \in T THEN 1 ELSE 0
    PROVE  SumFunctionOnSet(f, S) = Cardinality(T)
<1> DEFINE F == {s \in SUBSET S : SumFunctionOnSet(f, s) = Cardinality(s \cap T)}
<1>1. ASSUME NEW s \in SUBSET S, \A x \in s : s \ {x} \in F
      PROVE  s \in F
  <2>1. CASE s = {}
        BY <2>1, SumOfNone, FS_EmptySet
  <2>2. CASE s # {}
    <3>1. PICK x \in s : TRUE
          BY <2>2
    <3>2. IsFiniteSet(s) /\ IsFiniteSet(s \cap T)
          BY FS_Subset
    <3>3. \A y \in s : f[y] \in Int
          OBVIOUS
    <3>4. SumFunctionOnSet(f, s) = f[x] + SumFunctionOnSet(f, s \ {x})
          BY <3>2, <3>3, SumWithout
    <3>5. SumFunctionOnSet(f, s \ {x}) = Cardinality((s \ {x}) \cap T)
          BY <1>1
    <3>6. (s \ {x}) \cap T = (s \cap T) \ {x}
          OBVIOUS
    <3>7. Cardinality((s \cap T) \ {x}) = IF x \in T THEN Cardinality(s \cap T) - 1 ELSE Cardinality(s \cap T)
          BY <3>2, FS_RemoveElement
    <3>8. Cardinality(s \cap T) \in Nat
          BY <3>2, FS_CardinalityType
    <3>9. f[x] = IF x \in T THEN 1 ELSE 0
          OBVIOUS
    <3>10. SumFunctionOnSet(f, s \ {x}) = Cardinality((s \cap T) \ {x})
          BY ONLY <3>5, <3>6
    <3>11. SumFunctionOnSet(f, s) = Cardinality(s \cap T)
      <4>1. CASE x \in T
            BY ONLY <3>4, <3>7, <3>8, <3>9, <3>10, <4>1
      <4>2. CASE x \notin T
            BY ONLY <3>4, <3>7, <3>8, <3>9, <3>10, <4>2
      <4> QED BY <4>1, <4>2
    <3> QED BY <3>11
  <2> QED BY <2>1, <2>2
<1> HIDE DEF F
<1>2. S \in F
      BY <1>1, FiniteSetsAreBuilt
<1>3. S \cap T = T
      OBVIOUS
<1> QED BY <1>2, <1>3 DEF F

\* The order in which a sum is taken does not matter: terms reached through a
\* one-to-one map sum to the same.
LEMMA SumOfImage ==
    ASSUME NEW A, IsFiniteSet(A), NEW B, NEW g \in Bijection(A, B),
           NEW f, \A y \in B : f[y] \in Int,
           NEW h, \A x \in A : h[x] = f[g[x]]
    PROVE  SumFunctionOnSet(h, A) = SumFunctionOnSet(f, B)
<1> DEFINE Img(s) == {g[x] : x \in s}
           F == {s \in SUBSET A : SumFunctionOnSet(h, s) = SumFunctionOnSet(f, Img(s))}
<1>0. /\ \A x \in A : g[x] \in B
      /\ \A x, y \in A : g[x] = g[y] => x = y
      /\ \A y \in B : \E x \in A : g[x] = y
      BY DEF Bijection, Injection, Surjection, IsInjective
<1>1. IsFiniteSet(B)
  <2>1. ExistsBijection(A, B)
        BY DEF ExistsBijection
  <2> QED BY <2>1, FS_Bijection
<1>2. ASSUME NEW s \in SUBSET A, \A x \in s : s \ {x} \in F
      PROVE  s \in F
  <2>1. CASE s = {}
        BY <2>1, SumOfNone
  <2>2. CASE s # {}
    <3>1. PICK x \in s : TRUE
          BY <2>2
    <3>2. Img(s) \in SUBSET B /\ g[x] \in Img(s)
          BY <1>0
    <3>3. IsFiniteSet(s) /\ IsFiniteSet(Img(s))
          BY <1>1, <3>2, FS_Subset
    <3>4. Img(s \ {x}) = Img(s) \ {g[x]}
          BY <1>0
    <3>5. \A y \in s : h[y] \in Int
          BY <1>0
    <3>6. \A y \in Img(s) : f[y] \in Int
          BY <3>2
    <3>7. SumFunctionOnSet(h, s) = h[x] + SumFunctionOnSet(h, s \ {x})
          BY <3>3, <3>5, SumWithout
    <3> HIDE DEF Img
    <3>8. SumFunctionOnSet(f, Img(s)) = f[g[x]] + SumFunctionOnSet(f, Img(s) \ {g[x]})
          BY <3>2, <3>3, <3>6, SumWithout
    <3>9. SumFunctionOnSet(h, s \ {x}) = SumFunctionOnSet(f, Img(s \ {x}))
          BY <1>2
    <3> QED BY <3>4, <3>7, <3>8, <3>9
  <2> QED BY <2>1, <2>2
<1>3. Img(A) = B
      BY <1>0
<1> HIDE DEF F, Img
<1>4. A \in F
      BY <1>2, FiniteSetsAreBuilt
<1> QED BY <1>3, <1>4 DEF F

\* Larger terms, larger sum.
LEMMA SumsAreOrdered ==
    ASSUME NEW S, IsFiniteSet(S), NEW f, NEW g,
           \A x \in S : f[x] \in Int /\ g[x] \in Int /\ f[x] <= g[x]
    PROVE  SumFunctionOnSet(f, S) <= SumFunctionOnSet(g, S)
<1> DEFINE d == [x \in S |-> g[x] - f[x]]
<1>1. \A x \in S : d[x] \in Nat /\ d[x] \in Int /\ g[x] = f[x] + d[x]
      OBVIOUS
<1> HIDE DEF d
<1>2. SumFunctionOnSet(d, S) \in Nat
      BY <1>1, SumOfNaturals
<1>3. SumFunctionOnSet(g, S) = SumFunctionOnSet(f, S) + SumFunctionOnSet(d, S)
      BY <1>1, SumOfSums
<1>4. SumFunctionOnSet(f, S) \in Int
      BY SumIsInt
<1> QED BY <1>2, <1>3, <1>4

\* Terms that are zero do not count.
LEMMA SumOfSupport ==
    ASSUME NEW S, IsFiniteSet(S), NEW T \in SUBSET S, NEW f, \A x \in S : f[x] \in Int,
           \A x \in S \ T : f[x] = 0
    PROVE  SumFunctionOnSet(f, S) = SumFunctionOnSet(f, T)
<1>1. IsFiniteSet(T) /\ IsFiniteSet(S \ T) /\ T \cap (S \ T) = {} /\ T \cup (S \ T) = S
      BY FS_Subset
<1>2. SumFunctionOnSet(f, S) = SumFunctionOnSet(f, T) + SumFunctionOnSet(f, S \ T)
  <2>1. \A x \in T \cup (S \ T) : f[x] \in Int
        BY <1>1
  <2>2. SumFunctionOnSet(f, T \cup (S \ T)) = SumFunctionOnSet(f, T) + SumFunctionOnSet(f, S \ T)
        BY <1>1, <2>1, SumOfUnion
  <2> QED BY <1>1, <2>2
<1>3. SumFunctionOnSet(f, S \ T) = 0
      BY <1>1, SumOfZeros
<1>4. SumFunctionOnSet(f, T) \in Int
      BY <1>1, SumIsInt
<1> QED BY <1>2, <1>3, <1>4

\* Terms matched one to one with larger ones.
LEMMA SumThroughInjection ==
    ASSUME NEW S, NEW D, IsFiniteSet(D), NEW src \in Injection(S, D),
           NEW f, NEW g, \A y \in D : g[y] \in Nat,
           \A x \in S : f[x] \in Int /\ f[x] <= g[src[x]]
    PROVE  SumFunctionOnSet(f, S) <= SumFunctionOnSet(g, D)
<1> DEFINE I == {src[x] : x \in S}
           h == [x \in S |-> g[src[x]]]
<1>1. src \in [S -> D] /\ \A x, y \in S : src[x] = src[y] => x = y
      BY DEF Injection, IsInjective
<1>2. IsFiniteSet(S)
      BY FS_Injection
<1>3. I \in SUBSET D /\ src \in Bijection(S, I)
      BY <1>1 DEF Bijection, Injection, Surjection, IsInjective
<1>4. \A x \in S : h[x] = g[src[x]] /\ h[x] \in Int /\ f[x] <= h[x] /\ f[x] \in Int
      BY <1>1
<1> HIDE DEF I, h
<1>5. SumFunctionOnSet(f, S) <= SumFunctionOnSet(h, S)
      BY <1>2, <1>4, SumsAreOrdered
<1>6. SumFunctionOnSet(h, S) = SumFunctionOnSet(g, I)
  <2>1. \A y \in I : g[y] \in Int
        BY <1>3
  <2> QED BY <1>2, <1>3, <1>4, <2>1, SumOfImage
<1>7. SumFunctionOnSet(g, I) <= SumFunctionOnSet(g, D)
      BY <1>3, SumOfPart
<1>8. SumFunctionOnSet(f, S) \in Int /\ SumFunctionOnSet(g, I) \in Int /\ SumFunctionOnSet(g, D) \in Int
  <2>1. IsFiniteSet(I) /\ \A y \in I : g[y] \in Int
        BY <1>3, FS_Subset
  <2>2. \A y \in D : g[y] \in Int
        OBVIOUS
  <2>3. \A x \in S : f[x] \in Int
        OBVIOUS
  <2> QED BY <1>2, <2>1, <2>2, <2>3, SumIsInt
<1> QED BY <1>5, <1>6, <1>7, <1>8
===============================================================================
