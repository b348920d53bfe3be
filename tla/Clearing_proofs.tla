-------------------------- MODULE Clearing_proofs --------------------------
(***************************************************************************)
(* What clearing does to any book: how the places of an order, the largest *)
(* remainders, the rationing of a level, the scan for the best price and   *)
(* the two roundings of the quote work, and that each fill of a result     *)
(* comes from an order of its own.                                         *)
(*                                                                         *)
(* The argument: the places of a finite set in a strict order are 0, 1,    *)
(* ..., each taken once; so the largest remainders split an amount         *)
(* exactly; so a level is given what better levels left, and the levels    *)
(* of a side together the volume.  The scan over the candidate prices      *)
(* holds the best of those it has seen, and no price between or beyond     *)
(* the candidates trades more.                                             *)
(***************************************************************************)
EXTENDS Auction, Sums

-----------------------------------------------------------------------------
(* Strict orders                                                           *)

\* before ranks the elements of S.
IsStrictOrder(S, before) ==
    /\ \A i \in S : <<i, i>> \notin before
    /\ \A i, j, k \in S : <<i, j>> \in before /\ <<j, k>> \in before => <<i, k>> \in before
    /\ \A i, j \in S : i # j => <<i, j>> \in before \/ <<j, i>> \in before

\* Where each of them comes.
Places(S, before) == [i \in S |-> Place(S, before, i)]

\* The places of a finite set in a strict order are 0, 1, ..., each taken once.
LEMMA PlacesAreTakenOnce ==
    ASSUME NEW S, IsFiniteSet(S), NEW before, IsStrictOrder(S, before)
    PROVE  /\ Cardinality(S) \in Nat
           /\ Places(S, before) \in Bijection(S, 0..(Cardinality(S) - 1))
           /\ \A i, j \in S : <<i, j>> \in before <=> Place(S, before, i) < Place(S, before, j)
<1> DEFINE Ahead(i) == {j \in S : <<j, i>> \in before}
           n == Cardinality(S)
<1>1. /\ n \in Nat
      /\ \A s \in SUBSET S : IsFiniteSet(s) /\ Cardinality(s) \in Nat /\ Cardinality(s) <= n
      BY FS_CardinalityType, FS_Subset
<1>2. \A i \in S : Place(S, before, i) = Cardinality(Ahead(i)) /\ Place(S, before, i) \in 0..(n - 1)
  <2> TAKE i \in S
  <2>1. Ahead(i) \in SUBSET (S \ {i}) /\ Ahead(i) \in SUBSET S
        BY DEF IsStrictOrder
  <2>2. IsFiniteSet(S \ {i}) /\ Cardinality(S \ {i}) = n - 1
        BY FS_RemoveElement
  <2> HIDE DEF Ahead
  <2>3. Cardinality(Ahead(i)) <= n - 1
        BY <2>1, <2>2, FS_Subset
  <2>4. Cardinality(Ahead(i)) \in Nat
        BY <1>1, <2>1
  <2>5. Place(S, before, i) = Cardinality(Ahead(i))
        BY DEF Place, Ahead
  <2> QED BY <1>1, <2>3, <2>4, <2>5
<1>3. ASSUME NEW i \in S, NEW j \in S, <<i, j>> \in before
      PROVE  Place(S, before, i) < Place(S, before, j)
  <2>1. Ahead(i) \in SUBSET Ahead(j) /\ i \in Ahead(j) /\ i \notin Ahead(i)
        BY <1>3 DEF IsStrictOrder
  <2>2. Ahead(j) \in SUBSET S
        OBVIOUS
  <2> HIDE DEF Ahead
  <2>3. IsFiniteSet(Ahead(j))
        BY <1>1, <2>2
  <2>4. Cardinality(Ahead(i)) <= Cardinality(Ahead(j)) /\ Cardinality(Ahead(i)) # Cardinality(Ahead(j))
        BY <2>1, <2>3, FS_Subset
  <2> QED BY <1>1, <1>2, <2>4
<1>a. \A i \in S : Place(S, before, i) \in Int
  <2>1. \A i \in S : Place(S, before, i) \in 0..(n - 1)
        BY <1>2
  <2> QED BY ONLY <1>1, <2>1
<1>4. \A i, j \in S : <<i, j>> \in before <=> Place(S, before, i) < Place(S, before, j)
  <2> TAKE i, j \in S
  <2>1. CASE i = j
        BY <1>a, <2>1 DEF IsStrictOrder
  <2>2. CASE <<i, j>> \in before
        BY <1>3, <2>2
  <2>3. CASE i # j /\ <<i, j>> \notin before
    <3>1. <<j, i>> \in before
          BY <2>3 DEF IsStrictOrder
    <3>2. Place(S, before, j) < Place(S, before, i)
          BY <1>3, <3>1
    <3> QED BY <1>a, <2>3, <3>2
  <2> QED BY <2>1, <2>2, <2>3
<1>5. Places(S, before) \in Injection(S, 0..(n - 1))
  <2>1. Places(S, before) \in [S -> 0..(n - 1)]
        BY <1>2 DEF Places
  <2>2. \A i, j \in S : i # j => Place(S, before, i) # Place(S, before, j)
    <3> TAKE i, j \in S
    <3> HAVE i # j
    <3>1. <<i, j>> \in before \/ <<j, i>> \in before
          BY DEF IsStrictOrder
    <3>2. \/ Place(S, before, i) < Place(S, before, j)
          \/ Place(S, before, j) < Place(S, before, i)
          BY <1>3, <3>1
    <3> QED BY <1>a, <3>2
  <2> QED BY <2>1, <2>2 DEF Injection, IsInjective, Places
<1>6. IsFiniteSet(0..(n - 1)) /\ Cardinality(0..(n - 1)) = n
  <2> HIDE DEF n
  <2>1. n \in Nat /\ n - 1 \in Int
        BY <1>1
  <2>2. IsFiniteSet(0..(n - 1)) /\ Cardinality(0..(n - 1)) = IF 0 > n - 1 THEN 0 ELSE (n - 1) - 0 + 1
        BY <2>1, FS_Interval
  <2> QED BY <2>1, <2>2
<1>7. Places(S, before) \in Surjection(S, 0..(n - 1))
      BY <1>5, <1>6, FS_Injection
<1> QED BY <1>1, <1>4, <1>5, <1>7 DEF Bijection

\* So as many elements come before place m as m says.
LEMMA PlacesBelow ==
    ASSUME NEW S, IsFiniteSet(S), NEW before, IsStrictOrder(S, before),
           NEW m \in 0..Cardinality(S)
    PROVE  Cardinality({i \in S : Place(S, before, i) < m}) = m
<1> DEFINE T == {i \in S : Place(S, before, i) < m}
           f == [i \in T |-> Place(S, before, i)]
<1>1. /\ Cardinality(S) \in Nat /\ m \in Nat /\ m <= Cardinality(S)
      /\ Places(S, before) \in Bijection(S, 0..(Cardinality(S) - 1))
      BY PlacesAreTakenOnce
<1>2. /\ \A i \in S : Place(S, before, i) \in 0..(Cardinality(S) - 1)
      /\ \A i, j \in S : Place(S, before, i) = Place(S, before, j) => i = j
      /\ \A p \in 0..(Cardinality(S) - 1) : \E i \in S : Place(S, before, i) = p
      BY <1>1 DEF Bijection, Injection, Surjection, IsInjective, Places
<1>3. f \in Bijection(T, 0..(m - 1))
  <2>1. f \in [T -> 0..(m - 1)]
        BY <1>1, <1>2
  <2>2. \A p \in 0..(m - 1) : \E i \in T : f[i] = p
    <3> TAKE p \in 0..(m - 1)
    <3>1. p \in 0..(Cardinality(S) - 1) /\ p < m
          BY <1>1
    <3> QED BY <1>2, <3>1
  <2>3. \A i, j \in T : f[i] = f[j] => i = j
        BY <1>2
  <2> QED BY <2>1, <2>2, <2>3 DEF Bijection, Injection, Surjection, IsInjective
<1> HIDE DEF f
<1>4. IsFiniteSet(T)
      BY FS_Subset
<1> HIDE DEF T
<1>5. Cardinality(0..(m - 1)) = Cardinality(T)
      BY <1>3, <1>4, FS_Bijection DEF ExistsBijection
<1>6. Cardinality(0..(m - 1)) = m
      BY <1>1, FS_Interval
<1> QED BY <1>5, <1>6 DEF T

\* A set in order is a sequence of its elements, each once and in order.
LEMMA InOrderIsSorted ==
    ASSUME NEW S, IsFiniteSet(S), NEW before, IsStrictOrder(S, before)
    PROVE  LET q == InOrder(S, before)
           IN  /\ Len(q) = Cardinality(S) /\ DOMAIN q = 1..Len(q)
               /\ q \in Bijection(1..Len(q), S)
               /\ \A k, m \in 1..Len(q) : k < m => <<q[k], q[m]>> \in before
<1> DEFINE q == InOrder(S, before)
           n == Cardinality(S)
<1>1. /\ n \in Nat
      /\ Places(S, before) \in Bijection(S, 0..(n - 1))
      /\ \A i, j \in S : <<i, j>> \in before <=> Place(S, before, i) < Place(S, before, j)
      BY PlacesAreTakenOnce
<1>2. /\ \A i \in S : Place(S, before, i) \in 0..(n - 1)
      /\ \A i, j \in S : Place(S, before, i) = Place(S, before, j) => i = j
      /\ \A p \in 0..(n - 1) : \E i \in S : Place(S, before, i) = p
      BY <1>1 DEF Bijection, Injection, Surjection, IsInjective, Places
<1>3. \A k \in 1..n : q[k] \in S /\ Place(S, before, q[k]) = k - 1
  <2> TAKE k \in 1..n
  <2>1. k - 1 \in 0..(n - 1)
        BY <1>1
  <2>2. q[k] = CHOOSE i \in S : Place(S, before, i) = k - 1
        BY DEF InOrder
  <2> QED BY <1>2, <2>1, <2>2
<1>4. DOMAIN q = 1..n /\ q = [k \in 1..n |-> q[k]]
      BY DEF InOrder
<1>5. Len(q) = n
      BY <1>1, <1>4 
<1> HIDE DEF q
<1>6. q \in Bijection(1..n, S)
  <2>1. q \in [1..n -> S]
        BY <1>3, <1>4
  <2>2. \A k, m \in 1..n : q[k] = q[m] => k = m
    <3> TAKE k, m \in 1..n
    <3> HAVE q[k] = q[m]
    <3>1. k - 1 = m - 1
          BY <1>3
    <3> QED BY <1>1, <3>1
  <2>3. \A i \in S : \E k \in 1..n : q[k] = i
    <3> TAKE i \in S
    <3> DEFINE k == Place(S, before, i) + 1
    <3>1. k \in 1..n /\ k - 1 = Place(S, before, i)
          BY <1>1, <1>2
    <3>2. q[k] \in S /\ Place(S, before, q[k]) = Place(S, before, i)
          BY <1>3, <3>1
    <3> QED BY <1>2, <3>1, <3>2
  <2> QED BY <1>4, <2>1, <2>2, <2>3 DEF Bijection, Injection, Surjection, IsInjective
<1>7. \A k, m \in 1..n : k < m => <<q[k], q[m]>> \in before
  <2> TAKE k, m \in 1..n
  <2> HAVE k < m
  <2>1. Place(S, before, q[k]) < Place(S, before, q[m])
        BY <1>1, <1>3
  <2> QED BY <1>1, <1>3, <2>1
<1> QED BY <1>4, <1>5, <1>6, <1>7 DEF q

\* Division, with the facts about it that the provers have built in.
LEMMA DivisionLeavesRemainder ==
    ASSUME NEW a \in Nat, NEW b \in Nat, b > 0
    PROVE  a \div b \in Nat /\ a % b \in 0..(b - 1) /\ a = b * (a \div b) + (a % b)
OBVIOUS

\* What one weight's share is made of.
LEMMA FloorAndRemainder ==
    ASSUME NEW D, IsFiniteSet(D), NEW w \in [D -> Nat], Total(w) > 0, NEW amount \in Nat
    PROVE  /\ Total(w) \in Nat
           /\ \A i \in D : /\ Floor(w, amount, i) \in Nat
                           /\ Remainder(w, amount, i) \in 0..(Total(w) - 1)
                           /\ w[i] * amount = Total(w) * Floor(w, amount, i) + Remainder(w, amount, i)
<1>1. Total(w) \in Nat
      BY SumOfNaturals DEF Total
<1>2. \A i \in D : w[i] \in Nat /\ w[i] * amount \in Nat
      OBVIOUS
<1> QED BY <1>1, <1>2, DivisionLeavesRemainder DEF Floor, Remainder

\* Ranking by remainder, then index, is a strict order.
LEMMA RemaindersAreOrdered ==
    ASSUME NEW D \in SUBSET Int, IsFiniteSet(D), NEW w \in [D -> Nat], Total(w) > 0, NEW amount \in Nat
    PROVE  /\ IsStrictOrder(D, ByRemainder(w, amount))
           /\ \A i, j \in D : Remainder(w, amount, i) > Remainder(w, amount, j)
                                => <<i, j>> \in ByRemainder(w, amount)
<1> DEFINE r(i) == Remainder(w, amount, i)
<1>1. \A i \in D : r(i) \in Int /\ i \in Int
  <2>1. Total(w) \in Nat /\ \A i \in D : Remainder(w, amount, i) \in 0..(Total(w) - 1)
        BY FloorAndRemainder
  <2> QED BY <2>1
<1>2. \A i, j \in D : <<i, j>> \in ByRemainder(w, amount) <=> r(i) > r(j) \/ (r(i) = r(j) /\ i < j)
      BY DEF ByRemainder
<1> HIDE DEF r
<1>3. IsStrictOrder(D, ByRemainder(w, amount))
      BY <1>1, <1>2 DEF IsStrictOrder
<1> QED BY <1>1, <1>2, <1>3 DEF r

\* The weights whose floor leaves something over.
WithRest(w, amount) == {i \in DOMAIN w : Remainder(w, amount, i) > 0}

\* The units lost to flooring are no more than the weights with a remainder.
LEMMA ShortfallIsCovered ==
    ASSUME NEW D, IsFiniteSet(D), NEW w \in [D -> Nat], Total(w) > 0, NEW amount \in Nat
    PROVE  /\ Shortfall(w, amount) \in Nat
           /\ amount = SumFunctionOnSet(Floors(w, amount), D) + Shortfall(w, amount)
           /\ Shortfall(w, amount) <= Cardinality(WithRest(w, amount))
<1> DEFINE W == Total(w)
           short == Shortfall(w, amount)
           floors == Floors(w, amount)
           whole == [i \in D |-> Floor(w, amount, i) * W]
           rests == [i \in D |-> Remainder(w, amount, i)]
           all == [i \in D |-> w[i] * amount]
           P == WithRest(w, amount)
<1>1. /\ W \in Nat /\ W > 0
      /\ \A i \in D : /\ Floor(w, amount, i) \in Nat
                      /\ Remainder(w, amount, i) \in 0..(W - 1)
                      /\ w[i] * amount = W * Floor(w, amount, i) + Remainder(w, amount, i)
      BY FloorAndRemainder
<1>0. /\ floors = [i \in D |-> Floor(w, amount, i)]
      /\ P = {i \in D : Remainder(w, amount, i) > 0}
      BY DEF Floors, WithRest
<1>2. short = amount - SumFunctionOnSet(floors, D)
      BY <1>0 DEF Shortfall, Total
<1>3. SumFunctionOnSet(floors, D) \in Nat
  <2>1. \A i \in D : floors[i] \in Nat
        BY <1>0, <1>1
  <2> HIDE DEF floors
  <2> QED BY <2>1, SumOfNaturals
<1>4. SumFunctionOnSet(all, D) = W * amount
  <2>1. \A i \in D : w[i] \in Int /\ all[i] = w[i] * amount
        OBVIOUS
  <2> HIDE DEF all
  <2>2. SumFunctionOnSet(all, D) = SumFunctionOnSet(w, D) * amount
        BY <2>1, SumOfMultiples
  <2> QED BY <2>2 DEF Total
<1>5. SumFunctionOnSet(whole, D) = SumFunctionOnSet(floors, D) * W
  <2>1. \A i \in D : floors[i] \in Int /\ whole[i] = floors[i] * W
        BY <1>0, <1>1
  <2> HIDE DEF floors, whole
  <2> QED BY <1>1, <2>1, SumOfMultiples
<1>6. SumFunctionOnSet(all, D) = SumFunctionOnSet(whole, D) + SumFunctionOnSet(rests, D)
  <2>1. \A i \in D : Floor(w, amount, i) * W = W * Floor(w, amount, i) /\ Floor(w, amount, i) * W \in Int
        BY <1>1
  <2>2. \A i \in D : whole[i] \in Int /\ rests[i] \in Int /\ all[i] = whole[i] + rests[i]
        BY <1>1, <2>1
  <2> HIDE DEF all, whole, rests
  <2> QED BY <2>2, SumOfSums
<1>7. IsFiniteSet(P) /\ P \in SUBSET D /\ Cardinality(P) \in Nat
      BY <1>0, FS_Subset, FS_CardinalityType
<1>8. SumFunctionOnSet(rests, D) = SumFunctionOnSet(rests, P) + 0
  <2>1. \A i \in D : rests[i] \in Int /\ (i \notin P => rests[i] = 0)
        BY <1>0, <1>1
  <2>2. D = P \cup (D \ P) /\ P \cap (D \ P) = {} 
        BY <1>7
  <2> HIDE DEF P, rests
  <2>3. IsFiniteSet(D \ P)
        BY FS_Subset
  <2>4. SumFunctionOnSet(rests, D \ P) = 0
        BY <2>1, <2>3, SumOfZeros
  <2>5. SumFunctionOnSet(rests, P \cup (D \ P)) = SumFunctionOnSet(rests, P) + SumFunctionOnSet(rests, D \ P)
        BY <1>7, <2>1, <2>2, <2>3, SumOfUnion
  <2> QED BY <2>2, <2>4, <2>5
<1>9. SumFunctionOnSet(rests, P) <= Cardinality(P) * (W - 1) /\ SumFunctionOnSet(rests, P) \in Nat
  <2>1. \A i \in P : rests[i] \in Nat /\ rests[i] <= W - 1
        BY <1>0, <1>1
  <2>2. W - 1 \in Int
        BY <1>1
  <2> HIDE DEF P, rests, W
  <2>3. SumFunctionOnSet(rests, P) \in Nat
        BY <1>7, <2>1, SumOfNaturals
  <2>4. \A i \in P : rests[i] \in Int /\ rests[i] <= W - 1
        BY <2>1
  <2>5. SumFunctionOnSet(rests, P) <= Cardinality(P) * (W - 1)
        BY <1>7, <2>2, <2>4, SumIsBounded
  <2> QED BY <2>3, <2>5
<1> HIDE DEF W, floors, whole, rests, all, P
<1>10. PICK F, R, n : /\ F = SumFunctionOnSet(floors, D) /\ F \in Nat
                      /\ R = SumFunctionOnSet(rests, P) /\ R \in Nat
                      /\ n = Cardinality(P) /\ n \in Nat
       BY <1>3, <1>7, <1>9
<1>11. W * amount = F * W + R /\ R <= n * (W - 1)
       BY <1>4, <1>5, <1>6, <1>8, <1>9, <1>10
<1>12. amount - F \in Nat /\ amount - F <= n
  <2>1. (amount - F) * W = R
        BY ONLY <1>1, <1>10, <1>11, amount \in Nat
  <2>2. PICK s \in Int : s = amount - F
        BY <1>10
  <2>3. s * W = R /\ R >= 0
        BY <1>10, <2>1, <2>2
  <2>4. s >= 0
        BY ONLY <2>3, <1>1, s \in Int
  <2>5. n * (W - 1) <= n * W
        BY ONLY <1>1, <1>10
  <2>6. s * W <= n * W
        BY ONLY <1>1, <1>10, <1>11, <2>3, <2>5
  <2>7. s <= n
        BY ONLY <1>1, <1>10, <2>6, s \in Int
  <2> QED BY <2>2, <2>4, <2>7
<1>13. short \in Nat /\ amount = SumFunctionOnSet(floors, D) + short /\ short <= Cardinality(P)
       BY <1>2, <1>10, <1>12
<1> QED BY <1>13 DEF floors, P

\* The split hands out exactly the amount, and gives each weight less than one
\* unit more or less than its share.
LEMMA SplitIsExact ==
    ASSUME NEW D \in SUBSET Int, IsFiniteSet(D), NEW w \in [D -> Nat], Total(w) > 0, NEW amount \in Nat
    PROVE  LET split == LargestRemainder(w, amount)
           IN  /\ split \in [D -> Nat]
               /\ SumFunctionOnSet(split, D) = amount
               /\ \A i \in D : /\ split[i] - Floor(w, amount, i) \in {0, 1}
                               /\ split[i] * Total(w) < w[i] * amount + Total(w)
                               /\ w[i] * amount < split[i] * Total(w) + Total(w)
<1> DEFINE W == Total(w)
           short == Shortfall(w, amount)
           floors == Floors(w, amount)
           before == ByRemainder(w, amount)
           split == LargestRemainder(w, amount)
           P == WithRest(w, amount)
           T == {i \in D : Place(D, before, i) < short}
           extra == [i \in D |-> IF i \in T THEN 1 ELSE 0]
<1>1. /\ W \in Nat /\ W > 0
      /\ \A i \in D : /\ Floor(w, amount, i) \in Nat
                      /\ Remainder(w, amount, i) \in 0..(W - 1)
                      /\ w[i] * amount = W * Floor(w, amount, i) + Remainder(w, amount, i)
      BY FloorAndRemainder
<1>0. /\ floors = [i \in D |-> Floor(w, amount, i)]
      /\ P = {i \in D : Remainder(w, amount, i) > 0}
      BY DEF Floors, WithRest
<1>2. /\ short \in Nat /\ short <= Cardinality(P)
      /\ amount = SumFunctionOnSet(floors, D) + short
      BY ShortfallIsCovered
<1>3. IsStrictOrder(D, before)
      BY RemaindersAreOrdered
<1>4. split = [i \in D |-> floors[i] + extra[i]]
      BY <1>0 DEF LargestRemainder
<1>5. IsFiniteSet(P) /\ P \in SUBSET D /\ Cardinality(P) \in Nat /\ Cardinality(P) <= Cardinality(D)
      BY <1>0, FS_Subset, FS_CardinalityType
<1>6. Cardinality(T) = short
  <2>1. short \in 0..Cardinality(D)
    <3>1. Cardinality(D) \in Nat
          BY FS_CardinalityType
    <3> HIDE DEF P
    <3> QED BY <1>2, <1>5, <3>1
  <2> HIDE DEF short, before
  <2> QED BY <1>3, <2>1, PlacesBelow
<1>7. \A i \in T : i \in P
  <2> SUFFICES ASSUME NEW i \in D, i \notin P PROVE ~(Place(D, before, i) < short)
      OBVIOUS
  <2> DEFINE A == {j \in D : <<j, i>> \in before}
  <2>1. \A j \in P : j \in A
    <3> TAKE j \in P
    <3>1. Remainder(w, amount, j) > Remainder(w, amount, i)
          BY <1>0, <1>1
    <3> QED BY <1>5, <3>1, RemaindersAreOrdered
  <2>2. IsFiniteSet(A)
        BY FS_Subset
  <2>3. Place(D, before, i) = Cardinality(A)
        BY DEF Place
  <2> HIDE DEF A, P
  <2>4. P \in SUBSET A /\ Cardinality(P) <= Cardinality(A) /\ Cardinality(A) \in Nat
        BY <2>1, <2>2, FS_Subset, FS_CardinalityType
  <2> HIDE DEF short
  <2>5. short <= Cardinality(P) /\ short \in Nat
        BY <1>2
  <2> QED BY ONLY <1>5, <2>3, <2>4, <2>5
<1>8. T \in SUBSET D
      OBVIOUS
<1>9. /\ \A i \in D : floors[i] = Floor(w, amount, i) /\ floors[i] \in Nat
      /\ \A i \in D : extra[i] = (IF i \in T THEN 1 ELSE 0)
      BY <1>0, <1>1
<1>10. \A i \in T : Remainder(w, amount, i) > 0
      BY <1>0, <1>7
<1> HIDE DEF W, short, floors, before, split, P, T, extra
<1>11. SumFunctionOnSet(extra, D) = short
      BY <1>6, <1>8, <1>9, SumCounts
<1>12. \A i \in D : extra[i] \in {0, 1} /\ split[i] = floors[i] + extra[i]
      BY <1>4, <1>9
<1>13. SumFunctionOnSet(split, D) = amount
  <2>1. \A i \in D : floors[i] \in Int /\ extra[i] \in Int /\ split[i] = floors[i] + extra[i]
        BY <1>9, <1>12
  <2>2. SumFunctionOnSet(split, D) = SumFunctionOnSet(floors, D) + SumFunctionOnSet(extra, D)
        BY <2>1, SumOfSums
  <2> QED BY <1>2, <1>11, <2>2
<1>14. split \in [D -> Nat]
      BY <1>4, <1>9, <1>12
<1>15. ASSUME NEW i \in D
       PROVE  /\ split[i] - Floor(w, amount, i) \in {0, 1}
              /\ split[i] * W < w[i] * amount + W
              /\ w[i] * amount < split[i] * W + W
  <2>1. PICK f \in Nat, r \in 0..(W - 1) : 
            /\ f = Floor(w, amount, i) /\ r = Remainder(w, amount, i)
            /\ w[i] * amount = W * f + r
        BY <1>1
  <2>2. CASE i \in T
    <3>1. split[i] = f + 1 /\ r > 0
          BY <1>9, <1>10, <1>12, <2>1, <2>2
    <3>2. (f + 1) * W = W * f + W /\ W * f \in Int
          BY <1>1
    <3> QED BY <1>1, <2>1, <3>1, <3>2
  <2>3. CASE i \notin T
    <3>1. split[i] = f
          BY <1>9, <1>12, <2>1, <2>3
    <3>2. f * W = W * f /\ W * f \in Int
          BY <1>1
    <3> QED BY <1>1, <2>1, <3>1, <3>2
  <2> QED BY <2>2, <2>3
<1> QED BY <1>13, <1>14, <1>15 DEF split, W

\* A split of no more than there is gives nobody more than it has.
LEMMA SplitIsCovered ==
    ASSUME NEW D \in SUBSET Int, IsFiniteSet(D), NEW w \in [D -> Nat], Total(w) > 0,
           NEW amount \in Nat, amount <= Total(w), NEW i \in D
    PROVE  LargestRemainder(w, amount)[i] <= w[i]
<1>1. PICK s \in Nat, W \in Nat, v \in Nat : 
          s = LargestRemainder(w, amount)[i] /\ W = Total(w) /\ v = w[i]
  <2>1. LargestRemainder(w, amount) \in [D -> Nat]
        BY SplitIsExact
  <2>2. Total(w) \in Nat
        BY FloorAndRemainder
  <2> QED BY <2>1, <2>2
<1>2. s * W < v * amount + W
      BY <1>1, SplitIsExact
<1>3. v * amount <= v * W
      BY ONLY <1>1, amount \in Nat, amount <= Total(w)
<1>4. s * W < (v + 1) * W
  <2>1. (v + 1) * W = v * W + W /\ v * W \in Int /\ v * amount \in Int /\ s * W \in Int
        OBVIOUS
  <2> QED BY <1>2, <1>3, <2>1
<1>5. s < v + 1
      BY ONLY <1>4, s \in Nat, v \in Nat, W \in Nat
<1> QED BY <1>1, <1>5

\* a comes before all others of S, b after.
IsFirst(a, S, before) == \A i \in S : i = a \/ <<a, i>> \in before
IsLast(b, S, before) == \A i \in S : i = b \/ <<i, b>> \in before

\* A nonempty finite set in a strict order has a first and a last element.
LEMMA FirstAndLast ==
    ASSUME NEW S, IsFiniteSet(S), S # {}, NEW before, IsStrictOrder(S, before)
    PROVE  \E a, b \in S : IsFirst(a, S, before) /\ IsLast(b, S, before)
<1> DEFINE q == InOrder(S, before)
<1>1. /\ Len(q) = Cardinality(S) /\ q \in Bijection(1..Len(q), S)
      /\ \A k, m \in 1..Len(q) : k < m => <<q[k], q[m]>> \in before
      BY InOrderIsSorted
<1>2. Cardinality(S) \in Nat /\ Cardinality(S) # 0
      BY FS_CardinalityType, FS_EmptySet
<1> HIDE DEF q
<1>3. PICK n \in Nat : n = Len(q) /\ n > 0
      BY <1>1, <1>2
<1>4. 1 \in 1..n /\ n \in 1..n
      BY <1>3
<1>5. q \in [1..n -> S] /\ \A i \in S : \E k \in 1..n : q[k] = i
      BY <1>1, <1>3 DEF Bijection, Surjection
<1>6. \A i \in S : /\ i = q[1] \/ <<q[1], i>> \in before
                   /\ i = q[n] \/ <<i, q[n]>> \in before
  <2> TAKE i \in S
  <2>1. PICK k \in 1..n : q[k] = i
        BY <1>5
  <2>2. k = 1 \/ 1 < k
        BY <1>3
  <2>3. k = n \/ k < n
        BY <1>3
  <2> QED BY <1>1, <1>3, <1>4, <2>1, <2>2, <2>3
<1> QED BY <1>4, <1>5, <1>6 DEF IsFirst, IsLast

-----------------------------------------------------------------------------
(* One side of the book                                                    *)

\* A book that parseOrder admits.
IsBook(orders) ==
    /\ Len(orders) \in Nat /\ DOMAIN orders = 1..Len(orders)
    /\ \A i \in DOMAIN orders : /\ orders[i].side \in {"BUY", "SELL"}
                                /\ orders[i].limitPrice \in Nat \ {0}
                                /\ orders[i].size \in Nat \ {0}

\* Orders of the book that are all on one side.
IsSide(orders, S) ==
    /\ S \in SUBSET DOMAIN orders
    /\ \A i, j \in S : orders[i].side = orders[j].side

\* The orders of a side are finitely many, each with a positive size.
LEMMA SideFacts ==
    ASSUME NEW orders, IsBook(orders), NEW S, IsSide(orders, S)
    PROVE  /\ IsFiniteSet(DOMAIN orders) /\ IsFiniteSet(S) /\ S \in SUBSET Int
           /\ \A i \in DOMAIN orders : Sizes(orders)[i] = orders[i].size /\ Sizes(orders)[i] \in Nat \ {0}
           /\ \A i \in S : Sizes(orders)[i] = orders[i].size /\ Sizes(orders)[i] \in Nat /\ Sizes(orders)[i] > 0
<1>1. IsFiniteSet(DOMAIN orders)
      BY FS_Interval DEF IsBook
<1>2. IsFiniteSet(S) /\ S \in SUBSET Int
      BY <1>1, FS_Subset DEF IsBook, IsSide
<1> QED BY <1>1, <1>2 DEF IsBook, IsSide, Sizes

\* The order in which a side is filled is strict.
LEMMA PrecedenceIsStrict ==
    ASSUME NEW orders, IsBook(orders), NEW S, IsSide(orders, S)
    PROVE  IsStrictOrder(S, Precedence(orders))
<1>1. \A i, j \in S : <<i, j>> \in Precedence(orders) <=>
          \/ BetterTerms(orders[i], orders[j])
          \/ orders[i].limitPrice = orders[j].limitPrice /\ i < j
      BY DEF Precedence, IsSide
<1>2. \A i \in S : orders[i].limitPrice \in Int /\ i \in Int
      BY DEF IsBook, IsSide
<1>3. CASE \A i \in S : orders[i].side = "BUY"
  <2>1. \A i, j \in S : <<i, j>> \in Precedence(orders) <=>
          \/ orders[i].limitPrice > orders[j].limitPrice
          \/ orders[i].limitPrice = orders[j].limitPrice /\ i < j
        BY <1>1, <1>3 DEF BetterTerms
  <2> QED BY ONLY <1>2, <2>1 DEF IsStrictOrder
<1>4. CASE \A i \in S : orders[i].side # "BUY"
  <2>1. \A i, j \in S : <<i, j>> \in Precedence(orders) <=>
          \/ orders[i].limitPrice < orders[j].limitPrice
          \/ orders[i].limitPrice = orders[j].limitPrice /\ i < j
        BY <1>1, <1>4 DEF BetterTerms
  <2> QED BY ONLY <1>2, <2>1 DEF IsStrictOrder
<1> QED BY <1>3, <1>4 DEF IsSide

\* The levels of a side, from the best terms to the worst.
LEMMA LevelsAreOrdered ==
    ASSUME NEW orders, IsBook(orders), NEW S, IsSide(orders, S)
    PROVE  /\ \A i \in S : /\ Better(orders, S, i) \in SUBSET S /\ Level(orders, S, i) \in SUBSET S
                           /\ i \in Level(orders, S, i) /\ i \notin Better(orders, S, i)
                           /\ Better(orders, S, i) \cap Level(orders, S, i) = {}
           /\ \A i, j \in S :
                 /\ j \in Better(orders, S, i) =>
                        /\ Better(orders, S, j) \in SUBSET Better(orders, S, i)
                        /\ Level(orders, S, j) \in SUBSET Better(orders, S, i)
                 /\ j \in Level(orders, S, i) =>
                        /\ Better(orders, S, j) = Better(orders, S, i)
                        /\ Level(orders, S, j) = Level(orders, S, i)
                 /\ \/ j \in Better(orders, S, i) 
                    \/ j \in Level(orders, S, i)
                    \/ i \in Better(orders, S, j)
           /\ \A i, j \in S : <<i, j>> \in Precedence(orders) => j \notin Better(orders, S, i)
<1>1. \A i \in S : orders[i].limitPrice \in Int
      BY DEF IsBook, IsSide
<1>2. \A i, j \in S : j \in Level(orders, S, i) <=> orders[j].limitPrice = orders[i].limitPrice
      BY DEF Level
<1>3. \A i, j \in S : j \in Better(orders, S, i) <=> BetterTerms(orders[j], orders[i])
      BY DEF Better
<1>4. \A i \in S : Better(orders, S, i) \in SUBSET S /\ Level(orders, S, i) \in SUBSET S
      BY DEF Better, Level
<1>5. \/ \A i, j \in S : BetterTerms(orders[j], orders[i]) <=> orders[j].limitPrice > orders[i].limitPrice
      \/ \A i, j \in S : BetterTerms(orders[j], orders[i]) <=> orders[j].limitPrice < orders[i].limitPrice
      BY DEF IsSide, BetterTerms
<1>6. \A i, j, k \in S : 
          /\ ~(j \in Better(orders, S, i) /\ j \in Level(orders, S, i))
          /\ i \in Level(orders, S, i)
          /\ j \in Better(orders, S, i) /\ k \in Better(orders, S, j) => k \in Better(orders, S, i)
          /\ j \in Better(orders, S, i) /\ k \in Level(orders, S, j) => k \in Better(orders, S, i)
          /\ j \in Level(orders, S, i) => (k \in Better(orders, S, j) <=> k \in Better(orders, S, i))
          /\ j \in Level(orders, S, i) => (k \in Level(orders, S, j) <=> k \in Level(orders, S, i))
          /\ j \in Better(orders, S, i) \/ j \in Level(orders, S, i) \/ i \in Better(orders, S, j)
          /\ ~(i \in Better(orders, S, j) /\ j \in Better(orders, S, i))
          /\ ~(i \in Level(orders, S, j) /\ j \in Better(orders, S, i))
      BY ONLY <1>1, <1>2, <1>3, <1>5
<1>7. \A i, j \in S : <<i, j>> \in Precedence(orders) => i \in Better(orders, S, j) \/ i \in Level(orders, S, j)
      BY <1>2, <1>3 DEF Precedence
<1>8. \A i, j \in S : j \in Level(orders, S, i) =>
                        /\ Better(orders, S, j) = Better(orders, S, i)
                        /\ Level(orders, S, j) = Level(orders, S, i)
      BY ONLY <1>4, <1>6
<1>9. \A i, j \in S : j \in Better(orders, S, i) =>
                        /\ Better(orders, S, j) \in SUBSET Better(orders, S, i)
                        /\ Level(orders, S, j) \in SUBSET Better(orders, S, i)
      BY ONLY <1>4, <1>6
<1>10. \A i \in S : Better(orders, S, i) \cap Level(orders, S, i) = {}
      BY ONLY <1>4, <1>6
<1> QED BY ONLY <1>4, <1>6, <1>7, <1>8, <1>9, <1>10

\* The sizes of the orders better than i, and of those level with it.
Ahead(orders, S, i) == SumFunctionOnSet(Sizes(orders), Better(orders, S, i))
Held(orders, S, i) == SumFunctionOnSet(Sizes(orders), Level(orders, S, i))
Weights(orders, S, i) == Restrict(Sizes(orders), Level(orders, S, i))

\* What LevelSize is given for the level of an order.
LEMMA WeightsOfALevel ==
    ASSUME NEW orders, IsBook(orders), NEW S, IsSide(orders, S), NEW i \in S
    PROVE  /\ Level(orders, S, i) \in SUBSET Int /\ IsFiniteSet(Level(orders, S, i))
           /\ Better(orders, S, i) \in SUBSET S /\ IsFiniteSet(Better(orders, S, i))
           /\ i \in Level(orders, S, i)
           /\ Weights(orders, S, i) \in [Level(orders, S, i) -> Nat]
           /\ \A j \in Level(orders, S, i) : Weights(orders, S, i)[j] = Sizes(orders)[j]
           /\ Total(Weights(orders, S, i)) = Held(orders, S, i)
           /\ Ahead(orders, S, i) \in Nat
           /\ Held(orders, S, i) \in Nat /\ Held(orders, S, i) > 0
<1> DEFINE L == Level(orders, S, i)
           B == Better(orders, S, i)
           w == Weights(orders, S, i)
           z == Sizes(orders)
<1>1. /\ IsFiniteSet(S) /\ S \in SUBSET Int
      /\ \A j \in S : z[j] \in Nat /\ z[j] > 0
      BY SideFacts
<1>2. L \in SUBSET S /\ B \in SUBSET S /\ i \in L
      BY LevelsAreOrdered
<1> HIDE DEF L, B, z
<1>3. IsFiniteSet(L) /\ IsFiniteSet(B) /\ L \in SUBSET Int
      BY <1>1, <1>2, FS_Subset
<1>4. w = [j \in L |-> z[j]]
      BY DEF Weights, Restrict, L, z
<1>5. w \in [L -> Nat] /\ \A j \in L : w[j] = z[j]
      BY <1>1, <1>2, <1>4
<1>6. /\ SumFunctionOnSet(z, L) \in Nat
      /\ \A j \in L : z[j] <= SumFunctionOnSet(z, L)
      BY <1>1, <1>2, <1>3, SumOfNaturals
<1>7. SumFunctionOnSet(z, B) \in Nat
      BY <1>1, <1>2, <1>3, SumOfNaturals
<1>8. z[i] \in Nat /\ z[i] > 0 /\ z[i] <= SumFunctionOnSet(z, L)
      BY <1>1, <1>2, <1>6
<1>9. SumFunctionOnSet(z, L) > 0
      BY ONLY <1>6, <1>8
<1>10. SumFunctionOnSet(w, L) = SumFunctionOnSet(z, L)
      BY <1>3, <1>5, SumsAreEqual
<1>11. Total(w) = SumFunctionOnSet(z, L)
       BY <1>4, <1>10 DEF Total
<1> QED BY <1>2, <1>3, <1>5, <1>6, <1>7, <1>9, <1>11 DEF L, B, z, Ahead, Held

\* What an order gets when better terms leave all its level needs, nothing, or
\* part of it.
LEMMA GivenToAnOrder ==
    ASSUME NEW orders, IsBook(orders), NEW S, IsSide(orders, S), NEW v \in Nat, NEW i \in S
    PROVE  LET a == Ahead(orders, S, i)
               h == Held(orders, S, i)
           IN  /\ a + h <= v => Given(orders, S, v)[i] = Sizes(orders)[i]
               /\ a >= v => Given(orders, S, v)[i] = 0
               /\ a < v /\ v < a + h =>
                    Given(orders, S, v)[i] = LargestRemainder(Weights(orders, S, i), v - a)[i]
<1> DEFINE a == Ahead(orders, S, i)
           h == Held(orders, S, i)
           w == Weights(orders, S, i)
           L == Level(orders, S, i)
           rest == Remaining(orders, S, v, i)
           given == Given(orders, S, v)[i]
<1>1. /\ L \in SUBSET Int /\ IsFiniteSet(L) /\ i \in L /\ w \in [L -> Nat] 
      /\ w[i] = Sizes(orders)[i]
      /\ Total(w) = h /\ h \in Nat /\ h > 0 /\ a \in Nat
      BY WeightsOfALevel
<1>2. given = LevelSize(w, rest)[i]
      BY DEF Given, Weights
<1>3. rest = IF a < v THEN v - a ELSE 0
      BY DEF Remaining, Ahead
<1> HIDE DEF a, h, w, L, rest, given
<1>4. CASE a + h <= v
  <2>1. h <= rest
        BY ONLY <1>1, <1>3, <1>4, v \in Nat
  <2>2. given = w[i]
        BY <1>1, <1>2, <2>1 DEF LevelSize
  <2> QED BY ONLY <1>1, <1>4, <2>2, v \in Nat DEF a, h, w, given
<1>5. CASE a < v /\ v < a + h
  <2>1. rest = v - a /\ ~(h <= rest)
        BY ONLY <1>1, <1>3, <1>5, v \in Nat
  <2>2. given = LargestRemainder(w, v - a)[i]
        BY <1>1, <1>2, <2>1 DEF LevelSize
  <2> QED BY ONLY <1>1, <1>5, <2>2, v \in Nat DEF a, h, w, given
<1>6. CASE a >= v
  <2>1. rest = 0 /\ ~(h <= rest)
        BY ONLY <1>1, <1>3, <1>6, v \in Nat
  <2>2. given = LargestRemainder(w, 0)[i]
        BY <1>1, <1>2, <2>1 DEF LevelSize
  <2>3. PICK s \in Nat : s = given
    <3>1. LargestRemainder(w, 0) \in [L -> Nat]
          BY <1>1, SplitIsExact
    <3> QED BY <1>1, <2>2, <3>1
  <2>4. s * h < w[i] * 0 + h
        BY <1>1, <2>2, <2>3, SplitIsExact
  <2>5. w[i] * 0 = 0 /\ s * h \in Int
        BY <1>1
  <2>6. s * h < h
        BY ONLY <1>1, <2>4, <2>5
  <2>7. s = 0
        BY ONLY <1>1, <2>6, s \in Nat
  <2> QED BY ONLY <1>1, <1>6, <2>3, <2>7, v \in Nat DEF a, h, given
<1> QED BY <1>4, <1>5, <1>6 DEF a, h, w, given

\* Nobody is given more than its size.
LEMMA GivenIsWithinSize ==
    ASSUME NEW orders, IsBook(orders), NEW S, IsSide(orders, S), NEW v \in Nat
    PROVE  /\ DOMAIN Given(orders, S, v) = S
           /\ \A i \in S : /\ Given(orders, S, v)[i] \in Nat
                           /\ Given(orders, S, v)[i] <= Sizes(orders)[i]
<1>1. DOMAIN Given(orders, S, v) = S
      BY DEF Given
<1>2. ASSUME NEW i \in S
      PROVE  /\ Given(orders, S, v)[i] \in Nat
             /\ Given(orders, S, v)[i] <= Sizes(orders)[i]
  <2> DEFINE a == Ahead(orders, S, i)
             h == Held(orders, S, i)
             w == Weights(orders, S, i)
             L == Level(orders, S, i)
             given == Given(orders, S, v)[i]
             z == Sizes(orders)[i]
  <2>1. /\ L \in SUBSET Int /\ IsFiniteSet(L) /\ i \in L /\ w \in [L -> Nat] /\ w[i] = z
        /\ Total(w) = h /\ h \in Nat /\ h > 0 /\ a \in Nat
        BY WeightsOfALevel
  <2>2. /\ a + h <= v => given = z
        /\ a >= v => given = 0
        /\ a < v /\ v < a + h => given = LargestRemainder(w, v - a)[i]
        BY GivenToAnOrder
  <2>3. z \in Nat
        BY SideFacts
  <2> HIDE DEF a, h, w, L, given, z
  <2>4. CASE a < v /\ v < a + h
    <3>1. v - a \in Nat /\ v - a <= Total(w)
          BY <2>1, <2>4
    <3>2. LargestRemainder(w, v - a)[i] <= w[i]
          BY <2>1, <3>1, SplitIsCovered
    <3>3. LargestRemainder(w, v - a) \in [L -> Nat]
          BY <2>1, <3>1, SplitIsExact
    <3> QED BY <2>1, <2>2, <2>4, <3>2, <3>3 DEF given, z
  <2>5. CASE a + h <= v \/ a >= v
    <3>1. given = z \/ given = 0
          BY ONLY <2>2, <2>5
    <3> QED BY <2>3, <3>1 DEF given, z
  <2> QED BY <2>1, <2>4, <2>5
<1> QED BY <1>1, <1>2

\* A level is given as much as better terms leave, or all it holds.
LEMMA GivenToALevel ==
    ASSUME NEW orders, IsBook(orders), NEW S, IsSide(orders, S), NEW v \in Nat, NEW i \in S,
           Ahead(orders, S, i) < v
    PROVE  SumFunctionOnSet(Given(orders, S, v), Level(orders, S, i))
             = Smaller(Held(orders, S, i), v - Ahead(orders, S, i))
<1> DEFINE a == Ahead(orders, S, i)
           h == Held(orders, S, i)
           w == Weights(orders, S, i)
           L == Level(orders, S, i)
           given == Given(orders, S, v)
           z == Sizes(orders)
<1>1. /\ L \in SUBSET Int /\ IsFiniteSet(L) /\ i \in L /\ w \in [L -> Nat]
      /\ Total(w) = h /\ h \in Nat /\ h > 0 /\ a \in Nat
      BY WeightsOfALevel
<1>2. \A j \in L : /\ j \in S
                   /\ Ahead(orders, S, j) = a /\ Held(orders, S, j) = h /\ Weights(orders, S, j) = w
      BY LevelsAreOrdered DEF Ahead, Held, Weights
<1>3. CASE a + h <= v
  <2>1. \A j \in L : given[j] = z[j]
        BY <1>2, <1>3, GivenToAnOrder
  <2> HIDE DEF L, given, z
  <2>2. SumFunctionOnSet(given, L) = SumFunctionOnSet(z, L)
        BY <1>1, <2>1, SumsAreEqual
  <2>3. SumFunctionOnSet(z, L) = h
        BY DEF z, L, Held
  <2> HIDE DEF a, h
  <2>4. Smaller(h, v - a) = h
        BY <1>1, <1>3 DEF Smaller
  <2> QED BY <2>2, <2>3, <2>4 DEF a, h, L, given
<1>4. CASE v < a + h
  <2>1. \A j \in L : given[j] = LargestRemainder(w, v - a)[j]
        BY <1>2, <1>4, GivenToAnOrder
  <2> HIDE DEF L, given, a, h, w
  <2>2. v - a \in Nat
        BY <1>1, Ahead(orders, S, i) < v DEF a
  <2>3. SumFunctionOnSet(LargestRemainder(w, v - a), L) = v - a
        BY <1>1, <2>2, SplitIsExact
  <2>4. SumFunctionOnSet(given, L) = SumFunctionOnSet(LargestRemainder(w, v - a), L)
        BY <1>1, <2>1, SumsAreEqual
  <2>5. Smaller(h, v - a) = v - a
        BY <1>1, <1>4 DEF Smaller
  <2> QED BY <2>3, <2>4, <2>5 DEF a, h, L, given
<1> HIDE DEF a, h
<1> QED BY <1>1, <1>3, <1>4

\* A side that can trade the volume is given exactly the volume.
LEMMA GivenIsTheVolume ==
    ASSUME NEW orders, IsBook(orders), NEW S, IsSide(orders, S), NEW v \in Nat, v > 0,
           v <= SumFunctionOnSet(Sizes(orders), S)
    PROVE  SumFunctionOnSet(Given(orders, S, v), S) = v
<1> DEFINE z == Sizes(orders)
           given == Given(orders, S, v)
           B(i) == Better(orders, S, i)
           L(i) == Level(orders, S, i)
           a(i) == Ahead(orders, S, i)
           h(i) == Held(orders, S, i)
           R == {i \in S : a(i) < v}
           prec == Precedence(orders)
<1>1. /\ IsFiniteSet(S) /\ \A i \in S : z[i] \in Nat /\ z[i] > 0
      BY SideFacts
<1>2. \A i \in S : /\ a(i) \in Nat /\ h(i) \in Nat /\ h(i) > 0
                   /\ IsFiniteSet(B(i)) /\ IsFiniteSet(L(i))
      BY WeightsOfALevel
<1>3. IsFiniteSet(R) /\ IsFiniteSet(S \ R)
      BY <1>1, FS_Subset
<1>4. \A T \in SUBSET S : IsSide(orders, T)
      BY DEF IsSide
<1>5. \A T \in SUBSET S : T # {} /\ IsFiniteSet(T) =>
          \E f, l \in T : IsFirst(f, T, prec) /\ IsLast(l, T, prec)
  <2> TAKE T \in SUBSET S
  <2> HAVE T # {} /\ IsFiniteSet(T)
  <2>1. IsStrictOrder(T, prec)
        BY <1>4, PrecedenceIsStrict
  <2> HIDE DEF prec
  <2> QED BY <2>1, FirstAndLast
<1>6. \A i \in S : a(i) = SumFunctionOnSet(z, B(i)) /\ h(i) = SumFunctionOnSet(z, L(i))
      BY DEF Ahead, Held
<1>7. \A i \in S : given[i] \in Nat
      BY GivenIsWithinSize
<1>8. /\ \A i \in S : /\ B(i) \in SUBSET S /\ L(i) \in SUBSET S /\ i \in L(i) /\ i \notin B(i)
                      /\ B(i) \cap L(i) = {}
      /\ \A i, j \in S : /\ j \in B(i) => B(j) \in SUBSET B(i) /\ L(j) \in SUBSET B(i)
                         /\ j \in L(i) => B(j) = B(i) /\ L(j) = L(i)
                         /\ j \in B(i) \/ j \in L(i) \/ i \in B(j)
      /\ \A i, j \in S : <<i, j>> \in prec => j \notin B(i)
      BY LevelsAreOrdered
<1>9. /\ \A i \in S : a(i) + h(i) <= v => given[i] = z[i]
      /\ \A i \in S : a(i) >= v => given[i] = 0
      BY GivenToAnOrder
<1>10. \A i \in S : a(i) < v => SumFunctionOnSet(given, L(i)) = Smaller(h(i), v - a(i))
      BY GivenToALevel
<1> HIDE DEF z, given, B, L, a, h, prec
<1>11. \A i, j \in S : j \in B(i) => a(j) + h(j) <= a(i)
  <2> SUFFICES ASSUME NEW i \in S, NEW j \in S, j \in B(i)
               PROVE  a(j) + h(j) <= a(i)
      OBVIOUS
  <2>1. B(j) \cup L(j) \in SUBSET B(i) /\ B(j) \cap L(j) = {} /\ \A x \in B(i) : x \in S
        BY <1>8
  <2>2. SumFunctionOnSet(z, B(j) \cup L(j)) = a(j) + h(j)
    <3>1. \A x \in B(j) \cup L(j) : z[x] \in Int
          BY <1>1, <2>1
    <3> QED BY <1>2, <1>6, <2>1, <3>1, SumOfUnion
  <2>3. SumFunctionOnSet(z, B(j) \cup L(j)) <= SumFunctionOnSet(z, B(i))
    <3>1. \A x \in B(i) : z[x] \in Nat
          BY <1>1, <2>1
    <3> QED BY <1>2, <2>1, <3>1, SumOfPart
  <2> QED BY <1>6, <2>2, <2>3
<1>12. S # {}
  <2>1. CASE S = {}
        BY <2>1, SumOfNone DEF z
  <2> QED BY <2>1
<1>13. R # {}
  <2>1. PICK f \in S : \A i \in S : i = f \/ <<f, i>> \in prec
        BY <1>1, <1>5, <1>12 DEF IsFirst
  <2>2. B(f) = {}
        BY <1>8, <2>1
  <2>3. a(f) = 0
        BY <1>6, <2>2, SumOfNone
  <2> QED BY <2>3
<1>14. PICK l \in R : \A i \in R : i = l \/ <<i, l>> \in prec
       BY <1>3, <1>5, <1>13 DEF IsLast
<1> DEFINE U == B(l) \cup L(l)
<1>15. l \in S /\ a(l) < v
       OBVIOUS
<1>16. R = U
  <2>1. \A i \in R : i \in U
    <3> TAKE i \in R
    <3>1. i = l \/ l \notin B(i)
          BY <1>8, <1>14, <1>15
    <3> QED BY <1>8, <1>15, <3>1
  <2>2. \A i \in B(l) : i \in R
    <3> TAKE i \in B(l)
    <3>1. i \in S /\ a(i) + h(i) <= a(l)
          BY <1>8, <1>11, <1>15
    <3>2. a(i) < v
          BY <1>2, <1>15, <3>1
    <3> QED BY <3>1, <3>2
  <2>3. \A i \in L(l) : i \in R
    <3> TAKE i \in L(l)
    <3>1. i \in S /\ B(i) = B(l)
          BY <1>8, <1>15
    <3>2. a(i) = a(l)
          BY <1>6, <1>15, <3>1
    <3> QED BY <1>15, <3>1, <3>2
  <2> QED BY <2>1, <2>2, <2>3
<1>17. \A i \in B(l) : i \in S /\ given[i] = z[i]
  <2> TAKE i \in B(l)
  <2>1. i \in S /\ a(i) + h(i) <= a(l)
        BY <1>8, <1>11, <1>15
  <2>2. a(i) + h(i) <= v
        BY <1>2, <1>15, <2>1
  <2> QED BY <1>9, <2>1, <2>2
<1>18. SumFunctionOnSet(given, B(l)) = a(l)
       BY <1>2, <1>6, <1>15, <1>17, SumsAreEqual
<1>19. SumFunctionOnSet(given, U) = a(l) + Smaller(h(l), v - a(l))
  <2>1. \A x \in U : given[x] \in Int
        BY <1>7, <1>8, <1>15
  <2>2. B(l) \cap L(l) = {}
        BY <1>8, <1>15
  <2>3. SumFunctionOnSet(given, U) = SumFunctionOnSet(given, B(l)) + SumFunctionOnSet(given, L(l))
        BY <1>2, <1>15, <2>1, <2>2, SumOfUnion
  <2> QED BY <1>10, <1>15, <1>18, <2>3
<1>20. SumFunctionOnSet(given, S) = SumFunctionOnSet(given, U)
  <2>1. \A i \in S \ U : given[i] = 0
    <3> TAKE i \in S \ U
    <3>1. i \in S /\ ~(a(i) < v)
          BY <1>16
    <3> QED BY <1>2, <1>9, <3>1
  <2>2. S = U \cup (S \ U) /\ U \cap (S \ U) = {} /\ U \in SUBSET S
        BY <1>16
  <2> HIDE DEF U
  <2>3. IsFiniteSet(U) /\ IsFiniteSet(S \ U)
        BY <1>1, <2>2, FS_Subset
  <2>4. SumFunctionOnSet(given, S \ U) = 0
        BY <2>1, <2>3, SumOfZeros
  <2>5. \A x \in U \cup (S \ U) : given[x] \in Int
        BY <1>7, <2>2
  <2>6. SumFunctionOnSet(given, U \cup (S \ U)) = SumFunctionOnSet(given, U) + SumFunctionOnSet(given, S \ U)
        BY <2>2, <2>3, <2>5, SumOfUnion
  <2>7. SumFunctionOnSet(given, U) \in Int
    <3>1. \A x \in U : given[x] \in Int
          BY <2>5
    <3> QED BY <2>3, <3>1, SumIsInt
  <2> QED BY <2>2, <2>4, <2>6, <2>7
<1>21. v <= a(l) + h(l)
  <2>1. SumFunctionOnSet(z, U) = a(l) + h(l)
    <3>1. \A x \in U : z[x] \in Int
          BY <1>1, <1>8, <1>15
    <3>2. B(l) \cap L(l) = {}
          BY <1>8, <1>15
    <3> QED BY <1>2, <1>6, <1>15, <3>1, <3>2, SumOfUnion
  <2>2. CASE S \ R = {}
    <3>1. U = S
          BY <1>16, <2>2
    <3>2. SumFunctionOnSet(z, S) = a(l) + h(l)
          BY <2>1, <3>1
    <3> QED BY <3>2 DEF z
  <2>3. CASE S \ R # {}
    <3>1. PICK f \in S \ R : \A i \in S \ R : i = f \/ <<f, i>> \in prec
          BY <1>3, <1>5, <2>3 DEF IsFirst
    <3>2. B(f) \in SUBSET U
      <4> SUFFICES ASSUME NEW i \in B(f), i \notin U PROVE FALSE
          OBVIOUS
      <4>1. i \in S \ R
            BY <1>8, <1>16, <3>1
      <4>2. i # f
            BY <1>8, <3>1
      <4>3. <<f, i>> \in prec
            BY <3>1, <4>1, <4>2
      <4>4. f \notin B(i) /\ i \notin B(f)
            BY <1>8, <3>1, <4>1, <4>3
      <4> QED BY <4>4
    <3>3. a(f) <= a(l) + h(l)
      <4>1. \A x \in U : z[x] \in Nat
            BY <1>1, <1>8, <1>15
      <4>2. IsFiniteSet(U)
            BY <1>3, <1>16
      <4> HIDE DEF U
      <4>3. SumFunctionOnSet(z, B(f)) <= SumFunctionOnSet(z, U)
            BY <3>2, <4>1, <4>2, SumOfPart
      <4> QED BY <1>6, <2>1, <3>1, <4>3
    <3>4. f \in S /\ ~(a(f) < v)
          BY <3>1
    <3> QED BY <1>2, <1>15, <3>3, <3>4
  <2> QED BY <2>2, <2>3
<1> HIDE DEF R, U
<1>22. PICK p \in Nat, q \in Nat : p = a(l) /\ q = h(l)
       BY <1>2, <1>15
<1>23. p + Smaller(q, v - p) = v
       BY ONLY <1>15, <1>21, <1>22, v \in Nat DEF Smaller
<1>24. SumFunctionOnSet(given, S) = v
       BY <1>19, <1>20, <1>22, <1>23
<1> QED BY <1>24 DEF given

\* The orders of a side that get a fill, and their places in its queue.
Filled(orders, side, price, volume) ==
    LET given == Given(orders, Eligible(orders, side, price), volume)
    IN  {i \in DOMAIN given : given[i] > 0}
Queue(orders, side, price, volume) ==
    InOrder(Filled(orders, side, price, volume), Precedence(orders))

\* The orders eligible on a side are on that side.
LEMMA EligibleIsASide ==
    ASSUME NEW orders, IsBook(orders), NEW side, NEW price
    PROVE  /\ IsSide(orders, Eligible(orders, side, price))
           /\ \A i \in Eligible(orders, side, price) : i \in DOMAIN orders /\ orders[i].side = side
BY DEF IsSide, Eligible

\* Allocate makes a fill of each order that is given something, and no other.
LEMMA AllocationFacts ==
    ASSUME NEW orders, IsBook(orders), NEW side, NEW price, NEW v \in Nat
    PROVE  LET fills == Allocate(orders, side, price, v)
               given == Given(orders, Eligible(orders, side, price), v)
               filled == Filled(orders, side, price, v)
               queue == Queue(orders, side, price, v)
           IN  /\ Len(fills) \in Nat /\ DOMAIN fills = 1..Len(fills)
               /\ queue \in Bijection(1..Len(fills), filled)
               /\ filled \in SUBSET Eligible(orders, side, price) /\ IsFiniteSet(filled)
               /\ \A i \in Eligible(orders, side, price) : given[i] \in Nat /\ (i \in filled <=> given[i] > 0)
               /\ \A k \in 1..Len(fills) :
                     fills[k] = [trader |-> orders[queue[k]].trader, side |-> side, size |-> given[queue[k]]]
<1> DEFINE fills == Allocate(orders, side, price, v)
           E == Eligible(orders, side, price)
           given == Given(orders, E, v)
           filled == Filled(orders, side, price, v)
           queue == Queue(orders, side, price, v)
<1>1. IsSide(orders, E)
      BY EligibleIsASide
<1>2. DOMAIN given = E /\ \A i \in E : given[i] \in Nat
      BY <1>1, GivenIsWithinSize
<1>3. filled = {i \in E : given[i] > 0}
      BY <1>2 DEF Filled
<1>4. IsFiniteSet(filled) /\ filled \in SUBSET E
      BY <1>1, <1>3, SideFacts, FS_Subset
<1>5. IsStrictOrder(filled, Precedence(orders))
  <2>1. IsSide(orders, filled)
        BY <1>1, <1>4 DEF IsSide
  <2> QED BY <2>1, PrecedenceIsStrict
<1>6. /\ Len(queue) = Cardinality(filled) /\ DOMAIN queue = 1..Len(queue)
      /\ queue \in Bijection(1..Len(queue), filled)
      BY <1>4, <1>5, InOrderIsSorted DEF Queue
<1>7. Len(queue) \in Nat
      BY <1>4, <1>6, FS_CardinalityType
<1>8. fills = [k \in DOMAIN queue |->
                 [trader |-> orders[queue[k]].trader, side |-> side, size |-> given[queue[k]]]]
      BY DEF Allocate, Queue, Filled
<1> HIDE DEF fills, E, given, filled, queue
<1>9. DOMAIN fills = 1..Len(queue) /\ Len(fills) = Len(queue)
      BY <1>6, <1>7, <1>8
<1>10. \A k \in 1..Len(fills) :
          fills[k] = [trader |-> orders[queue[k]].trader, side |-> side, size |-> given[queue[k]]]
       BY <1>6, <1>8, <1>9
<1>11. /\ Len(fills) \in Nat /\ DOMAIN fills = 1..Len(fills)
       /\ queue \in Bijection(1..Len(fills), filled)
       BY <1>6, <1>7, <1>9
<1>12. \A i \in E : given[i] \in Nat /\ (i \in filled <=> given[i] > 0)
       BY <1>2, <1>3
<1> QED BY <1>4, <1>10, <1>11, <1>12 DEF fills, E, given, filled, queue

\* The fills of a side that can trade the volume add up to it.
LEMMA AllocationIsTheVolume ==
    ASSUME NEW orders, IsBook(orders), NEW side, NEW price, NEW v \in Nat, v > 0,
           v <= InterestAt(orders, side, price)
    PROVE  LET fills == Allocate(orders, side, price, v)
           IN  SumFunctionOnSet(Sizes(fills), DOMAIN fills) = v
<1> DEFINE fills == Allocate(orders, side, price, v)
           E == Eligible(orders, side, price)
           given == Given(orders, E, v)
           filled == Filled(orders, side, price, v)
           queue == Queue(orders, side, price, v)
           n == Len(fills)
<1>1. /\ n \in Nat /\ DOMAIN fills = 1..n
      /\ queue \in Bijection(1..n, filled)
      /\ filled \in SUBSET E /\ IsFiniteSet(filled)
      /\ \A i \in E : given[i] \in Nat /\ (i \in filled <=> given[i] > 0)
      /\ \A k \in 1..n :
             fills[k] = [trader |-> orders[queue[k]].trader, side |-> side, size |-> given[queue[k]]]
      BY AllocationFacts
<1>2. SumFunctionOnSet(given, E) = v
      BY EligibleIsASide, GivenIsTheVolume DEF InterestAt
<1>3. IsFiniteSet(E)
      BY EligibleIsASide, SideFacts
<1>4. \A k \in 1..n : Sizes(fills)[k] = given[queue[k]]
      BY <1>1 DEF Sizes
<1>5. IsFiniteSet(1..n)
      BY <1>1, FS_Interval
<1> HIDE DEF fills, E, given, filled, queue, n
<1>6. \A i \in filled : given[i] \in Int
      BY <1>1
<1>7. SumFunctionOnSet(Sizes(fills), 1..n) = SumFunctionOnSet(given, filled)
      BY <1>1, <1>4, <1>5, <1>6, SumOfImage
<1>8. SumFunctionOnSet(given, filled \cup (E \ filled)) = SumFunctionOnSet(given, filled) + SumFunctionOnSet(given, E \ filled)
  <2>1. IsFiniteSet(E \ filled) /\ filled \cap (E \ filled) = {}
        BY <1>3, FS_Subset
  <2>2. \A i \in filled \cup (E \ filled) : given[i] \in Int
        BY <1>1
  <2> QED BY <1>1, <2>1, <2>2, SumOfUnion
<1>9. SumFunctionOnSet(given, E \ filled) = 0
  <2>1. \A i \in E \ filled : given[i] = 0
        BY <1>1
  <2>2. IsFiniteSet(E \ filled)
        BY <1>3, FS_Subset
  <2> QED BY <2>1, <2>2, SumOfZeros
<1>10. filled \cup (E \ filled) = E
       BY <1>1
<1>11. SumFunctionOnSet(given, filled) \in Int
       BY <1>1, <1>6, SumIsInt
<1>12. SumFunctionOnSet(given, E) = SumFunctionOnSet(given, filled) + SumFunctionOnSet(given, E \ filled)
       BY ONLY <1>8, <1>10
<1>13. SumFunctionOnSet(Sizes(fills), 1..n) = v
       BY ONLY <1>2, <1>7, <1>9, <1>11, <1>12
<1>14. DOMAIN fills = 1..n
       BY <1>1
<1> QED BY <1>13, <1>14 DEF fills

\* What Clear makes of one side.
LEMMA LegFacts ==
    ASSUME NEW orders, IsBook(orders), NEW side, NEW price \in Nat, NEW v \in Nat, v > 0,
           v <= InterestAt(orders, side, price)
    PROVE  LET leg == LegFills(orders, side, price, v)
               given == Given(orders, Eligible(orders, side, price), v)
               filled == Filled(orders, side, price, v)
               queue == Queue(orders, side, price, v)
               q == QuoteAmount(v, price)
           IN  /\ Len(leg) \in Nat /\ DOMAIN leg = 1..Len(leg)
               /\ queue \in Bijection(1..Len(leg), filled)
               /\ \A k \in 1..Len(leg) :
                     /\ leg[k] = [trader |-> orders[queue[k]].trader, side |-> side,
                                  size |-> given[queue[k]], quote |-> Quotes(leg)[k]]
                     /\ leg[k].size \in Nat \ {0} /\ leg[k].quote \in Nat
                     /\ leg[k].quote * v < leg[k].size * q + v
                     /\ leg[k].size * q < leg[k].quote * v + v
                     /\ leg[k].size <= v
               /\ SumFunctionOnSet(Sizes(leg), 1..Len(leg)) = v
               /\ SumFunctionOnSet(Quotes(leg), 1..Len(leg)) = q
<1> DEFINE fills == Allocate(orders, side, price, v)
           leg == LegFills(orders, side, price, v)
           E == Eligible(orders, side, price)
           given == Given(orders, E, v)
           filled == Filled(orders, side, price, v)
           queue == Queue(orders, side, price, v)
           n == Len(fills)
           q == QuoteAmount(v, price)
           w == Sizes(fills)
           quotes == LargestRemainder(w, q)
<1>1. /\ n \in Nat /\ DOMAIN fills = 1..n
      /\ queue \in Bijection(1..n, filled)
      /\ filled \in SUBSET E /\ IsFiniteSet(filled)
      /\ \A i \in E : given[i] \in Nat /\ (i \in filled <=> given[i] > 0)
      /\ \A k \in 1..n :
             fills[k] = [trader |-> orders[queue[k]].trader, side |-> side, size |-> given[queue[k]]]
      BY AllocationFacts
<1>2. SumFunctionOnSet(w, 1..n) = v
      BY <1>1, AllocationIsTheVolume
<1>3. q \in Nat
  <2>1. v * price \in Nat /\ PriceScale \in Nat /\ PriceScale > 0
        BY PriceScaleIsPositive
  <2> QED BY <2>1, DivisionLeavesRemainder DEF QuoteAmount
<1>4. leg = [k \in DOMAIN fills |->
               [trader |-> fills[k].trader, side |-> fills[k].side, size |-> fills[k].size,
                quote |-> quotes[k]]]
      BY DEF LegFills, WithQuote
<1>5. IsFiniteSet(1..n) /\ 1..n \in SUBSET Int
      BY <1>1, FS_Interval
<1>6. \A k \in 1..n : queue[k] \in filled
      BY <1>1 DEF Bijection, Injection
<1>7. /\ w = [k \in 1..n |-> w[k]]
      /\ \A k \in 1..n : w[k] = fills[k].size
      BY <1>1 DEF Sizes
<1> HIDE DEF fills, leg, E, given, filled, queue, n, q, w, quotes
<1>8. \A k \in 1..n : /\ fills[k].trader = orders[queue[k]].trader
                      /\ fills[k].side = side
                      /\ fills[k].size = given[queue[k]]
      BY <1>1
<1>9. \A k \in 1..n : given[queue[k]] \in Nat \ {0}
      BY <1>1, <1>6
<1>10. w \in [1..n -> Nat] /\ Total(w) = v
  <2>1. \A k \in 1..n : w[k] \in Nat
        BY <1>7, <1>8, <1>9
  <2>2. w \in [1..n -> Nat]
        BY ONLY <1>7, <2>1
  <2>3. DOMAIN w = 1..n
        BY <1>7
  <2> QED BY <1>2, <2>2, <2>3 DEF Total
<1>11. /\ quotes \in [1..n -> Nat]
       /\ SumFunctionOnSet(quotes, 1..n) = q
       /\ \A k \in 1..n : /\ quotes[k] * Total(w) < w[k] * q + Total(w)
                          /\ w[k] * q < quotes[k] * Total(w) + Total(w)
       BY <1>3, <1>5, <1>10, SplitIsExact DEF quotes
<1>12. DOMAIN leg = 1..n /\ Len(leg) = n
       BY <1>1, <1>4
<1>13. \A k \in 1..n : leg[k] = [trader |-> orders[queue[k]].trader, side |-> side,
                                 size |-> given[queue[k]], quote |-> quotes[k]]
       BY <1>1, <1>4, <1>8
<1>14. \A k \in 1..n : leg[k].quote = quotes[k] /\ leg[k].size = w[k] /\ leg[k].size = given[queue[k]]
  <2> TAKE k \in 1..n
  <2>1. leg[k] = [trader |-> orders[queue[k]].trader, side |-> side,
                  size |-> given[queue[k]], quote |-> quotes[k]]
        BY <1>13
  <2>2. leg[k].quote = quotes[k] /\ leg[k].size = given[queue[k]]
        BY ONLY <2>1
  <2> QED BY <1>7, <1>8, <2>2
<1>15. /\ \A k \in 1..n : Quotes(leg)[k] = quotes[k]
       /\ \A k \in 1..n : Sizes(leg)[k] = w[k]
       BY <1>12, <1>14 DEF Quotes, Sizes
<1>16. \A k \in 1..n : w[k] <= v
       BY <1>2, <1>5, <1>10, SumOfNaturals
<1>17. SumFunctionOnSet(Sizes(leg), 1..n) = v
       BY <1>2, <1>5, <1>15, SumsAreEqual
<1>18. SumFunctionOnSet(Quotes(leg), 1..n) = q
       BY <1>5, <1>11, <1>15, SumsAreEqual
<1>19. \A k \in 1..Len(leg) :
          /\ leg[k] = [trader |-> orders[queue[k]].trader, side |-> side,
                       size |-> given[queue[k]], quote |-> Quotes(leg)[k]]
          /\ leg[k].size \in Nat \ {0} /\ leg[k].quote \in Nat
          /\ leg[k].quote * v < leg[k].size * q + v
          /\ leg[k].size * q < leg[k].quote * v + v
          /\ leg[k].size <= v
  <2> SUFFICES ASSUME NEW k \in 1..n
               PROVE  /\ leg[k] = [trader |-> orders[queue[k]].trader, side |-> side,
                                   size |-> given[queue[k]], quote |-> Quotes(leg)[k]]
                      /\ leg[k].size \in Nat \ {0} /\ leg[k].quote \in Nat
                      /\ leg[k].quote * v < leg[k].size * q + v
                      /\ leg[k].size * q < leg[k].quote * v + v
                      /\ leg[k].size <= v
      BY <1>12
  <2>1. leg[k].quote = quotes[k] /\ leg[k].size = w[k] /\ w[k] = given[queue[k]] /\ Total(w) = v
        BY <1>10, <1>14
  <2>2. quotes[k] * v < w[k] * q + v /\ w[k] * q < quotes[k] * v + v
        BY <1>11, <2>1
  <2>3. w[k] \in Nat \ {0} /\ quotes[k] \in Nat /\ w[k] <= v
        BY <1>9, <1>11, <1>16, <2>1
  <2>4. leg[k] = [trader |-> orders[queue[k]].trader, side |-> side,
                  size |-> given[queue[k]], quote |-> Quotes(leg)[k]]
        BY <1>13, <1>15
  <2> QED BY ONLY <2>1, <2>2, <2>3, <2>4
<1>20. Len(leg) \in Nat /\ DOMAIN leg = 1..Len(leg) /\ queue \in Bijection(1..Len(leg), filled)
       BY <1>1, <1>12
<1> QED BY <1>12, <1>17, <1>18, <1>19, <1>20 DEF leg, E, given, filled, queue, q

\* What can be traded at a price.
LEMMA InterestIsNat ==
    ASSUME NEW orders, IsBook(orders), NEW price
    PROVE  /\ \A side : InterestAt(orders, side, price) \in Nat
           /\ DemandAt(orders, price) \in Nat /\ SupplyAt(orders, price) \in Nat
           /\ VolumeAt(orders, price) \in Nat
           /\ VolumeAt(orders, price) <= DemandAt(orders, price)
           /\ VolumeAt(orders, price) <= SupplyAt(orders, price)
           /\ \A v \in Nat : v <= DemandAt(orders, price) /\ v <= SupplyAt(orders, price)
                                => v <= VolumeAt(orders, price)
           /\ ImbalanceAt(orders, price) \in Nat
<1>1. \A side : InterestAt(orders, side, price) \in Nat
  <2> TAKE side
  <2> DEFINE E == Eligible(orders, side, price)
             z == Sizes(orders)
  <2>1. IsFiniteSet(E) /\ \A i \in E : z[i] \in Nat
        BY EligibleIsASide, SideFacts
  <2> HIDE DEF E, z
  <2>2. SumFunctionOnSet(z, E) \in Nat
        BY <2>1, SumOfNaturals
  <2> QED BY <2>2 DEF E, z, InterestAt
<1>2. DemandAt(orders, price) \in Nat /\ SupplyAt(orders, price) \in Nat
      BY <1>1 DEF DemandAt, SupplyAt
<1> QED BY <1>1, <1>2 DEF VolumeAt, ImbalanceAt, Smaller

\* The limits of the book, each once, in ascending order.
LEMMA CandidatesAscend ==
    ASSUME NEW orders, IsBook(orders)
    PROVE  LET c == Candidates(orders)
           IN  /\ Len(c) \in Nat
               /\ \A k \in 1..Len(c) : c[k] \in Limits(orders)
               /\ \A p \in Limits(orders) : p \in Nat /\ \E k \in 1..Len(c) : c[k] = p
               /\ \A k, m \in 1..Len(c) : k < m => c[k] < c[m]
<1> DEFINE c == Candidates(orders)
           P == Limits(orders)
           before == Ascending(P)
           f == [i \in DOMAIN orders |-> orders[i].limitPrice]
<1>1. \A p \in P : p \in Nat
      BY DEF Limits, IsBook
<1>2. IsFiniteSet(P)
  <2>1. f \in Surjection(DOMAIN orders, P)
        BY DEF Surjection, Limits
  <2>2. IsFiniteSet(DOMAIN orders)
        BY ONLY FS_Interval, IsBook(orders) DEF IsBook
  <2> HIDE DEF f, P
  <2> QED BY <2>1, <2>2, FS_Surjection
<1>3. \A p, q \in P : <<p, q>> \in before <=> p < q
      BY DEF Ascending
<1>4. IsStrictOrder(P, before)
      BY <1>1, <1>3 DEF IsStrictOrder
<1>5. c = InOrder(P, before)
      BY DEF Candidates
<1> HIDE DEF c, P, before
<1>6. /\ Len(c) = Cardinality(P)
      /\ c \in Bijection(1..Len(c), P)
      /\ \A k, m \in 1..Len(c) : k < m => <<c[k], c[m]>> \in before
      BY <1>2, <1>4, <1>5, InOrderIsSorted
<1>7. Len(c) \in Nat
      BY <1>2, <1>6, FS_CardinalityType
<1>8. c \in [1..Len(c) -> P] /\ \A p \in P : \E k \in 1..Len(c) : c[k] = p
      BY <1>6 DEF Bijection, Surjection
<1> QED BY <1>1, <1>3, <1>6, <1>7, <1>8 DEF c, P

-----------------------------------------------------------------------------
(* The scan for the best prices                                            *)

\* What the scan starts with.
NoneYet == [volume |-> 0, imbalance |-> 0, tied |-> <<>>]

\* The states of the scan.
Scan(orders) ==
    CHOOSE best : best = [n \in 0..Len(Candidates(orders)) |->
                             IF n = 0 THEN NoneYet
                             ELSE Consider(orders, best[n - 1], Candidates(orders)[n])]

\* The recursive function of BestPrices exists and is the scan.
LEMMA ScanRuns ==
    ASSUME NEW orders, Len(Candidates(orders)) \in Nat
    PROVE  /\ Scan(orders)[0] = NoneYet
           /\ \A n \in 1..Len(Candidates(orders)) :
                 Scan(orders)[n] = Consider(orders, Scan(orders)[n - 1], Candidates(orders)[n])
           /\ BestPrices(orders) = Scan(orders)[Len(Candidates(orders))]
<1> DEFINE c == Candidates(orders)
           Runs(f, n) == /\ f[0] = NoneYet
                         /\ \A k \in 1..n : f[k] = Consider(orders, f[k - 1], c[k])
           A == {n \in Nat : \E f : Runs(f, n)}
<1>1. 0 \in A
  <2>1. Runs([n \in {0} |-> NoneYet], 0)
        OBVIOUS
  <2> QED BY <2>1
<1>2. \A n \in A : n + 1 \in A
  <2> TAKE n \in A
  <2>1. PICK f : Runs(f, n)
        OBVIOUS
  <2> DEFINE g == [k \in 0..(n + 1) |-> IF k = n + 1 THEN Consider(orders, f[n], c[n + 1]) ELSE f[k]]
  <2>2. \A k \in 0..n : g[k] = f[k]
        OBVIOUS
  <2>3. g[n + 1] = Consider(orders, f[n], c[n + 1])
        OBVIOUS
  <2> HIDE DEF g
  <2>4. Runs(g, n + 1)
    <3>1. g[0] = NoneYet
          BY <2>1, <2>2
    <3>2. ASSUME NEW k \in 1..(n + 1) PROVE g[k] = Consider(orders, g[k - 1], c[k])
      <4>1. CASE k = n + 1
        <5>1. g[k - 1] = f[n] /\ n = k - 1
              BY <2>2, <4>1
        <5> QED BY <2>3, <4>1, <5>1
      <4>2. CASE k \in 1..n
        <5>1. g[k] = f[k] /\ g[k - 1] = f[k - 1]
              BY <2>2, <4>2
        <5>2. f[k] = Consider(orders, f[k - 1], c[k])
              BY <2>1, <4>2
        <5> QED BY <5>1, <5>2
      <4> QED BY <4>1, <4>2
    <3> QED BY <3>1, <3>2
  <2> HIDE DEF Runs
  <2> QED BY <2>4
<1>3. Len(c) \in A
  <2> HIDE DEF A
  <2>2. A \subseteq Nat
        BY DEF A
  <2> QED BY <1>1, <1>2, <2>2, NatIsLeast
<1>4. PICK f : Runs(f, Len(c))
      BY <1>3
<1> DEFINE g == [n \in 0..Len(c) |-> f[n]]
<1>5. g = [n \in 0..Len(c) |-> IF n = 0 THEN NoneYet ELSE Consider(orders, g[n - 1], c[n])]
  <2> SUFFICES ASSUME NEW n \in 0..Len(c)
               PROVE  g[n] = IF n = 0 THEN NoneYet ELSE Consider(orders, g[n - 1], c[n])
      OBVIOUS
  <2>1. CASE n = 0
        BY <1>4, <2>1
  <2>2. CASE n # 0
    <3>1. n \in 1..Len(c) /\ n - 1 \in 0..Len(c)
          BY <2>2
    <3>2. g[n] = f[n] /\ g[n - 1] = f[n - 1]
          BY <3>1
    <3>3. f[n] = Consider(orders, f[n - 1], c[n])
          BY <1>4, <3>1
    <3> QED BY <2>2, <3>2, <3>3
  <2> QED BY <2>1, <2>2
<1> HIDE DEF g
<1>6. \E h : h = [n \in 0..Len(c) |-> IF n = 0 THEN NoneYet ELSE Consider(orders, h[n - 1], c[n])]
      BY <1>5
<1> DEFINE r == Scan(orders)
<1>7. r = [n \in 0..Len(c) |-> IF n = 0 THEN NoneYet ELSE Consider(orders, r[n - 1], c[n])]
      BY <1>6 DEF Scan
<1>8. BestPrices(orders) = r[Len(c)]
      BY DEF BestPrices, Scan, NoneYet
<1> HIDE DEF r
<1>9. r[0] = NoneYet
      BY <1>7
<1>10. ASSUME NEW n \in 1..Len(c) PROVE r[n] = Consider(orders, r[n - 1], c[n])
  <2>1. n \in 0..Len(c) /\ n # 0
        OBVIOUS
  <2> QED BY <1>7, <2>1
<1> QED BY <1>8, <1>9, <1>10 DEF r

\* Of the first n candidates, the scan holds the volume none exceeds and, in
\* ascending order, those that reach it with the least imbalance.
Optimal(orders, best, p) ==
    VolumeAt(orders, p) = best.volume /\ ImbalanceAt(orders, p) = best.imbalance
ScanInv(orders, n, best) ==
    LET c == Candidates(orders)
    IN  /\ best \in [volume : Nat, imbalance : Nat, tied : Seq(Nat)]
        /\ \A k \in 1..n : VolumeAt(orders, c[k]) <= best.volume
        /\ best.volume > 0 =>
              /\ \A k \in 1..n : VolumeAt(orders, c[k]) = best.volume
                                    => best.imbalance <= ImbalanceAt(orders, c[k])
              /\ Len(best.tied) > 0
              /\ \A t \in 1..Len(best.tied) :
                    Optimal(orders, best, best.tied[t]) /\ \E k \in 1..n : best.tied[t] = c[k]
              /\ \A s, t \in 1..Len(best.tied) : s < t => best.tied[s] < best.tied[t]
              /\ \A k \in 1..n : Optimal(orders, best, c[k])
                                    => \E t \in 1..Len(best.tied) : best.tied[t] = c[k]

\* One turn of the scan keeps what it has found the best of one candidate more.
LEMMA ScanKeepsTheBest ==
    ASSUME NEW orders, IsBook(orders), NEW n \in Nat, n + 1 <= Len(Candidates(orders)),
           NEW best, ScanInv(orders, n, best)
    PROVE  ScanInv(orders, n + 1, Consider(orders, best, Candidates(orders)[n + 1]))
<1> DEFINE c == Candidates(orders)
           p == c[n + 1]
           V(q) == VolumeAt(orders, q)
           I(q) == ImbalanceAt(orders, q)
           next == Consider(orders, best, p)
<1>1. /\ \A k \in 1..(n + 1) : c[k] \in Nat
      /\ \A k \in 1..n : c[k] < p
      /\ Len(c) \in Nat
  <2>1. /\ Len(c) \in Nat
        /\ \A k \in 1..Len(c) : c[k] \in Limits(orders)
        /\ \A q \in Limits(orders) : q \in Nat
        /\ \A k, m \in 1..Len(c) : k < m => c[k] < c[m]
        BY CandidatesAscend
  <2>2. /\ \A k \in 1..(n + 1) : k \in 1..Len(c)
        /\ \A k \in 1..n : k \in 1..(n + 1) /\ k < n + 1
        /\ n + 1 \in 1..(n + 1)
        BY <2>1
  <2> HIDE DEF c
  <2> QED BY <2>1, <2>2
<1>2. \A q : V(q) \in Nat /\ I(q) \in Nat
      BY InterestIsNat
<1>a. best \in [volume : Nat, imbalance : Nat, tied : Seq(Nat)]
      BY DEF ScanInv
<1>3. /\ best.volume \in Nat /\ best.imbalance \in Nat /\ best.tied \in Seq(Nat)
      /\ \A k \in 1..n : V(c[k]) <= best.volume
      /\ best.volume > 0 =>
            /\ \A k \in 1..n : V(c[k]) = best.volume => best.imbalance <= I(c[k])
            /\ Len(best.tied) > 0
            /\ \A t \in 1..Len(best.tied) :
                  Optimal(orders, best, best.tied[t]) /\ \E k \in 1..n : best.tied[t] = c[k]
            /\ \A s, t \in 1..Len(best.tied) : s < t => best.tied[s] < best.tied[t]
            /\ \A k \in 1..n : Optimal(orders, best, c[k])
                                  => \E t \in 1..Len(best.tied) : best.tied[t] = c[k]
      BY DEF ScanInv
<1>4. \A k \in 1..(n + 1) : k \in 1..n \/ k = n + 1
      OBVIOUS
<1>5. p \in Nat /\ V(p) \in Nat /\ I(p) \in Nat
      BY <1>1, <1>2
<1>6. \A x : Optimal(orders, best, x) <=> V(x) = best.volume /\ I(x) = best.imbalance
      BY DEF Optimal
<1>7. CASE V(p) = 0
  <2>1. next = best
        BY <1>7 DEF Consider
  <2>2. \A k \in 1..(n + 1) : V(c[k]) <= best.volume
        BY <1>3, <1>4, <1>7
  <2>3. best.volume > 0 => V(p) # best.volume
        BY <1>7
  <2> HIDE DEF V, I, c, p, next
  <2>4. ScanInv(orders, n + 1, best)
    <3>1. p = c[n + 1] /\ 1..n \in SUBSET (1..(n + 1))
          BY DEF p
    <3>2. \A k \in 1..(n + 1) : V(c[k]) = best.volume /\ best.volume > 0 => k \in 1..n
          BY <1>4, <2>3, <3>1
    <3>3. /\ best.volume \in Nat /\ best.imbalance \in Nat /\ best.tied \in Seq(Nat)
          /\ \A k \in 1..(n + 1) : V(c[k]) <= best.volume
          /\ best.volume > 0 =>
                /\ \A k \in 1..(n + 1) : V(c[k]) = best.volume => best.imbalance <= I(c[k])
                /\ Len(best.tied) > 0
                /\ \A t \in 1..Len(best.tied) :
                      Optimal(orders, best, best.tied[t]) /\ \E k \in 1..(n + 1) : best.tied[t] = c[k]
                /\ \A s, t \in 1..Len(best.tied) : s < t => best.tied[s] < best.tied[t]
                /\ \A k \in 1..(n + 1) : Optimal(orders, best, c[k])
                                      => \E t \in 1..Len(best.tied) : best.tied[t] = c[k]
          BY ONLY <1>3, <1>6, <2>2, <3>1, <3>2
    <3> QED BY <1>a, <3>3 DEF ScanInv, V, I, c
  <2> QED BY <2>1, <2>4 DEF next, p, c
<1>8. CASE V(p) # 0 /\ Improves(best, V(p), I(p))
  <2>1. next = [volume |-> V(p), imbalance |-> I(p), tied |-> <<p>>]
        BY <1>8 DEF Consider
  <2>2. /\ next.volume = V(p) /\ next.imbalance = I(p) /\ next.tied = <<p>>
        BY <2>1
  <2>3. \/ V(p) > best.volume
        \/ V(p) = best.volume /\ I(p) < best.imbalance
        BY <1>8 DEF Improves
  <2>4. \A x : Optimal(orders, next, x) <=> V(x) = V(p) /\ I(x) = I(p)
        BY <2>2 DEF Optimal
  <2>5. /\ Len(<<p>>) = 1 /\ \A t \in 1..1 : <<p>>[t] = p 
        /\ <<p>> \in Seq(Nat)
        BY <1>5
  <2> HIDE DEF V, I, c, next
  <2>6. \A k \in 1..n : ~(V(c[k]) = V(p) /\ I(c[k]) = I(p)) /\ V(c[k]) <= V(p) /\ (V(c[k]) = V(p) => I(p) <= I(c[k]))
    <3> TAKE k \in 1..n
    <3>1. V(c[k]) \in Nat /\ I(c[k]) \in Nat /\ V(c[k]) <= best.volume
          BY <1>2, <1>3
    <3>2. V(c[k]) = best.volume /\ best.volume > 0 => best.imbalance <= I(c[k])
          BY <1>3
    <3>3. best.volume \in Nat /\ best.imbalance \in Nat /\ V(p) # 0
          BY <1>3, <1>8
    <3> QED BY ONLY <1>5, <2>3, <3>1, <3>2, <3>3
  <2>7. /\ \A k \in 1..(n + 1) : V(c[k]) <= V(p)
        /\ \A k \in 1..(n + 1) : V(c[k]) = V(p) => I(p) <= I(c[k])
        /\ \A k \in 1..(n + 1) : V(c[k]) = V(p) /\ I(c[k]) = I(p) => c[k] = p
    <3> SUFFICES ASSUME NEW k \in 1..(n + 1)
                 PROVE  /\ V(c[k]) <= V(p)
                        /\ V(c[k]) = V(p) => I(p) <= I(c[k])
                        /\ V(c[k]) = V(p) /\ I(c[k]) = I(p) => c[k] = p
        OBVIOUS
    <3>1. CASE k \in 1..n
          BY <2>6, <3>1
    <3>2. CASE k = n + 1
          BY <1>5, <3>2
    <3> QED BY <1>4, <3>1, <3>2
  <2>8. \E k \in 1..(n + 1) : p = c[k]
    <3>1. n + 1 \in 1..(n + 1) /\ p = c[n + 1]
          OBVIOUS
    <3> QED BY <3>1
  <2> HIDE DEF p
  <2>9. /\ next.volume \in Nat /\ next.imbalance \in Nat /\ next.tied \in Seq(Nat)
        /\ \A k \in 1..(n + 1) : V(c[k]) <= next.volume
        /\ \A k \in 1..(n + 1) : V(c[k]) = next.volume => next.imbalance <= I(c[k])
        /\ Len(next.tied) > 0
        /\ \A t \in 1..Len(next.tied) :
              Optimal(orders, next, next.tied[t]) /\ \E k \in 1..(n + 1) : next.tied[t] = c[k]
        /\ \A s, t \in 1..Len(next.tied) : s < t => next.tied[s] < next.tied[t]
        /\ \A k \in 1..(n + 1) : Optimal(orders, next, c[k])
                              => \E t \in 1..Len(next.tied) : next.tied[t] = c[k]
    <3>1. /\ next.volume \in Nat /\ next.imbalance \in Nat /\ next.tied \in Seq(Nat)
          /\ Len(next.tied) = 1
          BY <1>5, <2>2, <2>5
    <3>2. \A t \in 1..Len(next.tied) : t = 1 /\ next.tied[t] = p
          BY <2>2, <2>5, <3>1
    <3>3. \A t \in 1..Len(next.tied) :
              Optimal(orders, next, next.tied[t]) /\ \E k \in 1..(n + 1) : next.tied[t] = c[k]
          BY <2>4, <2>8, <3>2
    <3>4. \A s, t \in 1..Len(next.tied) : s < t => next.tied[s] < next.tied[t]
          BY <3>1, <3>2
    <3>5. \A k \in 1..(n + 1) : Optimal(orders, next, c[k])
                              => \E t \in 1..Len(next.tied) : next.tied[t] = c[k]
      <4>1. 1 \in 1..Len(next.tied) /\ next.tied[1] = p
            BY <3>1, <3>2
      <4> QED BY <2>4, <2>7, <4>1
    <3>6. /\ \A k \in 1..(n + 1) : V(c[k]) <= next.volume
          /\ \A k \in 1..(n + 1) : V(c[k]) = next.volume => next.imbalance <= I(c[k])
          BY <2>2, <2>7
    <3>7. Len(next.tied) > 0
          BY <3>1
    <3> QED BY <3>1, <3>3, <3>4, <3>5, <3>6, <3>7
  <2>10. next \in [volume : Nat, imbalance : Nat, tied : Seq(Nat)]
         BY <1>5, <2>1, <2>5
  <2> QED BY <2>9, <2>10 DEF ScanInv, V, I, c, next, p
<1>9. CASE V(p) # 0 /\ V(p) = best.volume /\ I(p) = best.imbalance
  <2>1. ~Improves(best, V(p), I(p))
        BY <1>3, <1>5, <1>9 DEF Improves
  <2>2. next = [best EXCEPT !.tied = Append(@, p)]
        BY <1>9, <2>1 DEF Consider
  <2> DEFINE m == Len(best.tied)
             tied == Append(best.tied, p)
  <2>3. /\ m \in Nat /\ Len(tied) = m + 1 /\ tied \in Seq(Nat)
        /\ \A t \in 1..m : tied[t] = best.tied[t]
        /\ tied[m + 1] = p
        BY <1>3, <1>5
  <2>4. next.volume = best.volume /\ next.imbalance = best.imbalance /\ next.tied = tied
        BY <1>a, <2>2
  <2>14. next \in [volume : Nat, imbalance : Nat, tied : Seq(Nat)]
         BY <1>a, <2>2, <2>3
  <2>5. \A x : Optimal(orders, next, x) <=> Optimal(orders, best, x)
        BY <2>4 DEF Optimal
  <2>6. Optimal(orders, best, p) /\ best.volume > 0
        BY <1>3, <1>5, <1>6, <1>9
  <2> HIDE DEF V, I, c, next, p, tied, m
  <2>7. p = c[n + 1] /\ 1..n \in SUBSET (1..(n + 1)) /\ n + 1 \in 1..(n + 1)
        BY DEF p
  <2>8. \A t \in 1..(m + 1) : t \in 1..m \/ t = m + 1
        BY <2>3
  <2>9. \A t \in 1..(m + 1) : Optimal(orders, best, tied[t]) /\ \E k \in 1..(n + 1) : tied[t] = c[k]
    <3> TAKE t \in 1..(m + 1)
    <3>1. CASE t \in 1..m
      <4>1. tied[t] = best.tied[t]
            BY <2>3, <3>1
      <4>2. Optimal(orders, best, best.tied[t]) /\ \E k \in 1..n : best.tied[t] = c[k]
            BY <1>3, <2>6, <3>1 DEF m
      <4> QED BY <2>7, <4>1, <4>2
    <3>2. CASE t = m + 1
          BY <2>3, <2>6, <2>7, <3>2
    <3> QED BY <2>8, <3>1, <3>2
  <2>10. \A s, t \in 1..(m + 1) : s < t => tied[s] < tied[t]
    <3> TAKE s, t \in 1..(m + 1)
    <3> HAVE s < t
    <3>1. s \in 1..m
          BY <2>3
    <3>2. tied[s] = best.tied[s]
          BY <2>3, <3>1
    <3>3. CASE t \in 1..m
      <4>1. best.tied[s] < best.tied[t]
            BY <1>3, <2>6, <3>1, <3>3 DEF m
      <4> QED BY <2>3, <3>2, <3>3, <4>1
    <3>4. CASE t = m + 1
      <4>1. PICK k \in 1..n : best.tied[s] = c[k]
            BY <1>3, <2>6, <3>1 DEF m
      <4>2. c[k] < p
            BY <1>1
      <4> QED BY <2>3, <3>2, <3>4, <4>1, <4>2
    <3> QED BY <2>8, <3>3, <3>4
  <2>11. \A k \in 1..(n + 1) : Optimal(orders, best, c[k]) => \E t \in 1..(m + 1) : tied[t] = c[k]
    <3> TAKE k \in 1..(n + 1)
    <3> HAVE Optimal(orders, best, c[k])
    <3>1. CASE k \in 1..n
      <4>1. PICK t \in 1..m : best.tied[t] = c[k]
            BY <1>3, <2>6, <3>1 DEF m
      <4>2. t \in 1..(m + 1)
            BY <2>3
      <4> QED BY <2>3, <4>1, <4>2
    <3>2. CASE k = n + 1
      <4>1. m + 1 \in 1..(m + 1)
            BY <2>3
      <4> QED BY <2>3, <2>7, <3>2, <4>1
    <3> QED BY <1>4, <3>1, <3>2
  <2>12. \A k \in 1..(n + 1) : /\ V(c[k]) <= best.volume
                               /\ V(c[k]) = best.volume => best.imbalance <= I(c[k])
    <3> TAKE k \in 1..(n + 1)
    <3>1. CASE k \in 1..n
          BY <1>3, <2>6, <3>1
    <3>2. CASE k = n + 1
          BY <1>5, <1>9, <2>7, <3>2
    <3> QED BY <1>4, <3>1, <3>2
  <2>13. m + 1 > 0
         BY <2>3
  <2> QED BY <1>3, <2>3, <2>4, <2>5, <2>14, <2>9, <2>10, <2>11, <2>12, <2>13 DEF ScanInv, V, I, c, next, p
<1>10. CASE V(p) # 0 /\ ~Improves(best, V(p), I(p)) /\ ~(V(p) = best.volume /\ I(p) = best.imbalance)
  <2>1. next = best
        BY <1>10 DEF Consider
  <2>2. V(p) < best.volume \/ (V(p) = best.volume /\ I(p) > best.imbalance)
        BY <1>3, <1>5, <1>10 DEF Improves
  <2> HIDE DEF V, I, c, p, next
  <2>3. p = c[n + 1] /\ 1..n \in SUBSET (1..(n + 1))
        BY DEF p
  <2>4. /\ \A k \in 1..(n + 1) : V(c[k]) <= best.volume
        /\ best.volume > 0 => \A k \in 1..(n + 1) : V(c[k]) = best.volume => best.imbalance <= I(c[k])
        /\ \A k \in 1..(n + 1) : V(c[k]) = best.volume /\ I(c[k]) = best.imbalance => k \in 1..n
    <3> SUFFICES ASSUME NEW k \in 1..(n + 1)
                 PROVE  /\ V(c[k]) <= best.volume
                        /\ best.volume > 0 => (V(c[k]) = best.volume => best.imbalance <= I(c[k]))
                        /\ V(c[k]) = best.volume /\ I(c[k]) = best.imbalance => k \in 1..n
        OBVIOUS
    <3>1. CASE k \in 1..n
          BY <1>3, <3>1
    <3>2. CASE k = n + 1
      <4>1. c[k] = p
            BY <2>3, <3>2
      <4> QED BY <1>3, <1>5, <2>2, <4>1
    <3> QED BY <1>4, <3>1, <3>2
  <2>5. /\ best.volume \in Nat /\ best.imbalance \in Nat /\ best.tied \in Seq(Nat)
        /\ \A k \in 1..(n + 1) : V(c[k]) <= best.volume
        /\ best.volume > 0 =>
              /\ \A k \in 1..(n + 1) : V(c[k]) = best.volume => best.imbalance <= I(c[k])
              /\ Len(best.tied) > 0
              /\ \A t \in 1..Len(best.tied) :
                    Optimal(orders, best, best.tied[t]) /\ \E k \in 1..(n + 1) : best.tied[t] = c[k]
              /\ \A s, t \in 1..Len(best.tied) : s < t => best.tied[s] < best.tied[t]
              /\ \A k \in 1..(n + 1) : Optimal(orders, best, c[k])
                                    => \E t \in 1..Len(best.tied) : best.tied[t] = c[k]
        BY ONLY <1>3, <1>6, <2>3, <2>4
  <2>6. ScanInv(orders, n + 1, best)
        BY ONLY <1>a, <2>5 DEF ScanInv, V, I, c
  <2> QED BY <2>1, <2>6 DEF next, p, c
<1> QED BY <1>7, <1>8, <1>9, <1>10

\* The scan ends with the best of all the candidates.
LEMMA BestPricesAreBest ==
    ASSUME NEW orders, IsBook(orders)
    PROVE  ScanInv(orders, Len(Candidates(orders)), BestPrices(orders))
<1> DEFINE c == Candidates(orders)
           A == {n \in Nat : n <= Len(c) => ScanInv(orders, n, Scan(orders)[n])}
<1>1. Len(c) \in Nat
      BY CandidatesAscend
<1>2. /\ Scan(orders)[0] = NoneYet
      /\ \A n \in 1..Len(c) : Scan(orders)[n] = Consider(orders, Scan(orders)[n - 1], c[n])
      /\ BestPrices(orders) = Scan(orders)[Len(c)]
      BY <1>1, ScanRuns
<1>3. 0 \in A
  <2>1. /\ NoneYet \in [volume : Nat, imbalance : Nat, tied : Seq(Nat)]
        /\ NoneYet.volume = 0
        BY DEF NoneYet
  <2>2. ScanInv(orders, 0, NoneYet)
        BY <2>1 DEF ScanInv
  <2> QED BY <1>2, <2>2
<1>4. \A n \in A : n + 1 \in A
  <2> SUFFICES ASSUME NEW n \in A, n + 1 <= Len(c)
               PROVE  ScanInv(orders, n + 1, Scan(orders)[n + 1])
      OBVIOUS
  <2>1. n \in Nat /\ n <= Len(c) /\ n + 1 \in 1..Len(c)
        BY <1>1
  <2>2. ScanInv(orders, n, Scan(orders)[n])
        BY <2>1
  <2>3. Scan(orders)[n + 1] = Consider(orders, Scan(orders)[n], c[n + 1])
    <3>1. (n + 1) - 1 = n
          BY <2>1
    <3>2. Scan(orders)[n + 1] = Consider(orders, Scan(orders)[(n + 1) - 1], c[n + 1])
          BY <1>2, <2>1
    <3> QED BY <3>1, <3>2
  <2> QED BY <2>1, <2>2, <2>3, ScanKeepsTheBest
<1> HIDE DEF A
<1>5. A = Nat
      BY <1>3, <1>4, NatIsLeast DEF A
<1>6. ScanInv(orders, Len(c), Scan(orders)[Len(c)])
      BY <1>1, <1>5 DEF A
<1> QED BY <1>2, <1>6

\* A higher price brings fewer buyers and more sellers.
LEMMA InterestIsMonotone ==
    ASSUME NEW orders, IsBook(orders), NEW p \in Int, NEW q \in Int, p <= q
    PROVE  DemandAt(orders, q) <= DemandAt(orders, p) /\ SupplyAt(orders, p) <= SupplyAt(orders, q)
<1> DEFINE z == Sizes(orders)
           E(side, r) == Eligible(orders, side, r)
<1>1. \A i \in DOMAIN orders : orders[i].limitPrice \in Int
      BY DEF IsBook
<1>2. E("BUY", q) \in SUBSET E("BUY", p)
      BY <1>1 DEF Eligible, Accepts
<1>3. E("SELL", p) \in SUBSET E("SELL", q)
      BY <1>1 DEF Eligible, Accepts
<1>4. \A side, r : IsFiniteSet(E(side, r)) /\ \A i \in E(side, r) : z[i] \in Nat
      BY EligibleIsASide, SideFacts
<1> HIDE DEF z, E
<1>5. SumFunctionOnSet(z, E("BUY", q)) <= SumFunctionOnSet(z, E("BUY", p))
      BY <1>2, <1>4, SumOfPart
<1>6. SumFunctionOnSet(z, E("SELL", p)) <= SumFunctionOnSet(z, E("SELL", q))
      BY <1>3, <1>4, SumOfPart
<1> QED BY <1>5, <1>6 DEF z, E, DemandAt, SupplyAt, InterestAt

\* No limit of the book trades more than the best volume, and no other price
\* does either: the highest ask below it trades as much.
LEMMA NoPriceTradesMore ==
    ASSUME NEW orders, IsBook(orders), NEW p \in Nat
    PROVE  VolumeAt(orders, p) <= BestPrices(orders).volume
<1> DEFINE c == Candidates(orders)
           best == BestPrices(orders)
           E == Eligible(orders, "SELL", p)
           L == {orders[i].limitPrice : i \in E}
           f == [i \in E |-> orders[i].limitPrice]
<1>1. best.volume \in Nat /\ \A k \in 1..Len(c) : VolumeAt(orders, c[k]) <= best.volume
      BY BestPricesAreBest DEF ScanInv
<1>2. \A q \in Limits(orders) : q \in Nat /\ VolumeAt(orders, q) <= best.volume
      BY <1>1, CandidatesAscend
<1>3. CASE E = {}
  <2>1. SupplyAt(orders, p) = 0
        BY <1>3, SumOfNone DEF SupplyAt, InterestAt
  <2>2. /\ VolumeAt(orders, p) \in Nat /\ VolumeAt(orders, p) <= SupplyAt(orders, p)
        BY InterestIsNat
  <2> HIDE DEF best
  <2>3. VolumeAt(orders, p) <= best.volume
        BY ONLY <1>1, <2>1, <2>2
  <2> QED BY ONLY <2>3 DEF best
<1>4. CASE E # {}
  <2>1. L # {} /\ L \in SUBSET Limits(orders) /\ L \in SUBSET Int
        BY <1>2, <1>4 DEF Limits, Eligible
  <2>2. IsFiniteSet(L)
    <3>1. f \in Surjection(E, L)
          BY DEF Surjection
    <3>2. IsFiniteSet(E)
          BY EligibleIsASide, SideFacts
    <3> HIDE DEF f, E, L
    <3> QED BY <3>1, <3>2, FS_Surjection
  <2>3. PICK a \in L : \A q \in L : q <= a
    <3>1. \A x, y \in L : <<x, y>> \in Ascending(L) <=> x < y
          BY DEF Ascending
    <3> HIDE DEF L
    <3>2. IsStrictOrder(L, Ascending(L))
          BY <2>1, <3>1 DEF IsStrictOrder
    <3>3. PICK b \in L : IsLast(b, L, Ascending(L))
          BY <2>1, <2>2, <3>2, FirstAndLast
    <3>4. \A q \in L : q = b \/ q < b
          BY <3>1, <3>3 DEF IsLast
    <3>5. \A q \in L : q <= b
          BY <2>1, <3>4
    <3> QED BY <3>5
  <2>4. a \in Nat /\ a <= p
        BY <1>2, <2>1 DEF Eligible, Accepts
  <2>5. Eligible(orders, "SELL", a) = E
    <3>1. \A i \in DOMAIN orders : orders[i].limitPrice \in Int
          BY DEF IsBook
    <3>2. \A i \in E : i \in DOMAIN orders /\ orders[i].side = "SELL" /\ orders[i].limitPrice <= a
          BY <2>3 DEF Eligible
    <3>3. \A i \in Eligible(orders, "SELL", a) : i \in E
          BY <2>4, <3>1 DEF Eligible, Accepts
    <3> QED BY <3>2, <3>3 DEF Eligible, Accepts
  <2>6. SupplyAt(orders, a) = SupplyAt(orders, p)
        BY <2>5 DEF SupplyAt, InterestAt
  <2>7. DemandAt(orders, p) <= DemandAt(orders, a)
        BY <2>4, InterestIsMonotone
  <2>8. VolumeAt(orders, a) <= best.volume
        BY <1>2, <2>1
  <2>9. /\ VolumeAt(orders, p) \in Nat /\ VolumeAt(orders, a) \in Nat
        /\ DemandAt(orders, p) \in Nat /\ DemandAt(orders, a) \in Nat
        /\ VolumeAt(orders, p) <= DemandAt(orders, p) /\ VolumeAt(orders, p) <= SupplyAt(orders, p)
        BY InterestIsNat
  <2>10. VolumeAt(orders, p) <= DemandAt(orders, a) /\ VolumeAt(orders, p) <= SupplyAt(orders, a)
        BY <2>6, <2>7, <2>9
  <2>11. VolumeAt(orders, p) <= VolumeAt(orders, a)
        BY <2>9, <2>10, InterestIsNat
  <2> HIDE DEF best
  <2>12. VolumeAt(orders, p) <= best.volume
        BY ONLY <1>1, <2>8, <2>9, <2>11
  <2> QED BY ONLY <2>12 DEF best
<1> QED BY <1>3, <1>4

\* The clearing price lies between two limits of the book that trade the best
\* volume with the least imbalance, so it trades that volume too.
LEMMA ClearingPriceFacts ==
    ASSUME NEW orders, IsBook(orders), BestPrices(orders).volume > 0
    PROVE  LET best == BestPrices(orders)
               price == Midpoint(best.tied)
               low == best.tied[1]
               high == best.tied[Len(best.tied)]
           IN  /\ best.volume \in Nat /\ price \in Nat
               /\ low \in Limits(orders) /\ high \in Limits(orders)
               /\ Optimal(orders, best, low) /\ Optimal(orders, best, high)
               /\ \A p \in Limits(orders) : VolumeAt(orders, p) = best.volume =>
                     /\ best.imbalance <= ImbalanceAt(orders, p)
                     /\ best.imbalance = ImbalanceAt(orders, p) => low <= p /\ p <= high
               /\ price = (low + high) \div 2
               /\ best.volume <= InterestAt(orders, "BUY", price)
               /\ best.volume <= InterestAt(orders, "SELL", price)
               /\ VolumeAt(orders, price) = best.volume
<1> DEFINE c == Candidates(orders)
           best == BestPrices(orders)
           tied == best.tied
           n == Len(tied)
           low == tied[1]
           high == tied[n]
           price == Midpoint(tied)
<1>1. /\ best \in [volume : Nat, imbalance : Nat, tied : Seq(Nat)]
      /\ \A k \in 1..Len(c) : VolumeAt(orders, c[k]) = best.volume
                                    => best.imbalance <= ImbalanceAt(orders, c[k])
      /\ n > 0
      /\ \A t \in 1..n : Optimal(orders, best, tied[t]) /\ \E k \in 1..Len(c) : tied[t] = c[k]
      /\ \A s, t \in 1..n : s < t => tied[s] < tied[t]
      /\ \A k \in 1..Len(c) : Optimal(orders, best, c[k]) => \E t \in 1..n : tied[t] = c[k]
      BY BestPricesAreBest DEF ScanInv
<1>2. /\ \A k \in 1..Len(c) : c[k] \in Limits(orders)
      /\ \A p \in Limits(orders) : p \in Nat /\ \E k \in 1..Len(c) : c[k] = p
      BY CandidatesAscend
<1>3. best.volume \in Nat /\ best.volume > 0
      BY <1>1
<1>4. n \in Nat /\ 1 \in 1..n /\ n \in 1..n /\ \A t \in 1..n : tied[t] \in Nat
  <2>1. tied \in Seq(Nat)
        BY <1>1
  <2>2. n > 0
        BY <1>1
  <2> HIDE DEF tied
  <2> QED BY ONLY <2>1, <2>2
<1>5. price = (low + high) \div 2
      BY DEF Midpoint
<1> HIDE DEF c, best, tied, n, low, high, price
<1>6. \A t \in 1..n : low <= tied[t] /\ tied[t] <= high
  <2> TAKE t \in 1..n
  <2>1. t = 1 \/ 1 < t
        BY <1>4
  <2>2. t = n \/ t < n
        BY <1>4
  <2>3. tied[1] \in Nat /\ tied[t] \in Nat /\ tied[n] \in Nat
        BY <1>4
  <2>4. (1 < t => tied[1] < tied[t]) /\ (t < n => tied[t] < tied[n])
        BY <1>1, <1>4
  <2>5. tied[1] <= tied[t]
        BY ONLY <2>1, <2>3, <2>4
  <2>6. tied[t] <= tied[n]
        BY ONLY <2>2, <2>3, <2>4
  <2> QED BY <2>5, <2>6 DEF low, high
<1>7. /\ low \in Nat /\ high \in Nat /\ low <= high
      /\ low \in Limits(orders) /\ high \in Limits(orders)
      /\ Optimal(orders, best, low) /\ Optimal(orders, best, high)
      BY <1>1, <1>2, <1>4, <1>6 DEF low, high
<1>8. price \in Nat /\ low <= price /\ price <= high
      BY ONLY <1>5, <1>7
<1>9. \A p \in Limits(orders) : VolumeAt(orders, p) = best.volume =>
         /\ best.imbalance <= ImbalanceAt(orders, p)
         /\ best.imbalance = ImbalanceAt(orders, p) => low <= p /\ p <= high
  <2> TAKE p \in Limits(orders)
  <2> HAVE VolumeAt(orders, p) = best.volume
  <2>1. PICK k \in 1..Len(c) : c[k] = p
        BY <1>2
  <2>2. best.imbalance <= ImbalanceAt(orders, p)
        BY <1>1, <2>1
  <2>3. ASSUME best.imbalance = ImbalanceAt(orders, p) PROVE low <= p /\ p <= high
    <3>1. Optimal(orders, best, c[k])
          BY <2>1, <2>3 DEF Optimal
    <3>2. PICK t \in 1..n : tied[t] = p
          BY <1>1, <2>1, <3>1
    <3> QED BY <1>6, <3>2
  <2> QED BY <2>2, <2>3
<1>10. best.volume <= DemandAt(orders, price) /\ best.volume <= SupplyAt(orders, price)
  <2>1. VolumeAt(orders, low) = best.volume /\ VolumeAt(orders, high) = best.volume
        BY <1>7 DEF Optimal
  <2>2. best.volume <= DemandAt(orders, high) /\ best.volume <= SupplyAt(orders, low)
        BY <2>1, InterestIsNat
  <2>3. DemandAt(orders, high) <= DemandAt(orders, price) /\ SupplyAt(orders, low) <= SupplyAt(orders, price)
        BY <1>7, <1>8, InterestIsMonotone
  <2>4. /\ DemandAt(orders, high) \in Nat /\ DemandAt(orders, price) \in Nat
        /\ SupplyAt(orders, low) \in Nat /\ SupplyAt(orders, price) \in Nat
        BY InterestIsNat
  <2> QED BY ONLY <1>3, <2>2, <2>3, <2>4
<1>11. VolumeAt(orders, price) = best.volume
  <2>1. best.volume <= VolumeAt(orders, price) /\ VolumeAt(orders, price) \in Nat
        BY <1>3, <1>10, InterestIsNat
  <2>2. VolumeAt(orders, price) <= best.volume
        BY <1>8, NoPriceTradesMore DEF best
  <2> QED BY ONLY <1>3, <2>1, <2>2
<1>12. best.volume <= InterestAt(orders, "BUY", price) /\ best.volume <= InterestAt(orders, "SELL", price)
       BY <1>10 DEF DemandAt, SupplyAt
<1> QED BY ONLY <1>3, <1>5, <1>7, <1>8, <1>9, <1>11, <1>12 DEF best, tied, n, low, high, price

\* The orders that fill, on either side.
Winners(orders, price, volume) ==
    Filled(orders, "BUY", price, volume) \cup Filled(orders, "SELL", price, volume)

\* The fills of an auction come each from an order of its own, src[i].
TracedFills(orders, fills, price, v, src) ==
    LET q == QuoteAmount(v, price)
    IN  /\ Len(fills) \in Nat /\ DOMAIN fills = 1..Len(fills)
        /\ src \in Bijection(1..Len(fills), Winners(orders, price, v))
        /\ \A i \in 1..Len(fills) :
              /\ src[i] \in Filled(orders, fills[i].side, price, v)
              /\ fills[i].trader = orders[src[i]].trader
              /\ fills[i].side = orders[src[i]].side
              /\ fills[i].size = Given(orders, Eligible(orders, fills[i].side, price), v)[src[i]]
              /\ fills[i].size \in Nat \ {0} /\ fills[i].size <= v
              /\ fills[i].quote \in Nat
              /\ fills[i].quote * v < fills[i].size * q + v
              /\ fills[i].size * q < fills[i].quote * v + v
        /\ \A side \in {"BUY", "SELL"} :
              LET leg == {i \in DOMAIN fills : fills[i].side = side}
              IN  /\ SumFunctionOnSet(Sizes(fills), leg) = v
                  /\ SumFunctionOnSet(Quotes(fills), leg) = q

\* f is g on 1..m followed by h on 1..n.
Joins(m, n, f, g, h) ==
    /\ \A k \in 1..m : f[k] = g[k]
    /\ \A k \in 1..n : f[m + k] = h[k] /\ h[k] \in Int

\* Joining two sequences joins two sums.
LEMMA JoinedSums ==
    ASSUME NEW m \in Nat, NEW n \in Nat, NEW f, NEW g, NEW h, Joins(m, n, f, g, h)
    PROVE  /\ SumFunctionOnSet(f, 1..m) = SumFunctionOnSet(g, 1..m)
           /\ SumFunctionOnSet(f, (m + 1)..(m + n)) = SumFunctionOnSet(h, 1..n)
<1> DEFINE shift == [k \in 1..n |-> m + k]
<1>1. IsFiniteSet(1..m) /\ IsFiniteSet(1..n)
      BY FS_Interval
<1>2. SumFunctionOnSet(f, 1..m) = SumFunctionOnSet(g, 1..m)
      BY <1>1, SumsAreEqual DEF Joins
<1>3. shift \in Bijection(1..n, (m + 1)..(m + n))
  <2>1. \A y \in (m + 1)..(m + n) : y - m \in 1..n /\ shift[y - m] = y
        OBVIOUS
  <2>2. shift \in [1..n -> (m + 1)..(m + n)]
        OBVIOUS
  <2>3. \A a, b \in 1..n : shift[a] = shift[b] => a = b
        OBVIOUS
  <2> QED BY <2>1, <2>2, <2>3 DEF Bijection, Injection, Surjection, IsInjective
<1>4. \A y \in (m + 1)..(m + n) : f[y] \in Int
  <2> TAKE y \in (m + 1)..(m + n)
  <2>1. y - m \in 1..n /\ m + (y - m) = y
        OBVIOUS
  <2> QED BY <2>1 DEF Joins
<1>5. \A k \in 1..n : h[k] = f[shift[k]]
      BY DEF Joins
<1> HIDE DEF shift
<1>6. SumFunctionOnSet(h, 1..n) = SumFunctionOnSet(f, (m + 1)..(m + n))
      BY <1>1, <1>3, <1>4, <1>5, SumOfImage
<1> QED BY <1>2, <1>6

\* The fills of one side, each from an order of its queue.
TracedLeg(orders, side, price, v, leg, queue) ==
    LET q == QuoteAmount(v, price)
    IN  /\ Len(leg) \in Nat /\ leg \in Seq({leg[k] : k \in 1..Len(leg)})
        /\ queue \in Bijection(1..Len(leg), Filled(orders, side, price, v))
        /\ \A k \in 1..Len(leg) :
              /\ queue[k] \in Filled(orders, side, price, v)
              /\ leg[k].trader = orders[queue[k]].trader
              /\ leg[k].side = side /\ orders[queue[k]].side = side
              /\ leg[k].size = Given(orders, Eligible(orders, side, price), v)[queue[k]]
              /\ leg[k].size \in Nat \ {0} /\ leg[k].size <= v
              /\ leg[k].quote \in Nat
              /\ leg[k].quote * v < leg[k].size * q + v
              /\ leg[k].size * q < leg[k].quote * v + v
        /\ SumFunctionOnSet(Sizes(leg), 1..Len(leg)) = v
        /\ SumFunctionOnSet(Quotes(leg), 1..Len(leg)) = q

\* Each side that Clear makes is one.
LEMMA LegIsTraced ==
    ASSUME NEW orders, IsBook(orders), NEW side, NEW price \in Nat, NEW v \in Nat, v > 0,
           v <= InterestAt(orders, side, price)
    PROVE  TracedLeg(orders, side, price, v, LegFills(orders, side, price, v),
                     Queue(orders, side, price, v))
<1> DEFINE leg == LegFills(orders, side, price, v)
           queue == Queue(orders, side, price, v)
           filled == Filled(orders, side, price, v)
           given == Given(orders, Eligible(orders, side, price), v)
           q == QuoteAmount(v, price)
           fills == Allocate(orders, side, price, v)
           quotes == LargestRemainder(Sizes(fills), q)
<1>1. /\ Len(leg) \in Nat /\ DOMAIN leg = 1..Len(leg)
      /\ queue \in Bijection(1..Len(leg), filled)
      /\ \A k \in 1..Len(leg) :
            /\ leg[k] = [trader |-> orders[queue[k]].trader, side |-> side,
                         size |-> given[queue[k]], quote |-> Quotes(leg)[k]]
            /\ leg[k].size \in Nat \ {0} /\ leg[k].quote \in Nat
            /\ leg[k].quote * v < leg[k].size * q + v
            /\ leg[k].size * q < leg[k].quote * v + v
            /\ leg[k].size <= v
      /\ SumFunctionOnSet(Sizes(leg), 1..Len(leg)) = v
      /\ SumFunctionOnSet(Quotes(leg), 1..Len(leg)) = q
      BY LegFacts
<1>2. filled \in SUBSET Eligible(orders, side, price)
      BY AllocationFacts
<1>3. \A i \in Eligible(orders, side, price) : orders[i].side = side
      BY EligibleIsASide
<1>4. leg = [i \in DOMAIN fills |-> [trader |-> fills[i].trader, side |-> fills[i].side,
                                     size |-> fills[i].size, quote |-> quotes[i]]]
      BY DEF LegFills, WithQuote
<1> HIDE DEF leg, queue, filled, given, q, fills, quotes
<1>5. leg = [i \in 1..Len(leg) |-> leg[i]]
      BY <1>1, <1>4
<1>6. leg \in Seq({leg[k] : k \in 1..Len(leg)})
      BY <1>1, <1>5
<1>7. \A k \in 1..Len(leg) : queue[k] \in filled
      BY <1>1 DEF Bijection, Injection
<1>8. \A k \in 1..Len(leg) :
            /\ leg[k].trader = orders[queue[k]].trader
            /\ leg[k].side = side /\ leg[k].size = given[queue[k]]
      BY <1>1
<1>9. \A k \in 1..Len(leg) : orders[queue[k]].side = side
      BY <1>2, <1>3, <1>7
<1>10. \A k \in 1..Len(leg) :
          /\ leg[k].size \in Nat \ {0} /\ leg[k].size <= v
          /\ leg[k].quote \in Nat
          /\ leg[k].quote * v < leg[k].size * q + v
          /\ leg[k].size * q < leg[k].quote * v + v
       BY <1>1
<1>11. TracedLeg(orders, side, price, v, leg, queue)
       BY <1>1, <1>6, <1>7, <1>8, <1>9, <1>10 DEF TracedLeg, filled, given, q
<1> QED BY <1>11 DEF leg, queue

\* The two sides together.
LEMMA LegsAreTraced ==
    ASSUME NEW orders, IsBook(orders), NEW price \in Nat, NEW v \in Nat,
           NEW b, NEW qb, TracedLeg(orders, "BUY", price, v, b, qb),
           NEW s, NEW qs, TracedLeg(orders, "SELL", price, v, s, qs)
    PROVE  \E src : TracedFills(orders, b \o s, price, v, src)
<1> DEFINE m == Len(b)
           n == Len(s)
           fills == b \o s
           src == [i \in 1..(m + n) |-> IF i <= m THEN qb[i] ELSE qs[i - m]]
           FB == Filled(orders, "BUY", price, v)
           FS == Filled(orders, "SELL", price, v)
           q == QuoteAmount(v, price)
           R == {b[k] : k \in 1..m} \cup {s[k] : k \in 1..n}
           Good(i) ==
              /\ src[i] \in Filled(orders, fills[i].side, price, v)
              /\ fills[i].trader = orders[src[i]].trader
              /\ fills[i].side = orders[src[i]].side
              /\ fills[i].size = Given(orders, Eligible(orders, fills[i].side, price), v)[src[i]]
              /\ fills[i].size \in Nat \ {0} /\ fills[i].size <= v
              /\ fills[i].quote \in Nat
              /\ fills[i].quote * v < fills[i].size * q + v
              /\ fills[i].size * q < fills[i].quote * v + v
<1>1. m \in Nat /\ n \in Nat
      BY DEF TracedLeg
<1>2. /\ Len(fills) = m + n /\ DOMAIN fills = 1..(m + n)
      /\ \A k \in 1..m : fills[k] = b[k]
      /\ \A k \in 1..n : fills[m + k] = s[k]
  <2>1. b \in Seq({b[k] : k \in 1..m}) /\ s \in Seq({s[k] : k \in 1..n})
        BY DEF TracedLeg
  <2>2. b \in Seq(R) /\ s \in Seq(R)
    <3> DEFINE B == {b[k] : k \in 1..m}
               S == {s[k] : k \in 1..n}
    <3>1. b \in Seq(B) /\ s \in Seq(S) /\ B \in SUBSET (B \cup S) /\ S \in SUBSET (B \cup S)
          BY <2>1
    <3> HIDE DEF B, S, m, n
    <3>2. b \in Seq(B \cup S) /\ s \in Seq(B \cup S)
          BY <3>1
    <3> QED BY <3>2 DEF B, S
  <2> HIDE DEF R
  <2>3. Len(fills) = Len(b) + Len(s) /\ fills \in Seq(R)
        BY <2>2
  <2>4. \A i \in 1..(m + n) : fills[i] = IF i <= m THEN b[i] ELSE s[i - m]
        BY <1>1, <2>2
  <2>5. \A k \in 1..m : k \in 1..(m + n) /\ k <= m
        BY <1>1
  <2>6. \A k \in 1..n : m + k \in 1..(m + n) /\ ~(m + k <= m) /\ (m + k) - m = k
        BY <1>1
  <2> HIDE DEF fills
  <2>7. DOMAIN fills = 1..Len(fills)
        BY <2>3
  <2> QED BY <2>3, <2>4, <2>5, <2>6, <2>7
<1>3. /\ \A k \in 1..m : src[k] = qb[k]
      /\ \A k \in 1..n : src[m + k] = qs[k]
      /\ src = [i \in 1..(m + n) |-> src[i]]
  <2>1. \A k \in 1..n : (m + k) - m = k /\ ~(m + k <= m) /\ m + k \in 1..(m + n)
        BY <1>1
  <2>2. \A k \in 1..m : k <= m /\ k \in 1..(m + n)
        BY <1>1
  <2> HIDE DEF m, n
  <2> QED BY <2>1, <2>2
<1>4. \A i \in 1..(m + n) : i \in 1..m \/ \E k \in 1..n : i = m + k
  <2> SUFFICES ASSUME NEW i \in 1..(m + n), ~(i \in 1..m)
               PROVE  \E k \in 1..n : i = m + k
      OBVIOUS
  <2>1. i - m \in 1..n /\ i = m + (i - m)
        BY <1>1
  <2> QED BY <2>1
<1>5. /\ qb \in Bijection(1..m, FB) /\ qs \in Bijection(1..n, FS)
      /\ \A k \in 1..m : qb[k] \in FB /\ orders[qb[k]].side = "BUY" /\ b[k].side = "BUY"
      /\ \A k \in 1..n : qs[k] \in FS /\ orders[qs[k]].side = "SELL" /\ s[k].side = "SELL"
      BY DEF TracedLeg
<1>6. \A k \in 1..m :
          /\ b[k].trader = orders[qb[k]].trader
          /\ b[k].size = Given(orders, Eligible(orders, "BUY", price), v)[qb[k]]
          /\ b[k].size \in Nat \ {0} /\ b[k].size <= v /\ b[k].quote \in Nat
          /\ b[k].quote * v < b[k].size * q + v
          /\ b[k].size * q < b[k].quote * v + v
      BY DEF TracedLeg
<1>7. \A k \in 1..n :
          /\ s[k].trader = orders[qs[k]].trader
          /\ s[k].size = Given(orders, Eligible(orders, "SELL", price), v)[qs[k]]
          /\ s[k].size \in Nat \ {0} /\ s[k].size <= v /\ s[k].quote \in Nat
          /\ s[k].quote * v < s[k].size * q + v
          /\ s[k].size * q < s[k].quote * v + v
      BY DEF TracedLeg
<1>8. /\ SumFunctionOnSet(Sizes(b), 1..m) = v /\ SumFunctionOnSet(Quotes(b), 1..m) = q
      /\ SumFunctionOnSet(Sizes(s), 1..n) = v /\ SumFunctionOnSet(Quotes(s), 1..n) = q
      BY DEF TracedLeg
<1>9. DOMAIN b = 1..m /\ DOMAIN s = 1..n
      BY DEF TracedLeg
<1> HIDE DEF m, n, fills, src, R, q, FB, FS
<1>10. src \in Bijection(1..(m + n), FB \cup FS)
  <2>1. \A i \in 1..(m + n) : src[i] \in FB \cup FS
    <3> TAKE i \in 1..(m + n)
    <3>1. CASE i \in 1..m
          BY <1>3, <1>5, <3>1
    <3>2. CASE ~(i \in 1..m)
      <4>1. PICK k \in 1..n : i = m + k
            BY <1>4, <3>2
      <4> QED BY <1>3, <1>5, <4>1
    <3> QED BY <3>1, <3>2
  <2>2. \A y \in FB \cup FS : \E i \in 1..(m + n) : src[i] = y
    <3>1. ASSUME NEW y \in FB PROVE \E i \in 1..(m + n) : src[i] = y
      <4>1. PICK k \in 1..m : qb[k] = y
            BY <1>5 DEF Bijection, Surjection
      <4>2. k \in 1..(m + n)
            BY <1>1
      <4> QED BY <1>3, <4>1, <4>2
    <3>2. ASSUME NEW y \in FS PROVE \E i \in 1..(m + n) : src[i] = y
      <4>1. PICK k \in 1..n : qs[k] = y
            BY <1>5 DEF Bijection, Surjection
      <4>2. m + k \in 1..(m + n)
            BY <1>1
      <4> QED BY <1>3, <4>1, <4>2
    <3> QED BY <3>1, <3>2
  <2>3. ASSUME NEW i \in 1..(m + n), NEW j \in 1..(m + n), src[i] = src[j] PROVE i = j
    <3>1. /\ \A k, l \in 1..m : qb[k] = qb[l] => k = l
          /\ \A k, l \in 1..n : qs[k] = qs[l] => k = l
          BY <1>5 DEF Bijection, Injection, IsInjective
    <3>2. CASE i \in 1..m /\ j \in 1..m
          BY <1>3, <2>3, <3>1, <3>2
    <3>3. CASE i \in 1..m /\ ~(j \in 1..m)
          BY <1>3, <1>4, <1>5, <2>3, <3>3
    <3>4. CASE ~(i \in 1..m) /\ j \in 1..m
          BY <1>3, <1>4, <1>5, <2>3, <3>4
    <3>5. CASE ~(i \in 1..m) /\ ~(j \in 1..m)
      <4>1. PICK k \in 1..n : i = m + k
            BY <1>4, <3>5
      <4>2. PICK l \in 1..n : j = m + l
            BY <1>4, <3>5
      <4>3. qs[k] = qs[l]
            BY <1>3, <2>3, <4>1, <4>2
      <4> QED BY <3>1, <4>1, <4>2, <4>3
    <3> QED BY <3>2, <3>3, <3>4, <3>5
  <2>4. src \in [1..(m + n) -> FB \cup FS]
        BY <1>3, <2>1
  <2> QED BY <2>2, <2>3, <2>4 DEF Bijection, Injection, Surjection, IsInjective
<1>11. \A i \in 1..(m + n) : Good(i)
  <2>1. ASSUME NEW k \in 1..m PROVE Good(k)
    <3>1. fills[k] = b[k] /\ src[k] = qb[k] /\ b[k].side = "BUY"
          BY <1>2, <1>3, <1>5
    <3> QED BY <1>5, <1>6, <3>1 DEF FB
  <2>2. ASSUME NEW k \in 1..n PROVE Good(m + k)
    <3>1. fills[m + k] = s[k] /\ src[m + k] = qs[k] /\ s[k].side = "SELL"
          BY <1>2, <1>3, <1>5
    <3> QED BY <1>5, <1>7, <3>1 DEF FS
  <2> HIDE DEF Good
  <2> QED BY <1>4, <2>1, <2>2
<1>12. ASSUME NEW side \in {"BUY", "SELL"}
       PROVE  LET leg == {i \in DOMAIN fills : fills[i].side = side}
              IN  /\ SumFunctionOnSet(Sizes(fills), leg) = v
                  /\ SumFunctionOnSet(Quotes(fills), leg) = q
  <2> DEFINE leg == {i \in DOMAIN fills : fills[i].side = side}
  <2>1. /\ \A k \in 1..m : k \in 1..(m + n)
        /\ \A k \in 1..n : m + k \in 1..(m + n) /\ m + k \notin 1..m
        /\ \A i \in (m + 1)..(m + n) : i \in 1..(m + n) /\ i \notin 1..m
        /\ \A i \in 1..(m + n) : i \notin 1..m => i \in (m + 1)..(m + n)
        BY <1>1
  <2>2. /\ \A k \in 1..m : Sizes(fills)[k] = Sizes(b)[k] /\ Quotes(fills)[k] = Quotes(b)[k]
        /\ \A k \in 1..n : Sizes(fills)[m + k] = Sizes(s)[k] /\ Quotes(fills)[m + k] = Quotes(s)[k]
        BY <1>2, <1>9, <2>1 DEF Sizes, Quotes
  <2>3. \A k \in 1..n : Sizes(s)[k] \in Int /\ Quotes(s)[k] \in Int
        BY <1>7, <1>9 DEF Sizes, Quotes
  <2>4. /\ SumFunctionOnSet(Sizes(fills), 1..m) = v
        /\ SumFunctionOnSet(Sizes(fills), (m + 1)..(m + n)) = v
    <3> DEFINE f == Sizes(fills)
               g == Sizes(b)
               h == Sizes(s)
    <3>1. \A k \in 1..m : f[k] = g[k]
          BY <2>2
    <3>2. \A k \in 1..n : f[m + k] = h[k] /\ h[k] \in Int
          BY <2>2, <2>3
    <3>3. SumFunctionOnSet(g, 1..m) = v /\ SumFunctionOnSet(h, 1..n) = v
          BY <1>8
    <3> HIDE DEF f, g, h
    <3>4. /\ SumFunctionOnSet(f, 1..m) = SumFunctionOnSet(g, 1..m)
          /\ SumFunctionOnSet(f, (m + 1)..(m + n)) = SumFunctionOnSet(h, 1..n)
      <4>1. Joins(m, n, f, g, h)
            BY ONLY <3>1, <3>2 DEF Joins
      <4> QED BY ONLY <1>1, <4>1, JoinedSums
    <3> QED BY ONLY <3>3, <3>4 DEF f
  <2>5. /\ SumFunctionOnSet(Quotes(fills), 1..m) = q
        /\ SumFunctionOnSet(Quotes(fills), (m + 1)..(m + n)) = q
    <3> DEFINE f == Quotes(fills)
               g == Quotes(b)
               h == Quotes(s)
    <3>1. \A k \in 1..m : f[k] = g[k]
          BY <2>2
    <3>2. \A k \in 1..n : f[m + k] = h[k] /\ h[k] \in Int
          BY <2>2, <2>3
    <3>3. SumFunctionOnSet(g, 1..m) = q /\ SumFunctionOnSet(h, 1..n) = q
          BY <1>8
    <3> HIDE DEF f, g, h
    <3>4. /\ SumFunctionOnSet(f, 1..m) = SumFunctionOnSet(g, 1..m)
          /\ SumFunctionOnSet(f, (m + 1)..(m + n)) = SumFunctionOnSet(h, 1..n)
      <4>1. Joins(m, n, f, g, h)
            BY ONLY <3>1, <3>2 DEF Joins
      <4> QED BY ONLY <1>1, <4>1, JoinedSums
    <3> QED BY ONLY <3>3, <3>4 DEF f
  <2>6. \A i \in 1..(m + n) : fills[i].side = IF i \in 1..m THEN "BUY" ELSE "SELL"
        BY <1>2, <1>4, <1>5, <2>1
  <2>7. leg = IF side = "BUY" THEN 1..m ELSE (m + 1)..(m + n)
        BY <1>2, <2>1, <2>6
  <2> HIDE DEF leg
  <2>8. SumFunctionOnSet(Sizes(fills), leg) = v /\ SumFunctionOnSet(Quotes(fills), leg) = q
        BY <2>4, <2>5, <2>7
  <2> QED BY <2>8 DEF leg
<1>13. FB \cup FS = Winners(orders, price, v)
       BY DEF FB, FS, Winners
<1>14. Len(fills) \in Nat /\ DOMAIN fills = 1..Len(fills)
       BY <1>1, <1>2
<1>15. src \in Bijection(1..Len(fills), Winners(orders, price, v))
       BY <1>2, <1>10, <1>13
<1>16. \A i \in 1..Len(fills) : Good(i)
       BY <1>2, <1>11
<1>17. TracedFills(orders, fills, price, v, src)
       BY ONLY <1>12, <1>14, <1>15, <1>16 DEF TracedFills, q
<1> QED BY <1>17 DEF fills

\* What Clear makes of a book whose best price trades something, and of one
\* where no price does.
LEMMA ClearIsTraced ==
    ASSUME NEW orders, IsBook(orders)
    PROVE  /\ Clear(orders).volume = BestPrices(orders).volume /\ Clear(orders).volume \in Nat
           /\ BestPrices(orders).volume = 0 => Clear(orders) = NoTrade
           /\ Clear(orders).volume > 0 =>
                /\ Clear(orders).clearingPrice = Midpoint(BestPrices(orders).tied)
                /\ \E src : TracedFills(orders, Clear(orders).fills, Clear(orders).clearingPrice,
                                        Clear(orders).volume, src)
<1> DEFINE best == BestPrices(orders)
           price == Midpoint(best.tied)
           b == LegFills(orders, "BUY", price, best.volume)
           s == LegFills(orders, "SELL", price, best.volume)
<1>1. best.volume \in Nat
      BY BestPricesAreBest DEF ScanInv
<1>2. Clear(orders) = IF best.volume = 0 THEN NoTrade
                      ELSE [clearingPrice |-> price, volume |-> best.volume, fills |-> b \o s]
      BY DEF Clear
<1>3. CASE best.volume = 0
  <2> HIDE DEF best
  <2>1. Clear(orders) = NoTrade /\ Clear(orders).volume = 0
        BY <1>2, <1>3 DEF NoTrade
  <2>2. ~(Clear(orders).volume > 0)
        BY <2>1
  <2> QED BY <1>3, <2>1, <2>2 DEF best
<1>4. CASE best.volume > 0
  <2>1. /\ price \in Nat
        /\ best.volume <= InterestAt(orders, "BUY", price)
        /\ best.volume <= InterestAt(orders, "SELL", price)
        BY <1>4, ClearingPriceFacts
  <2>2. PICK qb : TracedLeg(orders, "BUY", price, best.volume, b, qb)
        BY <1>1, <1>4, <2>1, LegIsTraced
  <2>3. PICK qs : TracedLeg(orders, "SELL", price, best.volume, s, qs)
        BY <1>1, <1>4, <2>1, LegIsTraced
  <2> HIDE DEF best, price, b, s
  <2>4. \E src : TracedFills(orders, b \o s, price, best.volume, src)
        BY <1>1, <2>1, <2>2, <2>3, LegsAreTraced
  <2>5. /\ Clear(orders).volume = best.volume /\ Clear(orders).clearingPrice = price
        /\ Clear(orders).fills = b \o s
        BY <1>2, <1>4
  <2>6. best.volume # 0
        BY <1>4
  <2> QED BY <1>1, <2>4, <2>5, <2>6 DEF best, price
<1> QED BY <1>1, <1>3, <1>4

-----------------------------------------------------------------------------
(* Quotes                                                                  *)

\* A quote is a whole number of units.
LEMMA QuoteAmountIsNat ==
    ASSUME NEW size \in Nat, NEW price \in Nat
    PROVE  QuoteAmount(size, price) \in Nat /\ QuoteAmount(0, 0) = 0
<1>1. size * price \in Nat
      OBVIOUS
<1>2. PriceScale \in Nat /\ PriceScale > 0
      BY PriceScaleIsPositive
<1>3. (size * price) \div PriceScale \in Nat
      BY <1>1, <1>2, DivisionLeavesRemainder
<1>4. (0 * 0) \div PriceScale = 0
      BY <1>2
<1> QED BY <1>3, <1>4 DEF QuoteAmount

\* Multiplying by a natural keeps order, and can be undone.
LEMMA ProductsKeepOrder ==
    ASSUME NEW a \in Int, NEW b \in Int, NEW c \in Nat
    PROVE  a * c \in Int /\ b * c \in Int /\ (a <= b => a * c <= b * c) /\ (a * c < b * c => a < b)
OBVIOUS

\* Strictly, if the natural is positive.
LEMMA StrictProducts ==
    ASSUME NEW a \in Int, NEW b \in Int, a < b, NEW c \in Nat, c > 0
    PROVE  a * c < b * c
<1>1. (a + 1) * c <= b * c
      BY ProductsKeepOrder
<1>2. (a + 1) * c = a * c + c /\ a * c \in Int /\ b * c \in Int
      OBVIOUS
<1> QED BY <1>1, <1>2

\* Rounding down commutes with comparing to a whole number.
LEMMA QuotientIsLargest ==
    ASSUME NEW a \in Nat, NEW b \in Nat, b > 0, NEW d \in Int
    PROVE  /\ d * b <= a => d <= a \div b
           /\ a < d * b => a \div b < d
<1>1. a \div b \in Nat /\ a % b \in 0..(b - 1) /\ a = b * (a \div b) + (a % b)
      BY DivisionLeavesRemainder
<1>2. PICK x, r : x = a \div b /\ r = a % b
      OBVIOUS
<1>3. x \in Nat /\ r \in 0..(b - 1) /\ a = x * b + r
      BY ONLY <1>1, <1>2
<1>4. d * b <= a => d <= x
  <2> SUFFICES ASSUME d * b <= a, d >= x + 1 PROVE FALSE
      BY <1>3
  <2>1. (x + 1) * b <= d * b
        BY <1>3, ProductsKeepOrder
  <2>2. (x + 1) * b = x * b + b
        BY <1>3
  <2> QED BY <1>3, <2>1, <2>2
<1>5. a < d * b => x < d
  <2> SUFFICES ASSUME a < d * b, d <= x PROVE FALSE
      BY <1>3
  <2>1. d * b <= x * b
        BY <1>3, ProductsKeepOrder
  <2> QED BY <1>3, <2>1
<1> QED BY <1>2, <1>4, <1>5

\* Rounding the quote twice, once for the leg and once for the fill: a fill pays
\* less than one unit over what its size is worth at a limit it accepts, and
\* receives less than two under.
LEMMA TwoRoundings ==
    ASSUME NEW size \in Nat, NEW quote \in Nat, NEW v \in Nat, v > 0, size <= v,
           NEW price \in Nat, NEW limit \in Nat,
           quote * v < size * QuoteAmount(v, price) + v,
           size * QuoteAmount(v, price) < quote * v + v
    PROVE  /\ price <= limit => (quote - 1) * PriceScale < size * limit
           /\ limit <= price => size * limit < (quote + 2) * PriceScale
<1> DEFINE P == PriceScale
           q == QuoteAmount(v, price)
<1>1. P \in Nat /\ P > 0
      BY PriceScaleIsPositive
<1>2. q \in Nat
      BY QuoteAmountIsNat
<1>3. q * P <= v * price /\ v * price < (q + 1) * P
  <2>1. v * price \in Nat
        OBVIOUS
  <2>2. q = (v * price) \div P
        BY DEF QuoteAmount
  <2> HIDE DEF q, P
  <2>3. v * price = P * q + ((v * price) % P) /\ (v * price) % P \in 0..(P - 1)
        BY <1>1, <2>1, <2>2, DivisionLeavesRemainder
  <2>4. PICK r \in 0..(P - 1) : v * price = P * q + r
        BY <2>3
  <2> QED BY ONLY <1>1, <1>2, <2>1, <2>4
<1>4. size * price \in Nat /\ size * limit \in Nat
      OBVIOUS
<1>5. quote * v < size * q + v /\ size * q < quote * v + v
      OBVIOUS
<1> HIDE DEF P, q
<1>6. ASSUME price <= limit PROVE (quote - 1) * P < size * limit
  <2>1. (quote - 1) * v < size * q
        BY <1>2, <1>5
  <2>2. ((quote - 1) * v) * P < (size * q) * P
        BY <1>1, <1>2, <2>1, StrictProducts
  <2>3. (q * P) * size <= (v * price) * size
        BY <1>1, <1>2, <1>3, ProductsKeepOrder
  <2>4. (size * q) * P = (q * P) * size /\ ((quote - 1) * v) * P = ((quote - 1) * P) * v
        BY <1>1, <1>2
  <2>5. (v * price) * size = (size * price) * v
        OBVIOUS
  <2>6. ((quote - 1) * P) * v < (size * price) * v
        BY <1>1, <1>2, <2>2, <2>3, <2>4, <2>5
  <2>7. (quote - 1) * P < size * price
    <3>1. PICK x, y \in Int : x = (quote - 1) * P /\ y = size * price
          BY <1>1, <1>4
    <3>2. x * v < y * v
          BY <2>6, <3>1
    <3> QED BY <3>1, <3>2, ProductsKeepOrder
  <2>8. size * price <= size * limit
    <3>1. price * size <= limit * size
          BY <1>6, ProductsKeepOrder
    <3> QED BY <3>1
  <2>9. (quote - 1) * P \in Int
        BY <1>1
  <2> QED BY <1>4, <2>7, <2>8, <2>9
<1>7. ASSUME limit <= price PROVE size * limit < (quote + 2) * P
  <2>1. size * q + size < (quote + 2) * v
        BY <1>2, <1>5
  <2>2. (size * q + size) * P < ((quote + 2) * v) * P
        BY <1>1, <1>2, <2>1, StrictProducts
  <2>3. (v * price) * size <= ((q + 1) * P) * size
    <3>1. v * price \in Int /\ (q + 1) * P \in Int
          BY <1>1, <1>2
    <3> QED BY <1>3, <3>1, ProductsKeepOrder
  <2>4. ((q + 1) * P) * size = (size * q + size) * P /\ ((quote + 2) * v) * P = ((quote + 2) * P) * v
        BY <1>1, <1>2
  <2>5. (v * price) * size = (size * price) * v
        OBVIOUS
  <2>6. (size * price) * v < ((quote + 2) * P) * v
        BY <1>1, <1>2, <2>2, <2>3, <2>4, <2>5
  <2>7. size * price < (quote + 2) * P
    <3>1. PICK x, y \in Int : x = size * price /\ y = (quote + 2) * P
          BY <1>1, <1>4
    <3>2. x * v < y * v
          BY <2>6, <3>1
    <3> QED BY <3>1, <3>2, ProductsKeepOrder
  <2>8. size * limit <= size * price
    <3>1. limit * size <= price * size
          BY <1>7, ProductsKeepOrder
    <3> QED BY <3>1
  <2>9. (quote + 2) * P \in Int
        BY <1>1
  <2> QED BY <1>4, <2>7, <2>8, <2>9
<1> QED BY <1>6, <1>7 DEF P

\* So no quote is more than a unit from that of its limit the wrong way.
LEMMA QuoteNearLimit ==
    ASSUME NEW size \in Nat, NEW quote \in Nat, NEW limit \in Nat
    PROVE  /\ (quote - 1) * PriceScale < size * limit => quote <= QuoteAmount(size, limit) + 1
           /\ size * limit < (quote + 2) * PriceScale => quote >= QuoteAmount(size, limit) - 1
<1>1. PriceScale \in Nat /\ PriceScale > 0 /\ size * limit \in Nat
      BY PriceScaleIsPositive
<1>2. QuoteAmount(size, limit) = (size * limit) \div PriceScale /\ QuoteAmount(size, limit) \in Nat
      BY QuoteAmountIsNat DEF QuoteAmount
<1>3. ASSUME (quote - 1) * PriceScale < size * limit PROVE quote <= QuoteAmount(size, limit) + 1
  <2>1. (quote - 1) * PriceScale <= size * limit
        BY <1>1, <1>3
  <2>2. quote - 1 <= (size * limit) \div PriceScale
        BY <1>1, <2>1, QuotientIsLargest
  <2> QED BY <1>2, <2>2
<1>4. ASSUME size * limit < (quote + 2) * PriceScale PROVE quote >= QuoteAmount(size, limit) - 1
  <2>1. (size * limit) \div PriceScale < quote + 2
        BY <1>1, <1>4, QuotientIsLargest
  <2> QED BY <1>2, <2>1
<1> QED BY <1>3, <1>4

-----------------------------------------------------------------------------
(* Fills and orders                                                        *)

\* What a fill of a book may be, and when it is on terms that an order offered.
FillsOf(orders) == [trader : {orders[i].trader : i \in DOMAIN orders},
                    side : {"BUY", "SELL"}, size : Nat \ {0}, quote : Nat]
OnTerms(f, o) ==
    /\ f.trader = o.trader /\ f.side = o.side /\ f.size <= o.size
    /\ o.side = "BUY" => (f.quote - 1) * PriceScale < f.size * o.limitPrice
    /\ o.side = "SELL" => f.size * o.limitPrice < (f.quote + 2) * PriceScale

\* One side of a result is a sequence of such fills.
LEMMA LegIsOfFills ==
    ASSUME NEW orders, IsBook(orders), NEW side \in {"BUY", "SELL"},
           NEW price \in Nat, NEW v \in Nat, v > 0, v <= InterestAt(orders, side, price)
    PROVE  LegFills(orders, side, price, v) \in Seq(FillsOf(orders))
<1> DEFINE leg == LegFills(orders, side, price, v)
           queue == Queue(orders, side, price, v)
           given == Given(orders, Eligible(orders, side, price), v)
           filled == Filled(orders, side, price, v)
<1>1. /\ queue \in Bijection(1..Len(leg), filled)
      /\ \A k \in 1..Len(leg) :
            /\ leg[k] = [trader |-> orders[queue[k]].trader, side |-> side,
                         size |-> given[queue[k]], quote |-> Quotes(leg)[k]]
            /\ leg[k].size \in Nat \ {0} /\ leg[k].quote \in Nat
      BY LegFacts
<1>2. leg \in Seq({leg[k] : k \in 1..Len(leg)})
      BY LegIsTraced DEF TracedLeg
<1>3. filled \in SUBSET DOMAIN orders
      BY AllocationFacts DEF Eligible
<1> HIDE DEF leg, queue, given, filled
<1>4. ASSUME NEW k \in 1..Len(leg) PROVE leg[k] \in FillsOf(orders)
  <2>1. queue[k] \in DOMAIN orders
        BY <1>1, <1>3 DEF Bijection, Injection
  <2>2. leg[k] = [trader |-> orders[queue[k]].trader, side |-> side,
                  size |-> given[queue[k]], quote |-> Quotes(leg)[k]]
        BY <1>1
  <2>3. given[queue[k]] \in Nat \ {0} /\ Quotes(leg)[k] \in Nat
        BY <1>1, <2>2
  <2> QED BY <2>1, <2>2, <2>3 DEF FillsOf
<1>5. {leg[k] : k \in 1..Len(leg)} \in SUBSET FillsOf(orders)
      BY <1>4
<1>6. leg \in Seq(FillsOf(orders))
      BY <1>2, <1>5
<1> QED BY <1>6 DEF leg

\* Clear makes a sequence of fills, each on the terms of an order of its own.
LEMMA ClearOnTerms ==
    ASSUME NEW orders, IsBook(orders)
    PROVE  /\ Clear(orders).fills \in Seq(FillsOf(orders))
           /\ Clear(orders).clearingPrice \in Nat
           /\ \E src \in Injection(DOMAIN Clear(orders).fills, DOMAIN orders) :
                 \A i \in DOMAIN Clear(orders).fills :
                    OnTerms(Clear(orders).fills[i], orders[src[i]])
<1> DEFINE v == Clear(orders).volume
           price == Clear(orders).clearingPrice
           fills == Clear(orders).fills
<1>1. v \in Nat /\ v = BestPrices(orders).volume
      BY ClearIsTraced
<1>2. CASE v = 0
  <2>1. Clear(orders) = NoTrade
        BY <1>1, <1>2, ClearIsTraced
  <2>2. fills = <<>> /\ price = 0
        BY <2>1 DEF NoTrade
  <2> HIDE DEF fills, price
  <2>3. DOMAIN fills = {}
        BY <2>2
  <2> DEFINE src == [i \in {} |-> i]
  <2>4. src \in Injection(DOMAIN fills, DOMAIN orders)
        BY <2>3 DEF Injection, IsInjective
  <2>5. fills \in Seq(FillsOf(orders))
        BY <2>2
  <2> QED BY <2>2, <2>3, <2>4, <2>5 DEF fills, price
<1>3. CASE v > 0
  <2>1. PICK src : TracedFills(orders, fills, price, v, src)
        BY <1>3, ClearIsTraced
  <2>2. price = Midpoint(BestPrices(orders).tied)
        BY <1>3, ClearIsTraced
  <2>3. price \in Nat /\ v <= DemandAt(orders, price) /\ v <= SupplyAt(orders, price)
    <3>1. BestPrices(orders).volume > 0
          BY <1>1, <1>3
    <3> HIDE DEF v, price
    <3> QED BY <1>1, <2>2, <3>1, ClearingPriceFacts DEF DemandAt, SupplyAt
  <2>4. fills = LegFills(orders, "BUY", price, v) \o LegFills(orders, "SELL", price, v)
    <3>1. BestPrices(orders).volume # 0
          BY <1>1, <1>3
    <3> QED BY <3>1 DEF Clear
  <2>5. fills \in Seq(FillsOf(orders))
    <3> HIDE DEF v, price, fills
    <3>1. LegFills(orders, "BUY", price, v) \in Seq(FillsOf(orders))
          BY <1>1, <1>3, <2>3, LegIsOfFills DEF DemandAt
    <3>2. LegFills(orders, "SELL", price, v) \in Seq(FillsOf(orders))
          BY <1>1, <1>3, <2>3, LegIsOfFills DEF SupplyAt
    <3> QED BY <2>4, <3>1, <3>2
  <2> HIDE DEF v, price, fills
  <2>6. DOMAIN fills = 1..Len(fills)
        BY <2>1 DEF TracedFills
  <2>7. ASSUME NEW i \in 1..Len(fills)
        PROVE  src[i] \in DOMAIN orders /\ OnTerms(fills[i], orders[src[i]])
    <3> DEFINE f == fills[i]
               o == orders[src[i]]
               S == Eligible(orders, f.side, price)
    <3>1. /\ src[i] \in Filled(orders, f.side, price, v)
          /\ f.trader = o.trader /\ f.side = o.side
          /\ f.size = Given(orders, S, v)[src[i]]
          /\ f.size \in Nat /\ f.size <= v /\ f.quote \in Nat
          /\ f.quote * v < f.size * QuoteAmount(v, price) + v
          /\ f.size * QuoteAmount(v, price) < f.quote * v + v
          BY <2>1 DEF TracedFills
    <3>2. Filled(orders, f.side, price, v) \in SUBSET S
          BY <1>1, AllocationFacts
    <3>3. src[i] \in S
          BY <3>1, <3>2
    <3>4. src[i] \in DOMAIN orders /\ Accepts(o, price)
          BY <3>3 DEF Eligible
    <3>5. Given(orders, S, v)[src[i]] <= Sizes(orders)[src[i]]
          BY <1>1, <3>3, EligibleIsASide, GivenIsWithinSize
    <3>6. Sizes(orders)[src[i]] = o.size
          BY <3>4 DEF Sizes
    <3>7. o.limitPrice \in Nat /\ o.side \in {"BUY", "SELL"}
          BY <3>4 DEF IsBook
    <3> HIDE DEF f, o, S
    <3>8. f.size <= o.size
          BY <3>1, <3>5, <3>6
    <3>9. IF o.side = "BUY" THEN price <= o.limitPrice ELSE o.limitPrice <= price
          BY <2>3, <3>4, <3>7 DEF Accepts
    <3>10. /\ price <= o.limitPrice => (f.quote - 1) * PriceScale < f.size * o.limitPrice
           /\ o.limitPrice <= price => f.size * o.limitPrice < (f.quote + 2) * PriceScale
           BY ONLY <1>1, <1>3, <2>3, <3>1, <3>7, TwoRoundings
    <3>11. OnTerms(f, o)
           BY ONLY <3>1, <3>7, <3>8, <3>9, <3>10 DEF OnTerms
    <3> QED BY <3>4, <3>11 DEF f, o
  <2>8. src \in Injection(DOMAIN fills, DOMAIN orders)
    <3>1. src \in Bijection(1..Len(fills), Winners(orders, price, v))
          BY <2>1 DEF TracedFills
    <3> QED BY <2>6, <2>7, <3>1 DEF Bijection, Injection
  <2> QED BY <2>3, <2>5, <2>6, <2>7, <2>8 DEF fills, price
<1> QED BY <1>1, <1>2, <1>3
=============================================================================
