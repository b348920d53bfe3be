--------------------------- MODULE Auction_proofs ---------------------------
(***************************************************************************)
(* The call auction, for every book: it finds a price that trades the most *)
(* (and the price its rules name), both legs add up to the volume, better  *)
(* terms go first, a level is rationed in proportion, no quote and no      *)
(* place of arrival is worth more than a unit.  The lemmas about clearing  *)
(* are those of Clearing_proofs.                                           *)
(***************************************************************************)
EXTENDS AuctionBook, Clearing_proofs

-----------------------------------------------------------------------------
(* The auction's invariant                                                 *)

\* The orders of the instance.
BookOrders == [trader : Nat, side : {"BUY", "SELL"}, limitPrice : Prices, size : OrderSizes]

\* The book is what parseOrder admits, orders are told apart by trader, and the
\* result is the book's.
AuctionInv ==
    /\ book \in Seq(BookOrders)
    /\ \A i \in DOMAIN book : book[i].trader = i
    /\ cleared = Clear(book)

\* Its book is one the lemmas are about.
LEMMA InvBook == AuctionInv => IsBook(book)
<1> SUFFICES ASSUME AuctionInv PROVE IsBook(book)
    OBVIOUS
<1>1. book \in Seq(BookOrders)
      BY DEF AuctionInv
<1>2. Len(book) \in Nat /\ DOMAIN book = 1..Len(book)
      BY <1>1
<1>3. \A i \in DOMAIN book : book[i] \in BookOrders
      BY <1>1, <1>2
<1> QED BY <1>2, <1>3, BookFits DEF IsBook, BookOrders

\* The empty book satisfies it.
LEMMA InvInit == Init => AuctionInv
BY DEF Init, AuctionInv

\* Arrivals keep it.
LEMMA InvNext == AuctionInv /\ [Next]_vars => AuctionInv'
<1> SUFFICES ASSUME AuctionInv, [Next]_vars PROVE AuctionInv'
    OBVIOUS
<1>1. ASSUME NEW side \in {"BUY", "SELL"}, NEW limitPrice \in Prices, NEW size \in OrderSizes,
             Arrive(side, limitPrice, size)
      PROVE  AuctionInv'
  <2> DEFINE o == [trader |-> Len(book) + 1, side |-> side, limitPrice |-> limitPrice, size |-> size]
  <2>1. book \in Seq(BookOrders) /\ Len(book) \in Nat
        BY DEF AuctionInv
  <2>2. o \in BookOrders /\ o.trader = Len(book) + 1
        BY <2>1 DEF BookOrders
  <2>3. book' = Append(book, o) /\ cleared' = Clear(book')
        BY <1>1 DEF Arrive
  <2> HIDE DEF o
  <2>4. book' \in Seq(BookOrders) /\ Len(book') = Len(book) + 1
        BY <2>1, <2>2, <2>3
  <2>5. \A i \in 1..(Len(book) + 1) : book'[i] = IF i = Len(book) + 1 THEN o ELSE book[i]
        BY <2>1, <2>2, <2>3
  <2>6. \A i \in DOMAIN book' : book'[i].trader = i
    <3> TAKE i \in DOMAIN book'
    <3>1. i \in 1..(Len(book) + 1)
          BY <2>4
    <3>2. i = Len(book) + 1 \/ i \in DOMAIN book
          BY <2>1, <3>1
    <3> QED BY <2>1, <2>2, <2>5, <3>1, <3>2 DEF AuctionInv
  <2> QED BY <2>3, <2>4, <2>6 DEF AuctionInv
<1>2. CASE UNCHANGED vars
      BY <1>2 DEF AuctionInv, vars
<1> QED BY <1>1, <1>2 DEF Next

\* So it always holds.
THEOREM AuctionInvariant == Spec => []AuctionInv
BY InvInit, InvNext, PTL DEF Spec

-----------------------------------------------------------------------------
(* Volume and price                                                        *)

\* Both legs of a result balance.
LEMMA InvLegs == AuctionInv => LegsBalance
<1> SUFFICES ASSUME AuctionInv PROVE LegsBalance
    OBVIOUS
<1>1. IsBook(book) /\ cleared = Clear(book)
      BY InvBook DEF AuctionInv
<1>2. CASE cleared.volume = 0
  <2>1. cleared = NoTrade
        BY <1>1, <1>2, ClearIsTraced
  <2>2. cleared.fills = <<>> /\ cleared.clearingPrice = 0
        BY <2>1 DEF NoTrade
  <2>3. Leg("BUY") = {} /\ Leg("SELL") = {}
        BY <2>2 DEF Leg
  <2>4. QuoteAmount(0, 0) = 0
        BY QuoteAmountIsNat
  <2> QED BY <1>2, <2>2, <2>3, <2>4, SumOfNone DEF LegsBalance, SizeOn, QuoteOn
<1>3. CASE cleared.volume > 0
  <2>1. PICK src : TracedFills(book, cleared.fills, cleared.clearingPrice, cleared.volume, src)
        BY <1>1, <1>3, ClearIsTraced
  <2>2. \A side \in {"BUY", "SELL"} :
           /\ SumFunctionOnSet(Sizes(cleared.fills), Leg(side)) = cleared.volume
           /\ SumFunctionOnSet(Quotes(cleared.fills), Leg(side))
                = QuoteAmount(cleared.volume, cleared.clearingPrice)
        BY <2>1 DEF TracedFills, Leg
  <2> QED BY <2>2 DEF LegsBalance, SizeOn, QuoteOn
<1> QED BY <1>1, <1>2, <1>3, ClearIsTraced

\* Every result nets to zero in base and in quote, as _checkConservation demands.
THEOREM LegsAlwaysBalance == Spec => []LegsBalance
BY AuctionInvariant, InvLegs, PTL

\* The volume is maximal.
LEMMA InvVolume == AuctionInv => VolumeIsMaximal
<1> SUFFICES ASSUME AuctionInv PROVE VolumeIsMaximal
    OBVIOUS
<1>1. IsBook(book) /\ cleared = Clear(book)
      BY InvBook DEF AuctionInv
<1>2. cleared.volume = BestPrices(book).volume
      BY <1>1, ClearIsTraced
<1>3. \A p \in AnyPrice : VolumeAt(book, p) <= cleared.volume
      BY <1>1, <1>2, BookFits, NoPriceTradesMore
<1>4. ASSUME cleared.volume > 0 PROVE VolumeAt(book, cleared.clearingPrice) = cleared.volume
  <2>1. cleared.clearingPrice = Midpoint(BestPrices(book).tied)
        BY <1>1, <1>4, ClearIsTraced
  <2>2. VolumeAt(book, Midpoint(BestPrices(book).tied)) = BestPrices(book).volume
        BY <1>1, <1>2, <1>4, ClearingPriceFacts
  <2> QED BY <1>2, <2>1, <2>2
<1> QED BY <1>3, <1>4 DEF VolumeIsMaximal

\* No price at all executes more than selectClearingPrice found, and the price it
\* settles on, which may be no order's limit, executes as much.
THEOREM VolumeIsAlwaysMaximal == Spec => []VolumeIsMaximal
BY AuctionInvariant, InvVolume, PTL

\* The ties the scan keeps are the fairest of the widest.
LEMMA InvPrice == AuctionInv => PriceFollowsTheRules
<1> SUFFICES ASSUME AuctionInv, cleared.volume > 0
             PROVE  LET widest == {p \in Limits(book) : VolumeAt(book, p) = cleared.volume}
                        fairest == {p \in widest :
                                       \A q \in widest : ImbalanceAt(book, p) <= ImbalanceAt(book, q)}
                    IN  \E low, high \in fairest :
                            /\ \A p \in fairest : low <= p /\ p <= high
                            /\ cleared.clearingPrice = (low + high) \div 2
    BY DEF PriceFollowsTheRules
<1> DEFINE widest == {p \in Limits(book) : VolumeAt(book, p) = cleared.volume}
           fairest == {p \in widest : \A q \in widest : ImbalanceAt(book, p) <= ImbalanceAt(book, q)}
           best == BestPrices(book)
           low == best.tied[1]
           high == best.tied[Len(best.tied)]
<1>1. IsBook(book) /\ cleared = Clear(book)
      BY InvBook DEF AuctionInv
<1>2. cleared.volume = best.volume /\ cleared.clearingPrice = Midpoint(best.tied)
      BY <1>1, ClearIsTraced
<1>3. /\ low \in Limits(book) /\ high \in Limits(book)
      /\ Optimal(book, best, low) /\ Optimal(book, best, high)
      /\ \A p \in Limits(book) : VolumeAt(book, p) = best.volume =>
            /\ best.imbalance <= ImbalanceAt(book, p)
            /\ best.imbalance = ImbalanceAt(book, p) => low <= p /\ p <= high
      /\ Midpoint(best.tied) = (low + high) \div 2
      BY <1>1, <1>2, ClearingPriceFacts
<1>4. best.imbalance \in Nat /\ \A p : ImbalanceAt(book, p) \in Nat
      BY <1>1, BestPricesAreBest, InterestIsNat DEF ScanInv
<1> HIDE DEF best, low, high
<1>5. low \in fairest /\ high \in fairest
      BY <1>2, <1>3 DEF Optimal
<1>6. \A p \in fairest : low <= p /\ p <= high
  <2> TAKE p \in fairest
  <2>1. p \in Limits(book) /\ VolumeAt(book, p) = best.volume
        BY <1>2
  <2>2. ImbalanceAt(book, p) <= ImbalanceAt(book, low) /\ ImbalanceAt(book, low) = best.imbalance
        BY <1>3, <1>5 DEF Optimal
  <2>3. best.imbalance = ImbalanceAt(book, p)
        BY <1>3, <1>4, <2>1, <2>2
  <2> QED BY <1>3, <2>1, <2>3
<1> HIDE DEF fairest
<1>7. \E x, y \in fairest : /\ \A p \in fairest : x <= p /\ p <= y
                            /\ cleared.clearingPrice = (x + y) \div 2
      BY <1>2, <1>3, <1>5, <1>6
<1> QED BY <1>7 DEF fairest

\* selectClearingPrice returns the middle of the prices its rules leave.
THEOREM PriceAlwaysFollowsTheRules == Spec => []PriceFollowsTheRules
BY AuctionInvariant, InvPrice, PTL

\* Traders tell the orders apart.
Distinct(orders) ==
    \A i, j \in DOMAIN orders : orders[i].trader = orders[j].trader => i = j

\* What clearing a book gives its k-th order.
Fill(orders, k) ==
    LET v == Clear(orders).volume
        S == Eligible(orders, orders[k].side, Clear(orders).clearingPrice)
    IN  IF v > 0 /\ k \in S THEN Given(orders, S, v)[k] ELSE 0

\* The fills give each trader what its order is given.
LEMMA FillOfAnOrder ==
    ASSUME NEW orders, IsBook(orders), Distinct(orders), NEW k \in DOMAIN orders
    PROVE  FilledIn(Clear(orders), orders[k].trader) = Fill(orders, k)
<1> DEFINE v == Clear(orders).volume
           price == Clear(orders).clearingPrice
           fills == Clear(orders).fills
           side == orders[k].side
           S == Eligible(orders, side, price)
           given == Given(orders, S, v)
           T == {i \in DOMAIN fills : fills[i].trader = orders[k].trader}
<1>1. v \in Nat
      BY ClearIsTraced
<1>2. FilledIn(Clear(orders), orders[k].trader) = SumFunctionOnSet(Sizes(fills), T)
      BY DEF FilledIn
<1>3. Fill(orders, k) = IF v > 0 /\ k \in S THEN given[k] ELSE 0
      BY DEF Fill
<1>4. CASE v = 0
  <2>1. Clear(orders) = NoTrade
        BY <1>4, ClearIsTraced
  <2>2. T = {}
        BY <2>1 DEF NoTrade
  <2> HIDE DEF v, T, S, given, fills
  <2>3. SumFunctionOnSet(Sizes(fills), T) = 0
        BY <2>2, SumOfNone
  <2> QED BY <1>2, <1>3, <1>4, <2>3
<1>5. CASE v > 0
  <2>1. PICK src : TracedFills(orders, fills, price, v, src)
        BY <1>5, ClearIsTraced
  <2>2. /\ Len(fills) \in Nat /\ DOMAIN fills = 1..Len(fills)
        /\ src \in Bijection(1..Len(fills), Winners(orders, price, v))
        /\ \A i \in 1..Len(fills) :
              /\ src[i] \in Filled(orders, fills[i].side, price, v)
              /\ fills[i].trader = orders[src[i]].trader
              /\ fills[i].side = orders[src[i]].side
              /\ fills[i].size = Given(orders, Eligible(orders, fills[i].side, price), v)[src[i]]
              /\ fills[i].size \in Nat \ {0}
        BY <2>1 DEF TracedFills
  <2>3. /\ \A i \in S : given[i] \in Nat /\ (i \in Filled(orders, side, price, v) <=> given[i] > 0)
        /\ Filled(orders, side, price, v) \in SUBSET S
        BY <1>1, AllocationFacts
  <2>4. \A i \in 1..Len(fills) : src[i] \in DOMAIN orders
    <3> TAKE i \in 1..Len(fills)
    <3>1. Filled(orders, fills[i].side, price, v) \in SUBSET Eligible(orders, fills[i].side, price)
          BY <1>1, AllocationFacts
    <3> QED BY <2>2, <3>1 DEF Eligible
  <2>5. side \in {"BUY", "SELL"}
        BY DEF IsBook
  <2> HIDE DEF v, price, fills, given, S
  <2>6. \A i \in T : src[i] = k
        BY <2>2, <2>4 DEF Distinct
  <2>7. CASE k \in Filled(orders, side, price, v)
    <3>1. k \in Winners(orders, price, v)
          BY <2>5, <2>7 DEF Winners
    <3>2. PICK i \in 1..Len(fills) : src[i] = k
          BY <2>2, <3>1 DEF Bijection, Surjection
    <3>3. \A j \in 1..Len(fills) : src[j] = k => j = i
          BY <2>2, <3>2 DEF Bijection, Injection, IsInjective
    <3>4. T = {i}
          BY <2>2, <2>6, <3>2, <3>3
    <3>5. Sizes(fills)[i] = given[k] /\ Sizes(fills)[i] \in Int
          BY <2>2, <3>2 DEF Sizes, given, S
    <3> HIDE DEF T
    <3>6. SumFunctionOnSet(Sizes(fills), T) = Sizes(fills)[i] + SumFunctionOnSet(Sizes(fills), T \ {i})
      <4>1. IsFiniteSet(T)
            BY <3>4, FS_Singleton
      <4> QED BY <3>4, <3>5, <4>1, SumWithout
    <3>7. T \ {i} = {} /\ SumFunctionOnSet(Sizes(fills), {}) = 0
          BY <3>4, SumOfNone
    <3>8. SumFunctionOnSet(Sizes(fills), T \ {i}) = 0
          BY ONLY <3>7
    <3>9. SumFunctionOnSet(Sizes(fills), T) = given[k]
          BY ONLY <3>5, <3>6, <3>8
    <3> QED BY <1>2, <1>3, <1>5, <2>3, <2>7, <3>9
  <2>8. CASE k \notin Filled(orders, side, price, v)
    <3>1. T = {}
      <4> SUFFICES ASSUME NEW i \in T PROVE FALSE
          OBVIOUS
      <4> QED BY <2>2, <2>6, <2>8
    <3> HIDE DEF T
    <3>2. SumFunctionOnSet(Sizes(fills), T) = 0
          BY <3>1, SumOfNone
    <3>3. k \in S => given[k] = 0
          BY <2>3, <2>8
    <3> QED BY <1>2, <1>3, <3>2, <3>3
  <2> QED BY <2>7, <2>8
<1> QED BY <1>1, <1>4, <1>5

\* In a book the invariant admits, FilledOf is that.
LEMMA InvFills ==
    AuctionInv => \A k \in DOMAIN book : FilledOf(k) = Fill(book, k)
<1> SUFFICES ASSUME AuctionInv, NEW k \in DOMAIN book PROVE FilledOf(k) = Fill(book, k)
    OBVIOUS
<1>1. IsBook(book) /\ cleared = Clear(book)
      BY InvBook DEF AuctionInv
<1>2. Distinct(book) /\ book[k].trader = k
      BY DEF AuctionInv, Distinct
<1> QED BY <1>1, <1>2, FillOfAnOrder DEF FilledOf

-----------------------------------------------------------------------------
(* Priority and rationing                                                  *)

\* Worse terms come after everything level with or better than better terms.
LEMMA WorseTermsWait ==
    ASSUME NEW orders, IsBook(orders), NEW S, IsSide(orders, S), NEW m \in S,
           NEW k \in Better(orders, S, m)
    PROVE  k \in S /\ Ahead(orders, S, k) + Held(orders, S, k) <= Ahead(orders, S, m)
<1> DEFINE z == Sizes(orders)
           A == Better(orders, S, k)
           L == Level(orders, S, k)
           B == Better(orders, S, m)
<1>1. k \in S
      BY LevelsAreOrdered
<1>2. A \in SUBSET B /\ L \in SUBSET B /\ A \cap L = {} /\ B \in SUBSET S
      BY <1>1, LevelsAreOrdered
<1>3. IsFiniteSet(S) /\ \A i \in S : z[i] \in Nat
      BY SideFacts
<1> HIDE DEF z, A, L, B
<1>4. IsFiniteSet(A) /\ IsFiniteSet(L) /\ IsFiniteSet(B)
      BY <1>2, <1>3, FS_Subset
<1>5. \A x \in A \cup L : z[x] \in Int
      BY <1>2, <1>3
<1>6. SumFunctionOnSet(z, A \cup L) = SumFunctionOnSet(z, A) + SumFunctionOnSet(z, L)
      BY <1>2, <1>4, <1>5, SumOfUnion
<1>7. SumFunctionOnSet(z, A \cup L) <= SumFunctionOnSet(z, B)
  <2>1. A \cup L \in SUBSET B /\ \A x \in B : z[x] \in Nat
        BY <1>2, <1>3
  <2> QED BY <1>4, <2>1, SumOfPart
<1>8. SumFunctionOnSet(z, A) + SumFunctionOnSet(z, L) <= SumFunctionOnSet(z, B)
      BY ONLY <1>6, <1>7
<1> QED BY <1>1, <1>8 DEF z, A, L, B, Ahead, Held

\* Short orders leave nothing for worse ones.
LEMMA InvPriority == AuctionInv => PricePriority
<1> SUFFICES ASSUME AuctionInv PROVE PricePriority
    OBVIOUS
<1> DEFINE v == cleared.volume
           price == cleared.clearingPrice
           S(k) == Eligible(book, book[k].side, price)
<1>1. IsBook(book) /\ cleared = Clear(book) /\ v \in Nat
      BY InvBook, ClearIsTraced DEF AuctionInv
<1>2. \A k \in DOMAIN book : FilledOf(k) = IF v > 0 /\ k \in S(k) THEN Given(book, S(k), v)[k] ELSE 0
      BY <1>1, InvFills DEF Fill
<1>3. \A k \in DOMAIN book : /\ book[k].size \in Nat /\ book[k].limitPrice \in Int
                             /\ book[k].side \in {"BUY", "SELL"} /\ Sizes(book)[k] = book[k].size
      BY <1>1 DEF IsBook, Sizes
<1>4. \A k : IsSide(book, S(k))
      BY <1>1, EligibleIsASide
<1>5. ASSUME NEW k \in DOMAIN book
      PROVE  FilledOf(k) <= book[k].size /\ (FilledOf(k) > 0 => Accepts(book[k], price))
  <2>1. k \in S(k) => Given(book, S(k), v)[k] <= book[k].size
        BY <1>1, <1>3, <1>4, GivenIsWithinSize
  <2>2. k \in S(k) => Accepts(book[k], price)
        BY DEF Eligible
  <2> HIDE DEF v, price, S
  <2>3. CASE v > 0 /\ k \in S(k)
        BY <1>2, <2>1, <2>2, <2>3
  <2>4. CASE ~(v > 0 /\ k \in S(k))
        BY <1>2, <1>3, <2>4
  <2> QED BY <2>3, <2>4
<1>6. ASSUME NEW k \in DOMAIN book, NEW m \in DOMAIN book, book[k].side = book[m].side,
             IF book[k].side = "BUY" THEN book[k].limitPrice > book[m].limitPrice
                                     ELSE book[k].limitPrice < book[m].limitPrice,
             FilledOf(k) < book[k].size
      PROVE  FilledOf(m) = 0
  <2> SUFFICES ASSUME v > 0, m \in S(m) PROVE Given(book, S(m), v)[m] = 0
      BY <1>2
  <2>1. price \in Nat
    <3>1. BestPrices(book).volume > 0 /\ price = Midpoint(BestPrices(book).tied)
          BY <1>1, ClearIsTraced
    <3> QED BY <1>1, <3>1, ClearingPriceFacts
  <2>2. S(k) = S(m) /\ BetterTerms(book[k], book[m])
        BY <1>6 DEF BetterTerms
  <2>3. k \in S(m)
        BY <1>3, <1>6, <2>1 DEF Eligible, Accepts
  <2>4. k \in Better(book, S(m), m)
        BY <2>2, <2>3 DEF Better
  <2>5. Ahead(book, S(m), k) + Held(book, S(m), k) <= Ahead(book, S(m), m)
        BY <1>1, <1>4, <2>4, WorseTermsWait
  <2>6. Given(book, S(m), v)[k] < book[k].size
        BY <1>2, <1>6, <2>2, <2>3
  <2>7. ~(Ahead(book, S(m), k) + Held(book, S(m), k) <= v)
        BY <1>1, <1>3, <1>4, <2>3, <2>6, GivenToAnOrder
  <2>8. /\ Ahead(book, S(m), k) \in Nat /\ Held(book, S(m), k) \in Nat /\ Ahead(book, S(m), m) \in Nat
        BY <1>1, <1>4, <2>3, WeightsOfALevel
  <2>9. Ahead(book, S(m), m) >= v
        BY <1>1, <2>5, <2>7, <2>8
  <2> QED BY <1>1, <1>4, <2>9, GivenToAnOrder
<1>7. /\ \A k \in DOMAIN book :
            FilledOf(k) <= book[k].size /\ (FilledOf(k) > 0 => Accepts(book[k], price))
      /\ \A k, m \in DOMAIN book :
            /\ book[k].side = book[m].side
            /\ IF book[k].side = "BUY" THEN book[k].limitPrice > book[m].limitPrice
                                       ELSE book[k].limitPrice < book[m].limitPrice
            /\ FilledOf(k) < book[k].size
            => FilledOf(m) = 0
      BY ONLY <1>5, <1>6
<1> QED BY ONLY <1>7 DEF PricePriority

\* allocate never overfills, never fills at a price an order refuses, and never
\* lets worse terms trade while better ones are short.
THEOREM PricePriorityHolds == Spec => []PricePriority
BY AuctionInvariant, InvPriority, PTL

\* A level is split in proportion.
LEMMA InvRationed == AuctionInv => RationedInProportion
<1> SUFFICES ASSUME AuctionInv, NEW k \in DOMAIN book
             PROVE  LET level == {m \in DOMAIN book : book[m].side = book[k].side
                                                    /\ book[m].limitPrice = book[k].limitPrice}
                        held == SumFunctionOnSet(Sizes(book), level)
                        given == SumFunctionOnSet([m \in DOMAIN book |-> FilledOf(m)], level)
                        error == FilledOf(k) * held - book[k].size * given
                    IN  -held < error /\ error < held
    BY DEF RationedInProportion
<1> DEFINE v == cleared.volume
           price == cleared.clearingPrice
           S == Eligible(book, book[k].side, price)
           level == {m \in DOMAIN book : book[m].side = book[k].side
                                       /\ book[m].limitPrice = book[k].limitPrice}
           z == Sizes(book)
           f == [m \in DOMAIN book |-> FilledOf(m)]
           held == SumFunctionOnSet(z, level)
           given == SumFunctionOnSet(f, level)
<1>1. IsBook(book) /\ cleared = Clear(book) /\ v \in Nat
      BY InvBook, ClearIsTraced DEF AuctionInv
<1>2. \A m \in DOMAIN book : FilledOf(m) = Fill(book, m)
      BY <1>1, InvFills
<1>3. \A m \in level : /\ m \in DOMAIN book /\ f[m] = Fill(book, m)
                       /\ Eligible(book, book[m].side, price) = S
                       /\ (m \in S <=> k \in S)
      BY <1>2 DEF Eligible, Accepts
<1>4. \A m \in level : f[m] = IF v > 0 /\ k \in S THEN Given(book, S, v)[m] ELSE 0
      BY <1>1, <1>3 DEF Fill
<1>5. k \in level /\ level \in SUBSET DOMAIN book
      OBVIOUS
<1>6. /\ IsFiniteSet(DOMAIN book)
      /\ \A i \in DOMAIN book : z[i] = book[i].size /\ z[i] \in Nat \ {0}
      /\ IsSide(book, S)
      BY <1>1, EligibleIsASide, SideFacts
<1>7. IsFiniteSet(level)
      BY <1>5, <1>6, FS_Subset
<1>8. held \in Nat /\ held > 0 /\ z[k] \in Nat
  <2>1. \A m \in level : z[m] \in Nat
        BY <1>5, <1>6
  <2>2. z[k] > 0 /\ z[k] \in Nat
        BY <1>6
  <2> HIDE DEF level, z
  <2>3. SumFunctionOnSet(z, level) \in Nat /\ z[k] <= SumFunctionOnSet(z, level)
        BY <1>5, <1>7, <2>1, SumOfNaturals
  <2> QED BY <2>2, <2>3
<1>9. k \in S => level = Level(book, S, k)
  <2> SUFFICES ASSUME k \in S PROVE level = Level(book, S, k)
      OBVIOUS
  <2>1. \A m \in level : m \in S
        BY <1>3
  <2> QED BY <2>1, EligibleIsASide, <1>1 DEF Level
<1>10. FilledOf(k) = f[k] /\ book[k].size = z[k]
       BY <1>6
<1> DEFINE Near == -held < f[k] * held - z[k] * given /\ f[k] * held - z[k] * given < held
<1>11. CASE \A m \in level : f[m] = 0
  <2> HIDE DEF f, level, z, held
  <2>1. given = 0 /\ f[k] = 0
        BY <1>5, <1>7, <1>11, SumOfZeros
  <2>2. f[k] * held - z[k] * given = 0
        BY ONLY <1>8, <2>1
  <2> QED BY ONLY <1>8, <1>10, <2>2 DEF f, level, z, held, given
<1>12. CASE v > 0 /\ k \in S
  <2> DEFINE a == Ahead(book, S, k)
             h == Held(book, S, k)
             w == Weights(book, S, k)
             G == Given(book, S, v)
  <2>1. /\ a \in Nat /\ h \in Nat /\ h > 0
        /\ Level(book, S, k) \in SUBSET Int /\ IsFiniteSet(Level(book, S, k))
        /\ w \in [Level(book, S, k) -> Nat] /\ Total(w) = h
        /\ \A j \in Level(book, S, k) : w[j] = z[j]
        /\ k \in Level(book, S, k)
        BY <1>1, <1>6, <1>12, WeightsOfALevel
  <2>2. h = held
        BY <1>9, <1>12 DEF Held
  <2>3. \A m \in level : f[m] = G[m]
        BY <1>4, <1>12
  <2>4. given = SumFunctionOnSet(G, Level(book, S, k))
    <3> HIDE DEF f, G, level
    <3>1. SumFunctionOnSet(f, level) = SumFunctionOnSet(G, level)
          BY <1>7, <2>3, SumsAreEqual
    <3>2. level = Level(book, S, k)
          BY <1>9, <1>12
    <3>3. SumFunctionOnSet(f, level) = SumFunctionOnSet(G, Level(book, S, k))
          BY ONLY <3>1, <3>2
    <3> QED BY ONLY <3>3 DEF given
  <2>5. /\ a + h <= v => G[k] = z[k]
        /\ a < v /\ v < a + h => G[k] = LargestRemainder(w, v - a)[k]
        BY <1>1, <1>6, <1>12, GivenToAnOrder
  <2>6. a < v => SumFunctionOnSet(G, Level(book, S, k)) = Smaller(h, v - a)
        BY <1>1, <1>6, <1>12, GivenToALevel
  <2>7. f[k] = G[k]
        BY <1>5, <2>3
  <2>8. a >= v => \A m \in level : G[m] = 0
    <3> SUFFICES ASSUME a >= v, NEW m \in level PROVE G[m] = 0
        OBVIOUS
    <3>1. m \in S /\ m \in Level(book, S, k)
          BY <1>9, <1>12, <1>3
    <3>2. Better(book, S, m) = Better(book, S, k)
          BY <1>1, <1>6, <1>12, <3>1, LevelsAreOrdered
    <3>3. Ahead(book, S, m) >= v
          BY <3>2 DEF Ahead
    <3> QED BY <1>1, <1>6, <3>1, <3>3, GivenToAnOrder
  <2> HIDE DEF f, level, z, held, given, a, h, w, G, v, S
  <2>9. CASE a >= v
    <3>1. \A m \in level : f[m] = 0
          BY <2>3, <2>8, <2>9
    <3> QED BY <1>11, <3>1
  <2>10. CASE a < v /\ a + h <= v
    <3>1. given = h
      <4>1. h <= v - a
            BY <1>1, <2>1, <2>10
      <4> QED BY <2>1, <2>4, <2>6, <2>10, <4>1, <1>1 DEF Smaller
    <3>2. f[k] = z[k]
          BY <2>5, <2>7, <2>10
    <3>3. f[k] * held - z[k] * given = 0
      <4>1. f[k] * held = z[k] * given
            BY ONLY <3>1, <3>2, <2>2
      <4>2. z[k] * given \in Int
            BY ONLY <1>8, <2>1, <3>1
      <4> QED BY ONLY <4>1, <4>2
    <3> QED BY ONLY <1>8, <1>10, <3>3 DEF f, level, z, held, given
  <2>11. CASE a < v /\ v < a + h
    <3>1. given = v - a /\ given \in Nat
      <4>1. ~(h <= v - a) /\ v - a \in Nat
            BY <1>1, <2>1, <2>11
      <4> QED BY <2>4, <2>6, <2>11, <4>1, <2>1 DEF Smaller
    <3>2. f[k] = LargestRemainder(w, given)[k]
          BY <2>5, <2>7, <2>11, <3>1
    <3>3. /\ f[k] \in Nat
          /\ f[k] * h < z[k] * given + h
          /\ z[k] * given < f[k] * h + h
      <4> DEFINE D == Level(book, S, k)
                 split == LargestRemainder(w, given)
      <4>1. Total(w) > 0 /\ w[k] = z[k]
            BY <2>1
      <4>2. D \in SUBSET Int /\ IsFiniteSet(D) /\ w \in [D -> Nat] /\ k \in D /\ Total(w) = h
            BY <2>1
      <4> HIDE DEF D
      <4>3. /\ split \in [D -> Nat]
            /\ split[k] * Total(w) < w[k] * given + Total(w)
            /\ w[k] * given < split[k] * Total(w) + Total(w)
            BY ONLY <3>1, <4>1, <4>2, SplitIsExact
      <4>4. f[k] = split[k] /\ split[k] \in Nat
            BY <3>2, <4>2, <4>3
      <4> HIDE DEF split
      <4> QED BY ONLY <4>1, <4>2, <4>3, <4>4
    <3>4. /\ f[k] * held \in Int /\ z[k] * given \in Int
          /\ f[k] * held < z[k] * given + held
          /\ z[k] * given < f[k] * held + held
          BY ONLY <1>8, <2>2, <3>1, <3>3
    <3>5. -held < f[k] * held - z[k] * given /\ f[k] * held - z[k] * given < held
          BY ONLY <1>8, <3>4
    <3> QED BY ONLY <1>10, <3>5 DEF f, level, z, held, given
  <2> QED BY ONLY <1>1, <2>1, <2>9, <2>10, <2>11
<1>13. CASE ~(v > 0 /\ k \in S)
       BY <1>4, <1>11, <1>13
<1> QED BY <1>12, <1>13

\* largestRemainder leaves no order a whole unit away from its share of its level.
THEOREM RationedInProportionHolds == Spec => []RationedInProportion
BY AuctionInvariant, InvRationed, PTL

-----------------------------------------------------------------------------
(* Quotes                                                                  *)

\* Quotes are within a unit of their limits.
LEMMA InvQuotes == AuctionInv => QuoteWithinOneUnit
<1> SUFFICES ASSUME AuctionInv, NEW i \in DOMAIN cleared.fills
             PROVE  LET f == cleared.fills[i]
                        atLimit == QuoteAmount(f.size, OrderOf(i).limitPrice)
                    IN  IF f.side = "BUY" THEN f.quote <= atLimit + 1
                                          ELSE f.quote >= atLimit - 1
    BY DEF QuoteWithinOneUnit
<1> DEFINE v == cleared.volume
           price == cleared.clearingPrice
           f == cleared.fills[i]
           limit == OrderOf(i).limitPrice
<1>1. IsBook(book) /\ cleared = Clear(book) /\ v \in Nat
      BY InvBook, ClearIsTraced DEF AuctionInv
<1>2. v > 0
  <2> SUFFICES ASSUME v = 0 PROVE FALSE
      BY <1>1
  <2>1. cleared = NoTrade
        BY <1>1, ClearIsTraced
  <2> QED BY <2>1 DEF NoTrade
<1>3. PICK src : TracedFills(book, cleared.fills, price, v, src)
      BY <1>1, <1>2, ClearIsTraced
<1>4. /\ src[i] \in Filled(book, f.side, price, v)
      /\ f.trader = book[src[i]].trader /\ f.side = book[src[i]].side
      /\ f.size \in Nat /\ f.size <= v /\ f.quote \in Nat
      /\ f.quote * v < f.size * QuoteAmount(v, price) + v
      /\ f.size * QuoteAmount(v, price) < f.quote * v + v
      BY <1>3 DEF TracedFills
<1>5. src[i] \in DOMAIN book /\ Accepts(book[src[i]], price)
  <2>1. Filled(book, f.side, price, v) \in SUBSET Eligible(book, f.side, price)
        BY <1>1, AllocationFacts
  <2> QED BY <1>4, <2>1 DEF Eligible
<1>6. limit = book[src[i]].limitPrice /\ limit \in Nat
  <2>1. book[src[i]].trader = src[i]
        BY <1>5 DEF AuctionInv
  <2> QED BY <1>1, <1>4, <1>5, <2>1 DEF OrderOf, IsBook
<1>7. price \in Nat
  <2>1. BestPrices(book).volume > 0 /\ price = Midpoint(BestPrices(book).tied)
        BY <1>1, <1>2, ClearIsTraced
  <2> QED BY <1>1, <2>1, ClearingPriceFacts
<1>8. IF f.side = "BUY" THEN price <= limit ELSE limit <= price
      BY <1>4, <1>5, <1>6, <1>7 DEF Accepts
<1> HIDE DEF v, price, f, limit
<1>9. /\ price <= limit => f.quote <= QuoteAmount(f.size, limit) + 1
      /\ limit <= price => f.quote >= QuoteAmount(f.size, limit) - 1
  <2>1. /\ price <= limit => (f.quote - 1) * PriceScale < f.size * limit
        /\ limit <= price => f.size * limit < (f.quote + 2) * PriceScale
        BY ONLY <1>1, <1>2, <1>4, <1>6, <1>7, TwoRoundings
  <2> QED BY ONLY <1>4, <1>6, <2>1, QuoteNearLimit
<1>10. IF f.side = "BUY" THEN f.quote <= QuoteAmount(f.size, limit) + 1
                         ELSE f.quote >= QuoteAmount(f.size, limit) - 1
       BY ONLY <1>8, <1>9
<1> QED BY ONLY <1>10 DEF f, limit

\* The quote split moves no fill more than one unit past its limit.
THEOREM QuoteWithinOneUnitHolds == Spec => []QuoteWithinOneUnit
BY AuctionInvariant, InvQuotes, PTL

\* The same orders, arriving in the order pi.
Rearranged(orders, other, pi) ==
    /\ IsBook(orders) /\ IsBook(other) /\ DOMAIN other = DOMAIN orders
    /\ pi \in Bijection(DOMAIN orders, DOMAIN orders)
    /\ \A i \in DOMAIN orders : other[i] = orders[pi[i]]

\* Sizes add up the same over corresponding orders.
LEMMA RearrangedSums ==
    ASSUME NEW orders, NEW other, NEW pi, Rearranged(orders, other, pi),
           NEW A \in SUBSET DOMAIN orders, NEW B \in SUBSET DOMAIN orders,
           \A i \in DOMAIN orders : i \in A <=> pi[i] \in B
    PROVE  SumFunctionOnSet(Sizes(other), A) = SumFunctionOnSet(Sizes(orders), B)
<1> DEFINE D == DOMAIN orders
           g == [i \in A |-> pi[i]]
           f == Sizes(orders)
           h == Sizes(other)
<1>1. /\ \A i \in D : pi[i] \in D
      /\ \A i, j \in D : pi[i] = pi[j] => i = j
      /\ \A y \in D : \E i \in D : pi[i] = y
      BY DEF Rearranged, Bijection, Injection, Surjection, IsInjective
<1>2. g \in Bijection(A, B)
  <2>1. \A i \in A : g[i] \in B
        OBVIOUS
  <2>2. \A i, j \in A : g[i] = g[j] => i = j
        BY <1>1
  <2>3. \A y \in B : \E i \in A : g[i] = y
        BY <1>1
  <2>4. g \in [A -> B]
        BY <2>1
  <2> QED BY <2>2, <2>3, <2>4 DEF Bijection, Injection, Surjection, IsInjective
<1>3. \A y \in B : f[y] \in Int
      BY DEF Rearranged, IsBook, Sizes
<1>4. \A i \in A : h[i] = f[g[i]]
      BY <1>1 DEF Rearranged, Sizes
<1>5. IsFiniteSet(A)
  <2>1. IsFiniteSet(DOMAIN orders)
        BY FS_Interval DEF Rearranged, IsBook
  <2> QED BY <2>1, FS_Subset
<1> HIDE DEF g, f, h
<1>6. SumFunctionOnSet(h, A) = SumFunctionOnSet(f, B)
      BY <1>2, <1>3, <1>4, <1>5, SumOfImage
<1> QED BY <1>6 DEF f, h

\* Nothing the price is chosen by depends on arrival.
LEMMA RearrangedInterest ==
    ASSUME NEW orders, NEW other, NEW pi, Rearranged(orders, other, pi)
    PROVE  /\ \A side, p : \A i \in DOMAIN orders :
                 i \in Eligible(other, side, p) <=> pi[i] \in Eligible(orders, side, p)
           /\ \A p : VolumeAt(other, p) = VolumeAt(orders, p) /\ ImbalanceAt(other, p) = ImbalanceAt(orders, p)
           /\ Candidates(other) = Candidates(orders)
<1>1. /\ DOMAIN other = DOMAIN orders
      /\ \A i \in DOMAIN orders : pi[i] \in DOMAIN orders /\ other[i] = orders[pi[i]]
      /\ \A y \in DOMAIN orders : \E i \in DOMAIN orders : pi[i] = y
      BY DEF Rearranged, Bijection, Injection, Surjection
<1>2. \A side, p : \A i \in DOMAIN orders :
         i \in Eligible(other, side, p) <=> pi[i] \in Eligible(orders, side, p)
      BY <1>1 DEF Eligible
<1>3. \A side, p : InterestAt(other, side, p) = InterestAt(orders, side, p)
  <2> TAKE side, p
  <2> DEFINE A == Eligible(other, side, p)
             B == Eligible(orders, side, p)
  <2>1. A \in SUBSET DOMAIN orders /\ B \in SUBSET DOMAIN orders
        BY <1>1 DEF Eligible
  <2>2. \A i \in DOMAIN orders : i \in A <=> pi[i] \in B
        BY <1>2
  <2> HIDE DEF A, B
  <2>3. SumFunctionOnSet(Sizes(other), A) = SumFunctionOnSet(Sizes(orders), B)
        BY <2>1, <2>2, RearrangedSums
  <2> QED BY <2>3 DEF A, B, InterestAt
<1>4. \A p : DemandAt(other, p) = DemandAt(orders, p) /\ SupplyAt(other, p) = SupplyAt(orders, p)
      BY <1>3 DEF DemandAt, SupplyAt
<1>5. \A p : VolumeAt(other, p) = VolumeAt(orders, p) /\ ImbalanceAt(other, p) = ImbalanceAt(orders, p)
      BY <1>4 DEF VolumeAt, ImbalanceAt
<1>6. Limits(other) = Limits(orders)
  <2>1. ASSUME NEW x \in Limits(other) PROVE x \in Limits(orders)
    <3>1. PICK i \in DOMAIN orders : x = other[i].limitPrice
          BY <1>1 DEF Limits
    <3>2. x = orders[pi[i]].limitPrice
          BY <1>1, <3>1
    <3> QED BY <1>1, <3>2 DEF Limits
  <2>2. ASSUME NEW x \in Limits(orders) PROVE x \in Limits(other)
    <3>1. PICK y \in DOMAIN orders : x = orders[y].limitPrice
          BY DEF Limits
    <3>2. PICK i \in DOMAIN orders : pi[i] = y
          BY <1>1
    <3> QED BY <1>1, <3>1, <3>2 DEF Limits
  <2> QED BY <2>1, <2>2
<1>7. Candidates(other) = Candidates(orders)
      BY ONLY <1>6 DEF Candidates
<1> QED BY <1>2, <1>5, <1>7

\* So the scan goes the same way.
LEMMA RearrangedBest ==
    ASSUME NEW orders, NEW other, NEW pi, Rearranged(orders, other, pi)
    PROVE  BestPrices(other) = BestPrices(orders)
<1> DEFINE c == Candidates(orders)
           A == {n \in Nat : n <= Len(c) => Scan(other)[n] = Scan(orders)[n]}
<1>1. Candidates(other) = c
      BY RearrangedInterest
<1>2. Len(c) \in Nat
      BY CandidatesAscend DEF Rearranged
<1>3. /\ Scan(orders)[0] = NoneYet
      /\ \A n \in 1..Len(c) : Scan(orders)[n] = Consider(orders, Scan(orders)[n - 1], c[n])
      /\ BestPrices(orders) = Scan(orders)[Len(c)]
      BY <1>2, ScanRuns
<1>4. /\ Scan(other)[0] = NoneYet
      /\ \A n \in 1..Len(c) : Scan(other)[n] = Consider(other, Scan(other)[n - 1], c[n])
      /\ BestPrices(other) = Scan(other)[Len(c)]
  <2>1. Len(Candidates(other)) \in Nat
        BY <1>1, <1>2
  <2> HIDE DEF c
  <2> QED BY <1>1, <2>1, ScanRuns
<1>5. \A best, p : Consider(other, best, p) = Consider(orders, best, p)
  <2> TAKE best, p
  <2>1. VolumeAt(other, p) = VolumeAt(orders, p) /\ ImbalanceAt(other, p) = ImbalanceAt(orders, p)
        BY RearrangedInterest
  <2> QED BY ONLY <2>1 DEF Consider
<1> HIDE DEF c
<1>6. 0 \in A
      BY <1>3, <1>4
<1>7. \A n \in A : n + 1 \in A
  <2> SUFFICES ASSUME NEW n \in A, n + 1 <= Len(c)
               PROVE  Scan(other)[n + 1] = Scan(orders)[n + 1]
      OBVIOUS
  <2>1. n \in Nat /\ n <= Len(c) /\ n + 1 \in 1..Len(c) /\ (n + 1) - 1 = n
        BY <1>2
  <2>2. Scan(other)[n] = Scan(orders)[n]
        BY <2>1
  <2>3. Scan(other)[n + 1] = Consider(other, Scan(other)[n], c[n + 1])
    <3>1. Scan(other)[n + 1] = Consider(other, Scan(other)[(n + 1) - 1], c[n + 1])
          BY <1>4, <2>1
    <3> QED BY <2>1, <3>1
  <2>4. Scan(orders)[n + 1] = Consider(orders, Scan(orders)[n], c[n + 1])
    <3>1. Scan(orders)[n + 1] = Consider(orders, Scan(orders)[(n + 1) - 1], c[n + 1])
          BY <1>3, <2>1
    <3> QED BY <2>1, <3>1
  <2> QED BY <1>5, <2>2, <2>3, <2>4
<1> HIDE DEF A
<1>8. A = Nat
      BY <1>6, <1>7, NatIsLeast DEF A
<1>9. Scan(other)[Len(c)] = Scan(orders)[Len(c)]
      BY <1>2, <1>8 DEF A
<1> QED BY <1>3, <1>4, <1>9

\* What an order is given moves by a unit at most.
LEMMA RearrangedGiven ==
    ASSUME NEW orders, NEW other, NEW pi, Rearranged(orders, other, pi),
           NEW side, NEW price, NEW v \in Nat,
           NEW j \in DOMAIN orders, j \in Eligible(other, side, price)
    PROVE  Given(other, Eligible(other, side, price), v)[j]
             - Given(orders, Eligible(orders, side, price), v)[pi[j]] \in {-1, 0, 1}
<1> DEFINE D == DOMAIN orders
           S == Eligible(orders, side, price)
           T == Eligible(other, side, price)
           k == pi[j]
           a == Ahead(orders, S, k)
           h == Held(orders, S, k)
           z == Sizes(orders)[k]
<1>1. /\ IsBook(orders) /\ IsBook(other) /\ DOMAIN other = D
      /\ \A i \in D : pi[i] \in D /\ other[i] = orders[pi[i]]
      BY DEF Rearranged, Bijection, Injection
<1>2. /\ IsSide(orders, S) /\ IsSide(other, T)
      /\ S \in SUBSET D /\ T \in SUBSET D
      /\ \A i \in D : i \in T <=> pi[i] \in S
      /\ j \in T /\ k \in S
  <2>1. IsSide(orders, S) /\ IsSide(other, T)
        BY <1>1, EligibleIsASide
  <2>2. S \in SUBSET D /\ T \in SUBSET D
        BY <1>1 DEF Eligible
  <2>3. \A i \in D : i \in T <=> pi[i] \in S
        BY RearrangedInterest
  <2> QED BY <2>1, <2>2, <2>3
<1> HIDE DEF S, T
<1>3. Ahead(other, T, j) = a
  <2> DEFINE A == Better(other, T, j)
             B == Better(orders, S, k)
  <2>1. A \in SUBSET DOMAIN orders /\ B \in SUBSET DOMAIN orders
        BY <1>2 DEF Better
  <2>2. \A i \in DOMAIN orders : i \in A <=> pi[i] \in B
        BY <1>1, <1>2 DEF Better
  <2> HIDE DEF A, B, k
  <2>3. SumFunctionOnSet(Sizes(other), A) = SumFunctionOnSet(Sizes(orders), B)
        BY <2>1, <2>2, RearrangedSums
  <2> QED BY <2>3 DEF A, B, Ahead
<1>4. Held(other, T, j) = h
  <2> DEFINE A == Level(other, T, j)
             B == Level(orders, S, k)
  <2>1. A \in SUBSET DOMAIN orders /\ B \in SUBSET DOMAIN orders
        BY <1>2 DEF Level
  <2>2. \A i \in DOMAIN orders : i \in A <=> pi[i] \in B
        BY <1>1, <1>2 DEF Level
  <2> HIDE DEF A, B, k
  <2>3. SumFunctionOnSet(Sizes(other), A) = SumFunctionOnSet(Sizes(orders), B)
        BY <2>1, <2>2, RearrangedSums
  <2> QED BY <2>3 DEF A, B, Held
<1>5. Sizes(other)[j] = z /\ z \in Nat
      BY <1>1, <1>2 DEF Sizes, IsBook
<1> DEFINE w == Weights(orders, S, k)
           u == Weights(other, T, j)
           x == Given(orders, S, v)[k]
           y == Given(other, T, v)[j]
<1>6. /\ a \in Nat /\ h \in Nat /\ h > 0
      /\ Level(orders, S, k) \in SUBSET Int /\ IsFiniteSet(Level(orders, S, k))
      /\ w \in [Level(orders, S, k) -> Nat] /\ Total(w) = h
      /\ k \in Level(orders, S, k) /\ w[k] = z
      BY <1>1, <1>2, WeightsOfALevel
<1>7. /\ Level(other, T, j) \in SUBSET Int /\ IsFiniteSet(Level(other, T, j))
      /\ u \in [Level(other, T, j) -> Nat] /\ Total(u) = h
      /\ j \in Level(other, T, j) /\ u[j] = z
  <2>1. /\ Level(other, T, j) \in SUBSET Int /\ IsFiniteSet(Level(other, T, j))
        /\ u \in [Level(other, T, j) -> Nat] /\ Total(u) = Held(other, T, j)
        /\ j \in Level(other, T, j) /\ u[j] = Sizes(other)[j]
        BY <1>1, <1>2, WeightsOfALevel
  <2> QED BY <1>4, <1>5, <2>1
<1>8. /\ a + h <= v => x = z
      /\ a >= v => x = 0
      /\ a < v /\ v < a + h => x = LargestRemainder(w, v - a)[k]
      BY <1>1, <1>2, GivenToAnOrder
<1>9. /\ a + h <= v => y = z
      /\ a >= v => y = 0
      /\ a < v /\ v < a + h => y = LargestRemainder(u, v - a)[j]
  <2>1. LET b == Ahead(other, T, j)
            g == Held(other, T, j)
        IN  /\ b + g <= v => y = Sizes(other)[j]
            /\ b >= v => y = 0
            /\ b < v /\ v < b + g => y = LargestRemainder(u, v - b)[j]
        BY <1>1, <1>2, GivenToAnOrder
  <2> QED BY ONLY <1>3, <1>4, <1>5, <2>1
<1> HIDE DEF a, h, z, w, u, x, y, k
<1>10. ASSUME a + h <= v \/ a >= v PROVE y - x \in {-1, 0, 1}
       BY <1>5, <1>8, <1>9, <1>10
<1>11. ASSUME a < v, v < a + h PROVE y - x \in {-1, 0, 1}
  <2> DEFINE amount == v - a
             L == Level(orders, S, k)
             M == Level(other, T, j)
             r == LargestRemainder(w, amount)[k]
             s == LargestRemainder(u, amount)[j]
  <2>1. amount \in Nat /\ Total(w) > 0 /\ Total(u) > 0
        BY <1>6, <1>7, <1>11
  <2>2. L \in SUBSET Int /\ IsFiniteSet(L) /\ w \in [L -> Nat] /\ k \in L
        BY <1>6
  <2>3. M \in SUBSET Int /\ IsFiniteSet(M) /\ u \in [M -> Nat] /\ j \in M
        BY <1>7
  <2> HIDE DEF amount, L, M
  <2>4. Floor(w, amount, k) \in Nat /\ r \in Nat /\ r - Floor(w, amount, k) \in {0, 1}
    <3>1. /\ LargestRemainder(w, amount) \in [L -> Nat]
          /\ \A i \in L : LargestRemainder(w, amount)[i] - Floor(w, amount, i) \in {0, 1}
          BY ONLY <2>1, <2>2, SplitIsExact
    <3>2. Floor(w, amount, k) \in Nat
          BY ONLY <2>1, <2>2, FloorAndRemainder
    <3> QED BY <2>2, <3>1, <3>2
  <2>5. s \in Nat /\ s - Floor(u, amount, j) \in {0, 1}
    <3>1. /\ LargestRemainder(u, amount) \in [M -> Nat]
          /\ \A i \in M : LargestRemainder(u, amount)[i] - Floor(u, amount, i) \in {0, 1}
          BY ONLY <2>1, <2>3, SplitIsExact
    <3> QED BY <2>3, <3>1
  <2>6. Floor(u, amount, j) = Floor(w, amount, k)
        BY ONLY <1>6, <1>7 DEF Floor
  <2>7. x = r /\ y = s
        BY <1>8, <1>9, <1>11 DEF amount
  <2> HIDE DEF r, s
  <2> QED BY ONLY <2>4, <2>5, <2>6, <2>7
<1>12. y - x \in {-1, 0, 1}
       BY ONLY <1>6, <1>10, <1>11, v \in Nat
<1> QED BY <1>12 DEF x, y, k, S, T

\* Exchanging two neighbours rearranges the book.
LEMMA ExchangeRearranges ==
    ASSUME AuctionInv, NEW k \in 1..(Len(book) - 1)
    PROVE  /\ Distinct(Exchanged(k))
           /\ \E pi : Rearranged(book, Exchanged(k), pi)
<1> DEFINE n == Len(book)
           pi == [i \in 1..n |-> IF i = k THEN k + 1 ELSE IF i = k + 1 THEN k ELSE i]
           other == Exchanged(k)
<1>1. IsBook(book) /\ \A i \in DOMAIN book : book[i].trader = i
      BY InvBook DEF AuctionInv
<1>2. n \in Nat /\ DOMAIN book = 1..n /\ k \in 1..n /\ k + 1 \in 1..n /\ k \in Nat
  <2>1. n \in Nat /\ DOMAIN book = 1..n
        BY <1>1 DEF IsBook
  <2> QED BY <2>1
<1>3. /\ \A i \in 1..n : pi[i] \in 1..n
      /\ pi \in [1..n -> 1..n]
      BY <1>2
<1>4. \A i \in 1..n : pi[pi[i]] = i
      BY <1>2
<1>5. other = [i \in 1..n |-> book[pi[i]]]
      BY <1>2 DEF Exchanged
<1> HIDE DEF pi, other, n
<1>6. pi \in Bijection(1..n, 1..n)
  <2>1. \A i, j \in 1..n : pi[i] = pi[j] => i = j
    <3> TAKE i, j \in 1..n
    <3> HAVE pi[i] = pi[j]
    <3>1. pi[pi[i]] = i /\ pi[pi[j]] = j
          BY <1>4
    <3> QED BY <3>1
  <2>2. \A y \in 1..n : \E i \in 1..n : pi[i] = y
        BY <1>3, <1>4
  <2> QED BY <1>3, <2>1, <2>2 DEF Bijection, Injection, Surjection, IsInjective
<1>7. DOMAIN other = 1..n /\ Len(other) = n
      BY <1>2, <1>5
<1>8. \A i \in 1..n : other[i] = book[pi[i]]
      BY <1>5
<1>9. IsBook(other)
  <2>1. \A i \in 1..n : /\ other[i].side \in {"BUY", "SELL"}
                        /\ other[i].limitPrice \in Nat \ {0}
                        /\ other[i].size \in Nat \ {0}
    <3> TAKE i \in 1..n
    <3>1. pi[i] \in DOMAIN book /\ other[i] = book[pi[i]]
          BY <1>2, <1>3, <1>8
    <3> QED BY <1>1, <3>1 DEF IsBook
  <2> QED BY <1>2, <1>7, <2>1 DEF IsBook
<1>10. Rearranged(book, other, pi)
       BY <1>1, <1>2, <1>6, <1>7, <1>8, <1>9 DEF Rearranged
<1>11. Distinct(other)
  <2> SUFFICES ASSUME NEW i \in 1..n, NEW j \in 1..n, other[i].trader = other[j].trader
               PROVE  i = j
      BY <1>7 DEF Distinct
  <2>1. other[i].trader = pi[i] /\ other[j].trader = pi[j]
    <3>1. /\ pi[i] \in DOMAIN book /\ other[i] = book[pi[i]]
          /\ pi[j] \in DOMAIN book /\ other[j] = book[pi[j]]
          BY <1>2, <1>3, <1>8
    <3> QED BY <1>1, <3>1
  <2>2. pi[i] = pi[j]
        BY <2>1
  <2>3. pi[pi[i]] = i /\ pi[pi[j]] = j
        BY <1>4
  <2> QED BY <2>2, <2>3
<1> QED BY <1>10, <1>11 DEF other

\* Arrival is worth a unit at most.
LEMMA InvArrival == AuctionInv => ArrivalWorthAtMostOneUnit
<1> SUFFICES ASSUME AuctionInv, NEW k \in 1..(Len(book) - 1)
             PROVE  /\ Clear(Exchanged(k)).clearingPrice = cleared.clearingPrice
                    /\ Clear(Exchanged(k)).volume = cleared.volume
                    /\ \A t \in DOMAIN book :
                          FilledIn(Clear(Exchanged(k)), t) - FilledOf(t) \in {-1, 0, 1}
    BY DEF ArrivalWorthAtMostOneUnit
<1> DEFINE other == Exchanged(k)
           v == cleared.volume
           price == cleared.clearingPrice
<1>1. cleared = Clear(book) /\ v \in Nat /\ \A i \in DOMAIN book : book[i].trader = i
      BY InvBook, ClearIsTraced DEF AuctionInv
<1>2. Distinct(other)
      BY ExchangeRearranges
<1>3. PICK pi : Rearranged(book, other, pi)
      BY ExchangeRearranges
<1>4. /\ IsBook(book) /\ IsBook(other) /\ DOMAIN other = DOMAIN book
      /\ \A i \in DOMAIN book : other[i] = book[pi[i]]
      /\ \A y \in DOMAIN book : \E i \in DOMAIN book : pi[i] = y
      BY <1>3 DEF Rearranged, Bijection, Surjection
<1> HIDE DEF other
<1>5. BestPrices(other) = BestPrices(book)
      BY <1>3, RearrangedBest
<1>6. Clear(other).volume = v /\ Clear(other).clearingPrice = price
  <2>1. Clear(other).volume = BestPrices(book).volume /\ v = BestPrices(book).volume
        BY <1>1, <1>4, <1>5, ClearIsTraced
  <2>2. CASE v = 0
    <3>1. Clear(other) = NoTrade /\ Clear(book) = NoTrade
          BY <1>4, <1>5, <2>1, <2>2, ClearIsTraced
    <3> QED BY <1>1, <2>1, <3>1
  <2>3. CASE v > 0
    <3>1. Clear(other).volume > 0 /\ Clear(book).volume > 0
          BY <1>1, <2>1, <2>3
    <3>2. /\ Clear(other).clearingPrice = Midpoint(BestPrices(other).tied)
          /\ Clear(book).clearingPrice = Midpoint(BestPrices(book).tied)
          BY <1>4, <3>1, ClearIsTraced
    <3>3. Clear(other).clearingPrice = Clear(book).clearingPrice
          BY ONLY <1>5, <3>2
    <3> QED BY <1>1, <2>1, <3>3
  <2> QED BY <1>1, <2>2, <2>3
<1>7. ASSUME NEW t \in DOMAIN book
      PROVE  FilledIn(Clear(other), t) - FilledOf(t) \in {-1, 0, 1}
  <2>1. PICK j \in DOMAIN book : pi[j] = t
        BY <1>4
  <2> DEFINE side == book[t].side
             S == Eligible(book, side, price)
             T == Eligible(other, side, price)
             x == Given(book, S, v)[t]
             y == Given(other, T, v)[j]
  <2>2. other[j].trader = t /\ other[j].side = side
        BY <1>1, <1>4, <2>1
  <2>3. FilledIn(Clear(other), t) = Fill(other, j)
    <3>1. FilledIn(Clear(other), other[j].trader) = Fill(other, j)
          BY <1>2, <1>4, FillOfAnOrder
    <3> QED BY ONLY <2>2, <3>1
  <2>4. Fill(other, j) = IF v > 0 /\ j \in T THEN y ELSE 0
        BY ONLY <1>6, <2>2 DEF Fill
  <2>5. FilledOf(t) = IF v > 0 /\ t \in S THEN x ELSE 0
    <3>1. FilledOf(t) = Fill(book, t)
          BY InvFills
    <3> QED BY ONLY <1>1, <3>1 DEF Fill
  <2>6. j \in T <=> t \in S
        BY <1>3, <2>1, RearrangedInterest
  <2>7. j \in T => y - x \in {-1, 0, 1}
    <3>1. j \in T => Given(other, T, v)[j] - Given(book, S, v)[pi[j]] \in {-1, 0, 1}
          BY <1>1, <1>3, RearrangedGiven
    <3> QED BY <2>1, <3>1
  <2> HIDE DEF S, T, x, y
  <2> QED BY ONLY <2>3, <2>4, <2>5, <2>6, <2>7
<1> QED BY <1>6, <1>7 DEF other

\* Arriving earlier changes neither price nor volume, and nobody's fill by more
\* than a unit: the rule allocate has instead of time priority.
THEOREM ArrivalIsWorthAtMostOneUnit == Spec => []ArrivalWorthAtMostOneUnit
BY AuctionInvariant, InvArrival, PTL
=============================================================================
