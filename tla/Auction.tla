------------------------------- MODULE Auction -------------------------------
(***************************************************************************)
(* extension/typescript/src/app/auction.ts: the uniform-price call         *)
(* auction, as functions of the book.  A book is a sequence of orders      *)
(* [trader, side, limitPrice, size] in arrival order, all sizes and limits *)
(* positive (parseOrder).  bigint arithmetic is exact, so sizes are        *)
(* naturals without a width.                                               *)
(***************************************************************************)
EXTENDS Integers, Sequences, FiniteSets, Functions

CONSTANT PriceScale
ASSUME PriceScaleIsPositive == PriceScale \in Nat \ {0}

\* Fault: the price is not scaled down.
FaultyQuoteAmount(size, price) == size * price

QuoteAmount(size, price) == (size * price) \div PriceScale

Total(weights) == SumFunctionOnSet(weights, DOMAIN weights)
Sizes(orders) == [i \in DOMAIN orders |-> orders[i].size]
Quotes(fills) == [i \in DOMAIN fills |-> fills[i].quote]

\* How many of a set come before i, and the set in that order.
Place(S, before, i) == Cardinality({j \in S : <<j, i>> \in before})
InOrder(S, before) == [k \in 1..Cardinality(S) |->
                          CHOOSE i \in S : Place(S, before, i) = k - 1]

\* A bid accepts its limit or less, an ask its limit or more.
Accepts(o, price) == IF o.side = "BUY" THEN o.limitPrice >= price
                                       ELSE o.limitPrice <= price

\* The orders of a side that would trade at a price, by place of arrival.
Eligible(orders, side, price) ==
    {i \in DOMAIN orders : orders[i].side = side /\ Accepts(orders[i], price)}

InterestAt(orders, side, price) ==
    SumFunctionOnSet(Sizes(orders), Eligible(orders, side, price))
DemandAt(orders, price) == InterestAt(orders, "BUY", price)
SupplyAt(orders, price) == InterestAt(orders, "SELL", price)

Smaller(a, b) == IF a < b THEN a ELSE b
VolumeAt(orders, price) == Smaller(DemandAt(orders, price), SupplyAt(orders, price))
ImbalanceAt(orders, price) ==
    LET gap == DemandAt(orders, price) - SupplyAt(orders, price)
    IN  IF gap < 0 THEN -gap ELSE gap

-----------------------------------------------------------------------------
(* Price selection                                                         *)

Limits(orders) == {orders[i].limitPrice : i \in DOMAIN orders}
Ascending(S) == {pair \in S \X S : pair[1] < pair[2]}
Candidates(orders) == InOrder(Limits(orders), Ascending(Limits(orders)))

\* Fault: the lesser imbalance wins, whatever the volume.
FaultyImproves(best, volume, imbalance) ==
    best.volume = 0 \/ imbalance < best.imbalance

\* One turn of the scan: prefer more volume, then less imbalance, else a tie.
Improves(best, volume, imbalance) ==
    \/ volume > best.volume
    \/ volume = best.volume /\ imbalance < best.imbalance

Consider(orders, best, price) ==
    LET volume == VolumeAt(orders, price)
        imbalance == ImbalanceAt(orders, price)
    IN  IF volume = 0 THEN best
        ELSE IF Improves(best, volume, imbalance)
        THEN [volume |-> volume, imbalance |-> imbalance, tied |-> <<price>>]
        ELSE IF volume = best.volume /\ imbalance = best.imbalance
        THEN [best EXCEPT !.tied = Append(@, price)]
        ELSE best

BestPrices(orders) ==
    LET best[n \in 0..Len(Candidates(orders))] ==
            IF n = 0 THEN [volume |-> 0, imbalance |-> 0, tied |-> <<>>]
            ELSE Consider(orders, best[n - 1], Candidates(orders)[n])
    IN  best[Len(Candidates(orders))]

\* Fault: the surplus of a tie goes to the buyers.
FaultyMidpoint(tied) == tied[1]

Midpoint(tied) == (tied[1] + tied[Len(tied)]) \div 2

-----------------------------------------------------------------------------
(* Allocation                                                              *)

\* Split amount in proportion to weights: floors first, then one unit each to
\* the largest remainders, the earlier index first among equal ones.
Floor(weights, amount, i) == (weights[i] * amount) \div Total(weights)
Remainder(weights, amount, i) == (weights[i] * amount) % Total(weights)
Floors(weights, amount) == [i \in DOMAIN weights |-> Floor(weights, amount, i)]
Shortfall(weights, amount) == amount - Total(Floors(weights, amount))
ByRemainder(weights, amount) ==
    {pair \in (DOMAIN weights) \X (DOMAIN weights) :
        LET r1 == Remainder(weights, amount, pair[1])
            r2 == Remainder(weights, amount, pair[2])
        IN  r1 > r2 \/ (r1 = r2 /\ pair[1] < pair[2])}

\* Fault: the units lost to flooring are never handed out.
FaultyLargestRemainder(weights, amount) == Floors(weights, amount)

LargestRemainder(weights, amount) ==
    [i \in DOMAIN weights |->
        Floor(weights, amount, i)
        + IF Place(DOMAIN weights, ByRemainder(weights, amount), i)
               < Shortfall(weights, amount) THEN 1 ELSE 0]

\* Fault: asks are ranked like bids, highest limit first.
FaultyBetterTerms(o1, o2) == o1.limitPrice > o2.limitPrice

BetterTerms(o1, o2) == IF o1.side = "BUY" THEN o1.limitPrice > o2.limitPrice
                                          ELSE o1.limitPrice < o2.limitPrice

\* Best terms first, arrival order within a price.
Precedence(orders) ==
    {pair \in (DOMAIN orders) \X (DOMAIN orders) :
        \/ BetterTerms(orders[pair[1]], orders[pair[2]])
        \/ orders[pair[1]].limitPrice = orders[pair[2]].limitPrice /\ pair[1] < pair[2]}

\* Fault: the level is rationed by arrival.
FaultyFirstCome(level, remaining) ==
    [i \in DOMAIN level |->
        LET before == SumFunctionOnSet(level, {j \in DOMAIN level : j < i})
        IN  IF before >= remaining THEN 0 ELSE Smaller(level[i], remaining - before)]

\* A price level takes what better levels left; if that is less than the level
\* holds it is prorated.
LevelSize(level, remaining) ==
    IF Total(level) <= remaining THEN level ELSE LargestRemainder(level, remaining)

Better(orders, side, i) == {j \in side : BetterTerms(orders[j], orders[i])}
Level(orders, side, i) == {j \in side : orders[j].limitPrice = orders[i].limitPrice}
Remaining(orders, side, volume, i) ==
    LET ahead == SumFunctionOnSet(Sizes(orders), Better(orders, side, i))
    IN  IF ahead < volume THEN volume - ahead ELSE 0

\* What each eligible order of a side is given.
Given(orders, side, volume) ==
    [i \in side |-> LevelSize(Restrict(Sizes(orders), Level(orders, side, i)),
                              Remaining(orders, side, volume, i))[i]]

\* Orders that get nothing have no fill.
Allocate(orders, side, price, volume) ==
    LET given == Given(orders, Eligible(orders, side, price), volume)
        filled == {i \in DOMAIN given : given[i] > 0}
        queue == InOrder(filled, Precedence(orders))
    IN  [k \in DOMAIN queue |->
            [trader |-> orders[queue[k]].trader, side |-> side, size |-> given[queue[k]]]]

\* Fault: the quote is split evenly rather than by size.
FaultyWithQuote(fills, totalQuote) ==
    LET quotes == LargestRemainder([i \in DOMAIN fills |-> 1], totalQuote)
    IN  [i \in DOMAIN fills |->
            [trader |-> fills[i].trader, side |-> fills[i].side,
             size |-> fills[i].size, quote |-> quotes[i]]]

WithQuote(fills, totalQuote) ==
    LET quotes == LargestRemainder(Sizes(fills), totalQuote)
    IN  [i \in DOMAIN fills |->
            [trader |-> fills[i].trader, side |-> fills[i].side,
             size |-> fills[i].size, quote |-> quotes[i]]]

\* What handleRunMatch makes of a book that does not cross.
NoTrade == [clearingPrice |-> 0, volume |-> 0, fills |-> <<>>]

\* The fills of one side, whose quotes add up to that of the volume.
LegFills(orders, side, price, volume) ==
    WithQuote(Allocate(orders, side, price, volume), QuoteAmount(volume, price))

Clear(orders) ==
    LET best == BestPrices(orders)
        price == Midpoint(best.tied)
    IN  IF best.volume = 0 THEN NoTrade
        ELSE [clearingPrice |-> price, volume |-> best.volume,
              fills |-> LegFills(orders, "BUY", price, best.volume)
                        \o LegFills(orders, "SELL", price, best.volume)]
=============================================================================
