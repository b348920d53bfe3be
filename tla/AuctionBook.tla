------------------------------ MODULE AuctionBook ------------------------------
(***************************************************************************)
(* The auction over every book of up to MaxOrders orders, built one order  *)
(* at a time as the enclave builds it (handleSubmitOrder appends).  Each   *)
(* order has a trader of its own, numbered by arrival, so a fill can be    *)
(* traced to its order.                                                    *)
(***************************************************************************)
EXTENDS Auction

\* Prices and sizes an order may have, the bound on the book's length, and the
\* prices, in a book or not, that a clearing price is compared with.
CONSTANTS Prices, OrderSizes, MaxOrders, AnyPrice

\* parseOrder admits only positive limits and sizes.
ASSUME BookFits ==
    /\ Prices \subseteq Nat \ {0} /\ OrderSizes \subseteq Nat \ {0}
    /\ MaxOrders \in Nat /\ AnyPrice \subseteq Nat

VARIABLES book, cleared

vars == <<book, cleared>>

Init ==
    /\ book = <<>>
    /\ cleared = Clear(<<>>)

Arrive(side, limitPrice, size) ==
    /\ Len(book) < MaxOrders
    /\ book' = Append(book, [trader |-> Len(book) + 1, side |-> side,
                             limitPrice |-> limitPrice, size |-> size])
    /\ cleared' = Clear(book')

Next == \E side \in {"BUY", "SELL"}, limitPrice \in Prices, size \in OrderSizes :
            Arrive(side, limitPrice, size)

Spec == Init /\ [][Next]_vars

-----------------------------------------------------------------------------
(* Reference definitions                                                   *)

Leg(side) == {i \in DOMAIN cleared.fills : cleared.fills[i].side = side}
SizeOn(side) == SumFunctionOnSet(Sizes(cleared.fills), Leg(side))
QuoteOn(side) == SumFunctionOnSet(Quotes(cleared.fills), Leg(side))
OrderOf(i) == book[cleared.fills[i].trader]

\* What the fills of a result give a trader.
FilledIn(result, trader) ==
    SumFunctionOnSet(Sizes(result.fills),
        {i \in DOMAIN result.fills : result.fills[i].trader = trader})
FilledOf(k) == FilledIn(cleared, k)

\* "CHOOSE p* TO MAXIMISE EXECUTED VOLUME" and "Only prices present in the book
\* can be optimal": no price at all, in the book or not, executes more, and the
\* midpoint of the tied range, which need not be in the book, executes as much.
VolumeIsMaximal ==
    /\ \A p \in AnyPrice : VolumeAt(book, p) <= cleared.volume
    /\ cleared.volume > 0 => VolumeAt(book, cleared.clearingPrice) = cleared.volume

\* The price is the one the rules name: of the book's prices with the largest
\* volume, those with the least imbalance, and of those the middle.
PriceFollowsTheRules ==
    LET widest == {p \in Limits(book) : VolumeAt(book, p) = cleared.volume}
        fairest == {p \in widest : \A q \in widest : ImbalanceAt(book, p) <= ImbalanceAt(book, q)}
    IN  cleared.volume > 0 =>
            \E low, high \in fairest :
                /\ \A p \in fairest : low <= p /\ p <= high
                /\ cleared.clearingPrice = (low + high) \div 2

\* Both legs net to zero, base and quote: what _checkConservation demands of
\* every signed settlement, after two different roundings.
LegsBalance ==
    /\ SizeOn("BUY") = cleared.volume /\ SizeOn("SELL") = cleared.volume
    /\ QuoteOn("BUY") = QuoteOn("SELL")
    /\ QuoteOn("BUY") = QuoteAmount(cleared.volume, cleared.clearingPrice)

\* Nobody trades on terms it did not offer, and better terms go first: an order
\* fills within its size and only at a price it accepts, and while it is short
\* no order of its side on strictly worse terms fills at all.
PricePriority ==
    /\ \A k \in DOMAIN book :
          /\ FilledOf(k) <= book[k].size
          /\ FilledOf(k) > 0 => Accepts(book[k], cleared.clearingPrice)
    /\ \A k, m \in DOMAIN book :
          /\ book[k].side = book[m].side
          /\ IF book[k].side = "BUY" THEN book[k].limitPrice > book[m].limitPrice
                                     ELSE book[k].limitPrice < book[m].limitPrice
          /\ FilledOf(k) < book[k].size
          => FilledOf(m) = 0

\* Orders that cannot be told apart but by arrival and size are rationed in
\* proportion: no order is a whole unit away from its share of its level.
RationedInProportion ==
    \A k \in DOMAIN book :
        LET level == {m \in DOMAIN book : book[m].side = book[k].side
                                        /\ book[m].limitPrice = book[k].limitPrice}
            held == SumFunctionOnSet(Sizes(book), level)
            given == SumFunctionOnSet([m \in DOMAIN book |-> FilledOf(m)], level)
            error == FilledOf(k) * held - book[k].size * given
        IN  -held < error /\ error < held

\* The quote split moves no trader more than one unit from its size at the
\* clearing price, so a buyer pays at most one unit over what commit reserved
\* for the order, and a seller receives at most one unit less than its ask.
QuoteWithinOneUnit ==
    \A i \in DOMAIN cleared.fills :
        LET f == cleared.fills[i]
            atLimit == QuoteAmount(f.size, OrderOf(i).limitPrice)
        IN  IF f.side = "BUY" THEN f.quote <= atLimit + 1
                              ELSE f.quote >= atLimit - 1

-----------------------------------------------------------------------------
(* Arrival order                                                           *)

\* The book with two neighbouring arrivals exchanged.
Exchanged(k) == [i \in DOMAIN book |-> book[IF i = k THEN k + 1
                                       ELSE IF i = k + 1 THEN k ELSE i]]

\* Arriving earlier changes neither the price nor the volume, and never gets or
\* costs any trader more than one base unit.
ArrivalWorthAtMostOneUnit ==
    \A k \in 1..(Len(book) - 1) :
        LET other == Clear(Exchanged(k))
        IN  /\ other.clearingPrice = cleared.clearingPrice
            /\ other.volume = cleared.volume
            /\ \A t \in DOMAIN book :
                  FilledIn(other, t) - FilledOf(t) \in {-1, 0, 1}

\* "Buyers pay the clearing price, which is never worse than their limit, so
\* reserving at the limit is an upper bound and can never under-reserve"
\* (collateral.ts): no fill costs more than commit reserved for the order.
ReservationIsUpperBound ==
    \A i \in Leg("BUY") :
        cleared.fills[i].quote <= QuoteAmount(OrderOf(i).size, OrderOf(i).limitPrice)
=============================================================================
