----------------------------- MODULE MCMidpoint -----------------------------
(* Two traders, funded to trade with each other, and a few ciphertexts that  *)
(* anyone may submit, their maker or not, once or several times, to the      *)
(* batch they were sealed for or to the next.                                *)
EXTENDS Midpoint

CONSTANTS a, b, v, t1, t2

MCTraders == {a, b}
MCFeeds == {[value |-> 2, decimals |-> 6, timestamp |-> 1]}
MCFunding == [base |-> [t \in MCTraders |-> IF t = b THEN 2 ELSE 0],
              quote |-> [t \in MCTraders |-> IF t = b THEN 1 ELSE 3]]

Sealed(key, trader, batch, side, limitPrice, size) ==
    [key |-> key, trader |-> trader, batch |-> batch, side |-> side,
     limitPrice |-> limitPrice, size |-> size]

\* Two bids and an ask that cross, and exceed their balances when submitted
\* twice; an order sealed for another machine's key; and an ask sealed for the
\* second batch, which a bid replayed from the first would cross.
MCCiphertexts ==
    {Sealed(t1, a, 1, "BUY", 1, 3), Sealed(t1, a, 1, "BUY", 2, 1),
     Sealed(t1, b, 1, "SELL", 1, 2), Sealed(t2, a, 1, "BUY", 2, 1),
     Sealed(t1, b, 2, "SELL", 2, 1)}

\* Three orders in all.  What the machine refuses alike whoever sends it, and
\* whatever came before, is sent in one way: an order sealed for another key by
\* its maker, one for the second batch not too early, and one for the first too
\* late only as a replay of what the first batch has shown.
InScope ==
    /\ Cardinality({m \in sent : m.cmd = "SUBMIT_ORDER"}) <= 3
    /\ \A m \in sent : m.cmd = "SUBMIT_ORDER" =>
          /\ m.ciphertext.key # t1 => m.sender = m.ciphertext.trader /\ m.batch = 1
          /\ m.ciphertext.batch <= m.batch
          /\ \E original \in sent : /\ original.cmd = "SUBMIT_ORDER"
                                   /\ original.batch = m.ciphertext.batch
                                   /\ original.ciphertext = m.ciphertext

\* The id of an instruction only tells it from the others, so states that differ
\* in which of them got which id are one.  What the machine keeps of the last
\* match (lastClearedBatch, lastClearingPrice) is only shown by its state handler.
Counted(messages) ==
    LET Nameless(m) == [m EXCEPT !.id = 0]
    IN  [x \in {Nameless(m) : m \in messages} |->
            Cardinality({m \in messages : Nameless(m) = x})]
WithoutIds ==
    <<Counted(handled), Counted(sent \ handled), chainVars, running, books, committed, signed>>
=============================================================================
