----------------------------- MODULE MCOrderBook -----------------------------
(* Instances of OrderBook for TLC: two batches, two machines, two accounts,  *)
(* and numeric widths small enough that the counter wraps and a delay        *)
(* overflows.                                                                *)
EXTENDS OrderBook

CONSTANTS o1, x1, t1, t2, c1

MCAccounts == {o1, x1}
MCTees == {t1, t2}
MCExtensionIds == {7}
MCAmounts == {1}
MCCiphertexts == {c1}
MCDurations == {1, 2}
=============================================================================
