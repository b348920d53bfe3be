---------------------------- MODULE MCSettlement ----------------------------
(* The three contracts together, and machines that sign anything at all:     *)
(* every payload of up to two fills and a few of three, balanced or not, for *)
(* any batch, by the pinned machine or by another.                           *)
EXTENDS Settlement
LOCAL INSTANCE TLC

CONSTANTS a, b, v, t1, t2, c1

MCTraders == {a, b}
AlikeTraders == Permutations(MCTraders)
MCTees == {t1, t2}
MCCiphertexts == {c1}
MCFunding == [asset \in {"base", "quote"} |-> [t \in MCTraders |-> 0]]
MCFeeds == {[value |-> 2, decimals |-> 6, timestamp |-> 1],
            [value |-> 30, decimals |-> 7, timestamp |-> 1],
            [value |-> 2, decimals |-> 6, timestamp |-> 0],
            [value |-> 2, decimals |-> -1, timestamp |-> 1]}

Fill(t, side, size, quote) == [trader |-> t, side |-> side, size |-> size, quote |-> quote]
SoundFills == {Fill(t, side, 1, quote) : t \in MCTraders, side \in {0, 1}, quote \in 1..2}
BrokenFills == {Fill(t, 0, 0, 1) : t \in MCTraders} \union {Fill(t, 2, 1, 1) : t \in MCTraders}
ThreeFills ==
    {<<Fill(s, 0, 2, 1), Fill(t, 1, 1, r), Fill(u, 1, 1, 1 - r)>> :
        r \in {0, 1}, s \in MCTraders, t \in MCTraders, u \in MCTraders}

MCPayloads ==
    [batch : {1, 2}, price : {2},
     fills : {<<>>} \union {<<f>> : f \in BrokenFills}
               \union {<<f, g>> : f \in SoundFills, g \in SoundFills}]
    \union [batch : {1}, price : {3}, fills : ThreeFills]

\* What a machine signs is arbitrary here, so no step and no property reads who
\* sent an order or which balances it carries: states that differ in nothing
\* else are one.
WithoutOrderData ==
    <<{<<m.cmd, m.tee, m.batch, m.id>> : m \in sent},
      extensionId, owner, settlement, minBatchDuration, voidDelay,
      currentBatchId, batchTee, batchOpenedAt, orderCount, batchClosed, now, ended,
      vaultVars, settlementVars>>
=============================================================================
