------------------------------ MODULE Midpoint ------------------------------
(***************************************************************************)
(* The venue end to end: the contracts (Settlement, with OrderBook and     *)
(* Vault), the machines (Enclave) and what lies between them.  Downward,   *)
(* Flare's pipeline carries what the order book sent.  Upward, a relayer   *)
(* (client/src/relayer.ts) fetches a signed result and submits it: it may  *)
(* be late, repeat itself, be one of several, or never come.               *)
(***************************************************************************)
EXTENDS Settlement, Auction

\* What encrypts to a ciphertext decodes as an order, whether it is one that
\* parseOrder admits or not.
ASSUME CiphertextsDecode ==
    \A c \in Ciphertexts :
        c.side \in {"BUY", "SELL"} /\ c.limitPrice \in Nat /\ c.size \in Nat

VARIABLES
    running, books, committed, lastClearedBatch, lastClearingPrice,
    handled, signed

Batches == 1..MaxBatch

Machines == INSTANCE Enclave

chainVars == <<extensionId, owner, settlement, minBatchDuration, voidDelay,
               currentBatchId, batchTee, batchOpenedAt, orderCount, batchClosed,
               now, ended, balance, held, frozen, vaultOwner, vaultSettlement,
               settlementOwner, bandBps, lastSettledBatch>>
machineVars == <<running, books, committed, lastClearedBatch, lastClearingPrice,
                 handled, signed>>
venueVars == <<chainVars, sent, machineVars>>

VenueTypeOK == TypeOK /\ Machines!TypeOK

VenueInit == Init /\ Machines!Init

\* Relayers only ever have what some machine signed.
Relay == \E result \in signed, feed \in Feeds :
            Settle(result.payload, result.signer, feed)

OnChain == (TraderStep \/ BatchStep \/ Relay) /\ UNCHANGED machineVars

InEnclave == Machines!Next /\ UNCHANGED chainVars

VenueNext == OnChain \/ InEnclave

VenueSpec == VenueInit /\ [][VenueNext]_venueVars

-----------------------------------------------------------------------------
(* Properties                                                              *)

\* The orders a trader itself sent for a batch.
OwnOrders(trader, batch) ==
    {m \in sent : /\ m.cmd = "SUBMIT_ORDER"
                  /\ m.sender = trader
                  /\ m.ciphertext.trader = trader
                  /\ m.batch = batch
                  /\ m.ciphertext.batch = batch}
OwnOrdersOn(side, trader, batch) ==
    {m \in OwnOrders(trader, batch) : m.ciphertext.side = side}
AtLimit(m) == QuoteAmount(m.ciphertext.size, m.ciphertext.limitPrice)
Gain(asset, trader) == balance'[asset][trader] - balance[asset][trader]
Settles == lastSettledBatch' # lastSettledBatch

\* A settlement takes from a trader at most what the trader itself offered, for
\* that batch: the base of its asks, and the quote of its bids at their limits,
\* with the one unit per order that the quote split may add.
ChargedOnlyAsOffered ==
    [][Settles => \A t \in Traders :
          LET asks == OwnOrdersOn("SELL", t, lastSettledBatch')
              bids == OwnOrdersOn("BUY", t, lastSettledBatch')
          IN  /\ -Gain("base", t) <= SumFunction([m \in asks |-> m.ciphertext.size])
              /\ -Gain("quote", t) <= SumFunction([m \in bids |-> AtLimit(m) + 1])]_venueVars

\* A trader with one order in a batch trades on its own side, at its limit or
\* better: a buyer pays less than one unit over, a seller receives less than
\* two units under (the volume's quote is rounded down, then split).
TradedWithinLimit ==
    [][Settles => \A t \in Traders : \A m \in OwnOrders(t, lastSettledBatch') :
          Cardinality(OwnOrders(t, lastSettledBatch')) = 1 =>
              LET base == Gain("base", t)
                  quote == Gain("quote", t)
              IN  /\ IF m.ciphertext.side = "BUY" THEN base >= 0 /\ quote <= 0
                                                  ELSE base <= 0 /\ quote >= 0
                  /\ base # 0 =>
                        quote * PriceScale + base * m.ciphertext.limitPrice
                            > -PriceScale * IF base > 0 THEN 1 ELSE 2]_venueVars

\* One signed result per batch, so that relayers cannot choose between two
\* outcomes.  A machine does not look at what it has cleared: asked again, it
\* would clear what arrived late.  So it rests on the order book, which must not
\* close a batch twice, nor give its number to another (closeBatch, voidBatch).
OneResultPerBatch ==
    \A r1, r2 \in signed : r1.payload.batch = r2.payload.batch => r1 = r2

\* What a machine signed for the batch in hand is what settle asks for, whoever
\* relays it (closeBatch, handleRunMatch, clear), but for the oracle's band; and
\* it is commit's purpose that the vault can carry it out: every trader that
\* still holds what it held when it ordered can hand over its part, whatever the
\* others did: base to the unit, quote but for the unit per fill of the quote
\* split.  With the type invariant: the result names traders, and no amount
\* below zero.
PayableUnlessWithdrawn ==
    /\ VenueTypeOK
    /\ \A r \in signed : r.payload.batch = currentBatchId =>
          /\ batchClosed /\ r.signer = batchTee /\ lastSettledBatch < currentBatchId
          /\ Conserves(r.payload.fills)
          /\ \A t \in Traders :
                (\A m \in sent :
                    m.cmd = "SUBMIT_ORDER" /\ m.sender = t /\ m.batch = currentBatchId =>
                        balance["base"][t] >= m.base /\ balance["quote"][t] >= m.quote)
                => LET fills == r.payload.fills
                       bids == {i \in DOMAIN fills : fills[i].trader = t /\ fills[i].side = 0}
                   IN  /\ Owes(fills, t, "base") <= balance["base"][t]
                       /\ Owes(fills, t, "quote") <= balance["quote"][t] + Cardinality(bids)

\* "Keyed by batch so a late order for a closed batch cannot slip in"
\* (handlers.ts): a machine that has cleared a batch holds no order for it.
NoLateOrder ==
    \A tee \in Tees : \A r \in signed :
        r.signer = tee => books[tee][r.payload.batch] = <<>>
=============================================================================
