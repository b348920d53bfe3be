------------------------------- MODULE Enclave -------------------------------
(***************************************************************************)
(* extension/typescript/src/app/handlers.ts, collateral.ts and order.ts:   *)
(* the machines that hold the books.  A machine is its key, which is also  *)
(* its address: the two processes of a container die together and come     *)
(* back with another key, as another machine, so a crash is final.         *)
(*                                                                         *)
(* External: Flare's instruction pipeline, which delivers what the order   *)
(* book sent at most once, in any order, or never; tee-node, which opens a *)
(* ciphertext made for its own key and may fail to sign.  Handler calls    *)
(* are serialised by the server, so one call is one action.                *)
(*                                                                         *)
(* A ciphertext is what encrypts to it: [key, trader, batch, side,         *)
(* limitPrice, size].  A limit or size of 0 stands for a plaintext that    *)
(* parseOrder refuses.                                                     *)
(***************************************************************************)
EXTENDS Integers, Sequences

CONSTANTS
    Tees, Traders,
    Batches,        \* numbers of the batches that accept orders
    \* The call auction (auction.ts), which module Auction defines.
    QuoteAmount(_, _), Clear(_)

VARIABLES
    sent,                \* instructions the order book has sent (input)
    running,             \* running[tee]
    books,               \* books[tee][batch], in arrival order
    committed,           \* committed[tee][batch][trader] = [base, quote]
    lastClearedBatch, lastClearingPrice,
    handled,             \* instructions that were delivered
    signed               \* [payload, signer]: results any relayer can fetch

memory == <<books, committed, lastClearedBatch, lastClearingPrice>>
vars == <<sent, running, memory, handled, signed>>

NoBooks == [b \in Batches |-> <<>>]
Nothing == [base |-> 0, quote |-> 0]
NothingCommitted == [b \in Batches |-> [t \in Traders |-> Nothing]]

Init ==
    /\ running = [tee \in Tees |-> TRUE]
    /\ books = [tee \in Tees |-> NoBooks]
    /\ committed = [tee \in Tees |-> NothingCommitted]
    /\ lastClearedBatch = [tee \in Tees |-> 0]
    /\ lastClearingPrice = [tee \in Tees |-> 0]
    /\ handled = {}
    /\ signed = {}

RestingOrders ==
    [trader : Traders, side : {"BUY", "SELL"}, limitPrice : Nat \ {0}, size : Nat \ {0}]
NetFills == [trader : Traders, side : {0, 1}, size : Nat \ {0}, quote : Nat]

TypeOK ==
    /\ running \in [Tees -> BOOLEAN]
    /\ books \in [Tees -> [Batches -> Seq(RestingOrders)]]
    /\ committed \in [Tees -> [Batches -> [Traders -> [base : Nat, quote : Nat]]]]
    /\ lastClearedBatch \in [Tees -> Batches \union {0}]
    /\ lastClearingPrice \in [Tees -> Nat]
    /\ handled \subseteq sent
    /\ \A r \in signed : /\ r.signer \in Tees
                        /\ r.payload.batch \in Batches
                        /\ r.payload.fills \in Seq(NetFills)

-----------------------------------------------------------------------------

\* An instruction reaches the running machine it was sent to.
Deliver(tee, m) ==
    /\ running[tee]
    /\ m \in sent \ handled
    /\ m.tee = tee
    /\ handled' = handled \union {m}
    /\ UNCHANGED <<sent, running>>

\* Fault: the batch inside the ciphertext is not compared.
FaultyParses(tee, m) ==
    /\ m.ciphertext.key = tee
    /\ m.ciphertext.trader = m.sender
    /\ m.ciphertext.limitPrice > 0
    /\ m.ciphertext.size > 0

\* decryptor and parseOrder: the ciphertext was made for this key, by the
\* account that submitted it, for the batch it was submitted to.
Parses(tee, m) ==
    /\ m.ciphertext.key = tee
    /\ m.ciphertext.trader = m.sender
    /\ m.ciphertext.batch = m.batch
    /\ m.ciphertext.limitPrice > 0
    /\ m.ciphertext.size > 0

\* What the trader has committed to the batch with this order as well.
WithOrder(current, order) ==
    IF order.side = "SELL"
    THEN [current EXCEPT !.base = @ + order.size]
    ELSE [current EXCEPT !.quote =
             @ + QuoteAmount(order.size, order.limitPrice)]

\* Fault: every order is held to the balance on its own.
FaultyCovered(tee, m) ==
    LET next == WithOrder(Nothing, m.ciphertext)
    IN  IF m.ciphertext.side = "SELL" THEN next.base <= m.base
                                      ELSE next.quote <= m.quote

\* commit: the side of the commitment that this order raises is within the
\* balance that came with this order.
Covered(tee, m) ==
    LET next == WithOrder(committed[tee][m.batch][m.ciphertext.trader], m.ciphertext)
    IN  IF m.ciphertext.side = "SELL" THEN next.base <= m.base
                                      ELSE next.quote <= m.quote

HandleSubmitOrder(tee, m) ==
    /\ m.cmd = "SUBMIT_ORDER"
    /\ Deliver(tee, m)
    /\ IF Parses(tee, m) /\ Covered(tee, m)
       THEN LET order == [trader |-> m.ciphertext.trader, side |-> m.ciphertext.side,
                          limitPrice |-> m.ciphertext.limitPrice,
                          size |-> m.ciphertext.size]
            IN  /\ committed' = [committed EXCEPT ![tee][m.batch][order.trader] =
                                    WithOrder(@, m.ciphertext)]
                /\ books' = [books EXCEPT ![tee][m.batch] = Append(@, order)]
       ELSE UNCHANGED <<books, committed>>
    /\ UNCHANGED <<lastClearedBatch, lastClearingPrice, signed>>

\* The payload for the chain: sides become 0 and 1.
Payload(batch, result) ==
    [batch |-> batch, price |-> result.clearingPrice,
     fills |-> [i \in DOMAIN result.fills |->
                  [result.fills[i] EXCEPT !.side = IF @ = "BUY" THEN 0 ELSE 1]]]

\* releaseBatch, with books.delete
Consume(tee, batch) ==
    /\ books' = [books EXCEPT ![tee][batch] = <<>>]
    /\ committed' = [committed EXCEPT ![tee][batch] = [t \in Traders |-> Nothing]]

\* A book is consumed only once its result is signed.  A book that does not
\* cross clears as an empty settlement.
HandleRunMatch(tee, m) ==
    LET book == books[tee][m.batch]
        result == Clear(book)
    IN  /\ m.cmd = "RUN_MATCH"
        /\ Deliver(tee, m)
        /\ \/ /\ book # <<>>
              /\ signed' = signed \union
                     {[payload |-> Payload(m.batch, result), signer |-> tee]}
              /\ Consume(tee, m.batch)
              /\ lastClearedBatch' = [lastClearedBatch EXCEPT ![tee] = m.batch]
              /\ lastClearingPrice' =
                     [lastClearingPrice EXCEPT ![tee] = result.clearingPrice]
           \* no orders, or signing failed
           \/ UNCHANGED <<memory, signed>>

Crash(tee) ==
    /\ running[tee]
    /\ running' = [running EXCEPT ![tee] = FALSE]
    /\ books' = [books EXCEPT ![tee] = NoBooks]
    /\ committed' = [committed EXCEPT ![tee] = NothingCommitted]
    /\ lastClearedBatch' = [lastClearedBatch EXCEPT ![tee] = 0]
    /\ lastClearingPrice' = [lastClearingPrice EXCEPT ![tee] = 0]
    /\ UNCHANGED <<sent, handled, signed>>

Next ==
    \E tee \in Tees :
        \/ \E m \in sent : HandleSubmitOrder(tee, m) \/ HandleRunMatch(tee, m)
        \/ Crash(tee)
=============================================================================
