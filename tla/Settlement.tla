----------------------------- MODULE Settlement -----------------------------
(***************************************************************************)
(* contracts/src/Settlement.sol with the two contracts it drives: Vault    *)
(* and OrderBook, deployed and wired to it.  settle is one transaction, so *)
(* it either does everything or reverts and does nothing.                  *)
(*                                                                         *)
(* A payload is [batch, price, fills], a fill [trader, side, size, quote]  *)
(* with side 0 for BUY and 1 for SELL.  ecrecover is external: a signature *)
(* stands for the address it recovers to.  The FTSO feed is external and   *)
(* answers [value, decimals, timestamp].                                   *)
(***************************************************************************)
EXTENDS Integers, Sequences, FiniteSetsExt, SequencesExt

CONSTANTS
    Traders,        \* addresses that trade
    Deployers,      \* those of them that may have deployed, and own, the contracts
    Venue,          \* the Settlement contract's own address
    Tees, None, ExtensionIds, Ciphertexts, Durations,
    U64, U32, MaxBatch, MaxOrders, OpenBy, MaxTime, MaxHeld,
    DepositAmounts, WithdrawAmounts,
    Feeds,          \* answers the FTSO may give
    Bands,          \* values the owner uses for bandBps
    Funding,        \* Funding[asset][trader]: deposited before the first order
    Payloads        \* what a machine may come to sign; no fill names Venue

ASSUME DeployersTrade == Deployers \subseteq Traders
ASSUME VenueIsNoTrader == Venue \notin Traders /\ None \notin Traders \union {Venue}
ASSUME TradersAreFinite == IsFiniteSet(Traders)
ASSUME FundingFits ==
    /\ MaxHeld \in Nat
    /\ Funding \in [{"base", "quote"} -> [Traders -> 0..MaxHeld]]
    /\ \A a \in {"base", "quote"} : SumFunction(Funding[a]) <= MaxHeld
ASSUME AmountsAreNat == DepositAmounts \union WithdrawAmounts \subseteq Nat
\* What OrderBook assumes of its constants.
ASSUME OrderBookFits ==
    /\ None \notin Tees /\ Durations \subseteq 0..U64 /\ ExtensionIds \subseteq Nat \ {0}
    /\ U64 \in Nat /\ U32 \in Nat \ {0} /\ MaxBatch \in Nat /\ MaxOrders \in Nat
    /\ OpenBy \in Nat /\ MaxTime \in Nat /\ MaxTime <= U64
\* Fills are decoded as (address, uint8, uint256, uint256).
ASSUME PayloadsNameTraders ==
    \A payload \in Payloads :
        payload.fills \in Seq([trader : Traders, side : Nat, size : Nat, quote : Nat])
ASSUME BandsAreUint16 == Bands \subseteq 0..65535

Accounts == Traders \union {Venue}

VARIABLES
    extensionId, owner, settlement, minBatchDuration, voidDelay,
    currentBatchId, batchTee, batchOpenedAt, orderCount, batchClosed,
    now, sent, ended,
    balance, held, frozen, vaultOwner, vaultSettlement,
    settlementOwner, bandBps, lastSettledBatch

OrderBookContract == INSTANCE OrderBook WITH Amounts <- 0..MaxHeld
VaultContract == INSTANCE Vault WITH Holders <- Accounts,
                     TokenAmounts <- DepositAmounts \union WithdrawAmounts

orderBookVars == <<extensionId, owner, settlement, minBatchDuration, voidDelay,
                   currentBatchId, batchTee, batchOpenedAt, orderCount,
                   batchClosed, now, sent, ended>>
vaultRoles == <<vaultOwner, vaultSettlement>>
vaultVars == <<balance, held, frozen, vaultRoles>>
settlementVars == <<settlementOwner, bandBps, lastSettledBatch>>
vars == <<orderBookVars, vaultVars, settlementVars>>

TypeOK ==
    /\ OrderBookContract!TypeOK
    /\ VaultContract!TypeOK
    /\ settlementOwner \in Accounts
    /\ bandBps \in Bands
    /\ lastSettledBatch \in Nat

\* Deployed, registered, wired and funded; nobody has traded yet.
Init ==
    /\ extensionId \in ExtensionIds
    /\ owner \in Deployers
    /\ settlement = Venue
    /\ minBatchDuration \in Durations
    /\ voidDelay \in Durations
    /\ currentBatchId = 1
    /\ batchTee = None
    /\ batchOpenedAt = 0
    /\ orderCount = 0
    /\ batchClosed = FALSE
    /\ now = 0
    /\ sent = {}
    /\ ended = <<>>
    /\ balance = [a \in VaultContract!Assets |->
                    [h \in Accounts |-> IF h = Venue THEN 0 ELSE Funding[a][h]]]
    /\ held = [a \in VaultContract!Assets |-> SumFunction(Funding[a])]
    /\ frozen = FALSE
    /\ vaultOwner = owner
    /\ vaultSettlement = Venue
    /\ settlementOwner = owner
    /\ bandBps \in Bands
    /\ lastSettledBatch = 0

-----------------------------------------------------------------------------
(* The checks settle makes                                                 *)

Bought(fills) == SumFunction([i \in DOMAIN fills |-> IF fills[i].side = 0 THEN fills[i].size ELSE 0])
Sold(fills) == SumFunction([i \in DOMAIN fills |-> IF fills[i].side = 1 THEN fills[i].size ELSE 0])
Paid(fills) == SumFunction([i \in DOMAIN fills |-> IF fills[i].side = 0 THEN fills[i].quote ELSE 0])
Received(fills) == SumFunction([i \in DOMAIN fills |-> IF fills[i].side = 1 THEN fills[i].quote ELSE 0])

\* Fault: the quote leg is not compared.
FaultyConserves(fills) ==
    /\ \A i \in DOMAIN fills : fills[i].size # 0 /\ fills[i].side \in {0, 1}
    /\ Bought(fills) = Sold(fills)

\* _checkConservation: no empty fill, no third side, both legs net to zero.
Conserves(fills) ==
    /\ \A i \in DOMAIN fills : fills[i].size # 0 /\ fills[i].side \in {0, 1}
    /\ Bought(fills) = Sold(fills)
    /\ Paid(fills) = Received(fills)

\* _rescale to six decimals.  A negative int8 casts to at least 128, and the
\* subtraction from 6 reverts.
Rescale(value, decimals) ==
    IF decimals > 6 THEN value \div 10^(decimals - 6) ELSE value * 10^(6 - decimals)

\* _checkBand
InBand(price, feed) ==
    LET oracle == Rescale(feed.value, feed.decimals)
        delta == IF price > oracle THEN price - oracle ELSE oracle - price
    IN  /\ feed.timestamp # 0
        /\ feed.decimals >= 0
        /\ delta * 10000 <= oracle * bandBps

-----------------------------------------------------------------------------
(* Application of the fills                                                *)

\* Pass one: buyers pay quote and sellers deliver base, into Venue's account.
Collect(f) ==
    IF f.side = 0 THEN [from |-> f.trader, to |-> Venue, asset |-> "quote", amount |-> f.quote]
                  ELSE [from |-> f.trader, to |-> Venue, asset |-> "base", amount |-> f.size]
\* Pass two: buyers get base and sellers get quote, out of it.
Distribute(f) ==
    IF f.side = 0 THEN [from |-> Venue, to |-> f.trader, asset |-> "base", amount |-> f.size]
                  ELSE [from |-> Venue, to |-> f.trader, asset |-> "quote", amount |-> f.quote]

\* One VAULT.move; a fill that owes no quote makes none.
ApplyMove(state, m) ==
    IF m.asset = "quote" /\ m.amount = 0 THEN state
    ELSE IF state.ok /\ VaultContract!CanMove(state.book, m.from, m.asset, m.amount)
         THEN [ok |-> TRUE,
               book |-> VaultContract!Moved(state.book, m.from, m.to, m.asset, m.amount)]
         ELSE [state EXCEPT !.ok = FALSE]

\* A loop of moves; a revert anywhere reverts the transaction.
ApplyAll(state, moves) ==
    LET after[n \in 0..Len(moves)] ==
            IF n = 0 THEN state ELSE ApplyMove(after[n - 1], moves[n])
    IN  after[Len(moves)]

Collects(fills) == [i \in DOMAIN fills |-> Collect(fills[i])]
Distributes(fills) == [i \in DOMAIN fills |-> Distribute(fills[i])]

\* Fault: each fill is collected and distributed before the next.
FaultyApplyFills(book, fills) ==
    ApplyAll([ok |-> TRUE, book |-> book],
             FlattenSeq([i \in DOMAIN fills |-> <<Collect(fills[i]), Distribute(fills[i])>>]))

ApplyFills(book, fills) ==
    ApplyAll(ApplyAll([ok |-> TRUE, book |-> book], Collects(fills)), Distributes(fills))

-----------------------------------------------------------------------------
(* Transactions                                                            *)

\* Fault: the batch of the payload is not compared with the one in hand.
FaultySettle(payload, signer, feed) ==
    LET applied == ApplyFills(balance, payload.fills) IN
    /\ batchClosed
    /\ payload.batch > lastSettledBatch
    /\ signer = batchTee
    /\ Conserves(payload.fills)
    /\ lastSettledBatch' = payload.batch
    /\ vaultSettlement = Venue
    /\ applied.ok
    /\ balance' = applied.book
    /\ frozen' = FALSE
    /\ UNCHANGED <<held, vaultRoles>>
    /\ OrderBookContract!AdvanceBatch(Venue)
    /\ UNCHANGED <<settlementOwner, bandBps>>

\* Anyone may relay a signed payload.
Settle(payload, signer, feed) ==
    LET applied == ApplyFills(balance, payload.fills) IN
    /\ batchClosed
    /\ payload.batch = currentBatchId
    /\ payload.batch > lastSettledBatch
    /\ batchTee # None
    /\ signer = batchTee
    /\ Conserves(payload.fills)
    /\ Bought(payload.fills) > 0 => InBand(payload.price, feed)
    /\ lastSettledBatch' = payload.batch
    /\ vaultSettlement = Venue
    /\ applied.ok
    /\ balance' = applied.book
    /\ frozen' = FALSE
    /\ UNCHANGED <<held, vaultRoles>>
    /\ OrderBookContract!AdvanceBatch(Venue)
    /\ UNCHANGED <<settlementOwner, bandBps>>

SetBandBps(caller, band) ==
    /\ caller = settlementOwner
    /\ bandBps' = band
    /\ UNCHANGED <<orderBookVars, vaultVars, settlementOwner, lastSettledBatch>>

SetSettlementOwner(caller, address) ==
    /\ caller = settlementOwner
    /\ settlementOwner' = address
    /\ UNCHANGED <<orderBookVars, vaultVars, bandBps, lastSettledBatch>>

\* submitOrder reads the submitter's balances from the vault.
SubmitOrder(sender, ciphertext, drawn) ==
    /\ OrderBookContract!SubmitOrder(sender, balance["base"][sender],
           balance["quote"][sender], ciphertext, drawn)
    /\ UNCHANGED <<vaultVars, settlementVars>>

\* Fault: a refused instruction is swallowed.
FaultyCloseBatch ==
    /\ ~batchClosed
    /\ orderCount # 0
    /\ OrderBookContract!HasElapsed(minBatchDuration)
    /\ batchClosed' = TRUE
    /\ UNCHANGED <<extensionId, owner, settlement, minBatchDuration, voidDelay,
                   currentBatchId, batchTee, batchOpenedAt, orderCount, now, sent,
                   ended, vaultVars, settlementVars>>

CloseBatch == OrderBookContract!CloseBatch /\ UNCHANGED <<vaultVars, settlementVars>>
VoidBatch == OrderBookContract!VoidBatch /\ UNCHANGED <<vaultVars, settlementVars>>
Tick == OrderBookContract!Tick /\ UNCHANGED <<vaultVars, settlementVars>>

Deposit(trader, asset, amount, received) ==
    /\ VaultContract!Deposit(trader, asset, amount, received)
    /\ UNCHANGED <<orderBookVars, settlementVars>>
Withdraw(trader, asset, amount) ==
    /\ VaultContract!Withdraw(trader, asset, amount)
    /\ UNCHANGED <<orderBookVars, settlementVars>>

TraderStep ==
    \E trader \in Traders :
        \/ \E ciphertext \in Ciphertexts, drawn \in Tees :
              SubmitOrder(trader, ciphertext, drawn)
        \/ \E asset \in VaultContract!Assets, amount \in DepositAmounts :
              \E received \in 1..amount : Deposit(trader, asset, amount, received)
        \/ \E asset \in VaultContract!Assets, amount \in WithdrawAmounts :
              Withdraw(trader, asset, amount)
BatchStep == CloseBatch \/ VoidBatch \/ Tick
OwnerStep ==
    \E caller \in Traders :
        \/ \E band \in Bands : SetBandBps(caller, band)
        \/ \E address \in Traders : SetSettlementOwner(caller, address)
RelayStep ==
    \E payload \in Payloads, signer \in Tees, feed \in Feeds :
        Settle(payload, signer, feed)

Next == TraderStep \/ BatchStep \/ OwnerStep \/ RelayStep

Spec == Init /\ [][Next]_vars

-----------------------------------------------------------------------------
(* Properties                                                              *)

\* The contract's own vault account is empty between transactions, so settling
\* neither makes nor loses value: whatever is signed about traders, what the
\* first pass collects the second gives out, to the last unit (_applyFills).
\* With the type invariant: no account goes below zero meanwhile.
PassThroughIsEmpty ==
    /\ TypeOK
    /\ \A a \in VaultContract!Assets : balance[a][Venue] = 0

\* The contracts agree: the last batch settled here is the last one the order
\* book advanced past, and it is behind the batch in hand.  So no batch both
\* settles and voids, none settles twice, none settles before it is current.
SettledMeansAdvanced ==
    /\ lastSettledBatch < currentBatchId
    /\ \A b \in DOMAIN ended : ended[b] = "advanced" => b <= lastSettledBatch
    /\ lastSettledBatch # 0 => ended[lastSettledBatch] = "advanced"

\* What each trader has to hand over under fills, in one asset.
Owes(fills, trader, asset) ==
    SumFunction([i \in DOMAIN fills |->
        LET m == Collect(fills[i]) IN IF m.from = trader /\ m.asset = asset THEN m.amount ELSE 0])

ConservingFills == {payload.fills : payload \in {p \in Payloads : Conserves(p.fills)}}

\* A conserving payload reverts in _applyFills exactly when some trader cannot
\* hand over its own part in full: what a trader is about to receive never
\* helps it pay, and the order of the fills never strands a payable batch.
AppliesIffEveryoneCanPay ==
    \A fills \in ConservingFills :
        ApplyFills(balance, fills).ok <=>
            \A trader \in Traders, asset \in VaultContract!Assets :
                Owes(fills, trader, asset) <= balance[asset][trader]

\* A trader's balance falls only by its own withdrawal, unit for unit of what
\* leaves the vault and nobody else's balance with it, or in the settlement of a
\* batch whose orders went to an enclave that was then asked to match them.
BalanceFallsOnlyInMatch ==
    [][\A a \in VaultContract!Assets, t \in Traders :
          balance'[a][t] < balance[a][t] =>
              \/ balance' = [balance EXCEPT ![a][t] = @ - (held[a] - held'[a])]
              \/ /\ lastSettledBatch' = currentBatchId
                 /\ \E m \in sent : m.cmd = "RUN_MATCH" /\ m.batch = currentBatchId]_vars

\* "Withdrawals cannot be permitted mid-batch because the chain does not know
\* the size of the caller's pending encrypted order" (withdraw): from the match
\* request until the batch ends, no tokens leave the vault.
NoWithdrawalMidBatch ==
    [][batchClosed => \A a \in VaultContract!Assets : held'[a] >= held[a]]_vars
=============================================================================
