------------------------------ MODULE NaiveAmm -------------------------------
(***************************************************************************)
(* contracts/src/demo/NaiveAmm.sol: the public constant-product pool that  *)
(* the venue is compared with.  The tokens are external, as in Vault: a    *)
(* transfer in delivers some part of the amount, possibly nothing, and     *)
(* anyone may send tokens to the pool.                                     *)
(***************************************************************************)
EXTENDS Naturals

CONSTANTS
    Callers,
    Owner,              \* OWNER
    FeeNumerator, FeeDenominator,
    SwapAmounts,        \* amounts swapped and added
    MaxPool             \* bound: tokens of one asset the pool may come to hold

\* The fee is given as the share of the input that survives it.
ASSUME FeeIsAShare ==
    /\ FeeNumerator \in Nat /\ FeeDenominator \in Nat \ {0}
    /\ FeeNumerator <= FeeDenominator
ASSUME SwapAmountsAreNat == SwapAmounts \subseteq Nat

Assets == {"base", "quote"}
Other(asset) == IF asset = "base" THEN "quote" ELSE "base"

VARIABLES
    reserve,      \* reserveBase, reserveQuote
    pool          \* tokens the contract owns (external)

vars == <<reserve, pool>>

TypeOK ==
    /\ reserve \in [Assets -> Nat]
    /\ pool \in [Assets -> Nat]

Init ==
    /\ reserve = [a \in Assets |-> 0]
    /\ pool = [a \in Assets |-> 0]

-----------------------------------------------------------------------------

\* Both reserves are credited with what arrived.
AddLiquidity(caller, baseAmount, quoteAmount, baseReceived, quoteReceived) ==
    /\ caller = Owner
    /\ baseAmount > 0 /\ quoteAmount > 0
    /\ baseReceived \in 0..baseAmount /\ quoteReceived \in 0..quoteAmount
    /\ pool["base"] + baseReceived <= MaxPool
    /\ pool["quote"] + quoteReceived <= MaxPool
    /\ LET received == [base |-> baseReceived, quote |-> quoteReceived] IN
       /\ reserve' = [a \in Assets |-> reserve[a] + received[a]]
       /\ pool' = [a \in Assets |-> pool[a] + received[a]]

\* What an input that is the share left by the fee fetches.
Output(reserveIn, reserveOut, amount) ==
    (reserveOut * amount) \div (reserveIn + amount)
AfterFee(amount) == (amount * FeeNumerator) \div FeeDenominator

\* Fault: the output is rounded up.
FaultyQuoteOut(asset, amount) ==
    Output(reserve[asset], reserve[Other(asset)], AfterFee(amount)) + 1
QuoteOut(asset, amount) ==
    Output(reserve[asset], reserve[Other(asset)], AfterFee(amount))

\* Fault: the reserve is credited with what was asked for.
FaultySwap(asset, amountIn, received, minOut) ==
    LET out == QuoteOut(asset, received) IN
    /\ amountIn > 0 /\ received \in 0..amountIn
    /\ \A a \in Assets : reserve[a] > 0
    /\ out >= minOut
    /\ pool[asset] + amountIn <= MaxPool
    /\ reserve' = [reserve EXCEPT ![asset] = @ + amountIn, ![Other(asset)] = @ - out]
    /\ pool' = [pool EXCEPT ![asset] = @ + received, ![Other(asset)] = @ - out]

\* _swap: the price is that of what arrived, and so is the slippage check.
Swap(asset, amountIn, received, minOut) ==
    LET out == QuoteOut(asset, received) IN
    /\ amountIn > 0 /\ received \in 0..amountIn
    /\ \A a \in Assets : reserve[a] > 0
    /\ out >= minOut
    /\ pool[asset] + received <= MaxPool
    /\ reserve' = [reserve EXCEPT ![asset] = @ + received, ![Other(asset)] = @ - out]
    /\ pool' = [pool EXCEPT ![asset] = @ + received, ![Other(asset)] = @ - out]

\* Tokens sent without a call are in no reserve.
Donate(asset) ==
    /\ pool[asset] < MaxPool
    /\ pool' = [pool EXCEPT ![asset] = @ + 1]
    /\ UNCHANGED reserve

Next ==
    \/ \E caller \in Callers, baseAmount, quoteAmount \in SwapAmounts :
          \E baseReceived \in 0..baseAmount, quoteReceived \in 0..quoteAmount :
             AddLiquidity(caller, baseAmount, quoteAmount, baseReceived, quoteReceived)
    \/ \E asset \in Assets, amountIn \in SwapAmounts :
          \E received \in 0..amountIn, minOut \in {0} \union SwapAmounts :
             Swap(asset, amountIn, received, minOut)
    \/ \E asset \in Assets : Donate(asset)

Spec == Init /\ [][Next]_vars

-----------------------------------------------------------------------------
(* Properties                                                              *)

\* The pool can pay what its reserves say, whatever fee the tokens take
\* (addLiquidity, _swap: "credit what actually arrived").
ReservesAreHeld == \A a \in Assets : reserve[a] <= pool[a]

\* No step, whichever way it rounds, lets the product of the reserves fall: so
\* no sequence of swaps takes out of one reserve without paying more into the
\* other, a round trip never pays, and a pool that was seeded is never drained
\* (quoteOut).
ProductNeverFalls ==
    [][reserve'["base"] * reserve'["quote"] >= reserve["base"] * reserve["quote"]]_vars
=============================================================================
