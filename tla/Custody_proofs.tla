---------------------------- MODULE Custody_proofs ----------------------------
(***************************************************************************)
(* Theorems about the pool, for every fee, amount and bound; and about the *)
(* vault, for any holders, amounts, fees taken by the tokens and sequence  *)
(* of calls by whoever is settlement.                                      *)
(***************************************************************************)
EXTENDS Custody, Sums

-----------------------------------------------------------------------------
(* Arithmetic                                                              *)

\* A quotient is a natural number, and its multiple fits the dividend.
LEMMA Quotient ==
    ASSUME NEW n \in Nat, NEW d \in Nat \ {0}
    PROVE  n \div d \in Nat /\ (n \div d) * d <= n
  OBVIOUS

\* A product grows with its factor.
LEMMA ProductGrows ==
    ASSUME NEW a \in Nat, NEW b \in Nat, NEW c \in Nat, a <= b
    PROVE  a * c <= b * c
  OBVIOUS

\* The fee never adds to the amount (FEE_NUMERATOR, FEE_DENOMINATOR).
LEMMA FeeTakes ==
    ASSUME NEW amount \in Nat
    PROVE  AfterFee(amount) \in Nat /\ AfterFee(amount) <= amount
PROOF
  <1>1. amount * FeeNumerator \in Nat
    BY FeeIsAShare
  <1>2. AfterFee(amount) \in Nat /\ AfterFee(amount) * FeeDenominator <= amount * FeeNumerator
    BY <1>1, Quotient, FeeIsAShare DEF AfterFee
  <1>3. amount * FeeNumerator <= amount * FeeDenominator
    BY ProductGrows, FeeIsAShare
  <1>4. AfterFee(amount) * FeeDenominator <= amount * FeeDenominator
    BY <1>1, <1>2, <1>3, FeeIsAShare
  <1>5. QED
    BY <1>2, <1>4, FeeIsAShare

\* What goes out is at most the reserve, and does not make the product fall,
\* however much of the input is kept as a fee (quoteOut).
LEMMA OutputKeepsProduct ==
    ASSUME NEW in \in Nat \ {0}, NEW out \in Nat, NEW amount \in Nat,
           NEW received \in Nat, amount <= received
    PROVE  LET paid == Output(in, out, amount) IN
           /\ paid \in Nat /\ paid <= out
           /\ (in + received) * (out - paid) >= in * out
PROOF
  <1> DEFINE paid == Output(in, out, amount)
  <1>1. out * amount \in Nat /\ in + amount \in Nat \ {0}
    OBVIOUS
  <1>2. paid \in Nat /\ paid * (in + amount) <= out * amount
    BY <1>1, Quotient DEF Output
  <1> HIDE DEF paid
  <1>3. out * amount <= out * (in + amount)
    OBVIOUS
  <1>4. paid <= out
    BY <1>1, <1>2, <1>3
  <1>5. out - paid \in Nat
    BY <1>2, <1>4
  <1>6. (in + amount) * (out - paid) = in * out + out * amount - paid * (in + amount)
    BY <1>2
  <1>7. (in + amount) * (out - paid) >= in * out
    BY <1>1, <1>2, <1>6
  <1>8. (in + amount) * (out - paid) <= (in + received) * (out - paid)
    BY <1>5, ProductGrows
  <1>9. (in + received) * (out - paid) >= in * out
    BY <1>5, <1>7, <1>8
  <1>10. QED
    BY <1>2, <1>4, <1>9 DEF paid

-----------------------------------------------------------------------------
(* The steps                                                               *)

PoolInv == TypeOK /\ ReservesAreHeld

\* Liquidity only adds, and a swap is OutputKeepsProduct on the two reserves.
LEMMA SwapStep ==
    ASSUME PoolInv, NEW asset \in Assets, NEW amountIn \in Nat, NEW received \in Nat,
           NEW minOut \in Nat, Swap(asset, amountIn, received, minOut)
    PROVE  /\ PoolInv'
           /\ reserve'["base"] * reserve'["quote"] >= reserve["base"] * reserve["quote"]
PROOF
  <1> DEFINE other == Other(asset)
             out == QuoteOut(asset, received)
  <1>1. other \in Assets /\ other # asset
    BY DEF Assets, Other
  <1>2. /\ reserve[asset] \in Nat \ {0} /\ reserve[other] \in Nat \ {0}
        /\ pool[asset] \in Nat /\ pool[other] \in Nat
        /\ reserve[asset] <= pool[asset] /\ reserve[other] <= pool[other]
    BY <1>1 DEF PoolInv, TypeOK, ReservesAreHeld, Swap
  <1>3. AfterFee(received) \in Nat /\ AfterFee(received) <= received
    BY FeeTakes
  <1>4. /\ out \in Nat /\ out <= reserve[other]
        /\ (reserve[asset] + received) * (reserve[other] - out) >= reserve[asset] * reserve[other]
    BY <1>2, <1>3, OutputKeepsProduct DEF QuoteOut
  <1> HIDE DEF out
  <1>5. /\ reserve' = [reserve EXCEPT ![asset] = @ + received, ![other] = @ - out]
        /\ pool' = [pool EXCEPT ![asset] = @ + received, ![other] = @ - out]
    BY DEF Swap, out
  <1> HIDE DEF other
  <1>6. /\ reserve'[asset] = reserve[asset] + received
        /\ reserve'[other] = reserve[other] - out
        /\ pool'[asset] = pool[asset] + received
        /\ pool'[other] = pool[other] - out
    BY <1>1, <1>5 DEF PoolInv, TypeOK
  <1>7. \A a \in Assets : a = asset \/ a = other
    BY <1>1 DEF Assets
  <1>8. reserve' \in [Assets -> Nat] /\ pool' \in [Assets -> Nat]
    <2>1. \A a \in Assets : reserve'[a] \in Nat /\ pool'[a] \in Nat
      BY <1>2, <1>4, <1>6, <1>7
    <2>2. /\ reserve' = [a \in Assets |-> reserve'[a]]
          /\ pool' = [a \in Assets |-> pool'[a]]
      BY <1>5 DEF PoolInv, TypeOK
    <2>3. QED
      BY <2>1, <2>2
  <1>9. \A a \in Assets : reserve'[a] <= pool'[a]
    BY <1>2, <1>4, <1>6, <1>7
  <1>10. reserve'[asset] * reserve'[other] >= reserve[asset] * reserve[other]
    BY <1>4, <1>6
  <1>11. CASE asset = "base" /\ other = "quote"
    BY <1>8, <1>9, <1>10, <1>11 DEF PoolInv, TypeOK, ReservesAreHeld
  <1>12. CASE asset = "quote" /\ other = "base"
    <2>1. /\ reserve'["base"] * reserve'["quote"] = reserve'[asset] * reserve'[other]
          /\ reserve["base"] * reserve["quote"] = reserve[asset] * reserve[other]
      BY <1>2, <1>8, <1>12 DEF Assets
    <2>2. QED
      BY <1>8, <1>9, <1>10, <2>1 DEF PoolInv, TypeOK, ReservesAreHeld
  <1>13. QED
    BY <1>1, <1>11, <1>12 DEF Assets

\* Both reserves grow, and so does their product.
LEMMA LiquidityStep ==
    ASSUME PoolInv, NEW caller, NEW baseAmount \in Nat, NEW quoteAmount \in Nat,
           NEW b \in Nat, NEW q \in Nat,
           AddLiquidity(caller, baseAmount, quoteAmount, b, q)
    PROVE  /\ PoolInv'
           /\ reserve'["base"] * reserve'["quote"] >= reserve["base"] * reserve["quote"]
PROOF
  <1> DEFINE received == [base |-> b, quote |-> q]
  <1>1. \A a \in Assets : received[a] \in Nat
    BY DEF Assets
  <1>2. /\ reserve' = [a \in Assets |-> reserve[a] + received[a]]
        /\ pool' = [a \in Assets |-> pool[a] + received[a]]
    BY DEF AddLiquidity
  <1>3. reserve["base"] \in Nat /\ reserve["quote"] \in Nat
    BY DEF PoolInv, TypeOK, Assets
  <1>4. reserve'["base"] = reserve["base"] + b /\ reserve'["quote"] = reserve["quote"] + q
    BY <1>2 DEF Assets
  <1> HIDE DEF received
  <1>5. PoolInv'
    BY <1>1, <1>2 DEF PoolInv, TypeOK, ReservesAreHeld
  <1>6. reserve["base"] * reserve["quote"] <= (reserve["base"] + b) * reserve["quote"]
    BY <1>3, ProductGrows
  <1>7. (reserve["base"] + b) * reserve["quote"] <= (reserve["base"] + b) * (reserve["quote"] + q)
    BY <1>3
  <1>8. QED
    BY <1>3, <1>4, <1>5, <1>6, <1>7

\* One step of the pool from a state of the invariant.
LEMMA PoolStep ==
    ASSUME PoolInv, [Next]_vars
    PROVE  /\ PoolInv'
           /\ reserve'["base"] * reserve'["quote"] >= reserve["base"] * reserve["quote"]
PROOF
  <1>1. reserve["base"] \in Nat /\ reserve["quote"] \in Nat
    BY DEF PoolInv, TypeOK, Assets
  <1>2. ASSUME NEW caller \in Callers, NEW baseAmount \in SwapAmounts,
               NEW quoteAmount \in SwapAmounts,
               NEW b \in 0..baseAmount, NEW q \in 0..quoteAmount,
               AddLiquidity(caller, baseAmount, quoteAmount, b, q)
        PROVE  /\ PoolInv'
               /\ reserve'["base"] * reserve'["quote"] >= reserve["base"] * reserve["quote"]
    <2>1. baseAmount \in Nat /\ quoteAmount \in Nat /\ b \in Nat /\ q \in Nat
      BY SwapAmountsAreNat
    <2>2. QED
      BY <1>2, <2>1, LiquidityStep
  <1>3. ASSUME NEW asset \in Assets, NEW amountIn \in SwapAmounts,
               NEW received \in 0..amountIn, NEW minOut \in {0} \union SwapAmounts,
               Swap(asset, amountIn, received, minOut)
        PROVE  /\ PoolInv'
               /\ reserve'["base"] * reserve'["quote"] >= reserve["base"] * reserve["quote"]
    <2>1. amountIn \in Nat /\ received \in Nat /\ minOut \in Nat
      BY SwapAmountsAreNat
    <2>2. QED
      BY <1>3, <2>1, SwapStep
  <1>4. ASSUME NEW asset \in Assets, Donate(asset)
        PROVE  /\ PoolInv'
               /\ reserve'["base"] * reserve'["quote"] >= reserve["base"] * reserve["quote"]
    <2>1. /\ reserve' = reserve
          /\ pool' = [pool EXCEPT ![asset] = @ + 1]
      BY <1>4 DEF Donate
    <2>2. PoolInv'
      BY <2>1 DEF PoolInv, TypeOK, ReservesAreHeld
    <2>3. QED
      BY <1>1, <2>1, <2>2
  <1>5. CASE UNCHANGED vars
    <2>1. reserve' = reserve /\ pool' = pool
      BY <1>5 DEF vars
    <2>2. PoolInv'
      BY <2>1 DEF PoolInv, TypeOK, ReservesAreHeld
    <2>3. QED
      BY <1>1, <2>1, <2>2
  <1>6. QED
    BY <1>2, <1>3, <1>4, <1>5 DEF Next

-----------------------------------------------------------------------------
(* Theorems                                                                *)

\* Reserves are natural numbers the contract's tokens cover (_swap,
\* addLiquidity), for all fees, amounts and bounds.
THEOREM Solvency == Spec => []PoolInv
PROOF
  <1>1. Init => PoolInv
    BY DEF Init, PoolInv, TypeOK, ReservesAreHeld
  <1>2. PoolInv /\ [Next]_vars => PoolInv'
    BY PoolStep
  <1>3. QED
    BY <1>1, <1>2, PTL DEF Spec

\* The pool can always pay what its reserves say.
THEOREM Covered == Spec => []ReservesAreHeld
PROOF
  <1>1. PoolInv => ReservesAreHeld
    BY DEF PoolInv
  <1>2. QED
    BY <1>1, Solvency, PTL

\* No step lets the product of the reserves fall (quoteOut).
THEOREM ConstantProduct == Spec => ProductNeverFalls
PROOF
  <1> DEFINE Grows == reserve'["base"] * reserve'["quote"] >= reserve["base"] * reserve["quote"]
  <1>1. PoolInv /\ [Next]_vars => Grows
    BY PoolStep
  <1>2. Spec => [][Grows]_vars
    BY <1>1, Solvency, PTL DEF Spec
  <1>3. QED
    BY <1>2 DEF ProductNeverFalls

-----------------------------------------------------------------------------
(* The vault                                                               *)

\* The sum the vault's module names is the one the lemmas are about.
LEMMA OwedIsASum ==
    ASSUME NEW a
    PROVE  /\ TheVault!Owed(a) = SumFunctionOnSet(balance[a], Holders)
           /\ TheVault!Owed(a)' = SumFunctionOnSet(balance'[a], Holders)
BY DEF TheVault!Owed, TheVault!SumFunctionOnSet, TheVault!FoldFunctionOnSet, TheVault!MapThenFoldSet,
       SumFunctionOnSet, FoldFunctionOnSet, MapThenFoldSet

\* What one account comes to hold, the vault comes to owe.
LEMMA OwedOfOneChange ==
    ASSUME TheVault!TypeOK, NEW asset \in TheVault!Assets, NEW holder \in Holders, NEW v \in Nat,
           balance' = [balance EXCEPT ![asset][holder] = v]
    PROVE  /\ balance' \in [TheVault!Assets -> [Holders -> Nat]]
           /\ TheVault!Owed(asset)' = TheVault!Owed(asset) + (v - balance[asset][holder])
           /\ \A a \in TheVault!Assets \ {asset} : TheVault!Owed(a)' = TheVault!Owed(a)
<1>1. balance \in [TheVault!Assets -> [Holders -> Nat]]
      BY DEF TheVault!TypeOK
<1>2. balance'[asset] = [balance[asset] EXCEPT ![holder] = v]
      BY <1>1
<1>3. \A a \in TheVault!Assets \ {asset} : balance'[a] = balance[a]
      BY <1>1
<1>4. balance' \in [TheVault!Assets -> [Holders -> Nat]]
      BY <1>1
<1>5. SumFunctionOnSet(balance'[asset], Holders)
        = SumFunctionOnSet(balance[asset], Holders) + (balance'[asset][holder] - balance[asset][holder])
  <2>1. \A x \in Holders : balance[asset][x] \in Int /\ balance'[asset][x] \in Int
        BY <1>1, <1>4
  <2>2. \A x \in Holders \ {holder} : balance'[asset][x] = balance[asset][x]
        BY <1>1, <1>2
  <2> DEFINE f == balance[asset]
             g == balance'[asset]
  <2>3. /\ \A x \in Holders : f[x] \in Int /\ g[x] \in Int
        /\ \A x \in Holders \ {holder} : g[x] = f[x]
        BY <2>1, <2>2
  <2> HIDE DEF f, g
  <2>4. SumFunctionOnSet(g, Holders) = SumFunctionOnSet(f, Holders) + (g[holder] - f[holder])
        BY <2>3, HoldersAreFinite, SumOfOneChange
  <2> QED BY <2>4 DEF f, g
<1>6. balance'[asset][holder] = v
      BY <1>1, <1>2
<1> QED BY <1>3, <1>4, <1>5, <1>6, OwedIsASum

\* What is owed is a natural number, and no less than any one account.
LEMMA OwedIsNat ==
    ASSUME TheVault!TypeOK, NEW asset \in TheVault!Assets
    PROVE  TheVault!Owed(asset) \in Nat /\ \A h \in Holders : balance[asset][h] <= TheVault!Owed(asset)
<1>1. \A h \in Holders : balance[asset][h] \in Nat
      BY DEF TheVault!TypeOK
<1> QED BY <1>1, HoldersAreFinite, SumOfNaturals, OwedIsASum

\* A vault step keeps the accounts covered, and what is owed moves with what is
\* owned.
OwedMovesWithHeld ==
    \A a \in TheVault!Assets :
        TheVault!Owed(a)' # TheVault!Owed(a) =>
            TheVault!Owed(a)' - TheVault!Owed(a) = held'[a] - held[a]

LEMMA DepositStep ==
    ASSUME Solvent, NEW trader \in Holders, NEW asset \in TheVault!Assets, NEW amount \in TokenAmounts,
           NEW received \in 1..amount, TheVault!Deposit(trader, asset, amount, received)
    PROVE  Solvent' /\ OwedMovesWithHeld
<1> DEFINE v == balance[asset][trader] + received
<1>0. received \in Nat /\ balance[asset][trader] \in Nat
      BY TokenAmountsAreNat DEF Solvent, TheVault!Solvent, TheVault!TypeOK
<1>1. v \in Nat /\ balance' = [balance EXCEPT ![asset][trader] = v]
      BY <1>0 DEF TheVault!Deposit
<1>2. /\ balance' \in [TheVault!Assets -> [Holders -> Nat]]
      /\ TheVault!Owed(asset)' = TheVault!Owed(asset) + (v - balance[asset][trader])
      /\ \A a \in TheVault!Assets \ {asset} : TheVault!Owed(a)' = TheVault!Owed(a)
      BY <1>1, OwedOfOneChange DEF Solvent, TheVault!Solvent
<1>3. /\ held' \in [TheVault!Assets -> Nat] /\ held'[asset] = held[asset] + received
      /\ \A a \in TheVault!Assets \ {asset} : held'[a] = held[a]
      BY <1>0 DEF TheVault!Deposit, Solvent, TheVault!Solvent, TheVault!TypeOK
<1>4. \A a \in TheVault!Assets : TheVault!Owed(a) \in Nat /\ held[a] \in Nat /\ TheVault!Owed(a) <= held[a]
      BY OwedIsNat DEF Solvent, TheVault!Solvent, TheVault!TypeOK
<1>5. TheVault!Owed(asset)' = TheVault!Owed(asset) + received
      BY <1>0, <1>2, <1>4
<1>6. TheVault!TypeOK'
      BY <1>2, <1>3 DEF TheVault!Deposit, TheVault!roles, Solvent, TheVault!Solvent, TheVault!TypeOK
<1>7. Solvent'
      BY <1>0, <1>2, <1>3, <1>4, <1>5, <1>6 DEF Solvent, TheVault!Solvent
<1> QED BY <1>0, <1>2, <1>3, <1>4, <1>5, <1>7 DEF OwedMovesWithHeld

LEMMA WithdrawStep ==
    ASSUME Solvent, NEW trader \in Holders, NEW asset \in TheVault!Assets, NEW amount \in TokenAmounts,
           TheVault!Withdraw(trader, asset, amount)
    PROVE  Solvent' /\ OwedMovesWithHeld
<1> DEFINE v == balance[asset][trader] - amount
<1>0. amount \in Nat /\ balance[asset][trader] \in Nat /\ amount <= balance[asset][trader]
      BY TokenAmountsAreNat DEF Solvent, TheVault!Solvent, TheVault!TypeOK, TheVault!Withdraw
<1>1. v \in Nat /\ balance' = [balance EXCEPT ![asset][trader] = v]
      BY <1>0 DEF TheVault!Withdraw
<1>2. /\ balance' \in [TheVault!Assets -> [Holders -> Nat]]
      /\ TheVault!Owed(asset)' = TheVault!Owed(asset) + (v - balance[asset][trader])
      /\ \A a \in TheVault!Assets \ {asset} : TheVault!Owed(a)' = TheVault!Owed(a)
      BY <1>1, OwedOfOneChange DEF Solvent, TheVault!Solvent
<1>3. \A a \in TheVault!Assets : TheVault!Owed(a) \in Nat /\ held[a] \in Nat /\ TheVault!Owed(a) <= held[a]
      BY OwedIsNat DEF Solvent, TheVault!Solvent, TheVault!TypeOK
<1>4. amount <= held[asset]
  <2>1. balance[asset][trader] <= TheVault!Owed(asset)
        BY OwedIsNat DEF Solvent, TheVault!Solvent
  <2> QED BY <1>0, <1>3, <2>1
<1>5. /\ held' \in [TheVault!Assets -> Nat] /\ held'[asset] = held[asset] - amount
      /\ \A a \in TheVault!Assets \ {asset} : held'[a] = held[a]
      BY <1>0, <1>4 DEF TheVault!Withdraw, Solvent, TheVault!Solvent, TheVault!TypeOK
<1>6. TheVault!Owed(asset)' = TheVault!Owed(asset) - amount
      BY <1>0, <1>2, <1>3
<1>7. TheVault!TypeOK'
      BY <1>2, <1>5 DEF TheVault!Withdraw, TheVault!roles, Solvent, TheVault!Solvent, TheVault!TypeOK
<1>8. Solvent'
      BY <1>0, <1>2, <1>3, <1>5, <1>6, <1>7 DEF Solvent, TheVault!Solvent
<1> QED BY <1>0, <1>2, <1>3, <1>5, <1>6, <1>8 DEF OwedMovesWithHeld

\* A move, to another account or to the same one, owes as much as before.
LEMMA MoveStep ==
    ASSUME Solvent, NEW caller, NEW from \in Holders, NEW to \in Holders,
           NEW asset \in TheVault!Assets, NEW amount \in TokenAmounts,
           TheVault!Move(caller, from, to, asset, amount)
    PROVE  Solvent' /\ OwedMovesWithHeld
<1> DEFINE debited == [balance[asset] EXCEPT ![from] = @ - amount]
<1>0. /\ balance \in [TheVault!Assets -> [Holders -> Nat]]
      /\ amount \in Nat /\ balance[asset][from] - amount \in Nat
      BY TokenAmountsAreNat
      DEF Solvent, TheVault!Solvent, TheVault!TypeOK, TheVault!Move, TheVault!CanMove
<1>1. balance' = TheVault!Moved(balance, from, to, asset, amount)
      BY DEF TheVault!Move
<1>2. debited \in [Holders -> Nat]
      BY <1>0
<1>3. balance'[asset] = [debited EXCEPT ![to] = @ + amount]
      BY <1>0, <1>1 DEF TheVault!Moved
<1>4. \A a \in TheVault!Assets \ {asset} : balance'[a] = balance[a]
      BY <1>0, <1>1 DEF TheVault!Moved
<1>5. balance'[asset] \in [Holders -> Nat]
      BY <1>0, <1>2, <1>3
<1>6. balance' \in [TheVault!Assets -> [Holders -> Nat]]
  <2>1. balance' = [a \in TheVault!Assets |-> balance'[a]]
        BY <1>0, <1>1 DEF TheVault!Moved
  <2>2. \A a \in TheVault!Assets : balance'[a] \in [Holders -> Nat]
        BY <1>0, <1>4, <1>5
  <2> QED BY <2>1, <2>2
<1>7. SumFunctionOnSet(balance'[asset], Holders) = SumFunctionOnSet(balance[asset], Holders)
  <2>1. balance[asset] \in [Holders -> Int] /\ amount \in Int
        BY <1>0
  <2> QED BY <1>3, <2>1, HoldersAreFinite, SumOfTransfer
<1>8. \A a \in TheVault!Assets : TheVault!Owed(a)' = TheVault!Owed(a)
      BY <1>4, <1>7, OwedIsASum
<1>9. Solvent'
      BY <1>6, <1>8
      DEF TheVault!Move, TheVault!roles, Solvent, TheVault!Solvent, TheVault!TypeOK
<1> QED BY <1>8, <1>9 DEF OwedMovesWithHeld

\* Every other step leaves the accounts alone and takes no tokens away.
LEMMA OtherStep ==
    ASSUME Solvent, balance' = balance,
           vaultOwner' \in Holders, vaultSettlement' \in Holders \union {None}, frozen' \in BOOLEAN,
           \/ held' = held
           \/ \E asset \in TheVault!Assets : held' = [held EXCEPT ![asset] = @ + 1]
    PROVE  Solvent' /\ OwedMovesWithHeld
<1>1. \A a \in TheVault!Assets : TheVault!Owed(a)' = TheVault!Owed(a)
      BY DEF TheVault!Owed
<1>2. held' \in [TheVault!Assets -> Nat] /\ \A a \in TheVault!Assets : held[a] <= held'[a]
      BY DEF Solvent, TheVault!Solvent, TheVault!TypeOK
<1>3. \A a \in TheVault!Assets : TheVault!Owed(a) \in Nat /\ held[a] \in Nat /\ TheVault!Owed(a) <= held[a]
      BY OwedIsNat DEF Solvent, TheVault!Solvent, TheVault!TypeOK
<1>4. TheVault!TypeOK'
      BY <1>2 DEF Solvent, TheVault!Solvent, TheVault!TypeOK
<1>5. \A a \in TheVault!Assets : TheVault!Owed(a)' <= held'[a]
      BY <1>1, <1>2, <1>3
<1>6. Solvent'
      BY <1>4, <1>5 DEF Solvent, TheVault!Solvent
<1> QED BY <1>1, <1>6 DEF OwedMovesWithHeld

LEMMA VaultStep ==
    ASSUME Solvent, [TheVault!Next]_vaultVars
    PROVE  Solvent' /\ OwedMovesWithHeld
<1>1. CASE UNCHANGED vaultVars
      BY <1>1, OtherStep DEF vaultVars, Solvent, TheVault!Solvent, TheVault!TypeOK
<1>2. CASE TheVault!TraderStep
      BY <1>2, DepositStep, WithdrawStep DEF TheVault!TraderStep
<1>3. CASE TheVault!RoleStep
  <2>1. ASSUME NEW caller \in Holders, NEW from \in Holders, NEW to \in Holders,
               NEW asset \in TheVault!Assets, NEW amount \in TokenAmounts,
               TheVault!Move(caller, from, to, asset, amount)
        PROVE  Solvent' /\ OwedMovesWithHeld
        BY <2>1, MoveStep
  <2>2. ASSUME NEW caller \in Holders, NEW value \in BOOLEAN, TheVault!SetFrozen(caller, value)
        PROVE  Solvent' /\ OwedMovesWithHeld
        BY <2>2, OtherStep
        DEF TheVault!SetFrozen, TheVault!accounts, TheVault!roles, Solvent, TheVault!Solvent, TheVault!TypeOK
  <2>3. ASSUME NEW caller \in Holders, NEW address \in Holders,
               TheVault!SetSettlement(caller, address) \/ TheVault!SetOwner(caller, address)
        PROVE  Solvent' /\ OwedMovesWithHeld
        BY <2>3, OtherStep
        DEF TheVault!SetSettlement, TheVault!SetOwner, TheVault!accounts, Solvent, TheVault!Solvent,
            TheVault!TypeOK
  <2> QED BY <1>3, <2>1, <2>2, <2>3 DEF TheVault!RoleStep
<1>4. CASE \E asset \in TheVault!Assets : TheVault!Donate(asset)
      BY <1>4, OtherStep DEF TheVault!Donate, TheVault!roles, Solvent, TheVault!Solvent, TheVault!TypeOK
<1> QED BY <1>1, <1>2, <1>3, <1>4 DEF TheVault!Next

LEMMA VaultInit ==
    ASSUME TheVault!Init
    PROVE  Solvent
<1>1. TheVault!TypeOK
      BY DEF TheVault!Init, TheVault!TypeOK
<1>2. \A a \in TheVault!Assets : TheVault!Owed(a) = 0
  <2> TAKE a \in TheVault!Assets
  <2>1. \A h \in Holders : balance[a][h] = 0
        BY DEF TheVault!Init
  <2> QED BY <2>1, HoldersAreFinite, SumOfZeros, OwedIsASum
<1> QED BY <1>1, <1>2 DEF TheVault!Init, Solvent, TheVault!Solvent

\* The vault's accounts are always covered by the tokens it owns.
THEOREM VaultSolvency == CustodySpec => []Solvent
<1>1. CustodyInit => Solvent
      BY VaultInit DEF CustodyInit
<1>2. Solvent /\ [CustodyNext]_<<contract, vars, vaultVars>> => Solvent'
  <2> SUFFICES ASSUME Solvent, [CustodyNext]_<<contract, vars, vaultVars>>
               PROVE  [TheVault!Next]_vaultVars
      BY VaultStep
  <2> QED BY DEF CustodyNext
<1> QED BY <1>1, <1>2, PTL DEF CustodySpec

\* What is owed changes only with what is owned, and by as much (deposit,
\* withdraw, move).
THEOREM ValueIsConserved == CustodySpec => OwedFollowsHeld
<1>1. Solvent /\ [CustodyNext]_<<contract, vars, vaultVars>> => [OwedMovesWithHeld]_vaultVars
  <2> SUFFICES ASSUME Solvent, [CustodyNext]_<<contract, vars, vaultVars>>
               PROVE  [TheVault!Next]_vaultVars
      BY VaultStep
  <2> QED BY DEF CustodyNext
<1>2. CustodySpec => [][OwedMovesWithHeld]_vaultVars
      BY <1>1, VaultSolvency, PTL DEF CustodySpec
<1> QED BY <1>2 DEF OwedFollowsHeld, TheVault!OwedFollowsHeld, OwedMovesWithHeld, TheVault!vars,
       TheVault!accounts, TheVault!roles, vaultVars
=============================================================================
