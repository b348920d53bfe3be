-------------------------------- MODULE Vault --------------------------------
(***************************************************************************)
(* contracts/src/Vault.sol: internal balances of the two assets.  The      *)
(* tokens are external: a transfer in delivers some part of the amount     *)
(* asked for (a token may take a fee), a transfer out delivers all of it,  *)
(* and tokens may also be sent to the vault without a deposit.  The guard  *)
(* nonReentrant and the order of effects make deposit and withdraw atomic. *)
(***************************************************************************)
EXTENDS Integers, Functions

CONSTANTS
    Holders,       \* addresses with a vault account
    None,          \* address(0)
    TokenAmounts,  \* amounts deposited and withdrawn
    MaxHeld        \* bound: tokens of one asset the vault may come to hold

Assets == {"base", "quote"}

VARIABLES
    balance,          \* balance[asset][holder]: baseBalanceOf, quoteBalanceOf
    held,             \* held[asset]: tokens the vault owns (external)
    frozen,
    vaultOwner, vaultSettlement

accounts == <<balance, held>>
roles == <<vaultOwner, vaultSettlement>>
vars == <<accounts, frozen, roles>>

TypeOK ==
    /\ balance \in [Assets -> [Holders -> Nat]]
    /\ held \in [Assets -> Nat]
    /\ frozen \in BOOLEAN
    /\ vaultOwner \in Holders
    /\ vaultSettlement \in Holders \union {None}

Init ==
    /\ balance = [a \in Assets |-> [h \in Holders |-> 0]]
    /\ held = [a \in Assets |-> 0]
    /\ frozen = FALSE
    /\ vaultOwner \in Holders
    /\ vaultSettlement = None

-----------------------------------------------------------------------------

\* Fault: credits what was asked for, not what arrived.
FaultyDeposit(trader, asset, amount, received) ==
    /\ amount > 0 /\ received \in 1..amount
    /\ held[asset] + received <= MaxHeld
    /\ balance' = [balance EXCEPT ![asset][trader] = @ + amount]
    /\ held' = [held EXCEPT ![asset] = @ + received]
    /\ UNCHANGED <<frozen, roles>>

\* Credits the amount that arrived; reverts when nothing does.
Deposit(trader, asset, amount, received) ==
    /\ amount > 0
    /\ received \in 1..amount
    /\ held[asset] + received <= MaxHeld
    /\ balance' = [balance EXCEPT ![asset][trader] = @ + received]
    /\ held' = [held EXCEPT ![asset] = @ + received]
    /\ UNCHANGED <<frozen, roles>>

Withdraw(trader, asset, amount) ==
    /\ ~frozen
    /\ amount > 0
    /\ balance[asset][trader] >= amount
    /\ balance' = [balance EXCEPT ![asset][trader] = @ - amount]
    /\ held' = [held EXCEPT ![asset] = @ - amount]
    /\ UNCHANGED <<frozen, roles>>

\* Fault: both balances are read before either is written.
FaultyMoved(book, from, to, asset, amount) ==
    [book EXCEPT ![asset][from] = book[asset][from] - amount,
                 ![asset][to] = book[asset][to] + amount]

\* The two assignments of move, in order: the credit reads the debited book, so
\* a move from an account to itself changes nothing.
CanMove(book, from, asset, amount) == amount > 0 /\ book[asset][from] >= amount
Moved(book, from, to, asset, amount) ==
    LET debited == [book EXCEPT ![asset][from] = @ - amount]
    IN  [debited EXCEPT ![asset][to] = @ + amount]

Move(caller, from, to, asset, amount) ==
    /\ caller = vaultSettlement
    /\ CanMove(balance, from, asset, amount)
    /\ balance' = Moved(balance, from, to, asset, amount)
    /\ UNCHANGED <<held, frozen, roles>>

SetFrozen(caller, value) ==
    /\ caller = vaultSettlement
    /\ frozen' = value
    /\ UNCHANGED <<accounts, roles>>

SetSettlement(caller, address) ==
    /\ caller = vaultOwner
    /\ vaultSettlement' = address
    /\ UNCHANGED <<accounts, frozen, vaultOwner>>

SetOwner(caller, address) ==
    /\ caller = vaultOwner
    /\ vaultOwner' = address
    /\ UNCHANGED <<accounts, frozen, vaultSettlement>>

\* Tokens sent to the contract outside deposit are credited to nobody.
Donate(asset) ==
    /\ held[asset] < MaxHeld
    /\ held' = [held EXCEPT ![asset] = @ + 1]
    /\ UNCHANGED <<balance, frozen, roles>>

TraderStep ==
    \E trader \in Holders, asset \in Assets, amount \in TokenAmounts :
        \/ \E received \in 1..amount : Deposit(trader, asset, amount, received)
        \/ Withdraw(trader, asset, amount)

RoleStep ==
    \E caller \in Holders :
        \/ \E from, to \in Holders, asset \in Assets, amount \in TokenAmounts :
              Move(caller, from, to, asset, amount)
        \/ \E value \in BOOLEAN : SetFrozen(caller, value)
        \/ \E address \in Holders :
              SetSettlement(caller, address) \/ SetOwner(caller, address)

Next == TraderStep \/ RoleStep \/ \E asset \in Assets : Donate(asset)

Spec == Init /\ [][Next]_vars

-----------------------------------------------------------------------------
(* Properties                                                              *)

\* What the vault owes its holders in one asset.
Owed(asset) == SumFunctionOnSet(balance[asset], Holders)

\* The vault never owes its holders more of an asset than it owns: fees,
\* donations, moves and changes of settlement included (testFuzz_solvency).
\* With the type invariant: no account goes below zero.
Solvent ==
    /\ TypeOK
    /\ \A a \in Assets : Owed(a) <= held[a]

\* Moves, freezes and role changes create and destroy nothing: what is owed
\* changes only together with what is owned, and by as much (move, deposit).
OwedFollowsHeld ==
    [][\A a \in Assets :
          Owed(a)' # Owed(a) => Owed(a)' - Owed(a) = held'[a] - held[a]]_vars
=============================================================================
