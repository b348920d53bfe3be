------------------------------- MODULE Custody -------------------------------
(***************************************************************************)
(* The two contracts that hold tokens of others, each on its own: the      *)
(* public pool and the vault.  They share no state, so a behaviour is one  *)
(* of either.                                                              *)
(***************************************************************************)
EXTENDS NaiveAmm, FiniteSets

CONSTANTS None, Holders, TokenAmounts, MaxHeld     \* as in Vault

\* Addresses are 20 bytes and amounts uint256.
ASSUME HoldersAreFinite == IsFiniteSet(Holders)
ASSUME TokenAmountsAreNat == TokenAmounts \subseteq Nat

VARIABLES contract, balance, held, frozen, vaultOwner, vaultSettlement

TheVault == INSTANCE Vault
vaultVars == <<balance, held, frozen, vaultOwner, vaultSettlement>>

CustodyInit == contract \in {"vault", "pool"} /\ Init /\ TheVault!Init
CustodyNext ==
    \/ contract = "vault" /\ TheVault!Next /\ UNCHANGED <<contract, vars>>
    \/ contract = "pool" /\ Next /\ UNCHANGED <<contract, vaultVars>>
CustodySpec == CustodyInit /\ [][CustodyNext]_<<contract, vars, vaultVars>>

\* The vault never owes its holders more of an asset than it owns (Vault).
Solvent == TheVault!Solvent

\* What the vault owes changes only with what it owns (Vault).
OwedFollowsHeld == TheVault!OwedFollowsHeld
=============================================================================
