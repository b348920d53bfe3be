------------------------------- MODULE MCVault -------------------------------
(* The vault with two traders and a settlement account, tokens that may take *)
(* a fee, and any sequence of moves by whoever is settlement; and the pool.  *)
EXTENDS Custody

CONSTANTS h1, h2, s1

MCHolders == {h1, h2, s1}
=============================================================================
