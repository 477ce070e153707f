------------------------- MODULE MCVaultLedger -------------------------
(***************************************************************************)
(* Instances of VaultLedger for TLC.                                       *)
(***************************************************************************)
EXTENDS VaultLedger, TLC

CONSTANTS j1, j2, j3

Interchangeable == Permutations(Jobs) \cup Permutations(Markets)
=========================================================================
