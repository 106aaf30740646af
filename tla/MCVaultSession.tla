---------------------------- MODULE MCVaultSession ----------------------------
(***************************************************************************)
(* Small instances of VaultSession for TLC.                                *)
(***************************************************************************)
EXTENDS VaultSession, TLC

CONSTANTS i1, i2, t1, t2, t3

\* Not used in runs that check liveness.
Symmetry == Permutations(Item) \cup Permutations(Task)
=============================================================================
