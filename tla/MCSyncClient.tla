----------------------------- MODULE MCSyncClient -----------------------------
(***************************************************************************)
(* Small instances of SyncClient for TLC.                                  *)
(***************************************************************************)
EXTENDS SyncClient, TLC

CONSTANTS d1, d2, t1, t2, i1, i2, m1, m2, m3

\* Not used in runs that check liveness.
Symmetry == Permutations(Device) \cup Permutations(Thread)
                \cup Permutations(Item) \cup Permutations(MutationId)
=============================================================================
