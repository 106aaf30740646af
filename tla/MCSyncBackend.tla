---------------------------- MODULE MCSyncBackend ----------------------------
(***************************************************************************)
(* Small instances of SyncBackend for TLC.                                 *)
(***************************************************************************)
EXTENDS SyncBackend, TLC

CONSTANTS a1, a2, v1, i1, i2, m1, m2, m3, r1, r2, r3

\* A creation (base 0) and, once the item has revision 1, an edit and a
\* deletion; a base that does not match gives the 400 and 409 cases.
Mutations(base, deleted) ==
    [vault : Vault, item : Item, base : {base}, deleted : {deleted}]
CreateEditDelete ==
    Mutations(0, FALSE) \cup Mutations(1, FALSE) \cup Mutations(1, TRUE)
CreateDelete == Mutations(0, FALSE) \cup Mutations(1, TRUE)

\* Requests, ids, items and accounts are interchangeable; no liveness property
\* is checked in a run that uses this set.
Symmetry == Permutations(Request) \cup Permutations(MutationId)
                \cup Permutations(Item) \cup Permutations(Account)
=============================================================================
