----------------------------- MODULE MCLoginLegs -----------------------------
(***************************************************************************)
(* Small instances of LoginLegs for TLC.                                   *)
(***************************************************************************)
EXTENDS LoginLegs, TLC

CONSTANTS a1, c1, c2, p1, p2, r1, r2

Symmetry == Permutations(Client) \cup Permutations(Password) \cup Permutations(Request)
=============================================================================
