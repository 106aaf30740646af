---------------------------- MODULE MCKeyBundle ----------------------------
(***************************************************************************)
(* Small instances of KeyBundle for TLC.                                   *)
(***************************************************************************)
EXTENDS KeyBundle, TLC

CONSTANTS t1, t2, x, p1, p2
=============================================================================
