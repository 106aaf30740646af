---------------------------- MODULE MCExtension ----------------------------
(***************************************************************************)
(* Small instances of Extension for TLC.                                   *)
(***************************************************************************)
EXTENDS Extension, TLC

CONSTANTS a1, a2, d1, d2, k1, k2
=============================================================================
