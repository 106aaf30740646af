---------------------------- MODULE MCAuthSessions ----------------------------
(***************************************************************************)
(* Small instances of AuthSessions for TLC.                                *)
(***************************************************************************)
EXTENDS AuthSessions, TLC

CONSTANTS s1, s2, s3, d1, d2, r1, r2, r3

WithoutLegacy == Routes \ {"legacy-public-key"}

\* Not used in runs that check liveness.
Symmetry == Permutations(Session) \cup Permutations(DeviceId) \cup Permutations(Request)
=============================================================================
