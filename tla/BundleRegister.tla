--------------------------- MODULE BundleRegister ---------------------------
(***************************************************************************)
(* What the key-bundle endpoint promises: one register per account whose   *)
(* version counts its writes from one, and an acknowledgement only of the  *)
(* bytes that are in the register at that version.                         *)
(***************************************************************************)
EXTENDS Naturals

CONSTANTS Bytes, None

VARIABLES
    reg,      \* None or [version, bytes]
    granted   \* the <<version, bytes>> acknowledged so far

Versions == IF reg = None THEN 0 ELSE reg.version

Init == reg = None /\ granted = {}

\* A write takes the next version; it may be acknowledged at once.
Write(b, acknowledged) ==
    /\ reg' = [version |-> Versions + 1, bytes |-> b]
    /\ granted' = IF acknowledged THEN granted \cup {<<Versions + 1, b>>} ELSE granted

\* A repeated request for what the register holds is acknowledged again.
Acknowledge ==
    /\ reg # None
    /\ granted' = granted \cup {<<reg.version, reg.bytes>>}
    /\ UNCHANGED reg

Next == Acknowledge \/ \E b \in Bytes, acknowledged \in BOOLEAN : Write(b, acknowledged)

Spec == Init /\ [][Next]_<<reg, granted>>
=============================================================================
