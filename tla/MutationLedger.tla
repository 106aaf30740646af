---------------------------- MODULE MutationLedger ----------------------------
(***************************************************************************)
(* What POST /vaults/:vaultId/items promises a client that retries: each   *)
(* mutation gets one outcome, fixed when it is recorded, and every request *)
(* that is told an outcome is told that one.                               *)
(***************************************************************************)
EXTENDS Integers

CONSTANTS
    Mutations,    \* whatever identifies a mutation
    Outcome,      \* outcomes that may be recorded
    NoOutcome     \* not yet recorded

VARIABLES
    ledger,       \* mutation -> its outcome
    answered      \* the <<mutation, outcome>> pairs clients have been told

Init ==
    /\ ledger = [k \in Mutations |-> NoOutcome]
    /\ answered = {}

Record(k) ==
    /\ ledger[k] = NoOutcome
    /\ ledger'[k] \in Outcome
    /\ ledger' = [ledger EXCEPT ![k] = ledger'[k]]
    /\ UNCHANGED answered

Tell(k) ==
    /\ ledger[k] # NoOutcome
    /\ answered' = answered \cup {<<k, ledger[k]>>}
    /\ UNCHANGED ledger

Next == \E k \in Mutations : Record(k) \/ Tell(k)

Spec == Init /\ [][Next]_<<ledger, answered>>
=============================================================================
