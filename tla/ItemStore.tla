------------------------------ MODULE ItemStore ------------------------------
(***************************************************************************)
(* What the sync server is to its clients: a store of items in which each  *)
(* mutation is served once, in one step, against the current row of its    *)
(* item (docs/contracts/sync-v1.md, and applyMutation of the server).      *)
(*                                                                         *)
(* Spec is the store SyncClient runs against.  The server of SyncBackend   *)
(* is the store of RacySpec: two creations of one item may both succeed.   *)
(***************************************************************************)
EXTENDS Integers

CONSTANTS
    Mutations,    \* whatever identifies a mutation
    Place,        \* where an item is kept
    None          \* no author, no body

VARIABLES
    body,         \* mutation -> what it asks for; None: not made yet
    rows,         \* place -> its row; revision 0: no row
    outcomes      \* mutation -> its outcome; status 0: not served yet

vars == <<body, rows, outcomes>>

Bodies == [place : Place, base : Nat, deleted : BOOLEAN]
NoRow == [revision |-> 0, deleted |-> FALSE, by |-> None]

Init ==
    /\ body = [k \in Mutations |-> None]
    /\ rows = [p \in Place |-> NoRow]
    /\ outcomes = [k \in Mutations |-> [status |-> 0, row |-> NoRow]]

\* A client makes a mutation; its body never changes.
Submit(k) ==
    /\ body[k] = None
    /\ body'[k] \in Bodies
    /\ body' = [body EXCEPT ![k] = body'[k]]
    /\ UNCHANGED <<rows, outcomes>>

Current(k) == rows[body[k].place]

Waiting(k) == body[k] \in Bodies /\ outcomes[k].status = 0

\* The mutation makes a row of the given revision.
Write(k, revision) ==
    LET row == [revision |-> revision, deleted |-> body[k].deleted, by |-> k]
    IN  /\ rows' = [rows EXCEPT ![body[k].place] = row]
        /\ outcomes' = [outcomes EXCEPT ![k] = [status |-> 201, row |-> row]]
        /\ UNCHANGED body

\* The row is the one the mutation was based on.
Apply(k) ==
    /\ Waiting(k)
    /\ Current(k).revision = body[k].base
    /\ Write(k, Current(k).revision + 1)

\* There is another row, and the client is shown it.
Refuse(k) ==
    /\ Waiting(k)
    /\ Current(k).revision \notin {0, body[k].base}
    /\ outcomes' = [outcomes EXCEPT ![k] = [status |-> 409, row |-> Current(k)]]
    /\ UNCHANGED <<body, rows>>

\* A creation that overtook another one's commit: the item starts over.
CreateOver(k) ==
    /\ Waiting(k)
    /\ body[k].base = 0
    /\ Current(k).revision > 0
    /\ Write(k, 1)

Next == \E k \in Mutations : Submit(k) \/ Apply(k) \/ Refuse(k)
RacyNext == Next \/ \E k \in Mutations : CreateOver(k)

Spec == Init /\ [][Next]_vars
RacySpec == Init /\ [][RacyNext]_vars
=============================================================================
