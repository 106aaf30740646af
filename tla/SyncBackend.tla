----------------------------- MODULE SyncBackend -----------------------------
(***************************************************************************)
(* The sync half of the server: POST /vaults/:vaultId/items and            *)
(* GET /vaults/:vaultId/changes (apps/backend/src/sync/routes.mjs and      *)
(* store.mjs) over PostgreSQL at its default READ COMMITTED isolation.     *)
(*                                                                         *)
(* One action is one SQL statement, or the run of statements between two   *)
(* points where another transaction can get in.  A transaction's writes    *)
(* stay in per-request variables until Commit copies them into the tables. *)
(* Locks are not state of their own: who holds one follows from the step   *)
(* each open transaction has reached.                                      *)
(*                                                                         *)
(* A request is one HTTP call.  A client that retries sends the same       *)
(* mutation under the same mutationId in a further request, at any time,   *)
(* also while the first one is still running.                              *)
(***************************************************************************)
EXTENDS Integers, FiniteSets

CONSTANTS
    Account,      \* account ids, as resolved from the bearer session
    Vault,        \* vault ids
    Item,         \* item ids
    MutationId,   \* ids the clients mint for their mutations
    Request,      \* HTTP requests to POST /items
    Mutation,     \* the mutation bodies clients may send
    Limit,        \* page size of the change feed
    None          \* no owner, no mutation body yet

ASSUME LimitAssumption == Limit \in Nat \ {0}
ASSUME ItemAssumption == IsFiniteSet(Item)
ASSUME MutationAssumption ==
    Mutation \subseteq [vault : Vault, item : Item, base : Nat, deleted : BOOLEAN]
ASSUME NoneAssumption == None \notin Account /\ None \notin Mutation

VARIABLES
    vaults,       \* table vaults: vault_id -> account_id
    items,        \* table vault_items, primary key (vault_id, item_id)
    outcomes,     \* table mutation_outcomes, primary key (account_id, mutation_id)
    sequence,     \* vault_change_sequence: nextval is never rolled back
    sent,         \* the mutation each client has minted under an id
    pc, key,      \* per request: next statement, and (account, mutationId)
    read,         \* per request: the row getItemForUpdate returned
    wrote,        \* per request: the uncommitted upserted row
    claimed,      \* per request: TRUE if it inserted the vault, uncommitted
    reply,        \* per request: the response
    feed          \* per account and vault: a client following the feed

tables == <<vaults, items, outcomes, sequence>>
locals == <<pc, key, read, wrote, claimed, reply>>
vars == <<tables, sent, locals, feed>>

Key == Account \X MutationId

(***************************************************************************)
(* A row of vault_items.  The ciphertext is named after the mutation that  *)
(* carried it.  Revision 0 stands for "no row": the table has              *)
(* CHECK (revision > 0), and applyMutation reads a missing row as 0.       *)
(***************************************************************************)
Row == [revision : Nat, deleted : BOOLEAN,
        ciphertext : Key \cup {None}, sequence : Nat]
NoRow == [revision |-> 0, deleted |-> FALSE, ciphertext |-> None, sequence |-> 0]

(***************************************************************************)
(* A response: 201 with the record, 409 with the current record, 400, 404, *)
(* or 500 for any error; 0 is "none yet" and, in the outcomes table, "no   *)
(* row".  Only 201 and 409 are ever recorded.                              *)
(***************************************************************************)
Response == [status : {0, 201, 400, 404, 409, 500}, row : Row]
NoResponse == [status |-> 0, row |-> NoRow]
Bare(status) == [status |-> status, row |-> NoRow]
Recorded == {201, 409}

Step == {"idle", "replay", "lock", "recheck", "vault", "select", "write",
         "upsert", "commit", "reply", "done"}
InTransaction == {"recheck", "vault", "select", "write", "upsert", "commit"}

mutation(r) == sent[key[r]]
At(r) == <<mutation(r).vault, mutation(r).item>>

TypeOK ==
    /\ vaults \in [Vault -> Account \cup {None}]
    /\ items \in [Vault \X Item -> Row]
    /\ outcomes \in [Key -> Response]
    /\ sequence \in Nat
    /\ sent \in [Key -> Mutation \cup {None}]
    /\ pc \in [Request -> Step]
    /\ key \in [Request -> Key \cup {None}]
    /\ read \in [Request -> Row]
    /\ wrote \in [Request -> Row]
    /\ claimed \in [Request -> BOOLEAN]
    /\ reply \in [Request -> Response]
    /\ feed \in [Account \X Vault -> [cursor : Nat, got : [Item -> Row]]]

Init ==
    /\ vaults = [v \in Vault |-> None]
    /\ items = [x \in Vault \X Item |-> NoRow]
    /\ outcomes = [k \in Key |-> NoResponse]
    /\ sequence = 0
    /\ sent = [k \in Key |-> None]
    /\ pc = [r \in Request |-> "idle"]
    /\ key = [r \in Request |-> None]
    /\ read = [r \in Request |-> NoRow]
    /\ wrote = [r \in Request |-> NoRow]
    /\ claimed = [r \in Request |-> FALSE]
    /\ reply = [r \in Request |-> NoResponse]
    /\ feed = [f \in Account \X Vault |->
                 [cursor |-> 0, got |-> [i \in Item |-> NoRow]]]

-----------------------------------------------------------------------------
(* Locks.                                                                  *)

\* Fault: a session-level pg_advisory_lock, kept after the transaction.
HoldsSessionLock(r) == pc[r] \in InTransaction \cup {"reply", "done"}

\* pg_advisory_xact_lock on (account, mutationId), held until the
\* transaction ends.
HoldsMutationLock(r) == pc[r] \in InTransaction

MutationLockFree(r) ==
    \A q \in Request \ {r} : HoldsMutationLock(q) => key[q] # key[r]

\* An uncommitted INSERT INTO vaults blocks any other INSERT of that id.
VaultInsertFree(r) ==
    \A q \in Request \ {r} :
        ~(claimed[q] /\ HoldsMutationLock(q) /\ mutation(q).vault = mutation(r).vault)

\* A row lock: taken by SELECT ... FOR UPDATE on a row that exists, and by
\* writing the row.  SELECT ... FOR UPDATE on a missing row locks nothing.
HoldsRowLock(q) ==
    \/ pc[q] \in {"write", "upsert", "commit"} /\ read[q].revision > 0
    \/ pc[q] = "commit" /\ reply[q].status = 201

RowLockFree(r) ==
    \A q \in Request \ {r} : HoldsRowLock(q) => At(q) # At(r)

-----------------------------------------------------------------------------
(* POST /vaults/:vaultId/items                                             *)

Goto(r, step) == pc' = [pc EXCEPT ![r] = step]
Answer(r, response) ==
    /\ Goto(r, "reply")
    /\ reply' = [reply EXCEPT ![r] = response]

(***************************************************************************)
(* A client sends a mutation: a new one, or again one it has sent before.  *)
(* The session is resolved and the body found well formed; a malformed     *)
(* one is answered 400 without touching any table.                         *)
(***************************************************************************)
Receive(r, k, m) ==
    /\ pc[r] = "idle"
    /\ sent[k] \in {None, m}
    /\ sent' = [sent EXCEPT ![k] = m]
    /\ key' = [key EXCEPT ![r] = k]
    /\ Goto(r, "replay")
    /\ UNCHANGED <<tables, read, wrote, claimed, reply, feed>>

\* findMutationOutcome: present or absent decides the next step.
FindMutationOutcome(r, absent) ==
    IF outcomes[key[r]].status # 0
    THEN Answer(r, outcomes[key[r]])
    ELSE Goto(r, absent) /\ UNCHANGED reply

\* The fast path: a point read outside any transaction.
FastPath(r) ==
    /\ pc[r] = "replay"
    /\ FindMutationOutcome(r, "lock")
    /\ UNCHANGED <<tables, sent, key, read, wrote, claimed, feed>>

\* BEGIN; acquireMutationLock.
AcquireMutationLock(r) ==
    /\ pc[r] = "lock"
    /\ MutationLockFree(r)
    /\ Goto(r, "recheck")
    /\ UNCHANGED <<tables, sent, key, read, wrote, claimed, reply, feed>>

\* Fault: no second look under the lock.
RecheckSkipped(r) ==
    /\ pc[r] = "recheck"
    /\ Goto(r, "vault")
    /\ UNCHANGED <<tables, sent, key, read, wrote, claimed, reply, feed>>

\* The second findMutationOutcome, under the lock.
Recheck(r) ==
    /\ pc[r] = "recheck"
    /\ FindMutationOutcome(r, "vault")
    /\ UNCHANGED <<tables, sent, key, read, wrote, claimed, feed>>

\* Fault: the vault is inserted or found, but its owner is not compared.
EnsureVaultExists(r) ==
    /\ pc[r] = "vault"
    /\ VaultInsertFree(r)
    /\ claimed' = [claimed EXCEPT ![r] = (vaults[mutation(r).vault] = None)]
    /\ Goto(r, "select")
    /\ UNCHANGED <<tables, sent, key, read, wrote, reply, feed>>

(***************************************************************************)
(* ensureVaultOwnership: INSERT ... ON CONFLICT DO NOTHING, then SELECT.   *)
(* The two statements are one step because a vaults row never changes once *)
(* it is visible to this transaction.                                      *)
(***************************************************************************)
EnsureVaultOwnership(r) ==
    LET v == mutation(r).vault
        owner == IF vaults[v] = None THEN key[r][1] ELSE vaults[v]
    IN  /\ pc[r] = "vault"
        /\ VaultInsertFree(r)
        /\ claimed' = [claimed EXCEPT ![r] = (vaults[v] = None)]
        /\ IF owner = key[r][1]
           THEN Goto(r, "select") /\ UNCHANGED reply
           ELSE Answer(r, Bare(404))
        /\ UNCHANGED <<tables, sent, key, read, wrote, feed>>

\* Fault: SELECT without FOR UPDATE.
GetItem(r) ==
    /\ pc[r] = "select"
    /\ read' = [read EXCEPT ![r] = items[At(r)]]
    /\ Goto(r, "write")
    /\ UNCHANGED <<tables, sent, key, wrote, claimed, reply, feed>>

\* Fault: a missing row is handed on as undefined.
GetItemUndefined(r) ==
    /\ pc[r] = "select"
    /\ items[At(r)].revision > 0 => RowLockFree(r)
    /\ read' = [read EXCEPT ![r] = IF items[At(r)].revision = 0 THEN None ELSE items[At(r)]]
    /\ Goto(r, "write")
    /\ UNCHANGED <<tables, sent, key, wrote, claimed, reply, feed>>

\* getItemForUpdate: waits for the row lock if the row exists; if it does
\* not, returns at once and locks nothing.
GetItemForUpdate(r) ==
    /\ pc[r] = "select"
    /\ items[At(r)].revision > 0 => RowLockFree(r)
    /\ read' = [read EXCEPT ![r] = items[At(r)]]
    /\ Goto(r, "write")
    /\ UNCHANGED <<tables, sent, key, wrote, claimed, reply, feed>>

\* baseRevision differs from the current revision: a Conflict if there is a
\* row to show, a bad request if there is none.  withTransaction commits in
\* both cases.
RejectStaleBase(r) ==
    /\ pc[r] = "write"
    /\ mutation(r).base # read[r].revision
    /\ reply' = [reply EXCEPT ![r] =
                   IF read[r].revision = 0
                   THEN Bare(400)
                   ELSE [status |-> 409, row |-> read[r]]]
    /\ Goto(r, "commit")
    /\ UNCHANGED <<tables, sent, key, read, wrote, claimed, feed>>

(***************************************************************************)
(* upsertItem, first half: the VALUES list of the INSERT is evaluated, and *)
(* nextval with it, before the INSERT finds out whether the row exists or  *)
(* has to wait.  The revision is computed from the earlier read.           *)
(***************************************************************************)
EvaluateInsert(r) ==
    /\ pc[r] = "write"
    /\ mutation(r).base = read[r].revision
    /\ sequence' = sequence + 1
    /\ wrote' = [wrote EXCEPT ![r] = [revision |-> read[r].revision + 1,
                                     deleted |-> mutation(r).deleted,
                                     ciphertext |-> key[r],
                                     sequence |-> sequence + 1]]
    /\ Goto(r, "upsert")
    /\ UNCHANGED <<vaults, items, outcomes, sent, key, read, claimed, reply, feed>>

\* Fault: DO UPDATE SET sequence = EXCLUDED.sequence, the number drawn
\* before the wait.
UpsertExcludedSequence(r) ==
    /\ pc[r] = "upsert"
    /\ RowLockFree(r)
    /\ reply' = [reply EXCEPT ![r] = [status |-> 201, row |-> wrote[r]]]
    /\ Goto(r, "commit")
    /\ UNCHANGED <<tables, sent, key, read, wrote, claimed, feed>>

(***************************************************************************)
(* upsertItem, second half: wait for any other transaction that has        *)
(* inserted or locked the row.  Then, if there is no row, the insert goes  *)
(* through; if there is one, DO UPDATE overwrites it whatever its revision *)
(* is, with a second nextval.                                              *)
(***************************************************************************)
UpsertItem(r) ==
    LET drawn == IF items[At(r)].revision = 0 THEN wrote[r].sequence ELSE sequence + 1
        row == [wrote[r] EXCEPT !.sequence = drawn]
    IN  /\ pc[r] = "upsert"
        /\ RowLockFree(r)
        /\ sequence' = IF items[At(r)].revision = 0 THEN sequence ELSE sequence + 1
        /\ wrote' = [wrote EXCEPT ![r] = row]
        /\ reply' = [reply EXCEPT ![r] = [status |-> 201, row |-> row]]
        /\ Goto(r, "commit")
        /\ UNCHANGED <<vaults, items, outcomes, sent, key, read, claimed, feed>>

\* Fault: only successes are recorded, so a conflict is decided afresh on
\* every retry.
CommitConflictUnrecorded(r) ==
    /\ pc[r] = "commit"
    /\ reply[r].status \in Recorded => outcomes[key[r]].status = 0
    /\ vaults' = IF claimed[r]
                 THEN [vaults EXCEPT ![mutation(r).vault] = key[r][1]]
                 ELSE vaults
    /\ items' = IF reply[r].status = 201
                THEN [items EXCEPT ![At(r)] = wrote[r]]
                ELSE items
    /\ outcomes' = IF reply[r].status = 201
                   THEN [outcomes EXCEPT ![key[r]] = reply[r]]
                   ELSE outcomes
    /\ Goto(r, "reply")
    /\ UNCHANGED <<sequence, sent, key, read, wrote, claimed, reply, feed>>

\* Fault: the outcome of a success is left to a later, separate statement.
CommitItemOnly(r) ==
    /\ pc[r] = "commit"
    /\ reply[r].status \in Recorded => outcomes[key[r]].status = 0
    /\ vaults' = IF claimed[r]
                 THEN [vaults EXCEPT ![mutation(r).vault] = key[r][1]]
                 ELSE vaults
    /\ items' = IF reply[r].status = 201
                THEN [items EXCEPT ![At(r)] = wrote[r]]
                ELSE items
    /\ outcomes' = IF reply[r].status = 409
                   THEN [outcomes EXCEPT ![key[r]] = reply[r]]
                   ELSE outcomes
    /\ Goto(r, "reply")
    /\ UNCHANGED <<sequence, sent, key, read, wrote, claimed, reply, feed>>

\* recordMutationOutcome (not for a bad request) and COMMIT.  The outcome is
\* a plain INSERT: a second one for the key would fail on the primary key.
Commit(r) ==
    /\ pc[r] = "commit"
    /\ reply[r].status \in Recorded => outcomes[key[r]].status = 0
    /\ vaults' = IF claimed[r]
                 THEN [vaults EXCEPT ![mutation(r).vault] = key[r][1]]
                 ELSE vaults
    /\ items' = IF reply[r].status = 201
                THEN [items EXCEPT ![At(r)] = wrote[r]]
                ELSE items
    /\ outcomes' = IF reply[r].status \in Recorded
                   THEN [outcomes EXCEPT ![key[r]] = reply[r]]
                   ELSE outcomes
    /\ Goto(r, "reply")
    /\ UNCHANGED <<sequence, sent, key, read, wrote, claimed, reply, feed>>

\* sendJson: the client has the response.
Reply(r) ==
    /\ pc[r] = "reply"
    /\ Goto(r, "done")
    /\ UNCHANGED <<tables, sent, key, read, wrote, claimed, reply, feed>>

\* Fault: BEGIN and ROLLBACK issued on other pooled connections than the
\* statements between them, so each statement has committed by itself.
FailWithoutRollback(r) ==
    /\ pc[r] \notin {"idle", "done"}
    /\ items' = IF pc[r] = "commit" /\ reply[r].status = 201
                THEN [items EXCEPT ![At(r)] = wrote[r]]
                ELSE items
    /\ reply' = [reply EXCEPT ![r] = Bare(500)]
    /\ Goto(r, "done")
    /\ UNCHANGED <<vaults, outcomes, sequence, sent, key, read, wrote, claimed, feed>>

\* A database error or a crash of the process: ROLLBACK of an open
\* transaction, and the client has no usable answer.  After COMMIT the
\* writes stand.
Fail(r) ==
    /\ pc[r] \notin {"idle", "done"}
    /\ reply' = [reply EXCEPT ![r] = Bare(500)]
    /\ Goto(r, "done")
    /\ UNCHANGED <<tables, sent, key, read, wrote, claimed, feed>>

-----------------------------------------------------------------------------
(* GET /vaults/:vaultId/changes                                            *)

(***************************************************************************)
(* The page after a cursor: the Limit rows with the lowest sequence above  *)
(* it.  The cursor on the wire is the base64url text of the sequence; a    *)
(* client only hands back what it was given, so it is the number here.     *)
(***************************************************************************)
After(v, cursor) == {i \in Item : items[<<v, i>>].sequence > cursor}
Page(v, cursor) ==
    {i \in After(v, cursor) :
        Cardinality({j \in After(v, cursor) :
            items[<<v, j>>].sequence < items[<<v, i>>].sequence}) < Limit}

\* vaultOwnedBy, then listChanges: one client asks for the page after its
\* cursor, takes the records, and keeps nextCursor, the last row's sequence.
\* An empty page leaves the cursor where it was.
ListChanges(a, v) ==
    LET page == Page(v, feed[<<a, v>>].cursor)
    IN  /\ vaults[v] = a
        /\ \E last \in page :
             /\ \A i \in page : items[<<v, i>>].sequence <= items[<<v, last>>].sequence
             /\ feed' = [feed EXCEPT ![<<a, v>>] =
                  [cursor |-> items[<<v, last>>].sequence,
                   got |-> [i \in Item |-> IF i \in page THEN items[<<v, i>>]
                                           ELSE feed[<<a, v>>].got[i]]]]
        /\ UNCHANGED <<tables, sent, locals>>

-----------------------------------------------------------------------------
Handle(r) ==
    \/ FastPath(r) \/ AcquireMutationLock(r) \/ Recheck(r)
    \/ EnsureVaultOwnership(r) \/ GetItemForUpdate(r)
    \/ RejectStaleBase(r) \/ EvaluateInsert(r) \/ UpsertItem(r) \/ Commit(r) \/ Reply(r)

Next ==
    \/ \E r \in Request : \/ \E k \in Key, m \in Mutation : Receive(r, k, m)
                          \/ Handle(r)
                          \/ Fail(r)
    \/ \E a \in Account, v \in Vault : ListChanges(a, v)

Spec == Init /\ [][Next]_vars

-----------------------------------------------------------------------------
(* Properties.                                                             *)

\* A mutation identifier has one outcome: every request that has been given
\* a 201 or 409, first answer or replay, holds exactly what the outcomes
\* table records (the two findMutationOutcome calls and the advisory lock).
ReplyIsRecorded ==
    \A r \in Request :
        pc[r] \in {"reply", "done"} /\ reply[r].status \in Recorded =>
            outcomes[key[r]] = reply[r]

\* The advisory lock and the second look under it do their work: no
\* transaction reaches recordMutationOutcome with the outcome already there,
\* so a double submit never surfaces as a primary-key error.
OutcomeInsertNeverCollides ==
    \A r \in Request :
        pc[r] = "commit" /\ reply[r].status \in Recorded =>
            outcomes[key[r]].status = 0

\* A row belongs to the account that owns its vault, also when two accounts
\* race to create the vault (ensureVaultOwnership).
OwnerWrites ==
    \A x \in Vault \X Item :
        items[x].revision > 0 => vaults[x[1]] = items[x].ciphertext[1]

\* A client following the change feed only ever holds records some request
\* committed with a 201: the feed never shows a write that was rolled back
\* or one whose retry would be applied a second time.
FeedShowsOutcomes ==
    \A a \in Account, v \in Vault, i \in Item :
        LET row == feed[<<a, v>>].got[i]
        IN  row.revision > 0 =>
              outcomes[row.ciphertext] = [status |-> 201, row |-> row]

\* However often a mutation is sent, it changes an item at most once, in the
\* step that records its 201 outcome with the new row.
AppliedOnce ==
    [][\A x \in Vault \X Item : items'[x] # items[x] =>
         LET k == items'[x].ciphertext
         IN  /\ outcomes[k].status = 0
             /\ outcomes'[k] = [status |-> 201, row |-> items'[x]]]_vars

\* An edit is a compare-and-swap: a mutation with baseRevision > 0 replaces
\* exactly that revision by the next one (FOR UPDATE in getItemForUpdate).
EditIsCompareAndSwap ==
    [][\A x \in Vault \X Item : items'[x] # items[x] =>
         LET base == sent[items'[x].ciphertext].base
         IN  base > 0 => /\ items[x].revision = base
                         /\ items'[x].revision = base + 1]_vars

\* A change moves its item forward in the feed, also when an insert had to
\* wait for another writer and became an update (the second nextval).
ItemMovesForward ==
    [][\A x \in Vault \X Item : items'[x] # items[x] =>
         items'[x].sequence > items[x].sequence]_vars

\* The outcomes clients have been told.
Told == {<<key[r], reply[r]>> :
           r \in {q \in Request : pc[q] = "done" /\ reply[q].status \in Recorded}}

\* The abstract ledger, read off the outcomes table and the responses.
Ledger == INSTANCE MutationLedger WITH
    Mutations <- Key,
    Outcome <- [status : Recorded, row : Row],
    NoOutcome <- NoResponse,
    ledger <- outcomes,
    answered <- Told

\* Outcomes are written once and clients are told nothing else.
ImplementsLedger == Ledger!Spec

\* A row as a client sees it, without its place in the feed, and what a mutation
\* asks for.
Shown(row) == [revision |-> row.revision, deleted |-> row.deleted, by |-> row.ciphertext]
Asked(m) == [place |-> <<m.vault, m.item>>, base |-> m.base, deleted |-> m.deleted]

\* The abstract store, read off the mutations sent and the tables.
Bodies == [k \in Key |-> IF sent[k] = None THEN None ELSE Asked(sent[k])]
Rows == [x \in Vault \X Item |-> Shown(items[x])]
Outcomes == [k \in Key |-> [status |-> outcomes[k].status, row |-> Shown(outcomes[k].row)]]

Store == INSTANCE ItemStore WITH
    Mutations <- Key, Place <- Vault \X Item,
    body <- Bodies, rows <- Rows, outcomes <- Outcomes

\* A mutation is decided as if in one step, its COMMIT: a 201 replaces the row it
\* was based on, a 409 shows the row that is current then (the item row's lock).
\* Only a creation may overtake another, which locks nothing it could wait for.
ImplementsStore == Store!RacySpec

\* Request r cannot take its next step before the transaction of q has ended.
WaitsFor(r, q) ==
    /\ q # r
    /\ \/ pc[r] = "lock" /\ HoldsMutationLock(q) /\ key[q] = key[r]
       \/ pc[r] = "vault" /\ claimed[q] /\ HoldsMutationLock(q) /\ mutation(q).vault = mutation(r).vault
       \/ /\ pc[r] = "upsert" \/ (pc[r] = "select" /\ items[At(r)].revision > 0)
          /\ HoldsRowLock(q) /\ At(q) = At(r)

UnderWay(r) == pc[r] \notin {"idle", "done"}

\* The order in which a request takes its locks.
Stage(r) ==
    CASE pc[r] = "lock" -> 1
      [] pc[r] \in {"recheck", "vault"} -> 2
      [] pc[r] = "select" -> 3
      [] pc[r] \in {"write", "upsert", "commit"} -> IF HoldsRowLock(r) THEN 5 ELSE 4
      [] OTHER -> 0

\* The advisory lock, the uncommitted vault row and the item row are locked in
\* this order: nobody waits for a request that is not further on.
WaitsAscend == \A r, q \in Request : WaitsFor(r, q) => Stage(r) < Stage(q)

\* These locks are all that holds a request up, and they never leave the
\* requests waiting on each other: one of those under way can take its step.
SomeoneMoves ==
    /\ WaitsAscend
    /\ \A r \in Request : UnderWay(r) => ENABLED Handle(r) \/ \E q \in Request : WaitsFor(r, q)

\* A row at or before the cursor of a client has been delivered to it.
Delivered(a, v, i) ==
    LET row == items[<<v, i>>]
    IN  /\ row.revision > 0
        /\ vaults[v] = a
        /\ row.sequence <= feed[<<a, v>>].cursor
        => feed[<<a, v>>].got[i] = row

\* docs/contracts/sync-v1.md: clients must be able to replay changes, deletes
\* included, after reconnect: what lies at or before a client's cursor has
\* been delivered to it.
FeedNeverSkips == \A a \in Account, v \in Vault, i \in Item : Delivered(a, v, i)

\* The one way it is not: a write committed after the cursor passed the number
\* it was given.  No page leaves a row behind, at its Limit included, and a vault
\* that gets its owner has no rows yet.
OnlyLateCommitsSkip ==
    [][\A a \in Account, v \in Vault, i \in Item :
         Delivered(a, v, i) /\ ~Delivered(a, v, i)' =>
             \E r \in Request : /\ Commit(r) /\ reply[r].status = 201 /\ At(r) = <<v, i>>
                                /\ wrote[r].sequence <= feed[<<a, v>>].cursor]_vars
=============================================================================
