------------------------------ MODULE SyncClient ------------------------------
(***************************************************************************)
(* The client half of sync/v1: SyncEngine (packages/sdk) over a durable    *)
(* LocalRepository, driven by the web app (syncNow in App.tsx, VaultSession*)
(* and its resolveConflict), on several devices of one account and vault.  *)
(*                                                                         *)
(* One action is what runs between two awaits.  The repository of a device *)
(* is durable; the caches, the list of pending conflicts and the running   *)
(* tasks are lost when the page is closed.  The network loses requests and *)
(* responses and delivers requests late.  The server is the one SyncBackend*)
(* specifies, with each mutation applied in one step.                      *)
(***************************************************************************)
EXTENDS Integers, FiniteSetsExt

CONSTANTS
    Device,
    Thread,       \* concurrent syncNow calls on one device
    Item,
    MutationId,   \* bounds the edits, deletes and resolutions made
    MaxEdits,     \* bounds the edits and deletes; ids beyond are left to resolutions
    Limit,        \* page size of the change feed
    None

ASSUME LimitAssumption == Limit \in Nat \ {0} /\ MaxEdits \in Nat
ASSUME ItemAssumption == IsFiniteSet(Item)

VARIABLES
    \* the server
    items,        \* item -> its record; revision 0: no record
    changed,      \* item -> its change sequence
    sequence,     \* last change sequence drawn
    outcomes,     \* mutation -> recorded response
    sent,         \* mutations requests have been sent for
    \* what users did
    minted,       \* mutation -> the body sealed under that id
    undone,       \* deletes whose undo was reported to have worked
    taken,        \* conflicts the user has begun to resolve
    \* each device: durable
    repo,         \* item -> server-confirmed record
    cursor,       \* last durably applied feed position
    queue,        \* mutation -> its sync state, or "none"
    \* each device: volatile
    revisions,    \* VaultSession.revisionCache
    cached,       \* items in VaultSession.itemCache
    pending,      \* conflicts of the last sync that met any
    offer,        \* the delete the vault view offers to undo
    resolving,    \* the conflict being resolved, between two awaits
    task          \* thread -> a running syncNow

server == <<items, changed, sequence, outcomes>>
users == <<minted, undone, taken>>
durable == <<repo, cursor, queue>>
volatile == <<revisions, cached, pending, offer, resolving>>
vars == <<server, sent, users, durable, volatile, task>>

Record == [revision : Nat, deleted : BOOLEAN, body : MutationId \cup {None}]
NoRecord == [revision |-> 0, deleted |-> FALSE, body |-> None]

\* minted: a sealed mutation.  A ciphertext is named after its mutation.
Body == [device : Device, item : Item, base : Nat, deleted : BOOLEAN]

\* None is no sealed mutation.
ASSUME NoneAssumption == None \notin Body

Response == [status : {0, 201, 409}, record : Record]
NoResponse == [status |-> 0, record |-> NoRecord]

\* MutationSyncState; LOCAL_CLEAN entries are not kept in the queue.
SyncState == {"none", "LOCAL_DIRTY", "SYNCING", "RETRYABLE", "CONFLICT"}

Change == [item : Item, record : Record, sequence : Nat]
Task == [pc : {"idle", "pull", "apply", "list", "push", "await", "dequeue"},
         at : Nat,                          \* cursor of the page asked for
         page : SUBSET Change,              \* records not yet applied
         next : Nat,                        \* nextCursor of that page
         todo : SUBSET MutationId,          \* rest of pushAll's list
         current : MutationId \cup {None},  \* pushOne's mutation
         found : SUBSET MutationId]         \* conflicts of this pushAll
IdleTask == [pc |-> "idle", at |-> 0, page |-> {}, next |-> 0,
             todo |-> {}, current |-> None, found |-> {}]

TypeOK ==
    /\ items \in [Item -> Record] /\ changed \in [Item -> Nat] /\ sequence \in Nat
    /\ outcomes \in [MutationId -> Response]
    /\ sent \subseteq MutationId
    /\ minted \in [MutationId -> Body \cup {None}]
    /\ undone \subseteq MutationId
    /\ taken \subseteq MutationId
    /\ repo \in [Device -> [Item -> Record]]
    /\ cursor \in [Device -> Nat]
    /\ queue \in [Device -> [MutationId -> SyncState]]
    /\ revisions \in [Device -> [Item -> Nat]]
    /\ cached \in [Device -> SUBSET Item]
    /\ pending \in [Device -> SUBSET MutationId]
    /\ offer \in [Device -> MutationId \cup {None}]
    /\ resolving \in [Device -> MutationId \cup {None}]
    /\ task \in [Device -> [Thread -> Task]]

Init ==
    /\ items = [i \in Item |-> NoRecord]
    /\ changed = [i \in Item |-> 0]
    /\ sequence = 0
    /\ outcomes = [m \in MutationId |-> NoResponse]
    /\ sent = {}
    /\ minted = [m \in MutationId |-> None]
    /\ undone = {}
    /\ taken = {}
    /\ repo = [d \in Device |-> [i \in Item |-> NoRecord]]
    /\ cursor = [d \in Device |-> 0]
    /\ queue = [d \in Device |-> [m \in MutationId |-> "none"]]
    /\ revisions = [d \in Device |-> [i \in Item |-> 0]]
    /\ cached = [d \in Device |-> {}]
    /\ pending = [d \in Device |-> {}]
    /\ offer = [d \in Device |-> None]
    /\ resolving = [d \in Device |-> None]
    /\ task = [d \in Device |-> [t \in Thread |-> IdleTask]]

-----------------------------------------------------------------------------
(* The server.                                                             *)

(***************************************************************************)
(* A request reaches the server, at any time after it was sent or never,   *)
(* which is how it is lost.  The first to arrive decides the outcome of    *)
(* its mutation; a later one is answered from the record and changes       *)
(* nothing, so it is no step of the server.                                *)
(***************************************************************************)
Serve(m) ==
    LET i == minted[m].item
        next == [revision |-> items[i].revision + 1, deleted |-> minted[m].deleted, body |-> m]
    IN  /\ m \in sent
        /\ outcomes[m].status = 0
        /\ IF minted[m].base = items[i].revision
           THEN /\ items' = [items EXCEPT ![i] = next]
                /\ changed' = [changed EXCEPT ![i] = sequence + 1]
                /\ sequence' = sequence + 1
                /\ outcomes' = [outcomes EXCEPT ![m] = [status |-> 201, record |-> next]]
           ELSE /\ outcomes' = [outcomes EXCEPT ![m] = [status |-> 409, record |-> items[i]]]
                /\ UNCHANGED <<items, changed, sequence>>
        /\ UNCHANGED <<sent, users, durable, volatile, task>>

\* The page after a cursor: the Limit changes with the lowest sequence.
Feed(at) ==
    LET after == {i \in Item : changed[i] > at}
    IN  {[item |-> i, record |-> items[i], sequence |-> changed[i]] :
            i \in {j \in after : Cardinality({k \in after : changed[k] < changed[j]}) < Limit}}

\* Fault: the nextCursor of a page is the newest sequence of the vault.
LastOfVault(page, at) == IF page = {} THEN at ELSE sequence

\* The nextCursor of a page read at a cursor.
Last(page, at) ==
    IF page = {} THEN at ELSE Max({c.sequence : c \in page})

-----------------------------------------------------------------------------
(* LocalRepository.                                                        *)

\* Fault: putItem stores whatever it is given.
PuttableAlways(existing, incoming) == incoming.revision >= 0

\* assertMonotonicPut: a record may not regress, nor differ at the same
\* revision.
Puttable(existing, incoming) ==
    \/ incoming.revision > existing.revision
    \/ incoming = existing

PutItem(d, i, record) == repo' = [repo EXCEPT ![d][i] = record]

\* setCursor, awaited to the end of its transaction.
SetCursor(d, c) == cursor' = [cursor EXCEPT ![d] = c]

\* enqueueMutation and dequeueMutation write the entry of one mutation,
\* whatever was there.
SetEntry(d, m, state) == queue' = [queue EXCEPT ![d][m] = state]

-----------------------------------------------------------------------------
(* VaultSession: what enters and leaves the queue.                         *)

\* The next unused mutation id (crypto.randomUUID).
Fresh(m) == minted[m] = None

Mint(d, m, i, base, deleted) ==
    /\ Fresh(m)
    /\ minted' = [minted EXCEPT ![m] =
         [device |-> d, item |-> i, base |-> base, deleted |-> deleted]]

\* Users still edit.
Editing == Cardinality({m \in MutationId : ~Fresh(m)}) < MaxEdits

\* saveItem, for an edit of an item on screen or a new one, whose id is a
\* fresh UUID.
SaveItem(d, m, i) ==
    /\ Editing
    /\ i \notin cached[d] => \A n \in MutationId : ~Fresh(n) => minted[n].item # i
    /\ Mint(d, m, i, revisions[d][i], FALSE)
    /\ SetEntry(d, m, "LOCAL_DIRTY")
    /\ cached' = [cached EXCEPT ![d] = @ \cup {i}]
    /\ UNCHANGED <<server, sent, undone, taken, repo, cursor, revisions, pending, offer, resolving, task>>

\* deleteItem: only for an item in the cache.
DeleteItem(d, m, i) ==
    /\ Editing
    /\ i \in cached[d]
    /\ Mint(d, m, i, revisions[d][i], TRUE)
    /\ SetEntry(d, m, "LOCAL_DIRTY")
    /\ offer' = [offer EXCEPT ![d] = m]
    /\ UNCHANGED <<server, sent, undone, taken, repo, cursor,
                   revisions, cached, pending, resolving, task>>

(***************************************************************************)
(* undoDeleteIfLocal on the last delete made, while the view still offers  *)
(* it: true if the mutation was queued.  Its two awaits are one step, since*)
(* a push that ends between them leaves what one ending just after does.   *)
(***************************************************************************)
UndoDeleteIfLocal(d) ==
    LET m == offer[d]
    IN  /\ m # None
        /\ undone' = IF queue[d][m] = "none" THEN undone ELSE undone \cup {m}
        /\ SetEntry(d, m, "none")
        /\ offer' = [offer EXCEPT ![d] = None]
        /\ UNCHANGED <<server, sent, minted, taken, repo, cursor,
                       revisions, cached, pending, resolving, task>>

\* resolveConflict, first await: the conflicting entry leaves the queue.
ResolveDequeue(d, m) ==
    /\ m \in pending[d]
    /\ resolving[d] = None
    /\ SetEntry(d, m, "none")
    /\ resolving' = [resolving EXCEPT ![d] = m]
    /\ pending' = [pending EXCEPT ![d] = @ \ {m}]
    /\ taken' = taken \cup {m}
    /\ UNCHANGED <<server, sent, minted, undone, repo, cursor,
                   revisions, cached, offer, task>>

\* resolveConflict, second await: the resolution is queued, based on the
\* revision the Conflict showed.
ResolveEnqueue(d, new) ==
    LET old == resolving[d]
    IN  /\ old # None
        /\ Mint(d, new, minted[old].item, outcomes[old].record.revision, FALSE)
        /\ SetEntry(d, new, "LOCAL_DIRTY")
        /\ resolving' = [resolving EXCEPT ![d] = None]
        /\ cached' = [cached EXCEPT ![d] = @ \cup {minted[old].item}]
        /\ UNCHANGED <<server, sent, undone, taken, repo, cursor, revisions, pending, offer, task>>

(***************************************************************************)
(* loadAllItemsIntoMemory over the repository's records r and queue q: the *)
(* revision of each record, and as cached the records that are no          *)
(* tombstones and the queued saves.                                        *)
(***************************************************************************)
Loaded(r, q) ==
    {i \in Item : r[i].revision > 0 /\ ~r[i].deleted}
        \cup {minted[m].item : m \in {n \in MutationId :
                q[n] \notin {"none", "CONFLICT"} /\ ~minted[n].deleted}}

LoadAllItemsIntoMemory(d) ==
    /\ revisions' = [revisions EXCEPT ![d] =
         [i \in Item |-> IF repo[d][i].revision > 0 THEN repo[d][i].revision ELSE @[i]]]
    /\ cached' = [cached EXCEPT ![d] = @ \cup Loaded(repo[d], queue[d])]

\* The page is closed, or the browser dies, and is opened and unlocked again.
Restart(d) ==
    /\ revisions' = [revisions EXCEPT ![d] = [i \in Item |-> repo[d][i].revision]]
    /\ cached' = [cached EXCEPT ![d] = Loaded(repo[d], queue[d])]
    /\ pending' = [pending EXCEPT ![d] = {}]
    /\ offer' = [offer EXCEPT ![d] = None]
    /\ resolving' = [resolving EXCEPT ![d] = None]
    /\ task' = [task EXCEPT ![d] = [t \in Thread |-> IdleTask]]
    /\ UNCHANGED <<server, sent, users, durable>>

-----------------------------------------------------------------------------
(* SyncEngine.pull                                                         *)

SetTask(d, t, next) == task' = [task EXCEPT ![d][t] = next]

\* syncNow begins: pull reads the durable cursor.
StartSync(d, t) ==
    /\ task[d][t].pc = "idle"
    /\ SetTask(d, t, [IdleTask EXCEPT !.pc = "pull", !.at = cursor[d]])
    /\ UNCHANGED <<server, sent, users, durable, volatile>>

\* Fault: the cursor is stored as soon as a page arrives.
FetchPageAndCursor(d, t) ==
    LET page == Feed(task[d][t].at)
        next == Last(page, task[d][t].at)
    IN  /\ task[d][t].pc = "pull"
        /\ SetCursor(d, next)
        /\ SetTask(d, t, [task[d][t] EXCEPT !.pc = "apply", !.page = page, !.next = next])
        /\ UNCHANGED <<server, sent, users, repo, queue, volatile>>

\* A page arrives.
FetchPage(d, t) ==
    LET page == Feed(task[d][t].at)
    IN  /\ task[d][t].pc = "pull"
        /\ SetTask(d, t, [task[d][t] EXCEPT !.pc = "apply", !.page = page,
                                            !.next = Last(page, task[d][t].at)])
        /\ UNCHANGED <<server, sent, users, durable, volatile>>

\* listChanges throws: pull reports an error, and syncNow goes on to pushAll.
FetchFails(d, t) ==
    /\ task[d][t].pc = "pull"
    /\ SetTask(d, t, [IdleTask EXCEPT !.pc = "list"])
    /\ UNCHANGED <<server, sent, users, durable, volatile>>

\* putItem for the next record of the page; a rejection ends the pull
\* without touching the cursor.
ApplyChange(d, t) ==
    \E c \in task[d][t].page :
        /\ task[d][t].pc = "apply"
        /\ \A o \in task[d][t].page : c.sequence <= o.sequence
        /\ IF Puttable(repo[d][c.item], c.record)
           THEN /\ PutItem(d, c.item, c.record)
                /\ SetTask(d, t, [task[d][t] EXCEPT !.page = @ \ {c}])
           ELSE /\ SetTask(d, t, [IdleTask EXCEPT !.pc = "list"])
                /\ UNCHANGED repo
        /\ UNCHANGED <<server, sent, users, cursor, queue, volatile>>

\* Fault: the cursor is stored without waiting for the page's puts.
AdvanceCursorUnawaited(d, t) ==
    /\ task[d][t].pc = "apply"
    /\ SetCursor(d, task[d][t].next)
    /\ SetTask(d, t, IF task[d][t].next = task[d][t].at
                     THEN [IdleTask EXCEPT !.pc = "list"]
                     ELSE [IdleTask EXCEPT !.pc = "pull", !.at = task[d][t].next])
    /\ UNCHANGED <<server, sent, users, repo, queue, volatile>>

\* setCursor, once every record of the page is applied; then the next page,
\* unless this one was empty.
AdvanceCursor(d, t) ==
    /\ task[d][t].pc = "apply"
    /\ task[d][t].page = {}
    /\ SetCursor(d, task[d][t].next)
    /\ SetTask(d, t, IF task[d][t].next = task[d][t].at
                     THEN [IdleTask EXCEPT !.pc = "list"]
                     ELSE [IdleTask EXCEPT !.pc = "pull", !.at = task[d][t].next])
    /\ UNCHANGED <<server, sent, users, repo, queue, volatile>>

-----------------------------------------------------------------------------
(* SyncEngine.pushAll and pushOne                                          *)

\* listQueuedMutations: entries in CONFLICT, and RETRYABLE ones still in
\* their backoff window, are skipped.
ListQueued(d, t) ==
    LET live == {m \in MutationId : queue[d][m] \notin {"none", "CONFLICT"}}
        retryable == {m \in live : queue[d][m] = "RETRYABLE"}
    IN  \E waiting \in SUBSET retryable :
            /\ task[d][t].pc = "list"
            /\ SetTask(d, t, [task[d][t] EXCEPT !.pc = "push", !.todo = live \ waiting])
            /\ UNCHANGED <<server, sent, users, durable, volatile>>

\* pushOne: mark the entry SYNCING and send it.  The list may be older than
\* the queue, and IndexedDB lists by random id, so in any order.
PushOne(d, t, m) ==
    /\ task[d][t].pc = "push"
    /\ m \in task[d][t].todo
    /\ SetEntry(d, m, "SYNCING")
    /\ sent' = sent \cup {m}
    /\ SetTask(d, t, [task[d][t] EXCEPT !.pc = "await", !.current = m, !.todo = @ \ {m}])
    /\ UNCHANGED <<server, users, repo, cursor, volatile>>

\* 201: putItem.  If it throws, nothing catches it short of syncNow: the
\* entry stays SYNCING and the rest of the list is not attempted.
Receive201(d, t) ==
    LET m == task[d][t].current
        record == outcomes[m].record
    IN  /\ task[d][t].pc = "await"
        /\ outcomes[m].status = 201
        /\ IF Puttable(repo[d][minted[m].item], record)
           THEN /\ PutItem(d, minted[m].item, record)
                /\ SetTask(d, t, [task[d][t] EXCEPT !.pc = "dequeue"])
           ELSE /\ SetTask(d, t, IdleTask)
                /\ UNCHANGED repo
        /\ UNCHANGED <<server, sent, users, cursor, queue, volatile>>

DequeueMutation(d, t) ==
    /\ task[d][t].pc = "dequeue"
    /\ SetEntry(d, task[d][t].current, "none")
    /\ SetTask(d, t, [task[d][t] EXCEPT !.pc = "push", !.current = None])
    /\ UNCHANGED <<server, sent, users, repo, cursor, volatile>>

\* Fault: a conflicting entry leaves the queue.
Receive409Dequeues(d, t) ==
    LET m == task[d][t].current
    IN  /\ task[d][t].pc = "await"
        /\ outcomes[m].status = 409
        /\ SetEntry(d, m, "none")
        /\ SetTask(d, t, [task[d][t] EXCEPT !.pc = "push", !.current = None,
                                            !.found = @ \cup {m}])
        /\ UNCHANGED <<server, sent, users, repo, cursor, volatile>>

\* 409: the entry waits for the user.
Receive409(d, t) ==
    LET m == task[d][t].current
    IN  /\ task[d][t].pc = "await"
        /\ outcomes[m].status = 409
        /\ SetEntry(d, m, "CONFLICT")
        /\ SetTask(d, t, [task[d][t] EXCEPT !.pc = "push", !.current = None,
                                            !.found = @ \cup {m}])
        /\ UNCHANGED <<server, sent, users, repo, cursor, volatile>>

\* fetch rejects: the request or the response may have been lost, or the
\* request may yet reach the server.
NetworkError(d, t) ==
    /\ task[d][t].pc = "await"
    /\ SetEntry(d, task[d][t].current, "RETRYABLE")
    /\ SetTask(d, t, [task[d][t] EXCEPT !.pc = "push", !.current = None])
    /\ UNCHANGED <<server, sent, users, repo, cursor, volatile>>

\* Fault: an entry the server refused leaves the queue.
HttpFailureDequeues(d, t) ==
    /\ task[d][t].pc = "await"
    /\ SetEntry(d, task[d][t].current, "none")
    /\ SetTask(d, t, IdleTask)
    /\ UNCHANGED <<server, sent, users, repo, cursor, volatile>>

\* Any other status (an expired session, a server error): back to
\* LOCAL_DIRTY, and the error ends syncNow.
HttpFailure(d, t) ==
    /\ task[d][t].pc = "await"
    /\ SetEntry(d, task[d][t].current, "LOCAL_DIRTY")
    /\ SetTask(d, t, IdleTask)
    /\ UNCHANGED <<server, sent, users, repo, cursor, volatile>>

\* The end of syncNow: the conflicts of this round, if any, replace those on
\* screen, and the caches are refreshed.
FinishSync(d, t) ==
    /\ task[d][t].pc = "push"
    /\ task[d][t].todo = {}
    /\ pending' = IF task[d][t].found = {} THEN pending
                  ELSE [pending EXCEPT ![d] = task[d][t].found]
    /\ LoadAllItemsIntoMemory(d)
    /\ SetTask(d, t, IdleTask)
    /\ UNCHANGED <<server, sent, users, durable, offer, resolving>>

-----------------------------------------------------------------------------
\* What syncNow does when nothing fails.
Progress(d, t) ==
    \/ FetchPage(d, t) \/ ApplyChange(d, t) \/ AdvanceCursor(d, t)
    \/ ListQueued(d, t) \/ (\E m \in MutationId : PushOne(d, t, m))
    \/ Receive201(d, t) \/ DequeueMutation(d, t) \/ Receive409(d, t) \/ FinishSync(d, t)

Fault(d) ==
    \/ Restart(d)
    \/ \E t \in Thread : FetchFails(d, t) \/ NetworkError(d, t) \/ HttpFailure(d, t)

UserStep(d) ==
    \/ \E m \in MutationId, i \in Item : SaveItem(d, m, i) \/ DeleteItem(d, m, i)
    \/ \E m \in MutationId : \/ ResolveDequeue(d, m)
                             \/ ResolveEnqueue(d, m)
    \/ UndoDeleteIfLocal(d)

Calm ==
    \/ \E m \in MutationId : Serve(m)
    \/ \E d \in Device : \/ UserStep(d)
                         \/ \E t \in Thread : StartSync(d, t) \/ Progress(d, t)

Next == Calm \/ \E d \in Device : Fault(d)

Spec == Init /\ [][Next]_vars

(***************************************************************************)
(* Fairness: a sync that has begun runs to its end, a request that was     *)
(* sent arrives, and network errors, expired sessions and closed pages end *)
(* some day.  Nothing makes a device sync: no edit and no timer calls      *)
(* syncNow, only the browser's online event and the end of an unlock.      *)
(***************************************************************************)
Fairness ==
    /\ <>[][Calm]_vars
    /\ \A m \in MutationId : WF_vars(Serve(m))
    /\ \A d \in Device, t \in Thread : WF_vars(Progress(d, t))

FairSpec == Spec /\ Fairness

-----------------------------------------------------------------------------
(* Properties.                                                             *)

\* Nothing at or before a device's cursor is missing from its repository:
\* with crashes in the middle of a page, rejected records and concurrent
\* syncs, a change the feed will not send again has been applied.
CursorCovers ==
    \A d \in Device, i \in Item :
        changed[i] \in 1..cursor[d] => repo[d][i] = items[i]

\* An edit survives lost requests, lost responses, crashes and concurrent
\* syncs: until the user undoes it or resolves its conflict, it is in its
\* device's queue or the server has applied it.
EditKept ==
    \A m \in MutationId :
        minted[m] # None /\ m \notin undone \cup taken =>
            queue[minted[m].device][m] # "none" \/ outcomes[m].status = 201

\* A repository holds only what the server acknowledged, and never steps
\* back to an older revision of an item.
RepoFollowsServer ==
    [][\A d \in Device, i \in Item : repo'[d][i] # repo[d][i] =>
         /\ repo'[d][i].revision \in (repo[d][i].revision + 1)..items[i].revision
         /\ outcomes[repo'[d][i].body].record = repo'[d][i]]_vars

\* A record as the store keeps it, and what a sealed mutation asks for.
Kept(r) == [revision |-> r.revision, deleted |-> r.deleted, by |-> r.body]
Asked(b) == [place |-> b.item, base |-> b.base, deleted |-> b.deleted]

\* The server's half, as the store SyncBackend is shown to implement.
Bodies == [m \in MutationId |-> IF minted[m] = None THEN None ELSE Asked(minted[m])]
Rows == [i \in Item |-> Kept(items[i])]
Outcomes == [m \in MutationId |-> [status |-> outcomes[m].status, row |-> Kept(outcomes[m].record)]]

Store == INSTANCE ItemStore WITH
    Mutations <- MutationId, Place <- Item,
    body <- Bodies, rows <- Rows, outcomes <- Outcomes

\* Devices based on what they hold only ever meet the store's three answers: no
\* mutation is based on a revision its item has not reached, so a refused one
\* always has a record to show.
ImplementsStore == Store!Spec

\* What convergence is when it comes: a device whose cursor has reached the
\* newest change has the server's record of every item, those that pushes and
\* other devices' conflicts brought included, and nothing else.
CaughtUp == \A d \in Device : cursor[d] = sequence => repo[d] = items

\* The device's online events, or its unlocks, never cease.
KeepsSyncing(d) == []<><<\E t \in Thread : StartSync(d, t)>>_vars

\* Once users stop editing, a device that is brought to sync again and again ends
\* up with the server's records; one that is not may keep an edit for ever.
Converges == \A d \in Device : KeepsSyncing(d) => <>[](repo[d] = items)

\* packages/contracts/sync-state-machine.md: SYNCING goes on to LOCAL_CLEAN,
\* RETRYABLE or CONFLICT.
SyncingEnds ==
    \A d \in Device, m \in MutationId :
        KeepsSyncing(d) => (queue[d][m] = "SYNCING" ~> queue[d][m] # "SYNCING")
=============================================================================
