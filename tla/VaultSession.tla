----------------------------- MODULE VaultSession -----------------------------
(***************************************************************************)
(* VaultSession (apps/web), the one holder of decrypted items, the views   *)
(* that call it, and the crypto Worker that holds the keys.  An async      *)
(* method is a task, up to its caller's last step; one action is what runs *)
(* between two awaits.  Requests to the Worker and its answers are FIFO;   *)
(* the awaits on the repository end in any order.                          *)
(*                                                                         *)
(* An item's plaintext is known by its origin, the confirmed revision it   *)
(* was made from.  What syncs do to the repository is SyncClient's subject *)
(* and happens here in single steps.                                       *)
(***************************************************************************)
EXTENDS Integers, Sequences, FiniteSets

CONSTANTS
    Item,
    Task,
    MaxGeneration,  \* bounds the unlocks and locks
    MaxRevision,    \* bounds the changes of an item
    MaxSetups,      \* bounds the onboardings that open a session
    MaxQueue,       \* bounds the mutations being made or queued, not those in conflict
    MaxConflicts,   \* bounds the conflicts beside a mutation being made
    None

ASSUME BoundAssumption == MaxGeneration \in Nat /\ MaxRevision \in Nat
                          /\ MaxSetups \in Nat /\ MaxQueue \in Nat /\ MaxConflicts \in Nat

VARIABLES
    generation,
    session,         \* handle of the open session, 0 for null
    itemCache,       \* item -> its plaintext in memory
    revisionCache,   \* item -> confirmed revision, 0 if unknown
    deletedLocally,
    screen,          \* the view that is mounted
    form,            \* the edit form on it, if any
    task,            \* task -> the method it runs
    records,         \* repository: item -> confirmed record
    queue,           \* repository: queued mutations
    inbox, outbox,   \* messages to and from the Worker
    handles,         \* sessions open in the Worker
    lastHandle,
    lockedAt         \* history: the generation the last lock began

caches == <<itemCache, revisionCache, deletedLocally>>
ui == <<screen, form>>
repository == <<records, queue>>
worker == <<inbox, outbox, handles, lastHandle>>
vars == <<generation, session, caches, ui, task, repository, worker, lockedAt>>

\* A plaintext: the revision it was made from, and the generation of the
\* method that put it in the cache.
Plain == [origin : Nat, gen : Nat]

Form == [item : Item, origin : Nat]

Record == [revision : Nat, deleted : BOOLEAN]

\* origin is the revision its author saw, base the one it claims, conflict the
\* one a 409 answered, 0 if there was none.
Entry == [item : Item, origin : Nat, base : Nat, deleted : BOOLEAN, conflict : Nat]

\* What loadAllItemsIntoMemory goes through, record by record.
Loading == [item : Item, origin : Nat, deleted : BOOLEAN]

\* The onboarding's form and its later steps, the unlock view, and the views of
\* an unlocked vault.
Screen == {"form", "confirm", "unlock", "vault"}

ASSUME NoneAssumption == None \notin Plain \cup Form \cup Entry \cup Loading

\* What the caller does when the method returns: nothing, navigate to the vault,
\* to the unlock view, or the next call of the onboarding's confirmation.
Caller == {"nothing", "vault", "leave", "lock", "reopen"}

Op == {"idle", "unlock", "setup", "lock", "load", "save", "delete", "return"}
Stage == {"records", "queue"}
Running == [op : Op,
            at : {"worker", "repo", "step"},   \* what it awaits, if anything
            gen : Nat, handle : Nat,           \* captured at its start
            stage : Stage, todo : SUBSET Loading, now : Loading \cup {None},
            entry : Entry \cup {None},         \* mutation being made
            then : Caller,
            late : BOOLEAN]                    \* begun while a lock was on its way
Idle == [op |-> "idle", at |-> "step", gen |-> 0, handle |-> 0, stage |-> "records",
         todo |-> {}, now |-> None, entry |-> None, then |-> "nothing", late |-> FALSE]

Request == [task : Task, type : {"unlock", "setup", "lock", "seal", "open"}, handle : Nat]
Answer == [task : Task, ok : BOOLEAN, handle : Nat]

TypeOK ==
    /\ generation \in Nat
    /\ session \in Nat
    /\ itemCache \in [Item -> Plain \cup {None}]
    /\ revisionCache \in [Item -> Nat]
    /\ deletedLocally \subseteq Item
    /\ screen \in Screen
    /\ form \in Form \cup {None}
    /\ task \in [Task -> Running]
    /\ records \in [Item -> Record]
    /\ queue \subseteq Entry
    /\ inbox \in Seq(Request)
    /\ outbox \in Seq(Answer)
    /\ handles \subseteq Nat
    /\ lastHandle \in Nat
    /\ lockedAt \in Nat

Init ==
    /\ generation = 0
    /\ session = 0
    /\ itemCache = [i \in Item |-> None]
    /\ revisionCache = [i \in Item |-> 0]
    /\ deletedLocally = {}
    /\ screen \in {"form", "unlock"}
    /\ form = None
    /\ task = [t \in Task |-> Idle]
    /\ records = [i \in Item |-> [revision |-> 0, deleted |-> FALSE]]
    /\ queue = {}
    /\ inbox = <<>>
    /\ outbox = <<>>
    /\ handles = {}
    /\ lastHandle = 0
    /\ lockedAt = 0

-----------------------------------------------------------------------------
(* CryptoWorkerHost: one message at a time.                                *)

Post(t, type, handle) ==
    inbox' = Append(inbox, [task |-> t, type |-> type, handle |-> handle])

AnswerHead(ok, handle) ==
    /\ inbox' = Tail(inbox)
    /\ outbox' = Append(outbox, [task |-> Head(inbox).task, ok |-> ok, handle |-> handle])
    /\ UNCHANGED <<generation, session, caches, ui, task, repository, lockedAt>>

\* unlock-item-session, with the password or the recovery key, which may be
\* wrong; create-account-setup.
OpenSession ==
    /\ inbox # <<>>
    /\ Head(inbox).type \in {"unlock", "setup"}
    /\ \/ /\ handles' = handles \cup {lastHandle + 1}
          /\ lastHandle' = lastHandle + 1
          /\ AnswerHead(TRUE, lastHandle + 1)
       \/ /\ AnswerHead(FALSE, 0)
          /\ UNCHANGED <<handles, lastHandle>>

\* seal-item-payload and open-item-payload; a record may fail to decrypt.
UseSession ==
    /\ inbox # <<>>
    /\ Head(inbox).type \in {"seal", "open"}
    /\ \/ AnswerHead(Head(inbox).handle \in handles, 0)
       \/ Head(inbox).type = "open" /\ AnswerHead(FALSE, 0)
    /\ UNCHANGED <<handles, lastHandle>>

\* Fault: a close that fails leaves the sessions registered.
CloseSessionsOrThrow ==
    /\ inbox # <<>>
    /\ Head(inbox).type = "lock"
    /\ \/ handles' = {} /\ AnswerHead(TRUE, 0)
       \/ handles' = handles /\ AnswerHead(FALSE, 0)
    /\ UNCHANGED lastHandle

\* lock closes every session, and forgets those whose close fails.
CloseSessions ==
    /\ inbox # <<>>
    /\ Head(inbox).type = "lock"
    /\ handles' = {}
    /\ \E ok \in BOOLEAN : AnswerHead(ok, 0)
    /\ UNCHANGED lastHandle

-----------------------------------------------------------------------------
(* Unlock, load and lock.                                                  *)

\* Fault: only asks whether the vault is unlocked.
isUnlocked(gen) == gen >= 0 /\ session # 0

isGenerationCurrent(gen) == gen = generation /\ session # 0

\* An answer for task t is next, and leaves the queue.
Receives(t, op) ==
    /\ outbox # <<>>
    /\ Head(outbox).task = t
    /\ task[t].op = op
    /\ task[t].at = "worker"
    /\ outbox' = Tail(outbox)

LockRequested == \E t \in Task : task[t].op = "lock"

\* A method that will open or close Worker sessions is running.
Busy == \E t \in Task : task[t].op \in {"unlock", "setup", "lock"}

\* A method begins.
Begin(t, running) ==
    /\ task[t] = Idle
    /\ task' = [task EXCEPT ![t] = running]

End(t) == task' = [task EXCEPT ![t] = Idle]

\* unlockWithPassword and unlockWithRecovery, up to the Worker's answer.
OpenVault(t, then) ==
    /\ generation < MaxGeneration
    /\ generation' = generation + 1
    /\ task' = [task EXCEPT ![t] = [Idle EXCEPT !.op = "unlock", !.at = "worker", !.then = then]]
    /\ Post(t, "unlock", 0)
    /\ UNCHANGED <<session, caches, ui, repository, outbox, handles, lastHandle, lockedAt>>

\* The unlock form is submitted, or the onboarding's recovery key.  Neither form is
\* disabled meanwhile: it may be submitted again until the vault is shown.
Unlock(t) ==
    /\ task[t] = Idle
    /\ \/ screen = "unlock" /\ OpenVault(t, "vault")
       \/ screen = "confirm" /\ OpenVault(t, "lock")

\* loadAllItemsIntoMemory captures the generation and the session given.
LoadFrom(handle, then) ==
    [Idle EXCEPT !.op = "load", !.at = "repo", !.gen = generation, !.handle = handle, !.then = then]

\* An unlock that fails throws: its view shows an error and stays.
Unlocked(t) ==
    /\ Receives(t, "unlock")
    /\ IF Head(outbox).ok
       THEN /\ session' = Head(outbox).handle
            /\ task' = [task EXCEPT ![t] = LoadFrom(Head(outbox).handle, task[t].then)]
       ELSE End(t) /\ UNCHANGED session
    /\ UNCHANGED <<generation, caches, ui, repository, inbox, handles, lastHandle, lockedAt>>

\* Onboarding: create-account-setup, whose session is closed at once.  Registering
\* comes first, and is accepted once.
CreateAccountSetup(t) ==
    /\ screen = "form"
    /\ ~Busy
    /\ lastHandle < MaxSetups
    /\ Begin(t, [Idle EXCEPT !.op = "setup", !.at = "worker"])
    /\ Post(t, "setup", 0)
    /\ UNCHANGED <<generation, session, caches, ui, repository, outbox, handles, lastHandle, lockedAt>>

\* The setup's answer, then the lock's: on to the recovery key, or an error.
SetupDone(t) ==
    /\ Receives(t, "setup")
    /\ IF Head(outbox).ok /\ Head(outbox).handle # 0
       THEN Post(t, "lock", 0) /\ UNCHANGED <<task, screen>>
       ELSE /\ End(t)
            /\ screen' = IF Head(outbox).ok THEN "confirm" ELSE screen
            /\ UNCHANGED inbox
    /\ UNCHANGED <<generation, session, caches, form, repository, handles, lastHandle, lockedAt>>

\* refreshFromRepository, after a sync.
Refresh(t) ==
    /\ session # 0
    /\ Begin(t, LoadFrom(session, "nothing"))
    /\ UNCHANGED <<generation, session, caches, ui, repository, worker, lockedAt>>

\* The method returns, and its caller goes on.
Return(t) ==
    task' = [task EXCEPT ![t] = IF @.then = "nothing" THEN Idle
                                ELSE [Idle EXCEPT !.op = "return", !.then = task[t].then]]

\* listItems or listQueuedMutations returns: every confirmed record, or every
\* queued mutation that is not in conflict.
Listed(t) ==
    /\ task[t].op = "load"
    /\ task[t].at = "repo"
    /\ IF isGenerationCurrent(task[t].gen)
       THEN task' = [task EXCEPT ![t].at = "step", ![t].todo =
              IF task[t].stage = "records"
              THEN {[item |-> i, origin |-> records[i].revision, deleted |-> records[i].deleted] :
                      i \in {j \in Item : records[j].revision > 0}}
              ELSE {[item |-> e.item, origin |-> e.origin, deleted |-> e.deleted] :
                      e \in {q \in queue : q.conflict = 0}}]
       ELSE Return(t)
    /\ UNCHANGED <<generation, session, caches, ui, repository, worker, lockedAt>>

\* The next record: a tombstone hides its item, another one is opened.
LoadOne(t) ==
    \E l \in task[t].todo :
        /\ task[t].op = "load" /\ task[t].at = "step"
        /\ IF isGenerationCurrent(task[t].gen)
           THEN /\ revisionCache' = IF task[t].stage = "records"
                                    THEN [revisionCache EXCEPT ![l.item] = l.origin]
                                    ELSE revisionCache
                /\ IF l.deleted
                   THEN /\ deletedLocally' = deletedLocally \cup {l.item}
                        /\ task' = [task EXCEPT ![t].todo = @ \ {l}]
                        /\ UNCHANGED inbox
                   ELSE /\ task' = [task EXCEPT ![t].todo = @ \ {l}, ![t].now = l, ![t].at = "worker"]
                        /\ Post(t, "open", task[t].handle)
                        /\ UNCHANGED deletedLocally
           ELSE Return(t) /\ UNCHANGED <<revisionCache, deletedLocally, inbox>>
        /\ UNCHANGED <<generation, session, itemCache, ui, repository, outbox, handles, lastHandle, lockedAt>>

\* openItemPayload returns.  Only a queued mutation unhides its item.
Loaded(t) ==
    LET l == task[t].now
    IN  /\ Receives(t, "load")
        /\ IF Head(outbox).ok /\ isGenerationCurrent(task[t].gen)
           THEN /\ itemCache' = [itemCache EXCEPT ![l.item] =
                     [origin |-> l.origin, gen |-> task[t].gen]]
                /\ deletedLocally' = IF task[t].stage = "queue"
                                     THEN deletedLocally \ {l.item} ELSE deletedLocally
           ELSE UNCHANGED <<itemCache, deletedLocally>>
        /\ IF Head(outbox).ok /\ ~isGenerationCurrent(task[t].gen)
           THEN Return(t)
           ELSE task' = [task EXCEPT ![t].at = "step", ![t].now = None]
        /\ UNCHANGED <<generation, session, revisionCache, ui, repository, inbox, handles, lastHandle, lockedAt>>

\* After the records, the queue; after the queue, the end.
LoadNext(t) ==
    /\ task[t].op = "load" /\ task[t].at = "step"
    /\ task[t].todo = {}
    /\ IF isGenerationCurrent(task[t].gen) /\ task[t].stage = "records"
       THEN task' = [task EXCEPT ![t].stage = "queue", ![t].at = "repo"]
       ELSE Return(t)
    /\ UNCHANGED <<generation, session, caches, ui, repository, worker, lockedAt>>

\* lock's finally block.
Forget ==
    /\ generation' = generation + 1
    /\ lockedAt' = generation + 1
    /\ session' = 0
    /\ itemCache' = [i \in Item |-> None]
    /\ revisionCache' = [i \in Item |-> 0]
    /\ deletedLocally' = {}

\* lock: asks the Worker only if there is a session to close.
LockVault(t, then) ==
    /\ generation < MaxGeneration
    /\ \/ /\ session # 0
          /\ task' = [task EXCEPT ![t] = [Idle EXCEPT !.op = "lock", !.at = "worker", !.then = then]]
          /\ Post(t, "lock", 0)
          /\ UNCHANGED <<generation, session, caches, lockedAt>>
       \/ /\ session = 0
          /\ Forget
          /\ task' = [task EXCEPT ![t] = [Idle EXCEPT !.op = "return", !.then = then]]
          /\ UNCHANGED inbox
    /\ UNCHANGED <<ui, repository, outbox, handles, lastHandle>>

\* Fault: the lock overtakes the requests before it.
LockNow(t) ==
    /\ task[t] = Idle
    /\ session # 0
    /\ generation < MaxGeneration
    /\ Begin(t, [Idle EXCEPT !.op = "lock", !.at = "worker", !.then = "leave"])
    /\ inbox' = <<[task |-> t, type |-> "lock", handle |-> 0]>> \o inbox
    /\ UNCHANGED <<generation, session, caches, ui, repository, outbox, handles, lastHandle, lockedAt>>

\* The Lock button of the vault, or the inactivity timer, which looks whether the
\* vault is unlocked and not at what is on screen.
Lock(t) ==
    /\ task[t] = Idle
    /\ screen = "vault" \/ session # 0
    /\ LockVault(t, "leave")

\* The Worker has answered: the vault is locked whatever it said, but if it failed
\* lock throws and its caller goes no further, so the view stays as it is.
Locked(t) ==
    /\ Receives(t, "lock")
    /\ Forget
    /\ IF Head(outbox).ok THEN Return(t) ELSE End(t)
    /\ UNCHANGED <<ui, repository, inbox, handles, lastHandle>>

\* App renders an unlocked vault's views only while there is a session.
Mounted(view) == IF view = "vault" /\ session = 0 THEN "unlock" ELSE view

Show(view) ==
    /\ screen' = Mounted(view)
    /\ form' = IF screen' = "vault" THEN form ELSE None

\* A caller goes on: to the vault, to the unlock view, or with the onboarding, which
\* closes the session of the recovery key and opens one with the password.
Resumed(t) ==
    /\ task[t].op = "return"
    /\ \/ /\ task[t].then \in {"vault", "leave"}
          /\ Show(IF task[t].then = "vault" THEN "vault" ELSE "unlock")
          /\ End(t)
          /\ UNCHANGED <<generation, session, caches, repository, worker, lockedAt>>
       \/ task[t].then = "lock" /\ LockVault(t, "reopen")
       \/ task[t].then = "reopen" /\ OpenVault(t, "vault")

-----------------------------------------------------------------------------
(* Save and delete.                                                        *)

Visible == {i \in Item : session # 0 /\ itemCache[i] # None /\ i \notin deletedLocally}

\* Nothing is known of the item yet: an id that crypto.randomUUID may return.
Unused(i) ==
    /\ records[i].revision = 0
    /\ \A e \in queue : e.item # i
    /\ form # None => form.item # i
    /\ \A t \in Task : task[t].entry # None => task[t].entry.item # i

\* The edit form keeps the values it was opened with.
OpenForm(i) ==
    /\ screen = "vault" /\ session # 0
    /\ form = None
    /\ i \in Visible \/ Unused(i)
    /\ form' = [item |-> i, origin |-> IF i \in Visible THEN itemCache[i].origin ELSE 0]
    /\ UNCHANGED <<generation, session, caches, screen, task, repository, worker, lockedAt>>

\* Cancel, or on to another view.
LeaveForm ==
    /\ screen = "vault"
    /\ form # None \/ session = 0
    /\ form' = None
    /\ screen' \in {screen, Mounted(screen)}
    /\ UNCHANGED <<generation, session, caches, task, repository, worker, lockedAt>>

\* The start of saveItem and deleteItem: the seal is posted, the base not known yet.
Seal(t, op, i, origin) ==
    /\ session # 0
    /\ Cardinality({e \in queue : e.conflict # 0}) <= MaxConflicts
    /\ Cardinality({e \in queue : e.conflict = 0}) + Cardinality({u \in Task : task[u].entry # None}) < MaxQueue
    /\ Begin(t, [Idle EXCEPT !.op = op, !.at = "worker", !.gen = generation, !.handle = session,
                             !.entry = [item |-> i, origin |-> origin, base |-> 0,
                                        deleted |-> op = "delete", conflict |-> 0],
                             !.late = LockRequested])
    /\ Post(t, "seal", session)

SaveItem(t) ==
    /\ form # None
    /\ Seal(t, "save", form.item, form.origin)
    /\ form' = None
    /\ UNCHANGED <<generation, session, caches, screen, repository, outbox, handles, lastHandle, lockedAt>>

DeleteItem(t) ==
    \E i \in Visible :
        /\ screen = "vault"
        /\ Seal(t, "delete", i, itemCache[i].origin)
        /\ UNCHANGED <<generation, session, caches, ui, repository, outbox, handles, lastHandle, lockedAt>>

\* handleImport saves item after item of a file, each under a new id.
ImportItem(t) ==
    \E i \in Item :
        /\ Unused(i)
        /\ Seal(t, "save", i, 0)
        /\ UNCHANGED <<generation, session, caches, ui, repository, outbox, handles, lastHandle, lockedAt>>

\* The seal returns: the base revision is read now, and the enqueue begins.  A
\* refused seal throws.
Sealed(t, op) ==
    /\ Receives(t, op)
    /\ IF Head(outbox).ok
       THEN task' = [task EXCEPT ![t].at = "repo", ![t].entry.base = revisionCache[task[t].entry.item]]
       ELSE End(t)
    /\ UNCHANGED <<generation, session, caches, ui, repository, inbox, handles, lastHandle, lockedAt>>

\* The mutation is queued whatever happened meanwhile; the plaintext is kept
\* only if the session is still the one the method began in.
Enqueued(t, op) ==
    LET i == task[t].entry.item
    IN  /\ task[t].op = op /\ task[t].at = "repo"
        /\ queue' = queue \cup {task[t].entry}
        /\ IF op = "save" /\ isGenerationCurrent(task[t].gen)
           THEN /\ itemCache' = [itemCache EXCEPT ![i] =
                     [origin |-> task[t].entry.origin, gen |-> task[t].gen]]
                /\ deletedLocally' = deletedLocally \ {i}
           ELSE /\ deletedLocally' = IF op = "delete" THEN deletedLocally \cup {i}
                                     ELSE deletedLocally
                /\ UNCHANGED itemCache
        /\ End(t)
        /\ UNCHANGED <<generation, session, revisionCache, ui, records, worker, lockedAt>>

\* undoDeleteIfLocal, which does not ask whether the vault is unlocked.
UndoDelete ==
    \E e \in queue :
        /\ screen = "vault"
        /\ e.deleted
        /\ queue' = queue \ {e}
        /\ deletedLocally' = deletedLocally \ {e.item}
        /\ UNCHANGED <<generation, session, itemCache, revisionCache, ui, task, records, worker, lockedAt>>

-----------------------------------------------------------------------------
(* What a sync does to the repository.                                     *)

Pushed(e) ==
    /\ e.conflict = 0
    /\ IF e.base = records[e.item].revision
       THEN /\ records[e.item].revision < MaxRevision
            /\ records' = [records EXCEPT ![e.item] =
                 [revision |-> @.revision + 1, deleted |-> e.deleted]]
            /\ queue' = queue \ {e}
       ELSE /\ queue' = (queue \ {e}) \cup {[e EXCEPT !.conflict = records[e.item].revision]}
            /\ UNCHANGED records
    /\ UNCHANGED <<generation, session, caches, ui, task, worker, lockedAt>>

\* Another device's change.
Pulled(i) ==
    /\ records[i].revision > 0 \/ Unused(i)
    /\ records[i].revision < MaxRevision
    /\ \E deleted \in BOOLEAN :
         records' = [records EXCEPT ![i] = [revision |-> @.revision + 1, deleted |-> deleted]]
    /\ UNCHANGED <<generation, session, caches, ui, task, queue, worker, lockedAt>>

-----------------------------------------------------------------------------
WorkerStep == OpenSession \/ UseSession \/ CloseSessions

Resume(t) ==
    \/ Unlocked(t) \/ SetupDone(t) \/ Locked(t) \/ Resumed(t)
    \/ Listed(t) \/ LoadOne(t) \/ Loaded(t) \/ LoadNext(t)
    \/ \E op \in {"save", "delete"} : Sealed(t, op) \/ Enqueued(t, op)

Call(t) ==
    \/ Unlock(t) \/ CreateAccountSetup(t) \/ Refresh(t) \/ Lock(t)
    \/ SaveItem(t) \/ ImportItem(t) \/ DeleteItem(t)

Next ==
    \/ WorkerStep
    \/ \E t \in Task : Resume(t) \/ Call(t)
    \/ \E i \in Item : OpenForm(i) \/ Pulled(i)
    \/ LeaveForm \/ UndoDelete
    \/ \E e \in queue : Pushed(e)

Spec == Init /\ [][Next]_vars

-----------------------------------------------------------------------------
(* Properties.                                                             *)

\* A lock forgets for good: while the vault is locked no decrypted item is in
\* memory, and after a new unlock none that a method begun before the last lock
\* decrypted, saved or loaded, however long it stood at an await.
LockForgets ==
    \A i \in Item : itemCache[i] # None => session # 0 /\ itemCache[i].gen >= lockedAt

\* When nothing is on its way, the Worker holds keys exactly while the vault
\* is unlocked, and the vault's handle is one the Worker knows.
KeysFollowSession ==
    ~Busy => IF session = 0 THEN handles = {} ELSE session \in handles

\* A save or a delete is refused by the Worker only if a lock had been requested
\* before it began: a lock never costs an edit already made.
EditSurvivesLock ==
    [][\A t \in Task :
         (task[t].op \in {"save", "delete"} /\ task[t].at = "worker"
            /\ task'[t] = Idle) => task[t].late]_vars

\* A queued edit claims the revision its author saw (docs/contracts/sync-v1.md:
\* a stale edit is answered 409).
BaseIsWhatWasSeen == \A e \in queue : e.base = e.origin

\* Lock clears what the views hold (docs/ux/flows.md): no edit form is on screen
\* when nothing is running and the vault is locked.
LockClearsForm == form # None /\ session = 0 => \E t \in Task : task[t].op \in {"unlock", "lock", "return"}
=============================================================================
