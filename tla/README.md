# Formal models of the zero-knowledge password manager

TLA+ models of the parts of this repository whose correctness depends on the
order in which things happen: the sync server, the sync client, the vault
session with its crypto Worker, the server's login, sessions and devices, the
account key bundle from onboarding to publication, and the browser extension.
TLC checks them on small instances; TLAPS proves their type correctness, safety and
action properties, and the refinements of the three abstract specifications, for every
instance. `PROJECT.json` maps
every definition to the lines it models.

Run `tlc -config X.cfg MCModule` and `tlapm XProofs.tla` in this directory.

## 1. The system

| Component | State | Operations | Talks to |
|---|---|---|---|
| Sync backend (`apps/backend/src/sync`) | `vaults`, `vault_items`, `mutation_outcomes`, a global change sequence | post a mutation, list changes | PostgreSQL; every client |
| Sessions and devices (`auth/sessions.mjs`, `devices`) | `sessions`, `devices` | issue, resolve, rotate, log out, enroll (two ways), revoke | called before every other route |
| OPAQUE login (`auth/routes.mjs`) | one pending login per account in memory, credentials, rate-limit windows, an admission bucket | register, two login legs, cleanup | issues sessions; the SDK's `AuthClient` |
| Account key bundle (`account`) | one versioned row per account | get, compare-and-swap put | web app publishes, extension reads |
| Rust backend (`apps/backend-rust`) | the same tables | the same routes, a migration check | replaces the Node backend |
| SDK (`packages/sdk`) | the local repository: records, cursor, mutation queue | enqueue, push, pull, resolve; HTTP and auth clients | server, repository |
| Web app (`apps/web`) | `VaultSession` caches, IndexedDB, React views | unlock, edit, delete, undo, lock, sync | SDK, Worker |
| Crypto Worker (`packages/crypto-worker`) | open session handles | unlock, seal, open, lock, one message at a time | wasm |
| Crypto core and bindings | keys in memory | KDF, envelopes, OPAQUE, canonical encoding | |
| Extension (`apps/extension`, `packages/extension-adapters`) | session generation, fill capabilities, vault manager | unlock, offer, fill, lock | content scripts, server |
| Android, desktop | a vault manager of its own; a shell | as the extension; none | |
| Importers, domain, TOTP, generator | none | pure functions | |

**What is hard.** The server runs several statements per request over a pool of
connections at READ COMMITTED, so what a statement read may be gone when the
next one writes; clients retry, so the same mutation arrives twice, late or
concurrently; a change becomes visible in commit order but is numbered in write
order. On a client every `await` lets something else run: nothing serialises two
`syncNow` calls, the page may close between two repository transactions, and a
lock may fall into any load or save. A login is two requests joined only by the
account they name, with one pending state per account that expires. The
extension handles several popup messages at once over one policy object and one
vault manager, either of which may be locked, replaced or evicted during any
await. `PROJECT.json` lists these hazards, line by
line, with the property that guards each one.

**What makes each part correct.**

- Sync backend: a mutation has one outcome whoever retries it, is applied at
  most once, edits are compare-and-swap, only the owner writes, and whatever is
  in the feed was acknowledged.
- Sync client: no edit is lost, no change is skipped, local records never step
  back, and a device that keeps being brought to sync converges.
- Vault session: a lock forgets the decrypted items for good; the Worker's keys are
  those of the session; a lock costs no edit already made.
- Sessions: a session has one successor, a revoked device has no access, a
  binding is final, no two requests wait for each other.
- Login: a login yields one session and only within its lifetime, an
  undisturbed one succeeds, a window admits no more attempts than its limit, and
  the sweep of unused accounts takes none from an attempt or a row that refers to it.
- Key bundle: the endpoint is a compare-and-swap register; no version is
  acknowledged with two contents; what is stored can be parsed by its reader.
- Extension: a fill goes to the document and origin, in the session and once, for
  which it was granted; nothing is sent for a session that was locked meanwhile; every
  message is answered.

## 2. Modules

| Module | Models | Atomic step |
|---|---|---|
| `SyncBackend` | `sync/routes.mjs`, `sync/store.mjs` | one SQL statement |
| `MutationLedger` | what `POST /vaults/:vaultId/items` promises | abstract |
| `ItemStore` | what the sync server is to its clients: a store that decides each mutation in one step | abstract |
| `SyncClient` | `sync-state-machine.ts`, `repository.ts`, `indexeddb-repository.ts`, `syncNow`, the queueing half of `VaultSession`, on several devices with a server | what runs between two awaits |
| `VaultSession` | `vault-session.ts`, `worker-client.ts`, `crypto-worker` | what runs between two awaits; one Worker message |
| `AuthSessions` | `auth/sessions.mjs`, `requireSession`, refresh, logout, `devices` | one SQL statement, or statements no one can tell apart |
| `LoginLegs` | `auth/routes.mjs` (register, login), `login-state`, `rate-limit`, `cleanup`, `admission-limit`, `credentials`, the SDK's `auth-client.ts` | a handler up to an await and the statement awaited |
| `BundleCodec` | the two bundle codecs (`account/bundle-codec.mjs`, `account-bundle-codec.ts`) | pure operators |
| `KeyBundle` | `account/routes.mjs`, `account/store.mjs`, `onboarding.tsx`, `extension-setup.tsx`, the bundle in `localStorage` | one SQL statement; what runs between two awaits |
| `BundleRegister` | what `PUT /account/key-bundle` promises | abstract |
| `Extension` | `background.ts`, `vault-manager.ts`, `popup.ts`, the adapters' session and capabilities | what runs between two awaits |
| `Origins` | `packages/domain`'s `origin.ts`, the adapters' `trustedContentSender`, `decideFill` and `parseContentMessage`, `content.ts` | pure operators |
| `MC...` | small instances, symmetry sets | |
| `SyncBackendProofs`, `SyncRowsProofs` | theorems about `SyncBackend`: its outcomes, its rows | |
| `SyncClientProofs`, `VaultSessionProofs`, `AuthSessionsProofs`, `LoginLegsProofs`, `KeyBundleProofs`, `ExtensionProofs` | theorems about the module each is named for | |

### SyncBackend

The tables are variables, `pc[r]` is where the handler of request `r` stands and
`wrote[r]` the row it has written but not committed. `FastPath`,
`AcquireMutationLock`, `Recheck`, `EnsureVaultOwnership`, `GetItemForUpdate`,
`RejectStaleBase`, `EvaluateInsert`, `UpsertItem`, `Commit` and `Reply` are the
statements of `applyMutation` in their order; `Fail` is a crash or a rollback.
Advisory and row locks are predicates on where other requests stand. The
`nextval` of an INSERT that becomes an UPDATE is drawn twice, as in PostgreSQL
(`EvaluateInsert`). A ciphertext is the key of the mutation that carries it.
`ListChanges` is the feed of one client per account and vault.

`ImplementsLedger` says that this implements `MutationLedger`, with `outcomes` as the
ledger and the answers given as what clients were told. `ImplementsStore` says that it
implements `ItemStore`: whatever the statements of a transaction interleave with, its
mutation is decided as if in one step, the COMMIT, against the row that is current
then. The store is `RacySpec`, which besides `Apply` and `Refuse` has one more step,
`CreateOver`: a creation that overtook another one's commit starts the item over.
Under the store's strict `Spec` TLC refutes the refinement, by that race.

### SyncClient

Server, durable repository and volatile memory of each device. The server
applies a mutation in one step (`Serve`). That this is the server of `SyncBackend` is
what `ItemStore` says in the middle: `SyncClient!ImplementsStore` is its strict `Spec`,
`SyncBackend!ImplementsStore` its `RacySpec`. What the client's model leaves out of the
server is thus `CreateOver`, which takes two mutations of base 0 for one item whose
transactions overlap, and the late commits behind a cursor (section 4), which by
`OnlyLateCommitsSkip` are the only gaps of the feed; `CursorCovers` and `Converges` are claims about the
client given a feed without them. A request may reach the server at any time
after it was sent, or never; an answer may be lost (`NetworkError`) or be any
other status (`HttpFailure`). `Restart` closes the page. The backoff window is a
nondeterministic choice of RETRYABLE entries to skip, and the queue is pushed in
any order because IndexedDB lists it by random id. The history variables
`minted`, `undone` and `taken` record what users did.

### VaultSession

Methods are tasks with the `generation` and handle they captured; requests to
the Worker and answers are FIFO sequences. The plaintext of an item is known by
the revision it was made from and the generation that stored it, so a stale
write is visible. What syncs do to the repository happens in single steps
(`Pushed`, `Pulled`), since `SyncClient` has the detail. `ImportItem` is one round of
the import loop. An unlock may fail, a record may fail to decrypt, and closing Worker
sessions may fail.

`screen` and `form` are what is mounted. A method's task carries what its caller does
when it returns (`Return`, `Resumed`): navigate to the vault, or to the unlock view, or
the next call of the onboarding's confirmation, which unlocks with the recovery key,
locks and unlocks with the password. The unlock form is not disabled while its unlock
runs, and stays until the caller navigates, so `Unlock` may come again while the items
load. `Locked` is the answer to a lock: the vault is locked whatever the Worker says
(`Forget`), but if a close failed `lock` rejects, the caller goes no further and the view
stays with its form.

The conflicts view is not modelled: no code navigates to it (`App.tsx:165` only renders
it). `SyncClient` has `resolveConflict`, which is what that view, or another client of
the SDK, would call.

### AuthSessions

`Authenticate` is `requireSession` and separate from the handler, so anything
may happen in between. `RotateBegin` is the snapshot of the UPDATE in
`rotateSession`, `RotateUpdate` its second look at the session once the row is
free, `RotateCommit` the INSERT and COMMIT. `RevokeSweep` is the snapshot of the
second UPDATE in `revokeDevice`: rows not committed then are not seen. A session's
foreign key to its device takes only a key-share lock, which a revocation's
UPDATE does not wait for, so it is no lock in the model. `successors` and `acted`
are history.

### LoginLegs

`AuthClient.register` and `login` run leg by leg (`StartRegister`, `StartLogin`,
`SecondLeg`, `Complete`); a handler goes through `Arrive` (admission, parsing,
`hasPending`), `CheckAndIncrement`, and then a registration's
`SaveCredentialRecordIfAbsent` or a login's `GetCredentialRecord`, `LoginStart`
or `LoginFinish`. `hasPending` is read before the limiter's statement and used
after it, so a message taken for a leg 2 may find its state gone. OPAQUE is
ideal: a third message verifies if and only if it belongs to the login whose
state was taken and was made with the record's password. An unknown account gets a
decoy state. Messages may be doubled, stray or malformed, answers lost, the
process restarted; the clock moves in ticks.

The sweep of `cleanup.mjs` is three steps: `CleanWindows` is its first DELETE,
`SnapshotAccounts` the guards of the second, evaluated on the snapshot that statement starts with, and
`CleanAccounts` its deletes, with the foreign keys checked against the rows there are by
then. A row that the limiter commits in between makes the statement fail and undoes all of
it; `rate-limit.mjs:23` swallows the error and a later sweep tries again. Any call of
the limiter may start a sweep, also one for an account the model does not have
(`CheckElsewhere`).

`passed` and a caller's `quiet` are history: attempts let through per window, and
whether anything disturbed this login.

`StartLogin` has both callers: the views that await the login, and the unlock
view, which does not and clears its buffer (section 4).

### KeyBundle, BundleCodec, BundleRegister

`SelectForUpdate`, `Insert` and `Commit` are the statements of
`publishKeyBundle`; its row lock and the wait for another INSERT of the same key
are predicates on where the other requests stand, `Fail` is a broken connection
before or after the COMMIT. A tab onboards, saves the bundle, unlocks, logs in
and publishes as the views do, may be closed at any await, and leaves its PUT on
its way. `Api` is another program with a session of the account, which puts any
version of any text. A `Tab` is one mount of the extension-setup view: leaving and
entering it again forgets the publication under way, which then counts as another
tab's. Bundles are records of what either codec looks at, and
`Text` is every text one change away from a built one, so that the two codecs can
be compared (`StoredParses`). `Built` is the bundle of the onboarding's fields, which fit;
`Builds` is what `buildAccountBundle`, which checks nothing, makes of any fields.

`ImplementsRegister` says that the endpoint implements `BundleRegister`: the row is
the register and the 204 answers are its acknowledgements.

### Extension

`ses`, `caps` and `offer` are the policy's state, `mgr`, `refreshing` and `hosts`
the vault manager's. A popup message is a call that stands at one await at a
time; `Proceed` is what happens when that await ends. `CheckFresh` with
`AfterRefresh` and `DevicesListed` is `checkFresh`, shared refresh included, which
every use of the vault begins with. `EnsureActive` is the lazy timeout, of which
only the session learns. `Evict` is the browser stopping the background script.
Time is reduced to what has run out.

A page is one of `Origins`: a login form of the item's origin, or one that differs
from it in its scheme, host, port, form action, frame, fields or document identity.
`Offer` takes what the content script sends of it, or other metadata the schema
admits; `FillSent` is the arrival at a document that may have changed meanwhile,
where the content script looks at everything again (`Assigns`). The counters that bound a run are reset by an eviction.

## 3. Runs that pass

| Run (cfg) | Bounds | Shows |
|---|---|---|
| `sync_server` (SyncBackend) | 2 accounts, 1 vault, 1 item, 3 mutation ids, 3 requests | one outcome per mutation, applied once, only by the owner; the feed shows acknowledged records and items move forward in it; the ledger and the item store are refined; locks are waited for in one order |
| `client_two_devices` (SyncClient) | 2 devices, 1 item, 3 mutations, page size 1 | cursor and repository follow the server, edits are kept through conflicts and resolutions |
| `client_concurrent_syncs` (SyncClientConcurrent) | 1 device, 2 concurrent syncs, 2 items, 2 mutations | no change skipped, no edit lost |
| `client_converges` (SyncClientConverges) | 1 device, 2 items, 3 mutations, page size 1 | the repository of a device that is brought to sync again and again ends up equal to the server |
| `session_isolation` (VaultSession) | 2 tasks, 4 generations, 1 item, 1 setup, 1 edit being made or queued beside 1 conflict | plaintext, keys and edits around locks, repeated unlocks and failing locks |
| `session_rotation` (AuthSessions) | 3 sessions, 2 devices, 2 requests, all routes | one successor, one live session per device |
| `device_revocation` (AuthSessionsBearer) | 2 sessions, 2 devices, 2 requests, without legacy enrollment | a revoked device has no access, bindings are final, no deadlock between row locks |
| `login_legs` (LoginLegs) | 1 account, 2 clients, 2 passwords, 2 handlers, lifetimes of 1 tick, limits of 2 and 3, 2 ticks, 1 attempt per client, 1 fault | one session per login and in time, undisturbed logins complete, limits hold, the sweep takes no account in use |
| `key_bundle` (KeyBundle) | 1 tab, 1 other program, 2 passwords, 3 attempts, 3 versions, 1 onboarding | the register is refined, one content per version, the race is lost at most once, stored bundles parse, publications end |
| `extension` (Extension) | 1 account, 1 document, 2 calls, 2 generations, 2 unlocks, 1 capability, 1 offer, 1 revision | one fill per capability in its session and origin, one refresh, nothing sent after a lock, every message answered |

Three requests are enough for a mutation, its retry and a competitor; two
concurrent actors suffice where the code's guards compare two. Three mutations
of one item on two devices give an edit, a conflicting one and a resolution. Four generations are
the onboarding's three and a lock after them, or an unlock, a lock and an unlock submitted
twice, with a method of the first still in flight. In
`login_legs` two handlers are a leg 2 and whatever arrives between its reads, and a
tick is enough for a pending state, a window or a retention to end; in `key_bundle`
two senders are all a race for one row has, and three versions let a replacement
of a replacement happen; in `extension` two generations and two unlocks are a
session, its end and another one with a call of the first still waiting. Every property has a
mutant: a `Fault` operator beside the definition it breaks, with which TLC finds
the property violated.

Each module states a type invariant, `TypeOK`, which is proved (section 5). It is among
the properties of the runs of `SyncBackend` and of `KeyBundle`, where it also says that no
version outside the column's bounds is stored.

Deadlock in TLC's sense is not checked where a model may stop because its bounds
are used up. What it would show of the sync server is the invariant `SomeoneMoves`: its
three kinds of locks are waited for in one order (`WaitsAscend`), so never in a circle,
and nothing but these locks holds a request up.

`EditIsCompareAndSwap` is in no run, since `ImplementsStore` says more: an edit that is
applied replaces its base, and one that is refused has another row to show.

`device_revocation` leaves the legacy route out because registration there
binds the current session anew (ADR-0005 §2), even one already bound: the
session then no longer bears the first device, whose revocation does not reach
it. `BoundForGood` is a promise of `bearer-session-v1` only.

### Fairness

- `SyncBackend`, `LoginLegs`, `VaultSession`: none; safety only.
- `AuthSessions`, `KeyBundle`: strong fairness of a handler, because a request
  that waits for a lock gets it in turn (PostgreSQL queues waiters); in
  `KeyBundle` also weak fairness of an open page's publication. Crashes and broken
  connections are never forced. `RequestsEnd` is conditional on unused ids because
  ids are finite only in the model.
- `SyncClient`: a sync that has begun runs to its end, a request that was sent arrives,
  and faults end (`<>[][Calm]_vars`). Nothing makes a device sync: only the browser's
  `online` event (`App.tsx:137`) and the one call after an unlock or an onboarding
  (`unlock.tsx:36`, `onboarding.tsx:105`) do, the latter before the login it precedes
  has a token; no edit calls it and there is no timer. `Converges` is therefore said of a
  device whose syncs never cease (`KeepsSyncing`); without that premise TLC refutes it.
  Users are never forced to act.
- `Extension`: weak fairness of every call's next continuation. The vault manager's
  requests have a deadline (`withDeadline`); `sendToDocument` and `getActiveTab` have none,
  and for them it is the browser that calls back. A failing page of changes is not
  counted on to end a load.

## 4. Where the code and its documents disagree

Two are runs that TLC refutes, quoted in `PROJECT.json`.

| Run | The documents say | The code can |
|---|---|---|
| `feed_gap` | clients can replay every tombstone | number a change before, and commit it after, a client's cursor passed |
| `unlock_login` | only an offline or failed login leaves the unlocked vault without a session | zero the password while the first leg is on its way, so the second leg is computed from zeros |

`OnlyLateCommitsSkip` says that this is all there is to the first: a record at or before
the cursor is missing only from the COMMIT on that wrote it behind the cursor. TLC
checks it in the configuration of `feed_gap`, in place of its invariant, and it is proved.

The modules define these further statements of the documents; put in place of the
properties of the module's configuration, TLC refutes each of them:

| Statement | It says | The code can |
|---|---|---|
| `SyncClient!SyncingEnds` (under `FairSpec`, of a device that keeps syncing) | `packages/contracts/sync-state-machine.md:5`: SYNCING goes on to LOCAL_CLEAN on 201 | fail for ever on a replayed 201 older than the repository (`sync-state-machine.ts:105`) |
| `VaultSession!BaseIsWhatWasSeen` | `docs/contracts/sync-v1.md:11`: a stale edit is answered 409 | claim a base its author never saw (`vault-session.ts:280`) |
| `VaultSession!LockClearsForm` | `docs/ux/flows.md:13`: lock clears the selected item | leave the view on screen with its edit form when closing a Worker session fails, since `lock` then rejects before `setView` (`App.tsx:84-86`) or `navigate` (`vault.tsx:46-47`) |
| `KeyBundle!NeverOverwrites` (2 tabs, no other program, 1 password, 2 onboardings) | `extension-setup.tsx:3-5`: never overwrites a conflicting remote bundle | replace another browser's bundle, whose version it reads and adds one to (lines 46-49) |
| `Extension!NoStrayHost` | `vault-manager.ts:136-137`: a failed unlock never leaves a live host session | leave the new host open when a page of changes fails, since the catch (198-200) disposes of the manager's state, which is not yet the new one |

The models also contain these behaviours, which a reader of the properties
should know, since the properties are worded around them:

- two concurrent creations of one item both get revision 1 (`FOR UPDATE` locks
  no row that is not there): this is `CreateOver` of `ItemStore`, `EditIsCompareAndSwap`
  speaks of edits, and `ItemMovesForward` of sequence numbers;
- an undo may be reported for a delete that is being sent: `EditKept` excepts
  undone mutations;
- a queued edit may stay queued for as long as no `online` event and no unlock comes
  (`vault-session.ts:152-155`): `Converges` speaks of devices that keep syncing;
- a conflict is kept in the queue but announced only by the sync that met it, the view
  that would show it cannot be reached, and a resolution replaces it in two
  transactions: `EditKept` speaks of the queue, up to the moment a resolution begins;
- a second unlock submitted while the first one's items load keeps what is cached; when
  it fails the vault is unlocked all the same but the first one's loading has ended, so that part of
  the items stays hidden until the next load: `LockForgets` speaks of locks, not of unlocks;
- a sweep of unused accounts may fail, if the limiter writes an account's first row after the
  statement's snapshot: `SweepSparesAttempts` speaks of whom it takes an account from;
- a refresh under way while its device is revoked leaves a successor that is not
  marked revoked: `RevokedDeviceLosesAccess` speaks of what resolves;
- a restored item stays hidden in a session that has seen its tombstone;
- any message for an account consumes or replaces its pending login, so a login
  met by another one is refused with the right password: `LoginCompletes` speaks
  of undisturbed logins;
- onboarding again with another password leaves the first credential record, and
  nobody is told (`onboarding.tsx:46`): the new bundle then opens with a password the
  server does not accept, so `KeyBundle!Login` needs the two to agree;
- the server's check that a bundle is canonical compares JSON texts and not the
  base64 inside it (`bundle-codec.mjs:95-97`), and the SDK's `atob` takes base64
  without padding, which the server refuses: `StoredParses` is the direction that
  has to hold;
- an unlock that ends after the popup closed unlocks all the same, and one that
  overlaps another drops the first one's host undisposed; a timeout is learned by
  the session alone, so the manager's keys, its capabilities and the pending offer
  last until the next lock or unlock: `FillInItsSession` speaks of
  generations, which a timeout does change.

## 5. Proofs

Eight modules hold theorems, each about the component it is named for, and each
for every value of the constants: any sets of accounts, devices, items, requests,
tasks or calls, any lengths, limits and lifetimes. They follow one pattern. A safety
property is seldom inductive, so `IInv` (`RowInv` in `SyncRowsProofs`) adds what the
code relies on; `Init => IInv`, then one lemma per action that `IInv` is kept, then
the theorems. TLC checked each `IInv` on the configurations of section 3 before
it was proved. An action property is proved of a step from a state of `IInv`.

| Module | Theorem | States |
|---|---|---|
| `SyncBackendProofs` | `TypeCorrect`, `RepliesRecorded`, `NoOutcomeCollision`, `MutationAppliedOnce`, `Refinement` | `TypeOK`, `ReplyIsRecorded`, `OutcomeInsertNeverCollides`, `AppliedOnce`, `ImplementsLedger` |
| `SyncRowsProofs` | `OwnersWrite`, `FeedRecorded`, `EditsCompareAndSwap`, `ItemsMoveForward`, `LocksInOrder`, `NoCircleOfWaits`, `StoreImplemented`, `OnlyLateCommits` | `OwnerWrites`, `FeedShowsOutcomes`, `EditIsCompareAndSwap`, `ItemMovesForward`, `WaitsAscend`, `NoWaitCycle`, `ImplementsStore`, `OnlyLateCommitsSkip` |
| `SyncClientProofs` | `TypeCorrect`, `CursorCoversHolds`, `EditKeptHolds`, `RepoFollows`, `StoreImplemented`, `CaughtUpHolds` | `TypeOK`, `CursorCovers`, `EditKept`, `RepoFollowsServer`, `ImplementsStore`, `CaughtUp` |
| `VaultSessionProofs` | `TypeCorrect`, `LockForgetsHolds`, `KeysFollowHolds`, `EditSurvives` | `TypeOK`, `LockForgets`, `KeysFollowSession`, `EditSurvivesLock` |
| `AuthSessionsProofs` | `TypeCorrect`, `SingleSuccessor`, `SingleLiveSession`, `BindingIsFinal`, `RevocationIsFinal` | `TypeOK`, `OneSuccessor`, `OneLiveSessionPerDevice`, `BoundForGood`, `RevokedDeviceLosesAccess` |
| `LoginLegsProofs` | `TypeCorrect`, `SingleSession`, `RightPasswordLogsIn`, `LimitHolds`, `AttemptsSpared`, `NoLateFinish` | `TypeOK`, `OneSessionPerLogin`, `LoginCompletes`, `AttemptsBounded`, `SweepSparesAttempts`, `FinishedInTime` |
| `KeyBundleProofs` | `CodecsAgree`, `BuiltAccepted`, `TypeCorrect`, `OneBundle`, `OneRetry`, `StoredIsReadable`, `Refinement` | two lemmas about the codecs, `TypeOK`, `OneBundlePerVersion`, `RaceLostOnce`, `StoredParses`, `ImplementsRegister` |
| `ExtensionProofs` | `TypeCorrect`, `FillsOnceHolds`, `RefreshesOnce`, `NoLateRequest`, `FillsInSession`, `DecidedFill`, `FillsOnItemPage` | `TypeOK`, `FillsOnce`, `OneRefresh`, `NoRequestAfterLock`, `FillInItsSession`, a theorem about the operators of `Origins`, that a form is filled on a page of the item only |

Every safety property of the passing runs is proved, but for one half of `SomeoneMoves`.

### The arguments

**Sync server.** `ReplyIsRecorded` alone is not inductive: a commit would have to
know that no outcome is there yet. `IInv` adds `LockExclusive` (two open transactions
never hold one key's advisory lock), `StillFresh` (past the second look, `Recheck`,
the outcome stays absent, because only a holder of the lock may record it),
`OutcomesFinal`, `Decided` (what a transaction will commit is what it wrote) and
`KeyKnown`. This is the argument in the comment of `acquireMutationLock`: the lock
makes the second look final until the commit. A commit then maps to the ledger's
`Record`, an answer to `Tell`, everything else stutters.

**Its rows.** `RowInv` adds `RowLocks` (no two open transactions hold one row, and
the row locked is still the one read), `NextRow` (what is about to be written follows
that row under the client's base revision), `Admission` (who passed
`ensureVaultOwnership` owns the vault, or is the only one inserting it) and
`RowsRecorded` (a stored or pulled row is that of its mutation's 201). A create has no row
to lock, so `RowLocks` speaks of the rows a read found, which is enough for edits; for
`ItemsMoveForward` there is `Forward`: an INSERT that becomes an UPDATE draws its
number again once the row it replaces is committed.

*Locks.* `LocksInOrder` is that half: `Stage` numbers the locks in the order a request
takes them, and `RowInv` gives that the one who holds what another waits for has a higher
number. There are five numbers, so among the requests under way one that is
furthest on waits for nobody (`NoCircleOfWaits`), however many there are.

*The abstract store.* A COMMIT has to be the store's `Apply`, `Refuse` or
`CreateOver`. `Verdict`, an invariant of its own, says that the row a transaction has
written is the one its mutation asks for, and that a 409 shows the row it read and not
the base; `RowLocks` that this row is still the current one; `NextRow` that what was written
follows it. So `CommitFinds` and `CommitServes` need no look at other transactions, and
every other step leaves what the store shows alone. `EditsCompareAndSwap` is proved
directly, from the same parts.

*The feed.* `OnlyLateCommits`: a page is the rows of lowest number, so a row at or below its
last one is on it (`PageIsLowest`, by counting the rows before each), and a COMMIT that gives a vault
its owner finds no other row there (`NewVaultIsEmpty`, from `Admission`). What remains
is the COMMIT of the row itself.

**Sync client.** The cursor moves only when a page is done, so the invariant speaks of
the pull under way: `TasksFollow` says that its position is covered and that of the
page at hand whatever is not yet applied is still in `page`. A change the server makes
meanwhile gets a sequence above both. `MintedFirst` and `TasksFit` keep
everything a task holds within what was sealed and acknowledged, so that what a task
dequeues has been applied (`EditKept`) and what it stores is an outcome.
`RepoFollowsServer` needs the repository's own guard (`assertMonotonicPut`) too.
A page of the feed is the least changes above the cursor, which exists since
`Item` is finite (`ItemAssumption`).

*The server it meets.* That `Serve` is `Apply` or `Refuse`, and never has nothing to
show, needs `Reached`: no repository, cache of revisions, answer or base is ahead of its
item's row, and an unsealed mutation has no answer. `RevisionsFromRepo` and
`AnswerReached` are why a device cannot invent a revision: it seals with
one from its repository or from a conflict the server answered. Together with
`SyncBackend`'s refinement this joins the two halves of the sync protocol.

*Agreement.* `CaughtUp` is the state `Converges` leads to, seen from the cursor: once
that has reached the newest change, repository and server are equal. `CursorCovers`
gives it for the items that have been written; of the others neither side may have a record
(`Unwritten`, with `Reached`). Two such devices hold the same.

**Vault session.** `LockForgets` is kept with `Forgets`, that no lock has a generation of
the future: a lock empties the caches and raises the generation in one step, and every
write to them asks whether the generation is still the method's own. Keys are harder,
because vault and Worker see each other through two queues. `Wire` says of them: at
most one message per task, which suits the method it runs (`Messages`); the onboarding
runs alone before any unlock (`Alone`); the Worker's keys match the session that the
last answer on its way will leave, or the present one if there is none (`Settled`);
a handle given out stays in the Worker until a lock answers (`LiveHandles`); a
seal asked for when no lock was on its way precedes every lock in the queue
(`SealsKept`); and a failed onboarding leaves no keys (`SetupCloses`).
`Settled` uses the order of the answers and `SealsKept` that of the requests: with
`LockNow`, which lets a lock overtake, it is not kept.

**Sessions and devices.** `Held` says that no two transactions hold one row and that
the row is as the check under the lock found it, so a rotation issues its successor
from a live session (`Rotated`), and `Bindings` that a device about to be bound is
nobody's yet. `OneLive` is kept with these. `BindingIsFinal` and
`RevocationIsFinal` assume `"legacy-public-key" \notin Op`, as the run
`device_revocation` does (section 3): with that route they are false. What a session did as a device's it did as
its own device's (`ActedForOwn`).

**Login.** The parts of `IInv` are: who waits for which answer (`Addressed`, `Asking`);
that a login's state exists for one account and before its session, never beside it
(`Unspent`, `Unborn`); that what passed a limiter is counted until its window may be
swept (`Counted`), which needs that a handler's window is not yet one of those
(`Paced`); `Calm`, which follows an undisturbed attempt through
both legs; and `Owned`, for `AttemptsSpared`: a registration past the limiter has the row of its
window, which no sweep may delete before the registration is over, and a state of a real login has
its credential record. The foreign keys do the rest, since they are looked at last. `Paced` assumes `Window <= Retention`: five minutes
(`config.mjs:39`) against a day (`cleanup.mjs:9`). Without it a sweep could
delete the row of a window in progress.

**Key bundle.** `UpdateFollows` and `FirstInsert` say that a transaction holding the
row, or the key of the first one, writes the version after it and is alone;
`RetryFindsRow` that a second attempt meets a committed row, which is why two
turns of the loop of five are enough; `GrantedStored` that whatever was
acknowledged is at or below the stored version. `Validated` with `CodecsAgree` (every
text the server's codec admits is read back by the SDK's) gives `StoredParses`. The COMMIT of an accepted PUT maps to the
register's write, a 204 to its acknowledgement.

**Extension.** `Tokens`: a capability is in one place at a time, about to be
granted, in the store, consumed by one fill, or spent. `Refreshes`: a refresh of the
manager's own session is the one everybody joins, and an unlock under way has an id
nobody used. `Sessions`: a fill belongs to a generation that is past, or is the
present one and unlocked, and its offer is of the item's origin. `Handled` says what a call is for at each await.

*Where a login goes.* `Parsed` and `MatchesSecure` are about `parseOrigin` and
`matchOrigin` on URLs of any host and port (`WebUrl`), not only those of the runs: a
normalised origin stays itself, keeps scheme and host, and what matches an https URL is https of
the same host. `DecidedFill` follows for the decision and, with `Sessions`,
`FillsOnItemPage` for the arrival: the two looks, a click apart, are at
the same origin although only the origin, not the URL, is handed from one to the other.

### Assumptions

All are named `ASSUME`s of the component's module and evaluated by TLC on every run:
bounds are naturals; `None` is no value of the types it completes (`NoneAssumption`:
in the program `null` is none of them); a mutation and a request are of the
expected form; `Item` is finite (a page counts rows); `Window <= Retention`. The theorems
`BindingIsFinal` and `RevocationIsFinal` have the hypothesis named above. The clock of
`LoginLegs` assumes that no statement of the limiter or of a registration waits until its
window is a retention old (`Tick`).

One attempt at a proof failed because the model was wrong: `LoginStart` named the client's login in
the state that a doubled first leg creates, although the answer of that copy reaches no
client, so that no third message can verify against it. A message without a sender now
leaves a state of no login.

### Only model-checked

- Liveness, which TLAPS does not prove: `Converges`, `RequestsEnd`, `PublishEnds`,
  `CallsEnd`.
- The half of `SomeoneMoves` that speaks of `ENABLED`: that a request which no lock
  holds up can take its step. `WaitsAscend`, the other half, is proved.
- The statements of section 4, which are false.

## 6. Plan

In this order, the most consequential first:

1. Proofs: the feed as an abstract specification beside `ItemStore`, with the late
   commit as its one exception, implemented by both halves of the sync protocol.
2. The clipboard timer of `VaultSession` (`vault-session.ts:331-363`), the Worker's
   error event and unparsable answers.
3. Pure algorithms against reference definitions: CSV parsing, canonical
   encoding, TOTP counters, backoff.
4. The Rust port: its migration check and where its transactions differ.
5. Android's vault manager, which repeats the extension's protocol.

## 7. Not modelled

Cryptography itself (ideal in every model: a ciphertext is the identity of what
was sealed, an OPAQUE message that of the login it belongs to), HTTP framing and
validation of request shapes other than the bundle's, logging, layout,
configuration and start-up, generated bindings, and test fixtures. Of what the
models do have: the server's OPAQUE setup is loaded, several origins of one
admission limiter are one, the extension's stored account association is left out,
and so are the search and selection of the web vault and the conflicts view, which no code
opens. The Rust backend, Android and the pure algorithms are in the
plan.

Beyond the hazards of `PROJECT.json`, these were met in the code and have no
property: a request the crypto Worker does not recognise is answered with an
empty id, so its promise never settles (`crypto-worker/src/index.ts:34`); an
error answer that is not JSON throws an error `pushOne` does not handle, and the
entry waits in SYNCING for the next sync (`http-client.ts:107`);
`copyToClipboard` cancels the running timer before a write that may fail
(`vault-session.ts:357`); and the sweep may delete an old account between a
request's `ensureAccount` and its rate-limit row, which then answers 500
(`cleanup.mjs:32`; `CheckAndIncrement` has the step).
