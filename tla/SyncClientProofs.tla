--------------------------- MODULE SyncClientProofs ---------------------------
(***************************************************************************)
(* Proofs about SyncClient: the durable cursor of a device covers its      *)
(* repository, an edit is never lost, and a repository only moves forward  *)
(* along what the server acknowledged, for any devices, threads, items,    *)
(* mutations and page size.                                                *)
(***************************************************************************)
EXTENDS SyncClient, FiniteSetTheorems, WellFoundedInduction, NaturalsInduction, TLAPS

(***************************************************************************)
(* The inductive invariant.  Its parts take the state they speak of as     *)
(* arguments, so that they can be stated of the next state too.            *)
(***************************************************************************)

\* r is the outcome of the mutation that made it, and no newer than item i.
Acked(i, r, oc, it) ==
    /\ r.body \in MutationId
    /\ oc[r.body].status = 201
    /\ oc[r.body].record = r
    /\ r.revision \in 1..it[i].revision

\* Everything the feed shows up to c is in the repository rp.
Covers(c, rp, it, ch) == \A i \in Item : ch[i] \in 1..c => rp[i] = it[i]

\* What the feed shows of item i.
ChangeOf(i, it, ch) == [item |-> i, record |-> it[i], sequence |-> ch[i]]

\* A running syncNow holds sealed mutations, positions the server has
\* reached and acknowledged records.
Fit(k, mi, sq, oc, it) ==
    /\ k \in Task
    /\ \A m \in k.todo : mi[m] # None
    /\ \A m \in k.found : mi[m] # None
    /\ k.at <= sq
    /\ k.next <= sq
    /\ k.pc \in {"await", "dequeue"} => k.current \in MutationId /\ mi[k.current] # None
    /\ k.pc = "dequeue" => oc[k.current].status = 201
    /\ \A c \in k.page : Acked(c.item, c.record, oc, it)

\* What a pull will have covered once the rest of its page is applied.
Follows(k, rp, it, ch) ==
    /\ k.pc = "pull" => Covers(k.at, rp, it, ch)
    /\ k.pc = "apply" =>
         \A i \in Item : ch[i] \in 1..k.next => rp[i] = it[i] \/ ChangeOf(i, it, ch) \in k.page

\* The server's rows and outcomes agree.
ServerSound(mi, it, ch, sq, oc) ==
    /\ \A i \in Item : ch[i] <= sq
    /\ \A i \in Item : ch[i] > 0 => Acked(i, it[i], oc, it)
    /\ \A m \in MutationId : oc[m].status = 201 =>
         mi[m] # None /\ Acked(mi[m].item, oc[m].record, oc, it)

\* Only sealed mutations are sent, queued, shown or resolved.
MintedFirst ==
    /\ \A m \in sent : minted[m] # None
    /\ \A d \in Device, m \in MutationId : queue[d][m] # "none" => minted[m] # None
    /\ \A d \in Device : \A m \in pending[d] : minted[m] # None
    /\ \A d \in Device : resolving[d] # None => minted[resolving[d]] # None

CursorKnown == \A d \in Device : cursor[d] <= sequence

TasksFit == \A d \in Device, t \in Thread : Fit(task[d][t], minted, sequence, outcomes, items)
TasksFollow == \A d \in Device, t \in Thread : Follows(task[d][t], repo[d], items, changed)
ServerOK == ServerSound(minted, items, changed, sequence, outcomes)

IInv ==
    /\ TypeOK
    /\ ServerOK
    /\ MintedFirst
    /\ CursorKnown
    /\ TasksFit
    /\ TasksFollow
    /\ CursorCovers
    /\ EditKept

-----------------------------------------------------------------------------
(* Pages of the feed.                                                      *)

\* A bounded, non-empty set of naturals has a largest element, and Max is it.
LEMMA MaxExists ==
    ASSUME NEW n \in Nat, NEW S \in SUBSET (0..n), S # {}
    PROVE  Max(S) \in S /\ \A y \in S : y <= Max(S)
<1> DEFINE T == {n - s : s \in S}
<1>0. \A s \in S : s \in Nat /\ s <= n /\ n - s \in Nat
  OBVIOUS
<1>1. T \subseteq Nat /\ T # {}
  BY <1>0
<1>2. PICK x \in T : \A y \in T : ~(<<y, x>> \in OpToRel(<, Nat))
  <2> HIDE DEF T
  <2> QED BY <1>1, NatLessThanWellFounded, WFMin
<1>3. \A y \in T : ~(y < x)
  BY <1>1, <1>2 DEF OpToRel
<1>4. PICK s \in S : x = n - s
  OBVIOUS
<1>5. \A y \in S : s >= y
  <2> TAKE y \in S
  <2>1. n - y \in T
    OBVIOUS
  <2>2. ~(n - y < n - s)
    BY <1>3, <1>4, <2>1
  <2> QED BY <1>0, <2>2
<1> QED BY <1>5, <1>0 DEF Max

\* A page read at a cursor holds acknowledged records up to its nextCursor,
\* and whatever it left out is beyond that.
LEMMA PageFollows ==
    ASSUME TypeOK, ServerOK, NEW at \in Nat, at <= sequence,
           NEW rp, Covers(at, rp, items, changed)
    PROVE  LET page == Feed(at)
               next == Last(page, at)
           IN  /\ page \in SUBSET Change
               /\ next \in Nat
               /\ next <= sequence
               /\ \A c \in page : Acked(c.item, c.record, outcomes, items)
               /\ \A i \in Item : changed[i] \in 1..next =>
                    rp[i] = items[i] \/ ChangeOf(i, items, changed) \in page
<1> DEFINE after == {i \in Item : changed[i] > at}
           before(j) == {k \in after : changed[k] < changed[j]}
           shown == {j \in after : Cardinality(before(j)) < Limit}
           page == {ChangeOf(i, items, changed) : i \in shown}
           next == Last(page, at)
<1>1. Feed(at) = page
  BY DEF Feed, ChangeOf
<1>2. \A i \in Item : changed[i] \in Nat /\ changed[i] <= sequence /\ items[i] \in Record
  BY DEF TypeOK, ServerOK, ServerSound
<1>3. sequence \in Nat
  BY DEF TypeOK
<1>4. shown \subseteq after /\ after \subseteq Item
  OBVIOUS
<1>5. page \in SUBSET Change
  <2>1. ASSUME NEW i \in Item
        PROVE  /\ ChangeOf(i, items, changed) \in Change
               /\ ChangeOf(i, items, changed).sequence = changed[i]
    BY <1>2 DEF ChangeOf, Change
  <2> QED BY <2>1, <1>4
<1>6. \A c \in page : Acked(c.item, c.record, outcomes, items)
  <2> TAKE c \in page
  <2>1. PICK i \in shown : c = ChangeOf(i, items, changed)
    OBVIOUS
  <2>2. i \in Item /\ changed[i] > 0 /\ c.item = i /\ c.record = items[i]
    BY <2>1, <1>2 DEF ChangeOf
  <2> QED BY <2>2 DEF ServerOK, ServerSound
<1>7. /\ next \in Nat
      /\ next <= sequence
      /\ \A i \in Item : changed[i] \in 1..next =>
                    rp[i] = items[i] \/ ChangeOf(i, items, changed) \in page
  <2>1. CASE page = {}
    <3>1. next = at
      BY <2>1 DEF Last
    <3> QED BY <3>1 DEF Covers
  <2>2. CASE page # {}
    <3> DEFINE S == {c.sequence : c \in page}
    <3>0. \A c \in page : \E i \in shown : c.sequence = changed[i]
      <4> HIDE DEF shown
      <4>1. TAKE c \in page
      <4>2. PICK i \in shown : c = ChangeOf(i, items, changed)
        OBVIOUS
      <4>3. c.sequence = changed[i]
        BY <4>2 DEF ChangeOf
      <4> QED BY <4>3
    <3>1. S \in SUBSET (0..sequence) /\ S # {}
      <4>1. \A c \in page : c.sequence \in 0..sequence
        <5> HIDE DEF page, shown, after
        <5> QED BY <1>2, <1>3, <1>4, <3>0
      <4> QED BY <4>1, <2>2
    <3>2. next = Max(S)
      BY <2>2 DEF Last
    <3>3. Max(S) \in S /\ \A y \in S : y <= Max(S)
      <4> HIDE DEF S
      <4> QED BY <1>3, <3>1, MaxExists
    <3>4. PICK j \in shown : next = changed[j]
      <4>1. PICK c \in page : next = c.sequence
        BY <3>2, <3>3
      <4> QED BY <4>1, <3>0
    <3>5. ASSUME NEW i \in Item, changed[i] \in 1..next
          PROVE  rp[i] = items[i] \/ ChangeOf(i, items, changed) \in page
      <4>1. CASE changed[i] <= at
        <5>1. changed[i] \in 1..at
          BY <4>1, <3>5, <1>2, <3>4
        <5> QED BY <5>1 DEF Covers
      <4>2. CASE changed[i] > at
        <5>1. i \in after
          BY <4>2
        <5>2. before(i) \in SUBSET before(j)
          BY <1>2, <1>4, <3>4, <3>5
        <5>3. IsFiniteSet(before(j))
          <6>1. before(j) \in SUBSET Item
            BY <1>4
          <6> HIDE DEF before
          <6> QED BY <6>1, ItemAssumption, FS_Subset
        <5>4. /\ Cardinality(before(i)) <= Cardinality(before(j))
              /\ Cardinality(before(j)) \in Nat
              /\ Cardinality(before(i)) \in Nat
          <6> HIDE DEF before
          <6>1. IsFiniteSet(before(i)) /\ Cardinality(before(i)) <= Cardinality(before(j))
            BY <5>2, <5>3, FS_Subset
          <6> QED BY <6>1, <5>3, FS_CardinalityType
        <5>5. Cardinality(before(j)) < Limit
          BY <3>4
        <5>6. Cardinality(before(i)) < Limit
          BY <5>4, <5>5, LimitAssumption
        <5>7. i \in shown
          BY <5>1, <5>6
        <5> QED BY <5>7
      <4> QED BY <4>1, <4>2, <1>2
    <3> QED BY <3>4, <3>5, <1>2, <1>4
  <2> QED BY <2>1, <2>2
<1> QED BY <1>1, <1>5, <1>6, <1>7

-----------------------------------------------------------------------------
(* What the steps of the clients leave alone.                              *)

\* A step of a client: the server stands still, what was sealed stays, and a
\* record that is the server's stays.
Calmly ==
    /\ UNCHANGED server
    /\ \A m \in MutationId : minted[m] # None => minted'[m] = minted[m]
    /\ \A d \in Device, i \in Item : repo[d][i] = items[i] => repo'[d][i] = items[i]

LEMMA ServerStays ==
    ASSUME IInv, Calmly
    PROVE  ServerOK'
BY DEF IInv, Calmly, ServerOK, ServerSound, Acked, server

LEMMA TaskStays ==
    ASSUME IInv, Calmly, NEW d \in Device, NEW t \in Thread
    PROVE  /\ Fit(task[d][t], minted', sequence', outcomes', items')
           /\ Follows(task[d][t], repo'[d], items', changed')
<1> DEFINE k == task[d][t]
<1>1. Fit(k, minted, sequence, outcomes, items) /\ Follows(k, repo[d], items, changed)
  BY DEF IInv, TasksFit, TasksFollow
<1>2. k \in Task
  BY <1>1 DEF Fit
<1>3. UNCHANGED <<items, changed, sequence, outcomes>>
  BY DEF Calmly, server
<1>4. k.todo \subseteq MutationId /\ k.found \subseteq MutationId
  <2> HIDE DEF k
  <2> QED BY <1>2 DEF Task
<1> HIDE DEF k
<1>5. Fit(k, minted', sequence', outcomes', items')
  BY <1>1, <1>3, <1>4 DEF Calmly, Fit
<1>6. Follows(k, repo'[d], items', changed')
  BY <1>1, <1>3 DEF Calmly, Follows, Covers
<1> QED BY <1>5, <1>6 DEF k

\* A step that rewrites one task.
LEMMA OneTask ==
    ASSUME IInv, Calmly, NEW d \in Device, NEW t \in Thread, NEW next,
           SetTask(d, t, next),
           Fit(next, minted', sequence', outcomes', items'),
           Follows(next, repo'[d], items', changed')
    PROVE  TasksFit' /\ TasksFollow' /\ task' \in [Device -> [Thread -> Task]]
<1>1. task \in [Device -> [Thread -> Task]]
  BY DEF IInv, TypeOK
<1>2. next \in Task
  BY DEF Fit
<1>3. task' \in [Device -> [Thread -> Task]]
  BY <1>1, <1>2 DEF SetTask
<1>4. \A e \in Device, u \in Thread :
         task'[e][u] = IF e = d /\ u = t THEN next ELSE task[e][u]
  BY <1>1 DEF SetTask
<1>5. ASSUME NEW e \in Device, NEW u \in Thread
      PROVE  /\ Fit(task'[e][u], minted', sequence', outcomes', items')
             /\ Follows(task'[e][u], repo'[e], items', changed')
  <2>1. CASE e = d /\ u = t
    BY <1>4, <2>1
  <2>2. CASE ~(e = d /\ u = t)
    BY <1>4, <2>2, TaskStays
  <2> QED BY <2>1, <2>2
<1> QED BY <1>3, <1>5 DEF TasksFit, TasksFollow

\* A step that leaves the tasks alone.
LEMMA NoTask ==
    ASSUME IInv, Calmly, UNCHANGED task
    PROVE  TasksFit' /\ TasksFollow' /\ task' \in [Device -> [Thread -> Task]]
<1>1. task \in [Device -> [Thread -> Task]]
  BY DEF IInv, TypeOK
<1> QED BY <1>1, TaskStays DEF TasksFit, TasksFollow

\* A step that leaves the cursors alone.
LEMMA CursorStays ==
    ASSUME IInv, Calmly, UNCHANGED cursor
    PROVE  CursorKnown' /\ CursorCovers'
BY DEF IInv, Calmly, server, CursorKnown, CursorCovers

\* putItem of an acknowledged record, which assertMonotonicPut let pass.
LEMMA PutKeeps ==
    ASSUME TypeOK, NEW d \in Device, NEW i \in Item, NEW r \in Record,
           Acked(i, r, outcomes, items), Puttable(repo[d][i], r), PutItem(d, i, r)
    PROVE  /\ repo' \in [Device -> [Item -> Record]]
           /\ \A e \in Device, j \in Item : repo[e][j] = items[j] => repo'[e][j] = items[j]
           /\ repo'[d][i] = r
           /\ \A e \in Device, j \in Item : repo'[e][j] # repo[e][j] =>
                /\ repo'[e][j].revision \in (repo[e][j].revision + 1)..items[j].revision
                /\ outcomes[repo'[e][j].body].record = repo'[e][j]
<1>1. /\ repo \in [Device -> [Item -> Record]]
      /\ items \in [Item -> Record]
  BY DEF TypeOK
<1>2. repo' \in [Device -> [Item -> Record]]
  BY <1>1 DEF PutItem
<1>3. \A e \in Device, j \in Item : repo'[e][j] = IF e = d /\ j = i THEN r ELSE repo[e][j]
  BY <1>1 DEF PutItem
<1>4. repo[d][i] \in Record /\ items[i] \in Record
  BY <1>1
<1>5. repo[d][i].revision \in Nat /\ items[i].revision \in Nat /\ r.revision \in Nat
  BY <1>4 DEF Record
<1>6. r.revision \in 1..items[i].revision /\ outcomes[r.body].record = r
  BY DEF Acked
<1>7. r # repo[d][i] => r.revision \in (repo[d][i].revision + 1)..items[i].revision
  BY <1>5, <1>6 DEF Puttable
<1>8. repo[d][i] = items[i] => r = items[i]
  BY <1>5, <1>6 DEF Puttable
<1> QED BY <1>2, <1>3, <1>6, <1>7, <1>8

-----------------------------------------------------------------------------
(* Tasks.                                                                  *)

\* Records of a task with some fields rewritten.
LEMMA IdleFits ==
    ASSUME IInv, Calmly, NEW pc \in {"idle", "list"}, NEW d \in Device
    PROVE  LET k == [IdleTask EXCEPT !.pc = pc]
           IN  /\ Fit(k, minted', sequence', outcomes', items')
               /\ Follows(k, repo'[d], items', changed')
<1> DEFINE k == [IdleTask EXCEPT !.pc = pc]
<1>1. /\ k \in Task
      /\ k.pc = pc /\ k.at = 0 /\ k.next = 0
      /\ k.page = {} /\ k.todo = {} /\ k.found = {}
  BY DEF IdleTask, Task
<1>2. sequence' \in Nat
  BY DEF IInv, TypeOK, Calmly, server
<1> HIDE DEF k
<1>3. Fit(k, minted', sequence', outcomes', items')
  BY <1>1, <1>2 DEF Fit
<1>4. Follows(k, repo'[d], items', changed')
  BY <1>1 DEF Follows
<1> QED BY <1>3, <1>4 DEF k

\* syncNow has ended.
LEMMA Ended ==
    ASSUME IInv, Calmly, NEW d \in Device
    PROVE  /\ Fit(IdleTask, minted', sequence', outcomes', items')
           /\ Follows(IdleTask, repo'[d], items', changed')
<1>1. [IdleTask EXCEPT !.pc = "idle"] = IdleTask
  BY DEF IdleTask
<1> QED BY <1>1, IdleFits

-----------------------------------------------------------------------------
(* The queue.                                                              *)

LEMMA MintSeals ==
    ASSUME TypeOK, NEW d \in Device, NEW m \in MutationId, NEW i \in Item,
           NEW base \in Nat, NEW deleted \in BOOLEAN, Mint(d, m, i, base, deleted)
    PROVE  /\ minted' \in [MutationId -> Body \cup {None}]
           /\ minted[m] = None /\ minted'[m] # None /\ minted'[m].device = d
           /\ \A n \in MutationId : n # m => minted'[n] = minted[n]
<1>1. [device |-> d, item |-> i, base |-> base, deleted |-> deleted] \in Body
  BY DEF Body
<1>2. minted \in [MutationId -> Body \cup {None}]
  BY DEF TypeOK
<1> QED BY <1>1, <1>2, NoneAssumption DEF Mint, Fresh

LEMMA EntryWritten ==
    ASSUME TypeOK, NEW d \in Device, NEW m \in MutationId, NEW state \in SyncState,
           SetEntry(d, m, state)
    PROVE  /\ queue' \in [Device -> [MutationId -> SyncState]]
           /\ \A e \in Device, n \in MutationId :
                queue'[e][n] = IF e = d /\ n = m THEN state ELSE queue[e][n]
BY DEF TypeOK, SetEntry

\* A new mutation enters the queue of the device that sealed it.
LEMMA MintedAndQueued ==
    ASSUME IInv, NEW d \in Device, NEW m \in MutationId, NEW i \in Item,
           NEW base \in Nat, NEW deleted \in BOOLEAN, Mint(d, m, i, base, deleted),
           SetEntry(d, m, "LOCAL_DIRTY"), UNCHANGED <<server, sent, undone, taken, repo>>
    PROVE  /\ Calmly /\ EditKept'
           /\ minted' \in [MutationId -> Body \cup {None}]
           /\ queue' \in [Device -> [MutationId -> SyncState]]
           /\ \A e \in Device, n \in MutationId : queue'[e][n] # "none" => minted'[n] # None
<1>1. TypeOK /\ EditKept /\ MintedFirst
  BY DEF IInv
<1>2. /\ minted' \in [MutationId -> Body \cup {None}]
      /\ minted[m] = None /\ minted'[m] # None /\ minted'[m].device = d
      /\ \A n \in MutationId : n # m => minted'[n] = minted[n]
  BY <1>1, MintSeals
<1>3. "LOCAL_DIRTY" \in SyncState
  BY DEF SyncState
<1>4. /\ queue' \in [Device -> [MutationId -> SyncState]]
      /\ \A e \in Device, n \in MutationId :
           queue'[e][n] = IF e = d /\ n = m THEN "LOCAL_DIRTY" ELSE queue[e][n]
  BY <1>1, <1>3, EntryWritten
<1>5. Calmly
  BY <1>2 DEF Calmly
<1>6. EditKept'
  <2> SUFFICES ASSUME NEW n \in MutationId, minted'[n] # None, n \notin undone \cup taken
               PROVE  queue'[minted'[n].device][n] # "none" \/ outcomes[n].status = 201
    BY DEF EditKept, server
  <2>1. CASE n = m
    BY <2>1, <1>2, <1>4
  <2>2. CASE n # m
    <3>1. minted'[n] = minted[n] /\ minted[n] \in Body
      BY <2>2, <1>2, <1>1 DEF TypeOK
    <3>2. minted[n].device \in Device
      BY <3>1 DEF Body
    <3>3. queue'[minted[n].device][n] = queue[minted[n].device][n]
      BY <3>2, <2>2, <1>4
    <3> QED BY <3>1, <3>3, <1>1 DEF EditKept
  <2> QED BY <2>1, <2>2
<1>7. ASSUME NEW e \in Device, NEW n \in MutationId, queue'[e][n] # "none"
      PROVE  minted'[n] # None
  <2>1. CASE n = m
    BY <2>1, <1>2
  <2>2. CASE n # m
    BY <2>2, <1>2, <1>4, <1>7, <1>1 DEF MintedFirst
  <2> QED BY <2>1, <2>2
<1> QED BY <1>2, <1>4, <1>5, <1>6, <1>7

\* The entry of a sealed mutation is rewritten; it only leaves the queue once
\* it was undone, taken up or applied.
LEMMA Requeued ==
    ASSUME IInv, NEW d \in Device, NEW m \in MutationId, NEW state \in SyncState,
           SetEntry(d, m, state), UNCHANGED <<server, minted>>,
           undone \subseteq undone', taken \subseteq taken',
           state # "none" => minted[m] # None,
           state = "none" => \/ queue[d][m] = "none"
                             \/ m \in undone' \cup taken'
                             \/ outcomes[m].status = 201
    PROVE  /\ EditKept'
           /\ queue' \in [Device -> [MutationId -> SyncState]]
           /\ \A e \in Device, n \in MutationId : queue'[e][n] # "none" => minted'[n] # None
<1>1. TypeOK /\ EditKept /\ MintedFirst
  BY DEF IInv
<1>2. /\ queue' \in [Device -> [MutationId -> SyncState]]
      /\ \A e \in Device, n \in MutationId :
           queue'[e][n] = IF e = d /\ n = m THEN state ELSE queue[e][n]
  BY <1>1, EntryWritten
<1>3. EditKept'
  <2> SUFFICES ASSUME NEW n \in MutationId, minted[n] # None, n \notin undone' \cup taken'
               PROVE  queue'[minted[n].device][n] # "none" \/ outcomes[n].status = 201
    BY DEF EditKept, server
  <2>1. minted[n] \in Body
    BY <1>1 DEF TypeOK
  <2>2. minted[n].device \in Device
    BY <2>1 DEF Body
  <2>3. queue[minted[n].device][n] # "none" \/ outcomes[n].status = 201
    BY <1>1 DEF EditKept
  <2> QED BY <2>2, <2>3, <1>2
<1>4. \A e \in Device, n \in MutationId : queue'[e][n] # "none" => minted'[n] # None
  BY <1>1, <1>2 DEF MintedFirst
<1> QED BY <1>2, <1>3, <1>4

LEMMA QueueStays ==
    ASSUME IInv, UNCHANGED <<server, users, queue>>
    PROVE  /\ EditKept'
           /\ queue' \in [Device -> [MutationId -> SyncState]]
           /\ \A e \in Device, n \in MutationId : queue'[e][n] # "none" => minted'[n] # None
BY DEF IInv, TypeOK, EditKept, MintedFirst, server, users

-----------------------------------------------------------------------------
(* The steps of users.                                                     *)

LEMMA SaveItemStep ==
    ASSUME IInv, NEW d \in Device, NEW m \in MutationId, NEW i \in Item, SaveItem(d, m, i)
    PROVE  IInv'
<1>1. TypeOK /\ MintedFirst
  BY DEF IInv
<1>2. revisions[d][i] \in Nat
  BY <1>1 DEF TypeOK
<1>3. /\ Calmly /\ EditKept'
      /\ minted' \in [MutationId -> Body \cup {None}]
      /\ queue' \in [Device -> [MutationId -> SyncState]]
      /\ \A e \in Device, n \in MutationId : queue'[e][n] # "none" => minted'[n] # None
  BY <1>2, MintedAndQueued DEF SaveItem
<1>4. TasksFit' /\ TasksFollow' /\ task' \in [Device -> [Thread -> Task]]
  BY <1>3, NoTask DEF SaveItem
<1>5. CursorKnown' /\ CursorCovers' /\ ServerOK'
  BY <1>3, CursorStays, ServerStays DEF SaveItem
<1>6. cached' \in [Device -> SUBSET Item]
  BY <1>1 DEF TypeOK, SaveItem
<1>7. TypeOK'
  BY <1>1, <1>3, <1>4, <1>6 DEF TypeOK, SaveItem, server
<1>8. MintedFirst'
  BY <1>1, <1>3 DEF MintedFirst, Calmly, SaveItem, TypeOK
<1> QED BY <1>3, <1>4, <1>5, <1>7, <1>8 DEF IInv

LEMMA DeleteItemStep ==
    ASSUME IInv, NEW d \in Device, NEW m \in MutationId, NEW i \in Item, DeleteItem(d, m, i)
    PROVE  IInv'
<1>1. TypeOK /\ MintedFirst
  BY DEF IInv
<1>2. revisions[d][i] \in Nat
  BY <1>1 DEF TypeOK
<1>3. /\ Calmly /\ EditKept'
      /\ minted' \in [MutationId -> Body \cup {None}]
      /\ queue' \in [Device -> [MutationId -> SyncState]]
      /\ \A e \in Device, n \in MutationId : queue'[e][n] # "none" => minted'[n] # None
  BY <1>2, MintedAndQueued DEF DeleteItem
<1>4. TasksFit' /\ TasksFollow' /\ task' \in [Device -> [Thread -> Task]]
  BY <1>3, NoTask DEF DeleteItem
<1>5. CursorKnown' /\ CursorCovers' /\ ServerOK'
  BY <1>3, CursorStays, ServerStays DEF DeleteItem
<1>6. offer' \in [Device -> MutationId \cup {None}]
  BY <1>1 DEF TypeOK, DeleteItem
<1>7. TypeOK'
  BY <1>1, <1>3, <1>4, <1>6 DEF TypeOK, DeleteItem, server
<1>8. MintedFirst'
  BY <1>1, <1>3 DEF MintedFirst, Calmly, DeleteItem, TypeOK
<1> QED BY <1>3, <1>4, <1>5, <1>7, <1>8 DEF IInv

LEMMA ResolveEnqueueStep ==
    ASSUME IInv, NEW d \in Device, NEW m \in MutationId, ResolveEnqueue(d, m)
    PROVE  IInv'
<1> DEFINE old == resolving[d]
           i == minted[old].item
           base == outcomes[old].record.revision
<1>1. TypeOK /\ MintedFirst
  BY DEF IInv
<1>2. old \in MutationId /\ minted[old] # None
  BY <1>1 DEF TypeOK, MintedFirst, ResolveEnqueue
<1>3. i \in Item
  <2>1. minted[old] \in Body
    BY <1>1, <1>2 DEF TypeOK
  <2> QED BY <2>1 DEF Body
<1>4. base \in Nat
  <2>1. outcomes[old] \in Response
    BY <1>1, <1>2 DEF TypeOK
  <2>2. outcomes[old].record \in Record
    BY <2>1 DEF Response
  <2> QED BY <2>2 DEF Record
<1>5. /\ Mint(d, m, i, base, FALSE)
      /\ SetEntry(d, m, "LOCAL_DIRTY")
      /\ resolving' = [resolving EXCEPT ![d] = None]
      /\ cached' = [cached EXCEPT ![d] = @ \cup {i}]
      /\ UNCHANGED <<server, sent, undone, taken, repo, cursor, revisions, pending, offer, task>>
  BY DEF ResolveEnqueue
<1> HIDE DEF old, i, base
<1>6. /\ Calmly /\ EditKept'
      /\ minted' \in [MutationId -> Body \cup {None}]
      /\ queue' \in [Device -> [MutationId -> SyncState]]
      /\ \A e \in Device, n \in MutationId : queue'[e][n] # "none" => minted'[n] # None
  BY <1>3, <1>4, <1>5, MintedAndQueued
<1>7. TasksFit' /\ TasksFollow' /\ task' \in [Device -> [Thread -> Task]]
  BY <1>5, <1>6, NoTask
<1>8. CursorKnown' /\ CursorCovers' /\ ServerOK'
  BY <1>5, <1>6, CursorStays, ServerStays
<1>9. cached' \in [Device -> SUBSET Item] /\ resolving' \in [Device -> MutationId \cup {None}]
  BY <1>1, <1>3, <1>5 DEF TypeOK
<1>10. TypeOK'
  BY <1>1, <1>5, <1>6, <1>7, <1>9 DEF TypeOK, server
<1>11. \A e \in Device : resolving'[e] # None => resolving'[e] = resolving[e]
  BY <1>1, <1>5 DEF TypeOK
<1>12. MintedFirst'
  BY <1>1, <1>5, <1>6, <1>9, <1>11 DEF MintedFirst, Calmly, TypeOK
<1> QED BY <1>6, <1>7, <1>8, <1>10, <1>12 DEF IInv

LEMMA UndoDeleteStep ==
    ASSUME IInv, NEW d \in Device, UndoDeleteIfLocal(d)
    PROVE  IInv'
<1>1. TypeOK /\ MintedFirst
  BY DEF IInv
<1> DEFINE m == offer[d]
<1>2. m \in MutationId
  BY <1>1 DEF TypeOK, UndoDeleteIfLocal
<1>3. /\ undone' = IF queue[d][m] = "none" THEN undone ELSE undone \cup {m}
      /\ SetEntry(d, m, "none")
      /\ offer' = [offer EXCEPT ![d] = None]
      /\ UNCHANGED <<server, sent, minted, taken, repo, cursor,
                     revisions, cached, pending, resolving, task>>
  BY DEF UndoDeleteIfLocal
<1> HIDE DEF m
<1>4. Calmly
  BY <1>3 DEF Calmly
<1>5. "none" \in SyncState
  BY DEF SyncState
<1>6. /\ EditKept'
      /\ queue' \in [Device -> [MutationId -> SyncState]]
      /\ \A e \in Device, n \in MutationId : queue'[e][n] # "none" => minted'[n] # None
  BY <1>2, <1>3, <1>5, Requeued
<1>7. TasksFit' /\ TasksFollow' /\ task' \in [Device -> [Thread -> Task]]
  BY <1>3, <1>4, NoTask
<1>8. CursorKnown' /\ CursorCovers' /\ ServerOK'
  BY <1>3, <1>4, CursorStays, ServerStays
<1>9. offer' \in [Device -> MutationId \cup {None}] /\ undone' \subseteq MutationId
  BY <1>1, <1>2, <1>3 DEF TypeOK
<1>10. TypeOK'
  BY <1>1, <1>3, <1>6, <1>7, <1>9 DEF TypeOK, server
<1>11. MintedFirst'
  BY <1>1, <1>3, <1>6 DEF MintedFirst
<1> QED BY <1>6, <1>7, <1>8, <1>10, <1>11 DEF IInv

LEMMA ResolveDequeueStep ==
    ASSUME IInv, NEW d \in Device, NEW m \in MutationId, ResolveDequeue(d, m)
    PROVE  IInv'
<1>1. TypeOK /\ MintedFirst
  BY DEF IInv
<1>2. Calmly
  BY DEF Calmly, ResolveDequeue
<1>3. "none" \in SyncState
  BY DEF SyncState
<1>4. /\ EditKept'
      /\ queue' \in [Device -> [MutationId -> SyncState]]
      /\ \A e \in Device, n \in MutationId : queue'[e][n] # "none" => minted'[n] # None
  BY <1>3, Requeued DEF ResolveDequeue
<1>5. TasksFit' /\ TasksFollow' /\ task' \in [Device -> [Thread -> Task]]
  BY <1>2, NoTask DEF ResolveDequeue
<1>6. CursorKnown' /\ CursorCovers' /\ ServerOK'
  BY <1>2, CursorStays, ServerStays DEF ResolveDequeue
<1>7. /\ pending' \in [Device -> SUBSET MutationId]
      /\ resolving' \in [Device -> MutationId \cup {None}]
      /\ taken' \subseteq MutationId
  BY <1>1 DEF TypeOK, ResolveDequeue
<1>8. TypeOK'
  BY <1>1, <1>4, <1>5, <1>7 DEF TypeOK, ResolveDequeue, server
<1>9. \A e \in Device : /\ pending'[e] \subseteq pending[e]
                        /\ resolving'[e] = IF e = d THEN m ELSE resolving[e]
  BY <1>1 DEF TypeOK, ResolveDequeue
<1>10. MintedFirst'
  BY <1>1, <1>4, <1>9 DEF MintedFirst, ResolveDequeue
<1> QED BY <1>4, <1>5, <1>6, <1>8, <1>10 DEF IInv

-----------------------------------------------------------------------------
(* The steps of syncNow.                                                   *)

\* What the invariant says of one task.
LEMMA TaskHas ==
    ASSUME IInv, NEW d \in Device, NEW t \in Thread
    PROVE  /\ Fit(task[d][t], minted, sequence, outcomes, items)
           /\ Follows(task[d][t], repo[d], items, changed)
           /\ task[d][t] \in Task
BY DEF IInv, TasksFit, TasksFollow, Fit

\* A step that rewrites one task and nothing a user or a server sees.
LEMMA TaskOnly ==
    ASSUME IInv, NEW d \in Device, NEW t \in Thread, NEW next,
           SetTask(d, t, next),
           UNCHANGED <<server, sent, users, durable, volatile>>,
           Fit(next, minted', sequence', outcomes', items'),
           Follows(next, repo'[d], items', changed')
    PROVE  IInv'
<1>1. TypeOK /\ MintedFirst
  BY DEF IInv
<1>2. Calmly
  BY DEF Calmly, users, durable
<1>3. TasksFit' /\ TasksFollow' /\ task' \in [Device -> [Thread -> Task]]
  BY <1>2, OneTask
<1>4. CursorKnown' /\ CursorCovers' /\ ServerOK'
  BY <1>2, CursorStays, ServerStays DEF durable
<1>5. EditKept'
  BY QueueStays DEF durable
<1>6. TypeOK'
  BY <1>1, <1>3 DEF TypeOK, server, users, durable, volatile
<1>7. MintedFirst'
  BY <1>1 DEF MintedFirst, users, durable, volatile
<1> QED BY <1>3, <1>4, <1>5, <1>6, <1>7 DEF IInv

\* A step that writes one entry of the queue and one task.
LEMMA TaskAndEntry ==
    ASSUME IInv, NEW d \in Device, NEW t \in Thread, NEW next,
           NEW m \in MutationId, NEW state \in SyncState,
           SetEntry(d, m, state), SetTask(d, t, next),
           minted[m] # None,
           state = "none" => outcomes[m].status = 201,
           sent' \in {sent, sent \cup {m}},
           UNCHANGED <<server, users, repo, cursor, volatile>>,
           Fit(next, minted', sequence', outcomes', items'),
           Follows(next, repo'[d], items', changed')
    PROVE  IInv'
<1>1. TypeOK /\ MintedFirst
  BY DEF IInv
<1>2. Calmly
  BY DEF Calmly, users
<1>3. TasksFit' /\ TasksFollow' /\ task' \in [Device -> [Thread -> Task]]
  BY <1>2, OneTask
<1>4. CursorKnown' /\ CursorCovers' /\ ServerOK'
  BY <1>2, CursorStays, ServerStays
<1>5. /\ EditKept'
      /\ queue' \in [Device -> [MutationId -> SyncState]]
      /\ \A e \in Device, n \in MutationId : queue'[e][n] # "none" => minted'[n] # None
  BY Requeued DEF users
<1>6. TypeOK'
  BY <1>1, <1>3, <1>5 DEF TypeOK, server, users, volatile
<1>7. MintedFirst'
  BY <1>1, <1>5 DEF MintedFirst, users, volatile
<1> QED BY <1>3, <1>4, <1>5, <1>6, <1>7 DEF IInv

\* A step that stores an acknowledged record, or none, and one task.
LEMMA TaskAndRecord ==
    ASSUME IInv, NEW d \in Device, NEW t \in Thread, NEW next,
           SetTask(d, t, next),
           UNCHANGED <<server, sent, users, cursor, queue, volatile>>,
           Calmly, repo' \in [Device -> [Item -> Record]],
           Fit(next, minted', sequence', outcomes', items'),
           Follows(next, repo'[d], items', changed')
    PROVE  IInv'
<1>1. TypeOK /\ MintedFirst
  BY DEF IInv
<1>3. TasksFit' /\ TasksFollow' /\ task' \in [Device -> [Thread -> Task]]
  BY OneTask
<1>4. CursorKnown' /\ CursorCovers' /\ ServerOK'
  BY CursorStays, ServerStays
<1>5. EditKept'
  BY QueueStays
<1>6. TypeOK'
  BY <1>1, <1>3 DEF TypeOK, server, users, volatile
<1>7. MintedFirst'
  BY <1>1 DEF MintedFirst, users, volatile
<1> QED BY <1>3, <1>4, <1>5, <1>6, <1>7 DEF IInv

\* A task about to ask for the page after a position its device covers.
LEMMA PullFits ==
    ASSUME NEW at \in Nat, NEW mi, NEW sq \in Nat, NEW oc, NEW it, NEW rp, NEW ch,
           at <= sq, Covers(at, rp, it, ch)
    PROVE  LET k == [IdleTask EXCEPT !.pc = "pull", !.at = at]
           IN  Fit(k, mi, sq, oc, it) /\ Follows(k, rp, it, ch)
<1> DEFINE k == [IdleTask EXCEPT !.pc = "pull", !.at = at]
<1>1. /\ k \in Task
      /\ k.pc = "pull" /\ k.at = at /\ k.next = 0
      /\ k.page = {} /\ k.todo = {} /\ k.found = {}
  BY DEF IdleTask, Task
<1> HIDE DEF k
<1>2. Fit(k, mi, sq, oc, it)
  BY <1>1 DEF Fit
<1>3. Follows(k, rp, it, ch)
  BY <1>1 DEF Follows
<1> QED BY <1>2, <1>3 DEF k

LEMMA StartSyncStep ==
    ASSUME IInv, NEW d \in Device, NEW t \in Thread, StartSync(d, t)
    PROVE  IInv'
<1>1. cursor[d] \in Nat /\ cursor[d] <= sequence /\ sequence \in Nat
  BY DEF IInv, TypeOK, CursorKnown
<1>2. Covers(cursor[d], repo[d], items, changed)
  BY DEF IInv, CursorCovers, Covers
<1>3. UNCHANGED <<items, changed, sequence, outcomes, minted, repo>>
  BY DEF StartSync, server, users, durable
<1> DEFINE k == [IdleTask EXCEPT !.pc = "pull", !.at = cursor[d]]
<1>4. Fit(k, minted', sequence', outcomes', items') /\ Follows(k, repo'[d], items', changed')
  BY <1>1, <1>2, <1>3, PullFits
<1>5. SetTask(d, t, k) /\ UNCHANGED <<server, sent, users, durable, volatile>>
  BY DEF StartSync
<1> HIDE DEF k
<1> QED BY <1>4, <1>5, TaskOnly

LEMMA FetchPageStep ==
    ASSUME IInv, NEW d \in Device, NEW t \in Thread, FetchPage(d, t)
    PROVE  IInv'
<1> DEFINE k == task[d][t]
           page == Feed(k.at)
           next == Last(page, k.at)
           new == [k EXCEPT !.pc = "apply", !.page = page, !.next = next]
<1>1. /\ SetTask(d, t, new) /\ k.pc = "pull"
      /\ UNCHANGED <<server, sent, users, durable, volatile>>
  BY DEF FetchPage
<1>2. Fit(k, minted, sequence, outcomes, items) /\ Follows(k, repo[d], items, changed)
  BY TaskHas
<1>3. UNCHANGED <<items, changed, sequence, outcomes, minted, repo>>
  BY <1>1 DEF server, users, durable
<1>4. k.at \in Nat /\ k.at <= sequence /\ Covers(k.at, repo[d], items, changed)
  <2> HIDE DEF k
  <2> QED BY <1>1, <1>2 DEF Fit, Follows, Task
<1>5. /\ page \in SUBSET Change
      /\ next \in Nat
      /\ next <= sequence
      /\ \A c \in page : Acked(c.item, c.record, outcomes, items)
      /\ \A i \in Item : changed[i] \in 1..next =>
           repo[d][i] = items[i] \/ ChangeOf(i, items, changed) \in page
  <2>1. TypeOK /\ ServerOK
    BY DEF IInv
  <2> HIDE DEF k
  <2> QED BY <1>4, <2>1, PageFollows
<1> HIDE DEF k, page, next
<1>6. k \in Task
  BY <1>2 DEF Fit
<1>7. /\ new \in Task
      /\ new.pc = "apply" /\ new.page = page /\ new.next = next
      /\ new.at = k.at /\ new.todo = k.todo /\ new.found = k.found
  BY <1>5, <1>6 DEF Task
<1> HIDE DEF new
<1>8. Fit(new, minted, sequence, outcomes, items)
  BY <1>2, <1>5, <1>7 DEF Fit
<1>9. Follows(new, repo[d], items, changed)
  BY <1>5, <1>7 DEF Follows
<1> QED BY <1>1, <1>3, <1>8, <1>9, TaskOnly

LEMMA FetchFailsStep ==
    ASSUME IInv, NEW d \in Device, NEW t \in Thread, FetchFails(d, t)
    PROVE  IInv'
<1> DEFINE k == [IdleTask EXCEPT !.pc = "list"]
<1>1. SetTask(d, t, k) /\ UNCHANGED <<server, sent, users, durable, volatile>>
  BY DEF FetchFails
<1>2. Calmly
  BY <1>1 DEF Calmly, users, durable
<1>3. Fit(k, minted', sequence', outcomes', items') /\ Follows(k, repo'[d], items', changed')
  BY <1>2, IdleFits
<1> HIDE DEF k
<1> QED BY <1>1, <1>3, TaskOnly

LEMMA ApplyChangeStep ==
    ASSUME IInv, NEW d \in Device, NEW t \in Thread, ApplyChange(d, t)
    PROVE  IInv'
<1> DEFINE k == task[d][t]
<1>1. PICK c \in k.page :
        /\ k.pc = "apply"
        /\ IF Puttable(repo[d][c.item], c.record)
           THEN /\ PutItem(d, c.item, c.record)
                /\ SetTask(d, t, [k EXCEPT !.page = @ \ {c}])
           ELSE /\ SetTask(d, t, [IdleTask EXCEPT !.pc = "list"])
                /\ UNCHANGED repo
        /\ UNCHANGED <<server, sent, users, cursor, queue, volatile>>
  BY DEF ApplyChange
<1>2. Fit(k, minted, sequence, outcomes, items) /\ Follows(k, repo[d], items, changed) /\ k \in Task
  BY TaskHas
<1>3. UNCHANGED <<items, changed, sequence, outcomes, minted>>
  BY <1>1 DEF server, users
<1>4. c \in Change /\ Acked(c.item, c.record, outcomes, items)
  <2> HIDE DEF k
  <2> QED BY <1>1, <1>2 DEF Fit, Task
<1>5. c.item \in Item /\ c.record \in Record
  BY <1>4 DEF Change
<1>6. TypeOK
  BY DEF IInv
<1>7. CASE Puttable(repo[d][c.item], c.record)
  <2> DEFINE new == [k EXCEPT !.page = @ \ {c}]
  <2>1. PutItem(d, c.item, c.record) /\ SetTask(d, t, new)
    BY <1>1, <1>7
  <2>2. /\ repo' \in [Device -> [Item -> Record]]
        /\ \A e \in Device, j \in Item : repo[e][j] = items[j] => repo'[e][j] = items[j]
        /\ repo'[d][c.item] = c.record
    BY <1>4, <1>5, <1>6, <1>7, <2>1, PutKeeps
  <2>3. Calmly
    BY <1>1, <1>3, <2>2 DEF Calmly
  <2> HIDE DEF k
  <2>4. /\ new \in Task
        /\ new.pc = k.pc /\ new.page = k.page \ {c} /\ new.next = k.next
        /\ new.at = k.at /\ new.todo = k.todo /\ new.found = k.found /\ new.current = k.current
    BY <1>2 DEF Task
  <2> HIDE DEF new
  <2>5. Fit(new, minted', sequence', outcomes', items')
    BY <1>2, <1>3, <2>4 DEF Fit
  <2>6. ASSUME NEW i \in Item, changed[i] \in 1..new.next
        PROVE  repo'[d][i] = items[i] \/ ChangeOf(i, items, changed) \in new.page
    <3>1. repo[d][i] = items[i] \/ ChangeOf(i, items, changed) \in k.page
      BY <1>1, <1>2, <2>4, <2>6 DEF Follows
    <3>2. CASE ChangeOf(i, items, changed) = c
      <4>1. c.item = i /\ c.record = items[i]
        BY <3>2 DEF ChangeOf
      <4> QED BY <4>1, <2>2
    <3>3. CASE ChangeOf(i, items, changed) # c
      BY <3>1, <3>3, <2>2, <2>4
    <3> QED BY <3>2, <3>3
  <2>7. Follows(new, repo'[d], items', changed')
    BY <1>1, <1>3, <2>4, <2>6 DEF Follows
  <2> QED BY <1>1, <2>1, <2>2, <2>3, <2>5, <2>7, TaskAndRecord
<1>8. CASE ~Puttable(repo[d][c.item], c.record)
  <2> DEFINE new == [IdleTask EXCEPT !.pc = "list"]
  <2>1. SetTask(d, t, new) /\ UNCHANGED repo
    BY <1>1, <1>8
  <2>2. Calmly /\ repo' \in [Device -> [Item -> Record]]
    BY <1>1, <1>3, <1>6, <2>1 DEF Calmly, TypeOK
  <2>3. Fit(new, minted', sequence', outcomes', items') /\ Follows(new, repo'[d], items', changed')
    BY <2>2, IdleFits
  <2> HIDE DEF new
  <2> QED BY <1>1, <2>1, <2>2, <2>3, TaskAndRecord
<1> QED BY <1>7, <1>8

LEMMA AdvanceCursorStep ==
    ASSUME IInv, NEW d \in Device, NEW t \in Thread, AdvanceCursor(d, t)
    PROVE  IInv'
<1> DEFINE k == task[d][t]
           new == IF k.next = k.at THEN [IdleTask EXCEPT !.pc = "list"]
                  ELSE [IdleTask EXCEPT !.pc = "pull", !.at = k.next]
<1>1. /\ k.pc = "apply" /\ k.page = {}
      /\ cursor' = [cursor EXCEPT ![d] = k.next]
      /\ SetTask(d, t, new)
      /\ UNCHANGED <<server, sent, users, repo, queue, volatile>>
  BY DEF AdvanceCursor, SetCursor
<1>2. Fit(k, minted, sequence, outcomes, items) /\ Follows(k, repo[d], items, changed) /\ k \in Task
  BY TaskHas
<1>3. UNCHANGED <<items, changed, sequence, outcomes, minted>>
  BY <1>1 DEF server, users
<1>4. TypeOK /\ MintedFirst /\ CursorKnown /\ CursorCovers
  BY DEF IInv
<1>5. Calmly
  BY <1>1, <1>3 DEF Calmly
<1>6. k.next \in Nat /\ k.next <= sequence /\ Covers(k.next, repo[d], items, changed)
  <2> HIDE DEF k
  <2> QED BY <1>1, <1>2 DEF Fit, Follows, Covers, Task
<1>7. sequence \in Nat
  BY <1>4 DEF TypeOK
<1>8. Fit(new, minted', sequence', outcomes', items') /\ Follows(new, repo'[d], items', changed')
  <2>1. CASE k.next = k.at
    BY <2>1, <1>5, IdleFits
  <2>2. CASE k.next # k.at
    <3>1. Covers(k.next, repo'[d], items', changed') /\ k.next <= sequence' /\ sequence' \in Nat
      BY <1>1, <1>3, <1>6, <1>7
    <3> HIDE DEF k
    <3>2. LET kk == [IdleTask EXCEPT !.pc = "pull", !.at = k.next]
          IN  Fit(kk, minted', sequence', outcomes', items') /\ Follows(kk, repo'[d], items', changed')
      BY <1>6, <3>1, PullFits
    <3> QED BY <2>2, <3>2
  <2> QED BY <2>1, <2>2
<1> HIDE DEF k, new
<1>9. TasksFit' /\ TasksFollow' /\ task' \in [Device -> [Thread -> Task]]
  BY <1>1, <1>5, <1>8, OneTask
<1>10. cursor' \in [Device -> Nat]
  BY <1>1, <1>4, <1>6 DEF TypeOK
<1>11. \A e \in Device : cursor'[e] = IF e = d THEN k.next ELSE cursor[e]
  BY <1>1, <1>4 DEF TypeOK
<1>12. CursorKnown'
  BY <1>3, <1>4, <1>6, <1>11 DEF CursorKnown
<1>13. CursorCovers'
  BY <1>1, <1>3, <1>4, <1>6, <1>11 DEF CursorCovers, Covers
<1>14. EditKept' /\ ServerOK'
  BY <1>1, <1>5, QueueStays, ServerStays
<1>15. TypeOK'
  BY <1>1, <1>4, <1>9, <1>10 DEF TypeOK, server, users, volatile
<1>16. MintedFirst'
  BY <1>1, <1>4 DEF MintedFirst, users, volatile
<1> QED BY <1>9, <1>12, <1>13, <1>14, <1>15, <1>16 DEF IInv

LEMMA ListQueuedStep ==
    ASSUME IInv, NEW d \in Device, NEW t \in Thread, ListQueued(d, t)
    PROVE  IInv'
<1> DEFINE k == task[d][t]
           live == {m \in MutationId : queue[d][m] \notin {"none", "CONFLICT"}}
           new(w) == [k EXCEPT !.pc = "push", !.todo = live \ w]
<1>1. PICK w \in SUBSET live :
        SetTask(d, t, new(w)) /\ UNCHANGED <<server, sent, users, durable, volatile>>
  BY DEF ListQueued
<1>2. Fit(k, minted, sequence, outcomes, items) /\ k \in Task
  BY TaskHas
<1>3. UNCHANGED <<items, changed, sequence, outcomes, minted, repo>>
  BY <1>1 DEF server, users, durable
<1>4. live \subseteq MutationId /\ \A m \in live : minted[m] # None
  BY DEF IInv, MintedFirst
<1> HIDE DEF k, live
<1>5. /\ new(w) \in Task
      /\ new(w).pc = "push" /\ new(w).page = k.page /\ new(w).next = k.next
      /\ new(w).at = k.at /\ new(w).todo = live \ w /\ new(w).found = k.found
  BY <1>2, <1>4 DEF Task
<1> HIDE DEF new
<1>6. Fit(new(w), minted', sequence', outcomes', items')
  BY <1>2, <1>3, <1>4, <1>5 DEF Fit
<1>7. Follows(new(w), repo'[d], items', changed')
  BY <1>5 DEF Follows
<1> QED BY <1>1, <1>6, <1>7, TaskOnly

LEMMA PushOneStep ==
    ASSUME IInv, NEW d \in Device, NEW t \in Thread, NEW m \in MutationId, PushOne(d, t, m)
    PROVE  IInv'
<1> DEFINE k == task[d][t]
           new == [k EXCEPT !.pc = "await", !.current = m, !.todo = @ \ {m}]
<1>1. /\ m \in k.todo /\ SetEntry(d, m, "SYNCING") /\ sent' = sent \cup {m}
      /\ SetTask(d, t, new) /\ UNCHANGED <<server, users, repo, cursor, volatile>>
  BY DEF PushOne
<1>2. Fit(k, minted, sequence, outcomes, items) /\ k \in Task
  BY TaskHas
<1>3. UNCHANGED <<items, changed, sequence, outcomes, minted>>
  BY <1>1 DEF server, users
<1> HIDE DEF k
<1>4. minted[m] # None
  BY <1>1, <1>2 DEF Fit
<1>5. /\ new \in Task
      /\ new.pc = "await" /\ new.page = k.page /\ new.next = k.next /\ new.current = m
      /\ new.at = k.at /\ new.todo = k.todo \ {m} /\ new.found = k.found
  BY <1>2 DEF Task
<1> HIDE DEF new
<1>6. Fit(new, minted', sequence', outcomes', items')
  BY <1>2, <1>3, <1>4, <1>5 DEF Fit
<1>7. Follows(new, repo'[d], items', changed')
  BY <1>5 DEF Follows
<1>8. "SYNCING" \in SyncState
  BY DEF SyncState
<1> QED BY <1>1, <1>4, <1>6, <1>7, <1>8, TaskAndEntry

\* What the current mutation of a task is, once it was sent.
LEMMA CurrentSealed ==
    ASSUME IInv, NEW d \in Device, NEW t \in Thread, task[d][t].pc \in {"await", "dequeue"}
    PROVE  /\ task[d][t].current \in MutationId
           /\ minted[task[d][t].current] # None
           /\ minted[task[d][t].current].item \in Item
           /\ task[d][t].pc = "dequeue" => outcomes[task[d][t].current].status = 201
<1> DEFINE k == task[d][t]
<1>1. Fit(k, minted, sequence, outcomes, items)
  BY TaskHas
<1> HIDE DEF k
<1>2. /\ k.pc \in {"await", "dequeue"}
      /\ k.current \in MutationId /\ minted[k.current] # None
      /\ k.pc = "dequeue" => outcomes[k.current].status = 201
  BY <1>1 DEF Fit, k
<1>3. minted[k.current] \in Body
  BY <1>2 DEF IInv, TypeOK
<1>4. minted[k.current].item \in Item
  BY <1>3 DEF Body
<1> QED BY <1>2, <1>4 DEF k

\* pushOne is over and pushAll goes on, with m a conflict of this round or not.
LEMMA PushGoesOn ==
    ASSUME IInv, NEW d \in Device, NEW t \in Thread, NEW ms \in SUBSET MutationId,
           \A m \in ms : minted[m] # None, NEW rp,
           UNCHANGED <<server, users>>
    PROVE  LET new == [task[d][t] EXCEPT !.pc = "push", !.current = None, !.found = @ \cup ms]
           IN  /\ Fit(new, minted', sequence', outcomes', items')
               /\ Follows(new, rp, items', changed')
<1> DEFINE k == task[d][t]
           new == [k EXCEPT !.pc = "push", !.current = None, !.found = @ \cup ms]
<1>1. Fit(k, minted, sequence, outcomes, items) /\ k \in Task
  BY TaskHas
<1>2. UNCHANGED <<items, changed, sequence, outcomes, minted>>
  BY DEF server, users
<1> HIDE DEF k
<1>3. /\ new \in Task
      /\ new.pc = "push" /\ new.page = k.page /\ new.next = k.next
      /\ new.at = k.at /\ new.todo = k.todo /\ new.found = k.found \cup ms
  BY <1>1 DEF Task
<1> HIDE DEF new
<1>4. Fit(new, minted', sequence', outcomes', items')
  BY <1>1, <1>2, <1>3 DEF Fit
<1>5. Follows(new, rp, items', changed')
  BY <1>3 DEF Follows
<1> QED BY <1>4, <1>5 DEF new, k

LEMMA PushGoesOnUnchanged ==
    ASSUME IInv, NEW d \in Device, NEW t \in Thread, NEW rp, UNCHANGED <<server, users>>
    PROVE  LET new == [task[d][t] EXCEPT !.pc = "push", !.current = None]
           IN  /\ Fit(new, minted', sequence', outcomes', items')
               /\ Follows(new, rp, items', changed')
<1> DEFINE k == task[d][t]
           new == [k EXCEPT !.pc = "push", !.current = None]
<1>1. k \in Task
  BY TaskHas
<1>2. [k EXCEPT !.pc = "push", !.current = None, !.found = @ \cup {}] = new
  <2> HIDE DEF k
  <2> QED BY <1>1 DEF Task
<1>3. LET kk == [task[d][t] EXCEPT !.pc = "push", !.current = None, !.found = @ \cup {}]
      IN  /\ Fit(kk, minted', sequence', outcomes', items')
          /\ Follows(kk, rp, items', changed')
  BY PushGoesOn
<1> QED BY <1>2, <1>3

LEMMA Receive201Step ==
    ASSUME IInv, NEW d \in Device, NEW t \in Thread, Receive201(d, t)
    PROVE  IInv'
<1> DEFINE k == task[d][t]
           m == k.current
           i == minted[m].item
           r == outcomes[m].record
<1>1. /\ k.pc = "await" /\ outcomes[m].status = 201
      /\ IF Puttable(repo[d][i], r)
         THEN PutItem(d, i, r) /\ SetTask(d, t, [k EXCEPT !.pc = "dequeue"])
         ELSE SetTask(d, t, IdleTask) /\ UNCHANGED repo
      /\ UNCHANGED <<server, sent, users, cursor, queue, volatile>>
  BY DEF Receive201
<1>2. Fit(k, minted, sequence, outcomes, items) /\ k \in Task
  BY TaskHas
<1>3. UNCHANGED <<items, changed, sequence, outcomes, minted>>
  BY <1>1 DEF server, users
<1>4. m \in MutationId /\ minted[m] # None /\ i \in Item
  BY <1>1, CurrentSealed
<1>5. TypeOK /\ ServerOK
  BY DEF IInv
<1> HIDE DEF k
<1>6. Acked(i, r, outcomes, items)
  BY <1>1, <1>4, <1>5 DEF ServerOK, ServerSound
<1>7. r \in Record
  <2>1. outcomes[m] \in Response
    BY <1>4, <1>5 DEF TypeOK
  <2> QED BY <2>1 DEF Response
<1>8. CASE Puttable(repo[d][i], r)
  <2> DEFINE new == [k EXCEPT !.pc = "dequeue"]
  <2>1. PutItem(d, i, r) /\ SetTask(d, t, new)
    BY <1>1, <1>8
  <2>2. /\ repo' \in [Device -> [Item -> Record]]
        /\ \A e \in Device, j \in Item : repo[e][j] = items[j] => repo'[e][j] = items[j]
    <3> HIDE DEF i, r
    <3> QED BY <1>4, <1>5, <1>6, <1>7, <1>8, <2>1, PutKeeps
  <2>3. Calmly
    BY <1>1, <1>3, <2>2 DEF Calmly
  <2>4. /\ new \in Task
        /\ new.pc = "dequeue" /\ new.page = k.page /\ new.next = k.next
        /\ new.at = k.at /\ new.todo = k.todo /\ new.found = k.found /\ new.current = m
    BY <1>2 DEF Task
  <2> HIDE DEF new, m
  <2>5. Fit(new, minted', sequence', outcomes', items')
    BY <1>1, <1>2, <1>3, <1>4, <2>4 DEF Fit
  <2>6. Follows(new, repo'[d], items', changed')
    BY <2>4 DEF Follows
  <2> QED BY <1>1, <2>1, <2>2, <2>3, <2>5, <2>6, TaskAndRecord
<1>9. CASE ~Puttable(repo[d][i], r)
  <2>1. SetTask(d, t, IdleTask) /\ UNCHANGED repo
    BY <1>1, <1>9
  <2>2. Calmly /\ repo' \in [Device -> [Item -> Record]]
    BY <1>1, <1>3, <1>5, <2>1 DEF Calmly, TypeOK
  <2>3. Fit(IdleTask, minted', sequence', outcomes', items') /\ Follows(IdleTask, repo'[d], items', changed')
    BY <2>2, Ended
  <2> QED BY <1>1, <2>1, <2>2, <2>3, TaskAndRecord
<1> QED BY <1>8, <1>9

LEMMA DequeueMutationStep ==
    ASSUME IInv, NEW d \in Device, NEW t \in Thread, DequeueMutation(d, t)
    PROVE  IInv'
<1> DEFINE m == task[d][t].current
           new == [task[d][t] EXCEPT !.pc = "push", !.current = None]
<1>1. /\ task[d][t].pc = "dequeue" /\ SetEntry(d, m, "none") /\ SetTask(d, t, new)
      /\ UNCHANGED <<server, sent, users, repo, cursor, volatile>>
  BY DEF DequeueMutation
<1>2. m \in MutationId /\ minted[m] # None /\ outcomes[m].status = 201
  BY <1>1, CurrentSealed
<1>3. Fit(new, minted', sequence', outcomes', items') /\ Follows(new, repo'[d], items', changed')
  BY <1>1, PushGoesOnUnchanged
<1>4. "none" \in SyncState
  BY DEF SyncState
<1> HIDE DEF m, new
<1> QED BY <1>1, <1>2, <1>3, <1>4, TaskAndEntry

LEMMA Receive409Step ==
    ASSUME IInv, NEW d \in Device, NEW t \in Thread, Receive409(d, t)
    PROVE  IInv'
<1> DEFINE m == task[d][t].current
           new == [task[d][t] EXCEPT !.pc = "push", !.current = None, !.found = @ \cup {m}]
<1>1. /\ task[d][t].pc = "await" /\ SetEntry(d, m, "CONFLICT") /\ SetTask(d, t, new)
      /\ UNCHANGED <<server, sent, users, repo, cursor, volatile>>
  BY DEF Receive409
<1>2. m \in MutationId /\ minted[m] # None
  BY <1>1, CurrentSealed
<1>3. Fit(new, minted', sequence', outcomes', items') /\ Follows(new, repo'[d], items', changed')
  BY <1>1, <1>2, PushGoesOn
<1>4. "CONFLICT" \in SyncState
  BY DEF SyncState
<1> HIDE DEF m, new
<1> QED BY <1>1, <1>2, <1>3, <1>4, TaskAndEntry

LEMMA NetworkErrorStep ==
    ASSUME IInv, NEW d \in Device, NEW t \in Thread, NetworkError(d, t)
    PROVE  IInv'
<1> DEFINE m == task[d][t].current
           new == [task[d][t] EXCEPT !.pc = "push", !.current = None]
<1>1. /\ task[d][t].pc = "await" /\ SetEntry(d, m, "RETRYABLE") /\ SetTask(d, t, new)
      /\ UNCHANGED <<server, sent, users, repo, cursor, volatile>>
  BY DEF NetworkError
<1>2. m \in MutationId /\ minted[m] # None
  BY <1>1, CurrentSealed
<1>3. Fit(new, minted', sequence', outcomes', items') /\ Follows(new, repo'[d], items', changed')
  BY <1>1, PushGoesOnUnchanged
<1>4. "RETRYABLE" \in SyncState
  BY DEF SyncState
<1> HIDE DEF m, new
<1> QED BY <1>1, <1>2, <1>3, <1>4, TaskAndEntry

LEMMA HttpFailureStep ==
    ASSUME IInv, NEW d \in Device, NEW t \in Thread, HttpFailure(d, t)
    PROVE  IInv'
<1> DEFINE m == task[d][t].current
<1>1. /\ task[d][t].pc = "await" /\ SetEntry(d, m, "LOCAL_DIRTY") /\ SetTask(d, t, IdleTask)
      /\ UNCHANGED <<server, sent, users, repo, cursor, volatile>>
  BY DEF HttpFailure
<1>2. m \in MutationId /\ minted[m] # None
  BY <1>1, CurrentSealed
<1>3. Calmly
  BY <1>1 DEF Calmly, users
<1>4. Fit(IdleTask, minted', sequence', outcomes', items') /\ Follows(IdleTask, repo'[d], items', changed')
  BY <1>3, Ended
<1>5. "LOCAL_DIRTY" \in SyncState
  BY DEF SyncState
<1> HIDE DEF m
<1> QED BY <1>1, <1>2, <1>4, <1>5, TaskAndEntry

\* The caches hold items only.
LEMMA LoadTyped ==
    ASSUME TypeOK, MintedFirst, NEW d \in Device
    PROVE  /\ Loaded(repo[d], queue[d]) \subseteq Item
           /\ LoadAllItemsIntoMemory(d) =>
                /\ revisions' \in [Device -> [Item -> Nat]]
                /\ cached' \in [Device -> SUBSET Item]
<1>1. Loaded(repo[d], queue[d]) \subseteq Item
  <2>1. ASSUME NEW m \in MutationId, queue[d][m] \notin {"none", "CONFLICT"}
        PROVE  minted[m].item \in Item
    <3>1. minted[m] \in Body
      BY <2>1 DEF TypeOK, MintedFirst
    <3> QED BY <3>1 DEF Body
  <2> QED BY <2>1 DEF Loaded
<1>2. \A i \in Item : repo[d][i].revision \in Nat
  <2> TAKE i \in Item
  <2>1. repo[d][i] \in Record
    BY DEF TypeOK
  <2> QED BY <2>1 DEF Record
<1>3. ASSUME LoadAllItemsIntoMemory(d)
      PROVE  revisions' \in [Device -> [Item -> Nat]] /\ cached' \in [Device -> SUBSET Item]
  <2> DEFINE loaded == Loaded(repo[d], queue[d])
             now == [i \in Item |-> IF repo[d][i].revision > 0 THEN repo[d][i].revision
                                    ELSE revisions[d][i]]
  <2>1. /\ revisions' = [revisions EXCEPT ![d] = now]
        /\ cached' = [cached EXCEPT ![d] = @ \cup loaded]
    BY <1>3 DEF LoadAllItemsIntoMemory
  <2>2. now \in [Item -> Nat]
    BY <1>2 DEF TypeOK
  <2> HIDE DEF loaded, now
  <2>3. loaded \subseteq Item
    BY <1>1 DEF loaded
  <2> QED BY <2>1, <2>2, <2>3 DEF TypeOK
<1> QED BY <1>1, <1>3

LEMMA FinishSyncStep ==
    ASSUME IInv, NEW d \in Device, NEW t \in Thread, FinishSync(d, t)
    PROVE  IInv'
<1> DEFINE k == task[d][t]
<1>1. /\ pending' = IF k.found = {} THEN pending ELSE [pending EXCEPT ![d] = k.found]
      /\ LoadAllItemsIntoMemory(d)
      /\ SetTask(d, t, IdleTask)
      /\ UNCHANGED <<server, sent, users, durable, offer, resolving>>
  BY DEF FinishSync
<1>2. Fit(k, minted, sequence, outcomes, items) /\ k \in Task
  BY TaskHas
<1>3. TypeOK /\ MintedFirst
  BY DEF IInv
<1>4. Calmly
  BY <1>1 DEF Calmly, users, durable
<1> HIDE DEF k
<1>5. k.found \in SUBSET MutationId /\ \A m \in k.found : minted[m] # None
  BY <1>2 DEF Fit, Task
<1>6. Fit(IdleTask, minted', sequence', outcomes', items') /\ Follows(IdleTask, repo'[d], items', changed')
  BY <1>4, Ended
<1>7. TasksFit' /\ TasksFollow' /\ task' \in [Device -> [Thread -> Task]]
  BY <1>1, <1>4, <1>6, OneTask
<1>8. CursorKnown' /\ CursorCovers' /\ ServerOK'
  BY <1>1, <1>4, CursorStays, ServerStays DEF durable
<1>9. EditKept'
  BY <1>1, QueueStays DEF durable
<1>10. pending' \in [Device -> SUBSET MutationId]
  BY <1>1, <1>3, <1>5 DEF TypeOK
<1>11. revisions' \in [Device -> [Item -> Nat]] /\ cached' \in [Device -> SUBSET Item]
  BY <1>1, <1>3, LoadTyped DEF LoadAllItemsIntoMemory
<1>12. TypeOK'
  BY <1>1, <1>3, <1>7, <1>10, <1>11 DEF TypeOK, server, users, durable
<1>13. \A e \in Device : pending'[e] = pending[e] \/ pending'[e] = k.found
  BY <1>1, <1>3 DEF TypeOK
<1>14. MintedFirst'
  BY <1>1, <1>3, <1>5, <1>13 DEF MintedFirst, users, durable
<1> QED BY <1>7, <1>8, <1>9, <1>12, <1>14 DEF IInv

LEMMA RestartStep ==
    ASSUME IInv, NEW d \in Device, Restart(d)
    PROVE  IInv'
<1>1. TypeOK /\ MintedFirst /\ CursorCovers
  BY DEF IInv
<1>2. UNCHANGED <<items, changed, sequence, outcomes, minted, repo, cursor, queue, sent, undone, taken>>
  BY DEF Restart, server, users, durable
<1>3. Calmly
  BY <1>2 DEF Calmly, server
<1>4. task' \in [Device -> [Thread -> Task]]
  <2>1. IdleTask \in Task
    BY DEF IdleTask, Task
  <2> QED BY <1>1, <2>1 DEF TypeOK, Restart
<1>5. \A e \in Device, u \in Thread : task'[e][u] = IF e = d THEN IdleTask ELSE task[e][u]
  BY <1>1 DEF TypeOK, Restart
<1>6. TasksFit' /\ TasksFollow'
  <2> SUFFICES ASSUME NEW e \in Device, NEW u \in Thread
               PROVE  /\ Fit(task'[e][u], minted', sequence', outcomes', items')
                      /\ Follows(task'[e][u], repo'[e], items', changed')
    BY DEF TasksFit, TasksFollow
  <2>1. CASE e = d
    BY <1>3, <1>5, <2>1, Ended
  <2>2. CASE e # d
    BY <1>3, <1>5, <2>2, TaskStays
  <2> QED BY <2>1, <2>2
<1>7. CursorKnown' /\ CursorCovers' /\ ServerOK'
  BY <1>2, <1>3, CursorStays, ServerStays
<1>8. EditKept'
  BY <1>2, QueueStays DEF server, users
<1>9. revisions' \in [Device -> [Item -> Nat]]
  <2>1. \A i \in Item : repo[d][i].revision \in Nat
    <3> TAKE i \in Item
    <3>1. repo[d][i] \in Record
      BY <1>1 DEF TypeOK
    <3> QED BY <3>1 DEF Record
  <2> QED BY <1>1, <2>1 DEF TypeOK, Restart
<1>10. cached' \in [Device -> SUBSET Item]
  <2>1. Loaded(repo[d], queue[d]) \subseteq Item
    BY <1>1, LoadTyped
  <2> QED BY <1>1, <2>1 DEF TypeOK, Restart
<1>11. /\ pending' \in [Device -> SUBSET MutationId]
       /\ offer' \in [Device -> MutationId \cup {None}]
       /\ resolving' \in [Device -> MutationId \cup {None}]
  BY <1>1 DEF TypeOK, Restart
<1>12. TypeOK'
  BY <1>1, <1>2, <1>4, <1>9, <1>10, <1>11 DEF TypeOK
<1>13. \A e \in Device : /\ pending'[e] \subseteq pending[e]
                         /\ resolving'[e] # None => resolving'[e] = resolving[e]
  BY <1>1 DEF TypeOK, Restart
<1>14. MintedFirst'
  BY <1>1, <1>2, <1>13 DEF MintedFirst
<1> QED BY <1>6, <1>7, <1>8, <1>12, <1>14 DEF IInv

-----------------------------------------------------------------------------
(* The step of the server.                                                 *)

LEMMA ServeStep ==
    ASSUME IInv, NEW m \in MutationId, Serve(m)
    PROVE  IInv'
<1> DEFINE i == minted[m].item
           made == [revision |-> items[i].revision + 1, deleted |-> minted[m].deleted, body |-> m]
<1>1. TypeOK /\ ServerOK /\ MintedFirst /\ CursorKnown /\ CursorCovers /\ EditKept
  BY DEF IInv
<1>2. /\ m \in sent /\ outcomes[m].status = 0
      /\ UNCHANGED <<sent, minted, undone, taken, repo, cursor, queue,
                     revisions, cached, pending, offer, resolving, task>>
  BY DEF Serve, users, durable, volatile
<1>3. minted[m] # None /\ minted[m] \in Body
  BY <1>1, <1>2 DEF MintedFirst, TypeOK
<1>4. i \in Item /\ minted[m].deleted \in BOOLEAN
  BY <1>3 DEF Body
<1>5. items[i] \in Record
  BY <1>1, <1>4 DEF TypeOK
<1>6. made \in Record /\ made.body = m /\ made.revision = items[i].revision + 1
      /\ items[i].revision \in Nat /\ made.revision \in Nat
  BY <1>4, <1>5 DEF Record
<1>7. sequence \in Nat
  BY <1>1 DEF TypeOK
<1>8. \A j \in Item : items[j].revision \in Nat /\ changed[j] \in Nat
  BY <1>1 DEF TypeOK, Record
<1>9. MintedFirst'
  BY <1>1, <1>2 DEF MintedFirst
<1>10. CASE minted[m].base = items[i].revision
  <2>1. /\ items' = [items EXCEPT ![i] = made]
        /\ changed' = [changed EXCEPT ![i] = sequence + 1]
        /\ sequence' = sequence + 1
        /\ outcomes' = [outcomes EXCEPT ![m] = [status |-> 201, record |-> made]]
    BY <1>10 DEF Serve
  <2> HIDE DEF i, made
  <2>2. [status |-> 201, record |-> made] \in Response
    BY <1>6 DEF Response
  <2>3. TypeOK'
    BY <1>1, <1>2, <1>4, <1>6, <1>7, <2>1, <2>2 DEF TypeOK
  <2>4. /\ \A j \in Item : items'[j] = IF j = i THEN made ELSE items[j]
        /\ \A j \in Item : changed'[j] = IF j = i THEN sequence + 1 ELSE changed[j]
        /\ \A n \in MutationId : outcomes'[n] =
             IF n = m THEN [status |-> 201, record |-> made] ELSE outcomes[n]
    BY <1>1, <2>1 DEF TypeOK
  <2>5. \A j \in Item : \A r : Acked(j, r, outcomes, items) => Acked(j, r, outcomes', items')
    <3> SUFFICES ASSUME NEW j \in Item, NEW r, Acked(j, r, outcomes, items)
                 PROVE  Acked(j, r, outcomes', items')
      OBVIOUS
    <3>1. r.body # m /\ outcomes'[r.body] = outcomes[r.body]
      BY <1>2, <2>4 DEF Acked
    <3>2. r.revision \in 1..items[j].revision /\ items'[j].revision \in Nat
          /\ items[j].revision <= items'[j].revision
      BY <1>6, <1>8, <2>4 DEF Acked
    <3>3. r.revision \in 1..items'[j].revision
      BY <3>2, <1>8
    <3> QED BY <3>1, <3>3 DEF Acked
  <2>6. Acked(i, made, outcomes', items')
    BY <1>4, <1>6, <2>4 DEF Acked
  <2>7. ServerOK'
    <3>1. \A j \in Item : changed'[j] <= sequence'
      BY <1>1, <1>7, <1>8, <2>1, <2>4 DEF ServerOK, ServerSound
    <3>2. \A j \in Item : changed'[j] > 0 => Acked(j, items'[j], outcomes', items')
      <4> TAKE j \in Item
      <4>1. CASE j = i
        BY <4>1, <1>4, <2>4, <2>6
      <4>2. CASE j # i
        BY <4>2, <1>1, <2>4, <2>5 DEF ServerOK, ServerSound
      <4> QED BY <4>1, <4>2
    <3>3. ASSUME NEW n \in MutationId, outcomes'[n].status = 201
          PROVE  minted'[n] # None /\ Acked(minted'[n].item, outcomes'[n].record, outcomes', items')
      <4>1. CASE n = m
        BY <4>1, <1>2, <1>3, <2>4, <2>6 DEF i
      <4>2. CASE n # m
        <5>1. outcomes'[n] = outcomes[n] /\ minted' = minted
          BY <4>2, <1>2, <2>4
        <5>2. minted[n] # None /\ Acked(minted[n].item, outcomes[n].record, outcomes, items)
          BY <3>3, <5>1, <1>1 DEF ServerOK, ServerSound
        <5>3. minted[n] \in Body
          BY <5>2, <1>1 DEF TypeOK
        <5>4. minted[n].item \in Item
          BY <5>3 DEF Body
        <5> QED BY <5>1, <5>2, <5>4, <2>5
      <4> QED BY <4>1, <4>2
    <3> QED BY <3>1, <3>2, <3>3 DEF ServerOK, ServerSound
  <2>8. CursorKnown'
    BY <1>1, <1>2, <1>7, <2>1 DEF CursorKnown, TypeOK
  <2>9. \A c : c \in Nat /\ c <= sequence =>
          \A j \in Item : changed'[j] \in 1..c => j # i /\ changed[j] \in 1..c
                                                  /\ items'[j] = items[j] /\ changed'[j] = changed[j]
    BY <1>7, <1>8, <2>4
  <2>10. TasksFit' /\ TasksFollow'
    <3> SUFFICES ASSUME NEW e \in Device, NEW u \in Thread
                 PROVE  /\ Fit(task'[e][u], minted', sequence', outcomes', items')
                        /\ Follows(task'[e][u], repo'[e], items', changed')
      BY DEF TasksFit, TasksFollow
    <3> DEFINE k == task[e][u]
    <3>1. /\ Fit(k, minted, sequence, outcomes, items)
          /\ Follows(k, repo[e], items, changed)
          /\ k \in Task
      BY TaskHas
    <3>2. task'[e][u] = k /\ repo'[e] = repo[e] /\ minted' = minted
      BY <1>2
    <3> HIDE DEF k
    <3>3. k.at \in Nat /\ k.next \in Nat /\ k.page \subseteq Change /\ k.at <= sequence /\ k.next <= sequence
      BY <3>1 DEF Task, Fit
    <3>4. Fit(k, minted, sequence', outcomes', items')
      <4>1. k.at <= sequence' /\ k.next <= sequence'
        BY <3>3, <1>7, <2>1
      <4>2. \A c \in k.page : Acked(c.item, c.record, outcomes', items')
        <5> TAKE c \in k.page
        <5>1. c.item \in Item
          BY <3>3 DEF Change
        <5> QED BY <5>1, <3>1, <2>5 DEF Fit
      <4>3. k.pc = "dequeue" => outcomes'[k.current].status = 201
        BY <3>1, <2>4 DEF Fit
      <4> QED BY <3>1, <4>1, <4>2, <4>3 DEF Fit
    <3>5. Follows(k, repo[e], items', changed')
      <4>1. ASSUME k.pc = "pull" PROVE Covers(k.at, repo[e], items', changed')
        BY <4>1, <3>1, <3>3, <2>9 DEF Follows, Covers
      <4>2. ASSUME k.pc = "apply", NEW j \in Item, changed'[j] \in 1..k.next
            PROVE  repo[e][j] = items'[j] \/ ChangeOf(j, items', changed') \in k.page
        <5>1. changed[j] \in 1..k.next /\ items'[j] = items[j] /\ changed'[j] = changed[j]
          BY <4>2, <3>3, <2>9
        <5>2. repo[e][j] = items[j] \/ ChangeOf(j, items, changed) \in k.page
          BY <4>2, <5>1, <3>1 DEF Follows
        <5> QED BY <5>1, <5>2 DEF ChangeOf
      <4> QED BY <4>1, <4>2 DEF Follows
    <3> QED BY <3>2, <3>4, <3>5
  <2>11. CursorCovers'
    <3> SUFFICES ASSUME NEW e \in Device, NEW j \in Item, changed'[j] \in 1..cursor[e]
                 PROVE  repo[e][j] = items'[j]
      BY <1>2 DEF CursorCovers
    <3>1. cursor[e] \in Nat /\ cursor[e] <= sequence
      BY <1>1 DEF TypeOK, CursorKnown
    <3> QED BY <3>1, <2>9, <1>1 DEF CursorCovers
  <2>12. EditKept'
    BY <1>1, <1>2, <2>4 DEF EditKept
  <2> QED BY <1>9, <2>3, <2>7, <2>8, <2>10, <2>11, <2>12 DEF IInv
<1>11. CASE minted[m].base # items[i].revision
  <2>1. /\ outcomes' = [outcomes EXCEPT ![m] = [status |-> 409, record |-> items[i]]]
        /\ UNCHANGED <<items, changed, sequence>>
    BY <1>11 DEF Serve
  <2> HIDE DEF i, made
  <2>2. [status |-> 409, record |-> items[i]] \in Response
    BY <1>5 DEF Response
  <2>3. TypeOK'
    BY <1>1, <1>2, <2>1, <2>2 DEF TypeOK
  <2>4. \A n \in MutationId : outcomes'[n] =
             IF n = m THEN [status |-> 409, record |-> items[i]] ELSE outcomes[n]
    BY <1>1, <2>1 DEF TypeOK
  <2>5. \A j, r : Acked(j, r, outcomes, items) => Acked(j, r, outcomes', items')
    BY <1>2, <2>1, <2>4 DEF Acked
  <2>6. \A n \in MutationId : outcomes'[n].status = 201 => n # m /\ outcomes'[n] = outcomes[n]
    BY <2>4
  <2>7. ServerOK'
    <3>1. UNCHANGED <<items, changed, sequence, minted>>
      BY <1>2, <2>1
    <3>2. \A j \in Item : changed'[j] <= sequence'
      BY <1>1, <3>1 DEF ServerOK, ServerSound
    <3>3. \A j \in Item : changed'[j] > 0 => Acked(j, items'[j], outcomes', items')
      BY <1>1, <3>1, <2>5 DEF ServerOK, ServerSound
    <3>4. \A n \in MutationId : outcomes'[n].status = 201 =>
            minted'[n] # None /\ Acked(minted'[n].item, outcomes'[n].record, outcomes', items')
      <4> TAKE n \in MutationId
      <4> HAVE outcomes'[n].status = 201
      <4>1. outcomes'[n] = outcomes[n]
        BY <2>6
      <4>2. minted[n] # None /\ Acked(minted[n].item, outcomes[n].record, outcomes, items)
        BY <1>1, <4>1 DEF ServerOK, ServerSound
      <4> QED BY <3>1, <4>1, <4>2, <2>5
    <3> QED BY <3>2, <3>3, <3>4 DEF ServerOK, ServerSound
  <2>8. TasksFit' /\ TasksFollow'
    <3> SUFFICES ASSUME NEW e \in Device, NEW u \in Thread
                 PROVE  /\ Fit(task'[e][u], minted', sequence', outcomes', items')
                        /\ Follows(task'[e][u], repo'[e], items', changed')
      BY DEF TasksFit, TasksFollow
    <3> DEFINE k == task[e][u]
    <3>1. /\ Fit(k, minted, sequence, outcomes, items)
          /\ Follows(k, repo[e], items, changed)
      BY TaskHas
    <3>2. task'[e][u] = k /\ repo'[e] = repo[e] /\ minted' = minted
      BY <1>2
    <3> HIDE DEF k
    <3>3. k.pc = "dequeue" => outcomes'[k.current].status = 201
      BY <3>1, <1>2, <2>4 DEF Fit
    <3>4. Fit(k, minted, sequence', outcomes', items')
      BY <3>1, <3>3, <2>1, <2>5 DEF Fit
    <3> QED BY <3>1, <3>2, <3>4, <2>1
  <2>9. CursorKnown' /\ CursorCovers'
    BY <1>1, <1>2, <2>1 DEF CursorKnown, CursorCovers
  <2>10. EditKept'
    BY <1>1, <1>2, <2>4 DEF EditKept
  <2> QED BY <1>9, <2>3, <2>7, <2>8, <2>9, <2>10 DEF IInv
<1> QED BY <1>10, <1>11

-----------------------------------------------------------------------------
(* The theorems.                                                           *)

LEMMA InitOK == Init => IInv
<1> SUFFICES ASSUME Init PROVE IInv
  OBVIOUS
<1>1. NoRecord \in Record /\ NoResponse \in Response /\ IdleTask \in Task
  BY DEF NoRecord, Record, NoResponse, Response, IdleTask, Task
<1>2. NoResponse.status = 0
  BY DEF NoResponse
<1>3. "none" \in SyncState
  BY DEF SyncState
<1>4. TypeOK
  BY <1>1, <1>3 DEF Init, TypeOK
<1>5. ServerOK
  BY <1>2 DEF Init, ServerOK, ServerSound
<1>6. MintedFirst
  BY DEF Init, MintedFirst
<1>7. CursorKnown
  BY DEF Init, CursorKnown
<1>8. Fit(IdleTask, minted, sequence, outcomes, items)
  <2>1. /\ IdleTask.pc = "idle" /\ IdleTask.at = 0 /\ IdleTask.next = 0
        /\ IdleTask.page = {} /\ IdleTask.todo = {} /\ IdleTask.found = {}
    BY DEF IdleTask
  <2> QED BY <1>1, <2>1 DEF Fit, Init
<1>9. \A d \in Device : Follows(IdleTask, repo[d], items, changed)
  BY DEF Follows, IdleTask
<1>10. TasksFit /\ TasksFollow
  BY <1>8, <1>9 DEF Init, TasksFit, TasksFollow
<1>11. CursorCovers /\ EditKept
  BY DEF Init, CursorCovers, EditKept
<1> QED BY <1>4, <1>5, <1>6, <1>7, <1>10, <1>11 DEF IInv

LEMMA Quiet ==
    ASSUME IInv, UNCHANGED vars
    PROVE  IInv'
<1>1. UNCHANGED <<items, changed, sequence, outcomes, sent, minted, undone, taken, repo, cursor,
                  queue, revisions, cached, pending, offer, resolving, task>>
  BY DEF vars, server, users, durable, volatile
<1>2. TypeOK'
  BY <1>1 DEF IInv, TypeOK
<1>3. ServerOK' /\ MintedFirst' /\ CursorKnown'
  BY <1>1 DEF IInv, ServerOK, MintedFirst, CursorKnown
<1>4. TasksFit' /\ TasksFollow' /\ CursorCovers' /\ EditKept'
  BY <1>1 DEF IInv, TasksFit, TasksFollow, CursorCovers, EditKept
<1> QED BY <1>2, <1>3, <1>4 DEF IInv

LEMMA StepOK == IInv /\ [Next]_vars => IInv'
<1> SUFFICES ASSUME IInv, [Next]_vars PROVE IInv'
  OBVIOUS
<1>1. ASSUME NEW m \in MutationId, Serve(m) PROVE IInv'
  BY <1>1, ServeStep
<1>2. ASSUME NEW d \in Device, UserStep(d) PROVE IInv'
  BY <1>2, SaveItemStep, DeleteItemStep, ResolveDequeueStep, ResolveEnqueueStep,
     UndoDeleteStep DEF UserStep
<1>3. ASSUME NEW d \in Device, NEW t \in Thread, StartSync(d, t) \/ Progress(d, t) PROVE IInv'
  BY <1>3, StartSyncStep, FetchPageStep, ApplyChangeStep, AdvanceCursorStep, ListQueuedStep,
     PushOneStep, Receive201Step, DequeueMutationStep, Receive409Step, FinishSyncStep DEF Progress
<1>4. ASSUME NEW d \in Device, Fault(d) PROVE IInv'
  BY <1>4, RestartStep, FetchFailsStep, NetworkErrorStep, HttpFailureStep DEF Fault
<1>5. CASE UNCHANGED vars
  BY <1>5, Quiet
<1> QED BY <1>1, <1>2, <1>3, <1>4, <1>5 DEF Next, Calm

LEMMA Invariance == Spec => []IInv
BY InitOK, StepOK, PTL DEF Spec

\* Server, users, repositories and running syncs only ever hold what their
\* types allow.
THEOREM TypeCorrect == Spec => []TypeOK
<1>1. IInv => TypeOK
  BY DEF IInv
<1> QED BY <1>1, Invariance, PTL

\* Nothing at or before a device's durable cursor is missing from its
\* repository, whatever crashes, rejected puts and concurrent syncNow calls
\* come between SyncEngine.pull's putItem and setCursor.
THEOREM CursorCoversHolds == Spec => []CursorCovers
<1>1. IInv => CursorCovers
  BY DEF IInv
<1> QED BY <1>1, Invariance, PTL

\* Until it is undone or its conflict is resolved, an edit is in its device's
\* queue or applied by the server: pushOne never lets one go.
THEOREM EditKeptHolds == Spec => []EditKept
<1>1. IInv => EditKept
  BY DEF IInv
<1> QED BY <1>1, Invariance, PTL

\* putItem stores what the server acknowledged, newer than what it replaces.
LEMMA StepFollows ==
    ASSUME IInv, [Next]_vars, NEW d \in Device, NEW i \in Item, repo'[d][i] # repo[d][i]
    PROVE  /\ repo'[d][i].revision \in (repo[d][i].revision + 1)..items[i].revision
           /\ outcomes[repo'[d][i].body].record = repo'[d][i]
<1>1. ~(UNCHANGED repo)
  OBVIOUS
<1>2. PICK e \in Device, t \in Thread : ApplyChange(e, t) \/ Receive201(e, t)
  <2>1. ~(\E m \in MutationId : Serve(m))
    BY <1>1 DEF Serve, durable
  <2>2. ~(\E e \in Device : UserStep(e))
    BY <1>1 DEF UserStep, SaveItem, DeleteItem, UndoDeleteIfLocal, ResolveDequeue, ResolveEnqueue
  <2>3. ~(\E e \in Device : Fault(e))
    <3>1. \A e \in Device : ~Restart(e)
      BY <1>1 DEF Restart, durable
    <3>2. \A e \in Device, t \in Thread : ~FetchFails(e, t)
      BY <1>1 DEF FetchFails, durable
    <3>3. \A e \in Device, t \in Thread : ~NetworkError(e, t) /\ ~HttpFailure(e, t)
      BY <1>1 DEF NetworkError, HttpFailure
    <3> QED BY <3>1, <3>2, <3>3 DEF Fault
  <2>4. \A e \in Device, t \in Thread : /\ ~StartSync(e, t) /\ ~FetchPage(e, t)
                                       /\ ~AdvanceCursor(e, t) /\ ~ListQueued(e, t)
    BY <1>1 DEF StartSync, FetchPage, AdvanceCursor, ListQueued, durable
  <2>5. \A e \in Device, t \in Thread : /\ ~DequeueMutation(e, t) /\ ~Receive409(e, t)
                                       /\ \A m \in MutationId : ~PushOne(e, t, m)
    BY <1>1 DEF PushOne, DequeueMutation, Receive409
  <2>6. \A e \in Device, t \in Thread : FinishSync(e, t) => UNCHANGED durable
    BY DEF FinishSync
  <2>7. ~(UNCHANGED vars)
    BY <1>1 DEF vars, durable
  <2> QED BY <1>1, <2>1, <2>2, <2>3, <2>4, <2>5, <2>6, <2>7 DEF Next, Calm, Progress, durable
<1>3. TypeOK /\ ServerOK
  BY DEF IInv
<1> DEFINE k == task[e][t]
<1>4. Fit(k, minted, sequence, outcomes, items) /\ k \in Task
  BY TaskHas
<1>5. CASE ApplyChange(e, t)
  <2>1. PICK c \in k.page : Puttable(repo[e][c.item], c.record) /\ PutItem(e, c.item, c.record)
    BY <1>1, <1>5 DEF ApplyChange
  <2> HIDE DEF k
  <2>2. c \in Change /\ Acked(c.item, c.record, outcomes, items)
    BY <1>4 DEF Fit, Task
  <2>3. c.item \in Item /\ c.record \in Record
    BY <2>2 DEF Change
  <2> QED BY <1>3, <2>1, <2>2, <2>3, PutKeeps
<1>6. CASE Receive201(e, t)
  <2> DEFINE m == k.current
             r == outcomes[m].record
             j == minted[m].item
  <2>1. Puttable(repo[e][j], r) /\ PutItem(e, j, r) /\ k.pc = "await" /\ outcomes[m].status = 201
    BY <1>1, <1>6 DEF Receive201
  <2>2. m \in MutationId /\ j \in Item
    BY <2>1, CurrentSealed
  <2> HIDE DEF k
  <2>3. Acked(j, r, outcomes, items)
    BY <1>3, <2>1, <2>2 DEF ServerOK, ServerSound
  <2>4. r \in Record
    <3>1. outcomes[m] \in Response
      BY <1>3, <2>2 DEF TypeOK
    <3> QED BY <3>1 DEF Response
  <2> HIDE DEF m, r, j
  <2> QED BY <1>3, <2>1, <2>2, <2>3, <2>4, PutKeeps
<1> QED BY <1>2, <1>5, <1>6

\* A repository moves only forward, and only along what the server
\* acknowledged: assertMonotonicPut against stale pages and late responses.
THEOREM RepoFollows == Spec => RepoFollowsServer
<1> DEFINE A == \A d \in Device, i \in Item : repo'[d][i] # repo[d][i] =>
                  /\ repo'[d][i].revision \in (repo[d][i].revision + 1)..items[i].revision
                  /\ outcomes[repo'[d][i].body].record = repo'[d][i]
<1>1. IInv /\ [Next]_vars => A
  BY StepFollows
<1>2. Spec => []IInv /\ [][Next]_vars
  BY Invariance, PTL DEF Spec
<1> HIDE DEF A
<1>3. Spec => [][A]_vars
  BY <1>1, <1>2, PTL
<1> QED BY <1>3 DEF RepoFollowsServer, A

-----------------------------------------------------------------------------
(* The server a device sees is the abstract store.                         *)

\* The revision of an item, and the base and the item of a sealed mutation.
LEMMA Numbers ==
    ASSUME TypeOK
    PROVE  /\ \A i \in Item : items[i].revision \in Nat
           /\ \A d \in Device, i \in Item : repo[d][i].revision \in Nat /\ revisions[d][i] \in Nat
           /\ \A m \in MutationId : outcomes[m].record.revision \in Nat /\ outcomes[m].status \in {0, 201, 409}
           /\ \A m \in MutationId : minted[m] # None =>
                /\ minted[m] \in Body /\ minted[m].item \in Item
                /\ minted[m].base \in Nat /\ minted[m].deleted \in BOOLEAN
<1>1. \A r \in Record : r.revision \in Nat
  BY DEF Record
<1>2. \A o \in Response : o.record \in Record /\ o.status \in {0, 201, 409}
  BY DEF Response
<1>3. \A b \in Body : b.item \in Item /\ b.base \in Nat /\ b.deleted \in BOOLEAN
  BY DEF Body
<1>4. \A m \in MutationId : minted[m] # None => minted[m] \in Body
  BY DEF TypeOK
<1>5. \A i \in Item : items[i] \in Record
  BY DEF TypeOK
<1>6. \A d \in Device, i \in Item : repo[d][i] \in Record /\ revisions[d][i] \in Nat
  BY DEF TypeOK
<1>7. \A m \in MutationId : outcomes[m] \in Response
  BY DEF TypeOK
<1> QED BY <1>1, <1>2, <1>3, <1>4, <1>5, <1>6, <1>7

\* What a device holds of an item, and what it bases a mutation on, the server
\* has reached; and nobody answers for a mutation that was not made.
Reached ==
    /\ \A d \in Device, i \in Item : repo[d][i].revision <= items[i].revision
    /\ \A d \in Device, i \in Item : revisions[d][i] <= items[i].revision
    /\ \A m \in MutationId : minted[m] # None =>
         /\ minted[m].base <= items[minted[m].item].revision
         /\ outcomes[m].record.revision <= items[minted[m].item].revision
    /\ \A m \in MutationId : minted[m] = None => outcomes[m] = NoResponse

\* The server, the users who seal mutations and the refreshes of the cache of
\* revisions each write what is theirs.
LEMMA WhoWrites ==
    ASSUME [Next]_vars
    PROVE  /\ (\E m \in MutationId : Serve(m)) \/ UNCHANGED server
           /\ \/ \E d \in Device, m \in MutationId, i \in Item : SaveItem(d, m, i) \/ DeleteItem(d, m, i)
              \/ \E d \in Device, m \in MutationId : ResolveEnqueue(d, m)
              \/ UNCHANGED minted
           /\ \/ \E d \in Device : Restart(d) \/ \E t \in Thread : FinishSync(d, t)
              \/ UNCHANGED revisions
<1> DEFINE Served == \E m \in MutationId : Serve(m)
           Sealed == \/ \E d \in Device, m \in MutationId, i \in Item : SaveItem(d, m, i) \/ DeleteItem(d, m, i)
                     \/ \E d \in Device, m \in MutationId : ResolveEnqueue(d, m)
           Loads == \E d \in Device : Restart(d) \/ \E t \in Thread : FinishSync(d, t)
           Goal == /\ Served \/ UNCHANGED server
                   /\ Sealed \/ UNCHANGED minted
                   /\ Loads \/ UNCHANGED revisions
<1> SUFFICES Goal
  OBVIOUS
<1>1. ASSUME NEW m \in MutationId, Serve(m) PROVE Goal
  BY <1>1 DEF Serve, users, volatile
<1>2. ASSUME NEW d \in Device, NEW m \in MutationId, NEW i \in Item, SaveItem(d, m, i) \/ DeleteItem(d, m, i)
      PROVE  Goal
  <2>1. UNCHANGED <<server, revisions>>
    BY <1>2 DEF SaveItem, DeleteItem
  <2> QED BY <1>2, <2>1
<1>3. ASSUME NEW d \in Device, UndoDeleteIfLocal(d) PROVE Goal
  BY <1>3 DEF UndoDeleteIfLocal
<1>4. ASSUME NEW d \in Device, NEW m \in MutationId, ResolveDequeue(d, m) \/ ResolveEnqueue(d, m)
      PROVE  Goal
  <2>1. UNCHANGED <<server, revisions>> /\ (ResolveDequeue(d, m) => UNCHANGED minted)
    BY <1>4 DEF ResolveDequeue, ResolveEnqueue
  <2> QED BY <1>4, <2>1
<1>5. ASSUME NEW d \in Device, Restart(d) PROVE Goal
  <2>1. UNCHANGED <<server, minted>>
    BY <1>5 DEF Restart, users
  <2> QED BY <1>5, <2>1
<1>6. ASSUME NEW d \in Device, NEW t \in Thread, FinishSync(d, t) PROVE Goal
  <2>1. UNCHANGED <<server, minted>>
    BY <1>6 DEF FinishSync, users
  <2> QED BY <1>6, <2>1
<1>7. ASSUME NEW d \in Device, NEW t \in Thread,
             StartSync(d, t) \/ FetchPage(d, t) \/ FetchFails(d, t) \/ ApplyChange(d, t)
      PROVE  Goal
  BY <1>7 DEF StartSync, FetchPage, FetchFails, ApplyChange, users, volatile
<1>8. ASSUME NEW d \in Device, NEW t \in Thread,
             \/ AdvanceCursor(d, t) \/ ListQueued(d, t) \/ Receive201(d, t)
             \/ \E m \in MutationId : PushOne(d, t, m)
      PROVE  Goal
  BY <1>8 DEF AdvanceCursor, ListQueued, PushOne, Receive201, users, volatile
<1>9. ASSUME NEW d \in Device, NEW t \in Thread,
             DequeueMutation(d, t) \/ Receive409(d, t) \/ NetworkError(d, t) \/ HttpFailure(d, t)
      PROVE  Goal
  BY <1>9 DEF DequeueMutation, Receive409, NetworkError, HttpFailure, users, volatile
<1>10. CASE UNCHANGED vars
  BY <1>10 DEF vars, users, volatile
<1> HIDE DEF Goal
<1>11. ASSUME NEW d \in Device, UserStep(d) PROVE Goal
  BY <1>2, <1>3, <1>4, <1>11 DEF UserStep
<1>12. ASSUME NEW d \in Device, NEW t \in Thread, StartSync(d, t) \/ Progress(d, t) PROVE Goal
  BY <1>6, <1>7, <1>8, <1>9, <1>12 DEF Progress
<1>13. ASSUME NEW d \in Device, Fault(d) PROVE Goal
  BY <1>5, <1>7, <1>9, <1>13 DEF Fault
<1> QED BY <1>1, <1>10, <1>11, <1>12, <1>13 DEF Next, Calm

\* Rows only grow.
LEMMA ItemsGrow ==
    ASSUME IInv, [Next]_vars, NEW i \in Item
    PROVE  items[i].revision \in Nat /\ items'[i].revision \in Nat /\ items[i].revision <= items'[i].revision
<1>1. items[i].revision \in Nat
  BY Numbers DEF IInv
<1>2. CASE UNCHANGED items
  BY <1>1, <1>2
<1>3. CASE \E m \in MutationId : Serve(m)
  <2>1. PICK m \in MutationId : Serve(m)
    BY <1>3
  <2> DEFINE j == minted[m].item
             next == [revision |-> items[j].revision + 1, deleted |-> minted[m].deleted, body |-> m]
  <2>2. items' = [items EXCEPT ![j] = next] \/ items' = items
    BY <2>1 DEF Serve
  <2>3. next.revision = items[j].revision + 1
    OBVIOUS
  <2> HIDE DEF next, j
  <2>4. items'[i] = items[i] \/ (i = j /\ items'[i] = next)
    BY <2>2 DEF IInv, TypeOK
  <2> QED BY <1>1, <2>3, <2>4
<1> QED BY <1>2, <1>3, WhoWrites DEF server

\* Only the server answers, and only mutations that were made.
LEMMA ServeOnly ==
    ASSUME IInv, [Next]_vars
    PROVE  \/ \E m \in MutationId : Serve(m) /\ minted[m] # None /\ UNCHANGED minted
           \/ UNCHANGED <<items, outcomes>>
<1>1. ASSUME NEW m \in MutationId, Serve(m) PROVE minted[m] # None /\ UNCHANGED minted
  BY <1>1 DEF Serve, users, IInv, MintedFirst
<1> QED BY <1>1, WhoWrites DEF server

\* A device's cache of revisions is only refreshed from its repository.
LEMMA RevisionsFromRepo ==
    ASSUME IInv, [Next]_vars, NEW d \in Device, NEW i \in Item
    PROVE  revisions'[d][i] \in {revisions[d][i], repo[d][i].revision}
<1>1. CASE \E e \in Device : Restart(e)
  <2>1. PICK e \in Device : Restart(e)
    BY <1>1
  <2>2. revisions' = [revisions EXCEPT ![e] = [j \in Item |-> repo[e][j].revision]]
    BY <2>1 DEF Restart
  <2> QED BY <2>2 DEF IInv, TypeOK
<1>2. CASE \E e \in Device, t \in Thread : FinishSync(e, t)
  <2>1. PICK e \in Device, t \in Thread : FinishSync(e, t)
    BY <1>2
  <2>2. revisions' = [revisions EXCEPT ![e] =
          [j \in Item |-> IF repo[e][j].revision > 0 THEN repo[e][j].revision ELSE @[j]]]
    BY <2>1 DEF FinishSync, LoadAllItemsIntoMemory
  <2> QED BY <2>2 DEF IInv, TypeOK
<1>3. CASE UNCHANGED revisions
  BY <1>3
<1> QED BY <1>1, <1>2, <1>3, WhoWrites

\* A mutation is sealed once, on a revision the server has reached.
LEMMA SealedOnce ==
    ASSUME IInv, Reached, [Next]_vars, NEW m \in MutationId
    PROVE  \/ minted'[m] = minted[m]
           \/ /\ minted[m] = None /\ minted'[m] \in Body
              /\ minted'[m].base <= items[minted'[m].item].revision
              /\ UNCHANGED <<items, outcomes>>
              /\ \A n \in MutationId \ {m} : minted'[n] = minted[n]
<1> DEFINE made(d, i, base, deleted) == [device |-> d, item |-> i, base |-> base, deleted |-> deleted]
<1>1. ASSUME NEW d \in Device, NEW n \in MutationId, NEW i \in Item,
             NEW base \in Nat, base <= items[i].revision, NEW deleted \in BOOLEAN,
             Mint(d, n, i, base, deleted)
      PROVE  /\ minted'[m] # minted[m] =>
                  /\ minted[m] = None /\ minted'[m] \in Body /\ m = n
                  /\ minted'[m].base <= items[minted'[m].item].revision
             /\ \A o \in MutationId \ {n} : minted'[o] = minted[o]
  <2>1. /\ made(d, i, base, deleted) \in Body /\ made(d, i, base, deleted).item = i
        /\ made(d, i, base, deleted).base = base
    BY DEF Body
  <2>2. minted[n] = None /\ minted' = [minted EXCEPT ![n] = made(d, i, base, deleted)]
    BY <1>1 DEF Mint, Fresh
  <2> HIDE DEF made
  <2> QED BY <1>1, <2>1, <2>2 DEF IInv, TypeOK
<1>2. CASE \E d \in Device, n \in MutationId, i \in Item : SaveItem(d, n, i) \/ DeleteItem(d, n, i)
  <2>1. PICK d \in Device, n \in MutationId, i \in Item : SaveItem(d, n, i) \/ DeleteItem(d, n, i)
    BY <1>2
  <2>2. /\ \E deleted \in BOOLEAN : Mint(d, n, i, revisions[d][i], deleted)
        /\ UNCHANGED <<items, outcomes>>
    BY <2>1 DEF SaveItem, DeleteItem, server
  <2>3. revisions[d][i] \in Nat /\ revisions[d][i] <= items[i].revision
    BY Numbers DEF IInv, Reached
  <2> QED BY <1>1, <2>2, <2>3
<1>3. CASE \E d \in Device, n \in MutationId : ResolveEnqueue(d, n)
  <2>1. PICK d \in Device, n \in MutationId : ResolveEnqueue(d, n)
    BY <1>3
  <2> DEFINE old == resolving[d]
  <2>2. old \in MutationId /\ minted[old] # None
    BY <2>1 DEF ResolveEnqueue, IInv, TypeOK, MintedFirst
  <2>3. Mint(d, n, minted[old].item, outcomes[old].record.revision, FALSE)
    BY <2>1 DEF ResolveEnqueue
  <2>4. UNCHANGED <<items, outcomes>>
    BY <2>1 DEF ResolveEnqueue, server
  <2>5. /\ minted[old].item \in Item /\ outcomes[old].record.revision \in Nat
        /\ outcomes[old].record.revision <= items[minted[old].item].revision
    BY <2>2, Numbers DEF IInv, Reached
  <2> HIDE DEF old
  <2> QED BY <1>1, <2>3, <2>4, <2>5
<1>4. CASE UNCHANGED minted
  BY <1>4
<1> QED BY <1>2, <1>3, <1>4, WhoWrites

\* An answer shows a row that was or became the current one.
LEMMA AnswerReached ==
    ASSUME IInv, Reached, NEW n \in MutationId, Serve(n), NEW m \in MutationId, minted[m] # None
    PROVE  \/ outcomes'[m] = outcomes[m]
           \/ outcomes'[m].record.revision <= items'[minted[m].item].revision
<1> DEFINE i == minted[n].item
           next == [revision |-> items[i].revision + 1, deleted |-> minted[n].deleted, body |-> n]
<1>1. minted[n] # None
  BY DEF Serve, IInv, MintedFirst
<1>2. i \in Item /\ items[i].revision \in Nat
  BY <1>1, Numbers DEF IInv
<1>3. outcomes \in [MutationId -> Response] /\ items \in [Item -> Record]
  BY DEF IInv, TypeOK
<1>4. CASE minted[n].base = items[i].revision
  <2>1. /\ items' = [items EXCEPT ![i] = next]
        /\ outcomes' = [outcomes EXCEPT ![n] = [status |-> 201, record |-> next]]
    BY <1>4 DEF Serve
  <2>2. next.revision \in Nat
    BY <1>2
  <2>3. CASE m = n
    <3>1. outcomes'[m].record = next /\ items'[i] = next
      BY <1>2, <1>3, <2>1, <2>3
    <3> QED BY <2>2, <2>3, <3>1
  <2>4. CASE m # n
    BY <1>3, <2>1, <2>4
  <2> QED BY <2>3, <2>4
<1>5. CASE minted[n].base # items[i].revision
  <2>1. items' = items /\ outcomes' = [outcomes EXCEPT ![n] = [status |-> 409, record |-> items[i]]]
    BY <1>5 DEF Serve
  <2>2. CASE m = n
    <3>1. outcomes'[m].record = items'[i]
      BY <1>3, <2>1, <2>2
    <3> QED BY <1>2, <2>1, <2>2, <3>1
  <2>3. CASE m # n
    BY <1>3, <2>1, <2>3
  <2> QED BY <2>2, <2>3
<1> QED BY <1>4, <1>5

\* Nothing runs ahead of the server.
LEMMA ReachedStep ==
    ASSUME IInv, Reached, [Next]_vars
    PROVE  Reached'
<1> USE DEF IInv
<1>1. TypeOK' /\ MintedFirst
  BY StepOK
<1>2. \A i \in Item : items[i].revision \in Nat /\ items'[i].revision \in Nat
                      /\ items[i].revision <= items'[i].revision
  BY ItemsGrow
<1>3. /\ \A d \in Device, i \in Item : repo[d][i].revision \in Nat /\ revisions[d][i] \in Nat
      /\ \A m \in MutationId : outcomes[m].record.revision \in Nat
      /\ \A m \in MutationId : minted[m] # None => minted[m].item \in Item /\ minted[m].base \in Nat
  BY Numbers
<1>4. ASSUME NEW d \in Device, NEW i \in Item
      PROVE  repo'[d][i].revision <= items'[i].revision
  <2>1. CASE repo'[d][i] = repo[d][i]
    BY <1>2, <1>3, <2>1 DEF Reached
  <2>2. CASE repo'[d][i] # repo[d][i]
    <3>1. repo'[d][i].revision \in (repo[d][i].revision + 1)..items[i].revision
      BY <2>2, StepFollows
    <3> QED BY <1>2, <1>3, <3>1
  <2> QED BY <2>1, <2>2
<1>5. ASSUME NEW d \in Device, NEW i \in Item
      PROVE  revisions'[d][i] <= items'[i].revision
  <2>1. revisions'[d][i] \in {revisions[d][i], repo[d][i].revision}
    BY RevisionsFromRepo
  <2> QED BY <1>2, <1>3, <2>1 DEF Reached
<1>6. ASSUME NEW m \in MutationId, minted'[m] # None
      PROVE  minted'[m].base <= items'[minted'[m].item].revision
  <2>1. minted'[m].item \in Item /\ minted'[m].base \in Nat
    <3>1. minted'[m] \in Body
      BY <1>1, <1>6 DEF TypeOK
    <3> QED BY <3>1 DEF Body
  <2>2. minted'[m].base <= items[minted'[m].item].revision
    BY <1>6, SealedOnce DEF Reached
  <2> QED BY <1>2, <2>1, <2>2
<1>7. ASSUME NEW m \in MutationId, minted'[m] # None
      PROVE  outcomes'[m].record.revision <= items'[minted'[m].item].revision
  <2>1. CASE minted[m] = None
    <3>1. UNCHANGED <<items, outcomes>> /\ minted'[m] \in Body
      BY <1>7, <2>1, SealedOnce
    <3>2. outcomes'[m] = NoResponse /\ minted'[m].item \in Item
      BY <2>1, <3>1 DEF Reached, Body
    <3> QED BY <1>2, <3>2 DEF NoResponse, NoRecord
  <2>2. CASE minted[m] # None
    <3>1. minted'[m] = minted[m]
      BY <2>2, SealedOnce
    <3>2. \/ outcomes'[m] = outcomes[m]
          \/ outcomes'[m].record.revision <= items'[minted[m].item].revision
      BY <2>2, AnswerReached, ServeOnly
    <3>3. CASE outcomes'[m] = outcomes[m]
      BY <1>2, <1>3, <2>2, <3>1, <3>3 DEF Reached
    <3> QED BY <3>1, <3>2, <3>3
  <2> QED BY <2>1, <2>2
<1>8. ASSUME NEW m \in MutationId, minted'[m] = None
      PROVE  outcomes'[m] = NoResponse
  <2>1. minted[m] = None /\ outcomes[m] = NoResponse
    BY <1>8, NoneAssumption, SealedOnce DEF Reached
  <2>2. CASE UNCHANGED outcomes
    BY <2>1, <2>2
  <2>3. CASE \E n \in MutationId : Serve(n) /\ minted[n] # None
    <3>1. PICK n \in MutationId : Serve(n) /\ minted[n] # None
      BY <2>3
    <3>2. n # m
      BY <2>1, <3>1
    <3>3. outcomes'[m] = outcomes[m]
      BY <3>1, <3>2 DEF Serve, TypeOK
    <3> QED BY <2>1, <3>3
  <2> QED BY <2>2, <2>3, ServeOnly
<1> QED BY <1>4, <1>5, <1>6, <1>7, <1>8 DEF Reached

\* A sealed mutation is one the store may wait for.
LEMMA AskedType ==
    ASSUME NEW b \in Body
    PROVE  /\ Asked(b) \in Store!Bodies /\ Asked(b).place = b.item
           /\ Asked(b).base = b.base /\ Asked(b).deleted = b.deleted
BY DEF Asked, Store!Bodies, Body

\* Sealing a mutation hands it to the store.
LEMMA SealSubmits ==
    ASSUME IInv, Reached, [Next]_vars, NEW m \in MutationId, minted'[m] # minted[m]
    PROVE  Store!Submit(m)
<1>1. /\ minted[m] = None /\ minted'[m] \in Body /\ UNCHANGED <<items, outcomes>>
      /\ \A n \in MutationId \ {m} : minted'[n] = minted[n]
  BY SealedOnce
<1>2. minted'[m] # None
  BY <1>1, NoneAssumption
<1>3. \A n \in MutationId : Bodies'[n] = IF n = m THEN Asked(minted'[m]) ELSE Bodies[n]
  BY <1>1, <1>2 DEF Bodies
<1>4. Bodies' = [Bodies EXCEPT ![m] = Asked(minted'[m])]
  <2>1. Bodies' = [n \in MutationId |-> Bodies'[n]] /\ Bodies = [n \in MutationId |-> Bodies[n]]
    BY DEF Bodies
  <2> HIDE DEF Bodies
  <2> QED BY <1>3, <2>1
<1>5. Bodies[m] = None /\ Bodies'[m] = Asked(minted'[m])
  BY <1>1, <1>3 DEF Bodies
<1>6. Asked(minted'[m]) \in Store!Bodies
  BY <1>1, AskedType
<1>7. Rows' = Rows /\ Outcomes' = Outcomes
  BY <1>1 DEF Rows, Outcomes
<1> QED BY <1>4, <1>5, <1>6, <1>7 DEF Store!Submit

\* The server's step is one of the store's: there is a row to show whenever a
\* mutation is refused.
LEMMA ServeServes ==
    ASSUME IInv, Reached, NEW m \in MutationId, Serve(m)
    PROVE  Store!Apply(m) \/ Store!Refuse(m)
<1> DEFINE i == minted[m].item
           b == minted[m]
           made == [revision |-> items[i].revision + 1, deleted |-> b.deleted, body |-> m]
           row == [revision |-> items[i].revision + 1, deleted |-> b.deleted, by |-> m]
<1>1. b # None /\ outcomes[m].status = 0 /\ UNCHANGED minted
  BY DEF Serve, users, IInv, MintedFirst
<1>2. b \in Body /\ i \in Item /\ b.base \in Nat /\ items[i].revision \in Nat
  BY <1>1, Numbers DEF IInv
<1>3. /\ Bodies[m] = Asked(b) /\ Bodies' = Bodies /\ Outcomes[m].status = 0
      /\ Rows[i] = Kept(items[i])
  BY <1>1, <1>2 DEF Bodies, Outcomes, Rows
<1>4. Bodies[m] \in Store!Bodies /\ Bodies[m].place = i /\ Bodies[m].base = b.base
      /\ Bodies[m].deleted = b.deleted
  BY <1>2, <1>3, AskedType
<1>5. Store!Waiting(m) /\ Store!Current(m) = Rows[i] /\ Rows[i].revision = items[i].revision
  BY <1>3, <1>4 DEF Store!Waiting, Store!Current, Kept
<1>6. outcomes \in [MutationId -> Response] /\ items \in [Item -> Record]
  BY DEF IInv, TypeOK
<1>7. ASSUME NEW status, NEW record, outcomes' = [outcomes EXCEPT ![m] = [status |-> status, record |-> record]]
      PROVE  Outcomes' = [Outcomes EXCEPT ![m] = [status |-> status, row |-> Kept(record)]]
  <2> DEFINE o == [status |-> status, row |-> Kept(record)]
  <2>1. \A n \in MutationId : Outcomes'[n] = IF n = m THEN o ELSE Outcomes[n]
    BY <1>6, <1>7 DEF Outcomes
  <2>2. Outcomes' = [n \in MutationId |-> Outcomes'[n]] /\ Outcomes = [n \in MutationId |-> Outcomes[n]]
    BY DEF Outcomes
  <2> HIDE DEF o, Outcomes
  <2>3. Outcomes' = [Outcomes EXCEPT ![m] = o]
    BY <2>1, <2>2
  <2> QED BY <2>3 DEF o
<1>8. CASE b.base = items[i].revision
  <2>1. /\ items' = [items EXCEPT ![i] = made]
        /\ outcomes' = [outcomes EXCEPT ![m] = [status |-> 201, record |-> made]]
    BY <1>8 DEF Serve
  <2>2. Kept(made) = row
    BY DEF Kept
  <2> HIDE DEF made
  <2>3. Outcomes' = [Outcomes EXCEPT ![m] = [status |-> 201, row |-> row]]
    BY <1>7, <2>1, <2>2
  <2>4. Rows' = [Rows EXCEPT ![i] = row]
    <3>1. \A j \in Item : items'[j] = IF j = i THEN made ELSE items[j]
      BY <1>6, <2>1
    <3> QED BY <2>2, <3>1 DEF Rows
  <2>5. Store!Write(m, items[i].revision + 1)
    <3> HIDE DEF i, b
    <3> QED BY <1>3, <1>4, <2>3, <2>4 DEF Store!Write
  <2>6. Store!Apply(m)
    BY <1>4, <1>5, <1>8, <2>5 DEF Store!Apply
  <2> QED BY <2>6
<1>9. CASE b.base # items[i].revision
  <2>1. items' = items /\ outcomes' = [outcomes EXCEPT ![m] = [status |-> 409, record |-> items[i]]]
    BY <1>9 DEF Serve
  <2>2. Outcomes' = [Outcomes EXCEPT ![m] = [status |-> 409, row |-> Rows[i]]] /\ Rows' = Rows
    <3>1. Outcomes' = [Outcomes EXCEPT ![m] = [status |-> 409, row |-> Kept(items[i])]]
      BY <1>7, <2>1
    <3>2. Rows' = Rows
      BY <2>1 DEF Rows
    <3> HIDE DEF i, b
    <3> QED BY <1>3, <3>1, <3>2
  <2>3. b.base <= items[i].revision
    BY <1>1 DEF Reached
  <2>4. items[i].revision \notin {0, b.base}
    BY <1>2, <1>9, <2>3
  <2>5. Store!Refuse(m)
    <3> HIDE DEF i, b
    <3> QED BY <1>3, <1>4, <1>5, <2>2, <2>4 DEF Store!Refuse
  <2> QED BY <2>5
<1> QED BY <1>8, <1>9

LEMMA ReachedHolds == Spec => []Reached
<1>1. Init => Reached
  <2> SUFFICES ASSUME Init PROVE Reached
    OBVIOUS
  <2>1. NoRecord.revision = 0
    BY DEF NoRecord
  <2> QED BY <2>1 DEF Init, Reached
<1>2. IInv /\ Reached /\ [Next]_vars => Reached'
  BY ReachedStep
<1> QED BY <1>1, <1>2, Invariance, PTL DEF Spec

\* The server the devices of SyncClient meet is the abstract store: a mutation
\* is based on a revision its item has reached, so pushOne is answered by a 201
\* that replaces the base or by a 409 that shows a row.
THEOREM StoreImplemented == Spec => ImplementsStore
<1>1. Init => Store!Init
  <2> SUFFICES ASSUME Init PROVE Store!Init
    OBVIOUS
  <2>1. Kept(NoRecord) = Store!NoRow
    BY DEF Kept, NoRecord, Store!NoRow
  <2>2. Bodies = [m \in MutationId |-> None] /\ Rows = [i \in Item |-> Store!NoRow]
    BY <2>1 DEF Init, Bodies, Rows
  <2>3. Outcomes = [m \in MutationId |-> [status |-> 0, row |-> Store!NoRow]]
    BY <2>1 DEF Init, Outcomes, NoResponse
  <2> QED BY <2>2, <2>3 DEF Store!Init
<1>2. ASSUME IInv, Reached, [Next]_vars
      PROVE  [Store!Next]_<<Bodies, Rows, Outcomes>>
  <2>1. CASE \E m \in MutationId : minted'[m] # minted[m]
    BY <1>2, <2>1, SealSubmits DEF Store!Next
  <2>2. CASE \E m \in MutationId : Serve(m)
    BY <1>2, <2>2, ServeServes DEF Store!Next
  <2>3. CASE (\A m \in MutationId : minted'[m] = minted[m]) /\ ~\E m \in MutationId : Serve(m)
    <3>1. UNCHANGED <<items, outcomes>>
      BY <1>2, <2>3, ServeOnly
    <3> QED BY <2>3, <3>1 DEF Bodies, Rows, Outcomes
  <2> QED BY <2>1, <2>2, <2>3
<1> QED BY <1>1, <1>2, ReachedHolds, Invariance, PTL DEF Spec, ImplementsStore, Store!Spec, Store!vars

-----------------------------------------------------------------------------
(* A device that has read the whole feed.                                  *)

\* An item nobody wrote has no record, at the server or in a repository.
Unwritten ==
    /\ \A i \in Item : changed[i] = 0 => items[i] = NoRecord
    /\ \A d \in Device, i \in Item : repo[d][i].revision = 0 => repo[d][i] = NoRecord

LEMMA UnwrittenStep ==
    ASSUME IInv, Unwritten, [Next]_vars
    PROVE  Unwritten'
<1> USE DEF Unwritten
<1>1. ASSUME NEW i \in Item, changed'[i] = 0 PROVE items'[i] = NoRecord
  <2>1. CASE UNCHANGED server
    BY <1>1, <2>1 DEF server
  <2>2. CASE \E m \in MutationId : Serve(m)
    <3>1. PICK m \in MutationId : Serve(m)
      BY <2>2
    <3>2. sequence \in Nat /\ changed \in [Item -> Nat] /\ items \in [Item -> Record]
      BY DEF IInv, TypeOK
    <3> DEFINE j == minted[m].item
               next == [revision |-> items[j].revision + 1, deleted |-> minted[m].deleted, body |-> m]
    <3>3. \/ items' = [items EXCEPT ![j] = next] /\ changed' = [changed EXCEPT ![j] = sequence + 1]
          \/ UNCHANGED <<items, changed>>
      BY <3>1 DEF Serve
    <3> HIDE DEF j, next
    <3>4. CASE i = j
      BY <1>1, <3>2, <3>3, <3>4
    <3>5. CASE i # j
      BY <1>1, <3>2, <3>3, <3>5
    <3> QED BY <3>4, <3>5
  <2> QED BY <2>1, <2>2, WhoWrites
<1>2. ASSUME NEW d \in Device, NEW i \in Item, repo'[d][i].revision = 0
      PROVE  repo'[d][i] = NoRecord
  <2>1. repo[d][i].revision \in Nat /\ items[i].revision \in Nat
    BY Numbers DEF IInv
  <2>2. repo'[d][i] = repo[d][i]
    BY <1>2, <2>1, StepFollows
  <2> QED BY <1>2, <2>2
<1> QED BY <1>1, <1>2

\* A device whose cursor has reached the newest change holds exactly the
\* server's records: pull leaves nothing behind it (CursorCovers), and nothing
\* a push or a replayed response stored is older or newer than the server's.
THEOREM CaughtUpHolds == Spec => []CaughtUp
<1>1. Init => Unwritten
  BY DEF Init, Unwritten
<1>2. Spec => []Unwritten
  <2>1. IInv /\ Unwritten /\ [Next]_vars => Unwritten'
    BY UnwrittenStep
  <2> QED BY <1>1, <2>1, Invariance, PTL DEF Spec
<1>3. ASSUME IInv, Reached, Unwritten PROVE CaughtUp
  <2> SUFFICES ASSUME NEW d \in Device, cursor[d] = sequence PROVE repo[d] = items
    BY DEF CaughtUp
  <2>1. /\ repo[d] \in [Item -> Record] /\ items \in [Item -> Record]
        /\ changed \in [Item -> Nat] /\ sequence \in Nat
    BY <1>3 DEF IInv, TypeOK
  <2>2. ASSUME NEW i \in Item PROVE repo[d][i] = items[i]
    <3>1. changed[i] \in Nat /\ changed[i] <= sequence
      BY <1>3, <2>1 DEF IInv, ServerOK, ServerSound
    <3>2. CASE changed[i] > 0
      <4>1. changed[i] \in 1..cursor[d]
        BY <2>1, <3>1, <3>2
      <4> QED BY <1>3, <4>1 DEF IInv, CursorCovers
    <3>3. CASE changed[i] = 0
      <4>1. items[i] = NoRecord
        BY <1>3, <3>3 DEF Unwritten
      <4>2. repo[d][i].revision \in Nat /\ repo[d][i].revision <= 0
        <5>1. repo[d][i].revision \in Nat
          BY <1>3, Numbers DEF IInv
        <5>2. items[i].revision = 0
          BY <4>1 DEF NoRecord
        <5>3. repo[d][i].revision <= items[i].revision
          BY <1>3 DEF Reached
        <5> QED BY <5>1, <5>2, <5>3
      <4>3. repo[d][i] = NoRecord
        <5>1. repo[d][i].revision = 0
          BY <4>2
        <5> QED BY <1>3, <5>1 DEF Unwritten
      <4> QED BY <4>1, <4>3
    <3> QED BY <3>1, <3>2, <3>3
  <2> QED BY <2>1, <2>2
<1> QED BY <1>2, <1>3, ReachedHolds, Invariance, PTL
=============================================================================
