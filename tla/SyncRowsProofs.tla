--------------------------- MODULE SyncRowsProofs ---------------------------
(***************************************************************************)
(* Proofs about the rows SyncBackend keeps: what a stored item says of its *)
(* mutation, who may write it, and that an edit replaces exactly the       *)
(* revision it was based on and moves the item forward in the feed.        *)
(***************************************************************************)
EXTENDS SyncBackendProofs, FiniteSetTheorems

\* The request has passed ensureVaultOwnership and is still open.
Admitted(r) == pc[r] \in {"select", "write", "upsert", "commit"}

\* The request holds a row it means to commit.
HasRow(r) == pc[r] = "upsert" \/ (pc[r] = "commit" /\ reply[r].status = 201)

\* A row is the one its mutation's outcome shows.
Outcome201(row) ==
    row.ciphertext \in Key /\ outcomes[row.ciphertext] = [status |-> 201, row |-> row]

\* Every stored row, and every row a client has pulled, is on record.
RowsRecorded ==
    /\ \A x \in Vault \X Item :
         items[x] = NoRow \/ (items[x].revision > 0 /\ Outcome201(items[x]))
    /\ \A f \in Account \X Vault : \A i \in Item :
         feed[f].got[i].revision > 0 => Outcome201(feed[f].got[i])

\* A request that has been admitted to a vault owns it, or will when it
\* commits: then nobody else has inserted the vault.
Admission ==
    /\ \A r \in Request : Admitted(r) =>
         vaults[mutation(r).vault] = IF claimed[r] THEN None ELSE key[r][1]
    /\ \A r \in Request : claimed[r] /\ HoldsMutationLock(r) => Admitted(r)
    /\ \A r \in Request : pc[r] \in {"idle", "replay", "lock"} => ~claimed[r]
    /\ \A r, q \in Request :
         /\ r # q /\ claimed[r] /\ claimed[q]
         /\ HoldsMutationLock(r) /\ HoldsMutationLock(q)
         => mutation(r).vault # mutation(q).vault

\* No two open transactions hold the lock of one row, and the row a
\* transaction has locked is still the one it read.
RowLocks ==
    /\ \A r, q \in Request :
         r # q /\ HoldsRowLock(r) /\ HoldsRowLock(q) => At(r) # At(q)
    /\ \A r \in Request :
         pc[r] \in {"write", "upsert", "commit"} /\ read[r].revision > 0 =>
             items[At(r)] = read[r]

\* What a transaction is about to write follows the row it read, under the
\* base revision the client gave, with a number the sequence has handed out.
NextRow ==
    \A r \in Request : HasRow(r) =>
        /\ mutation(r).base = read[r].revision
        /\ wrote[r].revision = read[r].revision + 1
        /\ wrote[r].sequence \in 1 .. sequence

\* Stored rows have numbers already handed out, and one about to be
\* committed has a higher one than the row it replaces.
Forward ==
    /\ \A x \in Vault \X Item : items[x].sequence <= sequence
    /\ \A r \in Request : pc[r] = "commit" /\ reply[r].status = 201 =>
         wrote[r].sequence > items[At(r)].sequence

RowInv == RowsRecorded /\ Admission /\ OwnerWrites /\ RowLocks /\ NextRow /\ Forward

-----------------------------------------------------------------------------
(* What a step leaves alone.                                               *)

\* A step of request r: the arrival of its mutation, a statement of the
\* handler or a failure.
Act(r) == (\E k \in Key, m \in Mutation : Receive(r, k, m)) \/ Handle(r) \/ Fail(r)

\* A started request keeps its mutation, whatever else is sent.
LEMMA MutationStable ==
    ASSUME IInv, [Next]_vars, NEW q \in Request, pc[q] # "idle"
    PROVE  /\ key'[q] = key[q] /\ key[q] \in Key /\ key[q][1] \in Account
           /\ mutation(q)' = mutation(q) /\ mutation(q) \in Mutation
           /\ At(q)' = At(q) /\ At(q) \in Vault \X Item /\ At(q)[1] = mutation(q).vault
<1>1. key[q] \in Key /\ sent[key[q]] \in Mutation
    BY DEF IInv, KeyKnown
<1>2. sent[key[q]] # None
    BY <1>1, NoneAssumption
<1>3. key'[q] = key[q] /\ (sent'[key[q]] = sent[key[q]])
  <2>1. CASE \E r \in Request, k \in Key, m \in Mutation : Receive(r, k, m)
    <3>1. PICK r \in Request, k \in Key, m \in Mutation : Receive(r, k, m)
        BY <2>1
    <3>2. q # r
        BY <3>1 DEF Receive
    <3>3. key'[q] = key[q]
        BY <3>1, <3>2 DEF Receive, IInv, TypeOK
    <3> QED BY <1>1, <1>2, <3>1, <3>3 DEF Receive, IInv, TypeOK
  <2>2. CASE ~\E r \in Request, k \in Key, m \in Mutation : Receive(r, k, m)
      BY <2>2 DEF Next, Handle, vars, tables, locals, FastPath, AcquireMutationLock, Recheck,
         EnsureVaultOwnership, GetItemForUpdate, RejectStaleBase, EvaluateInsert, UpsertItem,
         Commit, Reply, Fail, ListChanges
  <2> QED BY <2>1, <2>2
<1> QED BY <1>1, <1>3, Fields DEF mutation, At

\* A step of one request leaves the variables of the others alone.
LEMMA OthersUnchanged ==
    ASSUME IInv, NEW r \in Request, Act(r), NEW q \in Request, q # r
    PROVE  /\ pc'[q] = pc[q] /\ read'[q] = read[q] /\ wrote'[q] = wrote[q]
           /\ claimed'[q] = claimed[q] /\ reply'[q] = reply[q]
BY DEF IInv, TypeOK, Act, Handle, Receive, FastPath, AcquireMutationLock, Recheck,
   FindMutationOutcome, Answer, Goto, EnsureVaultOwnership, GetItemForUpdate, RejectStaleBase,
   EvaluateInsert, UpsertItem, Commit, Reply, Fail

\* Only COMMIT changes the tables other than the sequence, and only a page of
\* changes moves a client that follows the feed.
LEMMA WhoWrites ==
    ASSUME [Next]_vars
    PROVE  /\ (\E r \in Request : Commit(r)) \/ UNCHANGED <<vaults, items, outcomes>>
           /\ (\E a \in Account, v \in Vault : ListChanges(a, v)) \/ UNCHANGED feed
BY DEF Next, Handle, vars, tables, locals, Receive, FastPath, AcquireMutationLock, Recheck,
   EnsureVaultOwnership, GetItemForUpdate, RejectStaleBase, EvaluateInsert, UpsertItem,
   Commit, Reply, Fail, ListChanges

\* An outcome on record stays.
LEMMA OutcomeStays ==
    ASSUME IInv, [Next]_vars, NEW k \in Key, outcomes[k].status # 0
    PROVE  outcomes'[k] = outcomes[k]
<1>1. CASE UNCHANGED outcomes
    BY <1>1
<1>2. CASE \E r \in Request : Commit(r)
  <2>1. PICK r \in Request : Commit(r)
      BY <1>2
  <2>2. key[r] # k
      BY <2>1 DEF Commit, IInv, StillFresh
  <2> QED BY <2>1, <2>2 DEF Commit, IInv, TypeOK
<1> QED BY <1>1, <1>2, WhoWrites

\* What a transaction that has written its row brings into the tables.
LEMMA Committed ==
    ASSUME IInv, NEW r \in Request, Commit(r), reply[r].status = 201, At(r) \in Vault \X Item
    PROVE  /\ key[r] \in Key /\ wrote[r].ciphertext = key[r]
           /\ items' = [items EXCEPT ![At(r)] = wrote[r]] /\ items'[At(r)] = wrote[r]
           /\ outcomes'[key[r]] = [status |-> 201, row |-> wrote[r]]
<1>1. key[r] \in Key /\ reply[r].row = wrote[r] /\ wrote[r].ciphertext = key[r]
    BY DEF Commit, IInv, KeyKnown, Decided
<1>2. reply[r] = [status |-> 201, row |-> wrote[r]]
    BY <1>1 DEF IInv, TypeOK, Response
<1> QED BY <1>1, <1>2 DEF Commit, IInv, TypeOK, Recorded

-----------------------------------------------------------------------------
(* Each part of the invariant is preserved.                                *)


\* COMMIT writes a row together with its outcome, and a page hands out stored
\* rows.
LEMMA RowsRecordedStep ==
    ASSUME IInv, RowsRecorded, NextRow, [Next]_vars
    PROVE  RowsRecorded'
<1> USE DEF IInv
<1>1. ASSUME NEW x \in Vault \X Item
      PROVE  (items[x] = NoRow \/ (items[x].revision > 0 /\ Outcome201(items[x])))'
  <2>1. CASE items'[x] = items[x]
    <3>1. items[x] \in Row
        BY DEF TypeOK
    <3>2. Outcome201(items[x]) => Outcome201(items[x])'
        BY <2>1, <3>1, OutcomeStays, ResponseType DEF Outcome201, Recorded
    <3> QED BY <2>1, <3>2 DEF RowsRecorded
  <2>2. CASE items'[x] # items[x]
    <3>1. PICK r \in Request : Commit(r)
        BY <2>2, WhoWrites
    <3>2. At(r) \in Vault \X Item
        BY <3>1, MutationStable DEF Commit
    <3>3. reply[r].status = 201
        BY <2>2, <3>1 DEF Commit
    <3>4. x = At(r) /\ items'[x] = wrote[r]
      <4>1. items' = [items EXCEPT ![At(r)] = wrote[r]]
          BY <3>1, <3>3 DEF Commit
      <4> QED BY <2>2, <3>2, <4>1 DEF TypeOK
    <3>5. wrote[r].revision > 0
        BY <3>1, <3>3, Fields DEF NextRow, HasRow, Commit, TypeOK
    <3>6. key[r] \in Key /\ wrote[r].ciphertext = key[r]
          /\ outcomes'[key[r]] = [status |-> 201, row |-> wrote[r]]
        BY <3>1, <3>2, <3>3, Committed
    <3> QED BY <3>4, <3>5, <3>6 DEF Outcome201
  <2> QED BY <2>1, <2>2
<1>2. ASSUME NEW f \in Account \X Vault, NEW i \in Item, feed'[f].got[i].revision > 0
      PROVE  Outcome201(feed[f].got[i])'
  <2>1. CASE feed'[f] = feed[f]
    <3>1. feed[f].got[i] \in Row
        BY DEF TypeOK
    <3>2. Outcome201(feed[f].got[i])
        BY <1>2, <2>1 DEF RowsRecorded
    <3> QED BY <2>1, <3>1, <3>2, OutcomeStays, ResponseType DEF Outcome201, Recorded
  <2>2. CASE feed'[f] # feed[f]
    <3>1. PICK a \in Account, v \in Vault : ListChanges(a, v)
        BY <2>2, WhoWrites
    <3> DEFINE page == Page(v, feed[<<a, v>>].cursor)
    <3>2. PICK last \in page : feed' = [feed EXCEPT ![<<a, v>>] =
             [cursor |-> items[<<v, last>>].sequence,
              got |-> [j \in Item |-> IF j \in page THEN items[<<v, j>>]
                                      ELSE feed[<<a, v>>].got[j]]]]
        BY <3>1 DEF ListChanges
    <3>3. UNCHANGED outcomes
        BY <3>1 DEF ListChanges, tables
    <3> HIDE DEF page
    <3>4. f = <<a, v>> /\ feed'[f].got[i] = IF i \in page THEN items[<<v, i>>] ELSE feed[f].got[i]
        BY <2>2, <3>2 DEF TypeOK
    <3>5. CASE i \in page
      <4>1. items[<<v, i>>] # NoRow
          BY <1>2, <3>4, <3>5 DEF NoRow
      <4>2. Outcome201(items[<<v, i>>])
          BY <4>1 DEF RowsRecorded
      <4> QED BY <3>3, <3>4, <3>5, <4>2 DEF Outcome201
    <3>6. CASE i \notin page
      <4>1. Outcome201(feed[f].got[i])
          BY <1>2, <3>4, <3>6 DEF RowsRecorded
      <4> QED BY <3>3, <3>4, <3>6, <4>1 DEF Outcome201
    <3> QED BY <3>5, <3>6
  <2> QED BY <2>1, <2>2
<1> QED BY <1>1, <1>2 DEF RowsRecorded

\* ensureVaultOwnership admits a request to a vault of its account, or to one
\* nobody has, which it then holds until it ends.
LEMMA AdmissionStep ==
    ASSUME IInv, Admission, OwnerWrites, RowsRecorded, [Next]_vars
    PROVE  Admission' /\ OwnerWrites'
<1> USE DEF IInv
<1> DEFINE P1(r) == Admitted(r) =>
             vaults[mutation(r).vault] = IF claimed[r] THEN None ELSE key[r][1]
           P2(r) == claimed[r] /\ HoldsMutationLock(r) => Admitted(r)
           P3(r) == pc[r] \in {"idle", "replay", "lock"} => ~claimed[r]
           P4(r, q) == claimed[r] /\ claimed[q] /\ HoldsMutationLock(r) /\ HoldsMutationLock(q)
                         => mutation(r).vault # mutation(q).vault
<1>0. SUFFICES /\ \A r \in Request : P1(r)' /\ P2(r)' /\ P3(r)'
               /\ \A r, q \in Request : r # q => P4(r, q)'
               /\ OwnerWrites'
    BY DEF Admission
<1>a. /\ \A r \in Request : P1(r) /\ P2(r) /\ P3(r)
      /\ \A r, q \in Request : r # q => P4(r, q)
    BY DEF Admission
<1>b. \A r \in Request : pc[r] # "idle" =>
        /\ key'[r] = key[r] /\ key[r][1] \in Account
        /\ mutation(r)' = mutation(r) /\ mutation(r).vault \in Vault
    BY MutationStable, Fields
<1>1. CASE UNCHANGED <<vaults, items, pc, claimed>>
  <2>1. OwnerWrites'
      BY <1>1 DEF OwnerWrites
  <2> QED BY <1>1, <1>a, <1>b, <2>1 DEF Admitted, HoldsMutationLock, InTransaction
<1>2. ASSUME NEW r \in Request, Act(r), ~Commit(r)
      PROVE  /\ \A q \in Request : P1(q)' /\ P2(q)' /\ P3(q)'
             /\ \A p, q \in Request : p # q => P4(p, q)'
             /\ OwnerWrites'
  <2>1. UNCHANGED <<vaults, items>>
      BY <1>2 DEF Act, Handle, tables, Receive, FastPath, AcquireMutationLock, Recheck,
         EnsureVaultOwnership, GetItemForUpdate, RejectStaleBase, EvaluateInsert, UpsertItem,
         Reply, Fail
  <2>2. OwnerWrites'
      BY <2>1 DEF OwnerWrites
  <2>3. \A q \in Request \ {r} : pc'[q] = pc[q] /\ claimed'[q] = claimed[q]
      BY <1>2, OthersUnchanged
  <2>4. \A q \in Request \ {r} : P1(q)' /\ P2(q)' /\ P3(q)'
      BY <1>a, <1>b, <2>1, <2>3 DEF Admitted, HoldsMutationLock, InTransaction
  <2>5. CASE EnsureVaultOwnership(r)
    <3> DEFINE v == mutation(r).vault
    <3>1. /\ pc[r] = "vault" /\ VaultInsertFree(r) /\ claimed'[r] = (vaults[v] = None)
          /\ pc'[r] \in {"select", "reply"}
          /\ pc'[r] = "select" => vaults[v] = None \/ vaults[v] = key[r][1]
        BY <2>5 DEF EnsureVaultOwnership, Answer, Goto, TypeOK
    <3>2. P1(r)' /\ P2(r)' /\ P3(r)'
        BY <1>b, <2>1, <3>1 DEF Admitted, HoldsMutationLock, InTransaction
    <3>3. ASSUME NEW q \in Request, q # r PROVE P4(r, q)' /\ P4(q, r)'
        BY <1>b, <2>3, <3>1, <3>3 DEF VaultInsertFree, HoldsMutationLock, InTransaction
    <3>4. ASSUME NEW p \in Request \ {r}, NEW q \in Request \ {r}, p # q PROVE P4(p, q)'
        BY <1>a, <1>b, <2>3, <3>4 DEF HoldsMutationLock, InTransaction
    <3> QED BY <2>2, <2>4, <3>2, <3>3, <3>4
  <2>6. CASE ~EnsureVaultOwnership(r)
    <3>1. /\ claimed'[r] = claimed[r]
          /\ \/ /\ pc[r] \in {"idle", "replay", "lock", "recheck"}
                /\ pc'[r] \in {"replay", "lock", "recheck", "vault", "reply", "done"}
             \/ Admitted(r) /\ pc'[r] \in {"write", "upsert", "commit", "done"}
             \/ pc[r] \in {"vault", "reply"} /\ pc'[r] = "done"
        BY <1>2, <2>6 DEF Act, Handle, Receive, FastPath, AcquireMutationLock, Recheck,
           FindMutationOutcome, Answer, Goto, GetItemForUpdate, RejectStaleBase, EvaluateInsert,
           UpsertItem, Reply, Fail, TypeOK, Step, Admitted
    <3>2. claimed'[r] /\ HoldsMutationLock(r)' => HoldsMutationLock(r)
        BY <1>a, <3>1 DEF Admitted, HoldsMutationLock, InTransaction
    <3>3. P1(r)' /\ P2(r)' /\ P3(r)'
        BY <1>a, <1>b, <2>1, <3>1 DEF Admitted, HoldsMutationLock, InTransaction
    <3>4. ASSUME NEW p \in Request, NEW q \in Request, p # q PROVE P4(p, q)'
        BY <1>a, <1>b, <2>3, <3>1, <3>2, <3>4 DEF HoldsMutationLock, InTransaction
    <3> QED BY <2>2, <2>4, <3>3, <3>4
  <2> QED BY <2>5, <2>6
<1>3. ASSUME NEW r \in Request, Commit(r)
      PROVE  /\ \A q \in Request : P1(q)' /\ P2(q)' /\ P3(q)'
             /\ \A p, q \in Request : p # q => P4(p, q)'
             /\ OwnerWrites'
  <2>1. /\ pc[r] = "commit" /\ pc'[r] = "reply" /\ UNCHANGED claimed
        /\ \A q \in Request \ {r} : pc'[q] = pc[q]
        /\ vaults' = IF claimed[r] THEN [vaults EXCEPT ![mutation(r).vault] = key[r][1]] ELSE vaults
      BY <1>3 DEF Commit, Goto, TypeOK
  <2>2. vaults[mutation(r).vault] = IF claimed[r] THEN None ELSE key[r][1]
      BY <1>a, <2>1 DEF Admitted
  <2>3. /\ vaults'[mutation(r).vault] = key[r][1]
        /\ \A w \in Vault : vaults[w] # None => vaults'[w] = vaults[w]
        /\ \A w \in Vault : w # mutation(r).vault => vaults'[w] = vaults[w]
      BY <1>b, <2>1, <2>2 DEF TypeOK
  <2>4. ASSUME NEW q \in Request PROVE P1(q)' /\ P2(q)' /\ P3(q)'
    <3>1. CASE q = r
        BY <2>1, <3>1 DEF Admitted, HoldsMutationLock, InTransaction
    <3>2. CASE q # r
      <4>1. P2(q)' /\ P3(q)'
          BY <1>a, <2>1, <3>2 DEF Admitted, HoldsMutationLock, InTransaction
      <4>2. P1(q)'
        <5>1. SUFFICES ASSUME Admitted(q)
                       PROVE  vaults'[mutation(q).vault] = IF claimed[q] THEN None ELSE key[q][1]
            BY <1>b, <2>1, <3>2 DEF Admitted
        <5>2. CASE ~claimed[q]
            BY <1>a, <1>b, <2>3, <5>1, <5>2, NoneAssumption DEF Admitted
        <5>3. CASE claimed[q]
          <6>1. mutation(q).vault # mutation(r).vault
              BY <1>a, <1>b, <2>1, <2>2, <3>2, <5>1, <5>3, NoneAssumption
                 DEF Admitted, HoldsMutationLock, InTransaction
          <6> QED BY <1>a, <1>b, <2>3, <5>1, <5>3, <6>1 DEF Admitted
        <5> QED BY <5>2, <5>3
      <4> QED BY <4>1, <4>2
    <3> QED BY <3>1, <3>2
  <2>5. ASSUME NEW p \in Request, NEW q \in Request, p # q PROVE P4(p, q)'
      BY <1>a, <1>b, <2>1, <2>5 DEF HoldsMutationLock, InTransaction
  <2>6. OwnerWrites'
    <3> SUFFICES ASSUME NEW x \in Vault \X Item, items'[x].revision > 0
                 PROVE  vaults'[x[1]] = items'[x].ciphertext[1]
        BY DEF OwnerWrites
    <3>1. At(r) \in Vault \X Item /\ At(r)[1] = mutation(r).vault
        BY <2>1, MutationStable
    <3>2. CASE items'[x] = items[x]
      <4>1. vaults[x[1]] = items[x].ciphertext[1] /\ items[x].ciphertext \in Key
        <5>1. items[x].revision > 0 /\ items[x] # NoRow
            BY <3>2 DEF NoRow
        <5> QED BY <5>1 DEF OwnerWrites, RowsRecorded, Outcome201
      <4> QED BY <2>3, <3>2, <4>1, Fields, NoneAssumption
    <3>3. CASE items'[x] # items[x]
      <4>1. reply[r].status = 201
          BY <1>3, <3>3 DEF Commit
      <4>2. items' = [items EXCEPT ![At(r)] = wrote[r]] /\ wrote[r].ciphertext = key[r]
          BY <1>3, <3>1, <4>1, Committed
      <4>3. x = At(r) /\ items'[x] = wrote[r]
          BY <3>1, <3>3, <4>2 DEF TypeOK
      <4> QED BY <2>3, <3>1, <4>2, <4>3
    <3> QED BY <3>2, <3>3
  <2> QED BY <2>4, <2>5, <2>6
<1>4. CASE \E a \in Account, v \in Vault : ListChanges(a, v)
    BY <1>1, <1>4 DEF ListChanges, tables, locals
<1>5. CASE UNCHANGED vars
    BY <1>1, <1>5 DEF vars, tables, locals
<1> QED
  <2>1. \/ \E r \in Request : Act(r)
        \/ \E a \in Account, v \in Vault : ListChanges(a, v)
        \/ UNCHANGED vars
      BY DEF Next, Act
  <2> QED BY <1>2, <1>3, <1>4, <1>5, <2>1

\* SELECT ... FOR UPDATE on a row that exists, and the write of a row, exclude
\* each other, so a locked row stays the row that was read.
LEMMA RowLocksStep ==
    ASSUME IInv, RowLocks, [Next]_vars
    PROVE  RowLocks'
<1> USE DEF IInv
<1> DEFINE Mid(r) == pc[r] \in {"write", "upsert", "commit"}
           P(r, q) == HoldsRowLock(r) /\ HoldsRowLock(q) => At(r) # At(q)
           Q(r) == Mid(r) /\ read[r].revision > 0 => items[At(r)] = read[r]
<1>0. SUFFICES (\A r, q \in Request : r # q => P(r, q)') /\ (\A r \in Request : Q(r)')
    BY DEF RowLocks
<1>a. (\A r, q \in Request : r # q => P(r, q)) /\ (\A r \in Request : Q(r))
    BY DEF RowLocks
<1>b. \A r \in Request : pc[r] # "idle" =>
        At(r)' = At(r) /\ At(r) \in Vault \X Item
    BY MutationStable
<1>1. CASE UNCHANGED <<items, pc, read, reply>>
  <2>1. \A r \in Request : Q(r)'
      BY <1>1, <1>a, <1>b
  <2>2. \A r \in Request : HoldsRowLock(r)' = HoldsRowLock(r) /\ (HoldsRowLock(r) => pc[r] # "idle")
      BY <1>1 DEF HoldsRowLock
  <2> QED BY <1>a, <1>b, <2>1, <2>2
<1>2. ASSUME NEW r \in Request, Act(r)
      PROVE  (\A p, q \in Request : p # q => P(p, q)') /\ (\A q \in Request : Q(q)')
  <2>1. \A q \in Request \ {r} : HoldsRowLock(q)' = HoldsRowLock(q)
      BY <1>2, OthersUnchanged DEF HoldsRowLock
  <2>2. \A q \in Request : HoldsRowLock(q) => pc[q] # "idle"
      BY DEF HoldsRowLock
  <2>3. ASSUME NEW p \in Request \ {r}, NEW q \in Request \ {r}, p # q PROVE P(p, q)'
      BY <1>a, <1>b, <2>1, <2>2, <2>3
  <2>4. HoldsRowLock(r)' => HoldsRowLock(r) \/ RowLockFree(r)
      BY <1>2, Fields, BareType DEF Act, Handle, Receive, FastPath, AcquireMutationLock, Recheck,
         FindMutationOutcome, Answer, Goto, EnsureVaultOwnership, GetItemForUpdate, RejectStaleBase,
         EvaluateInsert, UpsertItem, Commit, Reply, Fail, TypeOK, HoldsRowLock
  <2>5. HoldsRowLock(r)' => pc[r] # "idle"
      BY <1>2 DEF Act, Handle, Receive, FastPath, AcquireMutationLock, Recheck,
         FindMutationOutcome, Answer, Goto, EnsureVaultOwnership, GetItemForUpdate, RejectStaleBase,
         EvaluateInsert, UpsertItem, Commit, Reply, Fail, TypeOK, HoldsRowLock
  <2>6. ASSUME NEW q \in Request, q # r PROVE P(r, q)' /\ P(q, r)'
      BY <1>a, <1>b, <2>1, <2>2, <2>4, <2>5, <2>6 DEF RowLockFree
  <2>7. ASSUME NEW q \in Request \ {r} PROVE Q(q)'
    <3>1. pc'[q] = pc[q] /\ read'[q] = read[q]
        BY <1>2, OthersUnchanged
    <3>2. SUFFICES ASSUME Mid(q), read[q].revision > 0 PROVE items'[At(q)] = read[q]
        BY <1>b, <3>1
    <3>3. items[At(q)] = read[q] /\ HoldsRowLock(q) /\ At(q) \in Vault \X Item
        BY <1>a, <1>b, <3>2 DEF HoldsRowLock
    <3>4. CASE Commit(r) /\ reply[r].status = 201
      <4>1. HoldsRowLock(r) /\ At(r) \in Vault \X Item
          BY <1>b, <3>4 DEF Commit, HoldsRowLock
      <4>2. At(r) # At(q)
          BY <1>a, <3>3, <4>1
      <4> QED BY <3>3, <3>4, <4>1, <4>2 DEF Commit, TypeOK
    <3>5. CASE ~(Commit(r) /\ reply[r].status = 201)
      <4>1. items' = items
          BY <1>2, <3>5 DEF Act, Handle, tables, Receive, FastPath, AcquireMutationLock, Recheck,
             EnsureVaultOwnership, GetItemForUpdate, RejectStaleBase, EvaluateInsert, UpsertItem,
             Commit, Reply, Fail
      <4> QED BY <3>3, <4>1
    <3> QED BY <3>4, <3>5
  <2>8. Q(r)'
    <3>1. CASE GetItemForUpdate(r)
        BY <1>b, <3>1 DEF GetItemForUpdate, tables, Goto, TypeOK
    <3>2. CASE RejectStaleBase(r) \/ EvaluateInsert(r) \/ UpsertItem(r)
      <4>1. UNCHANGED <<items, read>> /\ Mid(r)
          BY <3>2 DEF RejectStaleBase, EvaluateInsert, UpsertItem, tables
      <4> QED BY <1>a, <1>b, <4>1
    <3>3. CASE ~(GetItemForUpdate(r) \/ RejectStaleBase(r) \/ EvaluateInsert(r) \/ UpsertItem(r))
      <4>1. ~Mid(r)'
          BY <1>2, <3>3 DEF Act, Handle, Receive, FastPath, AcquireMutationLock, Recheck,
             FindMutationOutcome, Answer, Goto, EnsureVaultOwnership, Commit, Reply, Fail, TypeOK
      <4> QED BY <4>1
    <3> QED BY <3>1, <3>2, <3>3
  <2> QED BY <2>3, <2>6, <2>7, <2>8
<1>3. CASE \E a \in Account, v \in Vault : ListChanges(a, v)
    BY <1>1, <1>3 DEF ListChanges, tables, locals
<1>4. CASE UNCHANGED vars
    BY <1>1, <1>4 DEF vars, tables, locals
<1> QED
  <2>1. \/ \E r \in Request : Act(r)
        \/ \E a \in Account, v \in Vault : ListChanges(a, v)
        \/ UNCHANGED vars
      BY DEF Next, Act
  <2> QED BY <1>2, <1>3, <1>4, <2>1

\* nextval never goes back.
LEMMA SequenceGrows ==
    ASSUME IInv, [Next]_vars
    PROVE  sequence' \in Nat /\ sequence \in Nat /\ sequence <= sequence'
<1>1. sequence' = sequence \/ sequence' = sequence + 1
    BY DEF Next, Handle, vars, tables, locals, Receive, FastPath, AcquireMutationLock, Recheck,
       EnsureVaultOwnership, GetItemForUpdate, RejectStaleBase, EvaluateInsert, UpsertItem,
       Commit, Reply, Fail, ListChanges
<1>2. sequence \in Nat
    BY DEF IInv, TypeOK
<1> QED BY <1>1, <1>2

\* The upserted row, whichever of the two numbers it took.
LEMMA Upserted ==
    ASSUME IInv, NextRow, RowsRecorded, NEW r \in Request, UpsertItem(r), At(r) \in Vault \X Item
    PROVE  /\ wrote'[r].revision = wrote[r].revision
           /\ wrote'[r].sequence \in 1 .. sequence'
           /\ items[At(r)].revision > 0 => wrote'[r].sequence = sequence + 1
           /\ items[At(r)].revision = 0 => items[At(r)].sequence = 0
<1> DEFINE drawn == IF items[At(r)].revision = 0 THEN wrote[r].sequence ELSE sequence + 1
<1>1. wrote[r] \in Row /\ items[At(r)] \in Row
    BY DEF IInv, TypeOK
<1>2. wrote[r].sequence \in 1 .. sequence /\ sequence \in Nat
    BY DEF UpsertItem, NextRow, HasRow, IInv, TypeOK
<1>3. wrote'[r] = [wrote[r] EXCEPT !.sequence = drawn]
    BY DEF UpsertItem, IInv, TypeOK
<1>4. wrote'[r].revision = wrote[r].revision /\ wrote'[r].sequence = drawn
  <2> HIDE DEF drawn
  <2> QED BY <1>1, <1>3 DEF Row
<1>5. drawn \in 1 .. sequence' /\ (items[At(r)].revision > 0 => drawn = sequence + 1)
    BY <1>1, <1>2, Fields DEF UpsertItem
<1>6. items[At(r)].revision = 0 => items[At(r)] = NoRow
    BY <1>1, Fields DEF RowsRecorded
<1> QED BY <1>4, <1>5, <1>6 DEF NoRow

\* The row a request means to write follows the one it read.
LEMMA NextRowStep ==
    ASSUME IInv, NextRow, RowsRecorded, [Next]_vars
    PROVE  NextRow'
<1> USE DEF IInv
<1> DEFINE P(r) == HasRow(r) =>
             /\ mutation(r).base = read[r].revision
             /\ wrote[r].revision = read[r].revision + 1
             /\ wrote[r].sequence \in 1 .. sequence
<1>0. SUFFICES ASSUME NEW q \in Request PROVE P(q)'
    BY DEF NextRow
<1>a. P(q)
    BY DEF NextRow
<1>b. pc[q] # "idle" => mutation(q)' = mutation(q) /\ At(q) \in Vault \X Item
    BY MutationStable
<1>c. sequence' \in Nat /\ sequence \in Nat /\ sequence <= sequence'
    BY SequenceGrows
<1>1. CASE /\ pc'[q] = pc[q] /\ read'[q] = read[q] /\ wrote'[q] = wrote[q]
           /\ reply'[q] = reply[q]
    BY <1>1, <1>a, <1>b, <1>c DEF HasRow
<1>2. ASSUME NEW r \in Request, Act(r), r # q PROVE P(q)'
    BY <1>1, <1>2, OthersUnchanged
<1>3. CASE EvaluateInsert(q)
  <2> DEFINE row == [revision |-> read[q].revision + 1, deleted |-> mutation(q).deleted,
                     ciphertext |-> key[q], sequence |-> sequence + 1]
  <2>1. /\ wrote'[q] = row /\ read'[q] = read[q] /\ sequence' = sequence + 1
        /\ mutation(q).base = read[q].revision /\ pc[q] = "write"
      BY <1>3 DEF EvaluateInsert, TypeOK
  <2> QED BY <1>b, <1>c, <2>1
<1>4. CASE UpsertItem(q)
  <2>1. pc[q] = "upsert" /\ read'[q] = read[q]
      BY <1>4 DEF UpsertItem
  <2>2. wrote'[q].revision = wrote[q].revision /\ wrote'[q].sequence \in 1 .. sequence'
      BY <1>4, <1>b, <2>1, Upserted
  <2> QED BY <1>a, <1>b, <2>1, <2>2 DEF HasRow
<1>5. CASE Act(q) /\ ~EvaluateInsert(q) /\ ~UpsertItem(q)
  <2>1. ~HasRow(q)'
      BY <1>5, BareType DEF Act, Handle, Receive, FastPath, AcquireMutationLock, Recheck,
         FindMutationOutcome, Answer, Goto, EnsureVaultOwnership, GetItemForUpdate,
         RejectStaleBase, Commit, Reply, Fail, TypeOK, HasRow
  <2> QED BY <2>1
<1>6. CASE (\E a \in Account, v \in Vault : ListChanges(a, v)) \/ UNCHANGED vars
    BY <1>1, <1>6 DEF ListChanges, vars, locals
<1> QED
  <2>1. (\E r \in Request : Act(r)) \/ (\E a \in Account, v \in Vault : ListChanges(a, v))
        \/ UNCHANGED vars
      BY DEF Next, Act
  <2> QED BY <1>2, <1>3, <1>4, <1>5, <1>6, <2>1

\* A stored number has been handed out before, and an upsert that found a row
\* has taken a fresh one.
LEMMA ForwardStep ==
    ASSUME IInv, Forward, NextRow, RowsRecorded, RowLocks, [Next]_vars
    PROVE  Forward'
<1> USE DEF IInv
<1> DEFINE Ready(r) == pc[r] = "commit" /\ reply[r].status = 201
<1>c. sequence' \in Nat /\ sequence \in Nat /\ sequence <= sequence'
    BY SequenceGrows
<1>d. \A r \in Request : pc[r] # "idle" => At(r)' = At(r) /\ At(r) \in Vault \X Item
    BY MutationStable
<1>e. TypeOK'
    BY TypeStep DEF TypeK
<1>1. ASSUME NEW x \in Vault \X Item PROVE items'[x].sequence <= sequence'
  <2>1. CASE items'[x] = items[x]
      BY <1>c, <2>1, Fields DEF Forward, TypeOK
  <2>2. CASE items'[x] # items[x]
    <3>1. PICK r \in Request : Commit(r)
        BY <2>2, WhoWrites
    <3>2. Ready(r) /\ items' = [items EXCEPT ![At(r)] = wrote[r]]
        BY <2>2, <3>1 DEF Commit
    <3>3. items'[x] = wrote[r]
        BY <2>2, <3>2, <1>d DEF TypeOK
    <3>4. wrote[r].sequence \in 1 .. sequence
        BY <3>2 DEF NextRow, HasRow
    <3> QED BY <1>c, <3>3, <3>4
  <2> QED BY <2>1, <2>2
<1>2. ASSUME NEW q \in Request, Ready(q)' PROVE (wrote[q].sequence > items[At(q)].sequence)'
  <2>1. ASSUME Ready(q), pc'[q] = pc[q], wrote'[q] = wrote[q]
        PROVE  (wrote[q].sequence > items[At(q)].sequence)'
    <3>1. At(q)' = At(q) /\ At(q) \in Vault \X Item
        BY <1>d, <2>1
    <3>2. items'[At(q)] = items[At(q)]
      <4>1. SUFFICES ASSUME items'[At(q)] # items[At(q)] PROVE FALSE
          OBVIOUS
      <4>2. PICK r \in Request : Commit(r)
          BY <4>1, WhoWrites
      <4>3. Ready(r) /\ items' = [items EXCEPT ![At(r)] = wrote[r]] /\ r # q
          BY <2>1, <4>1, <4>2 DEF Commit, Goto, TypeOK
      <4>4. At(r) = At(q)
          BY <1>d, <3>1, <4>1, <4>3 DEF TypeOK
      <4> QED BY <2>1, <4>3, <4>4 DEF RowLocks, HoldsRowLock
    <3> QED BY <2>1, <3>1, <3>2 DEF Forward
  <2>2. CASE UpsertItem(q)
    <3>1. At(q)' = At(q) /\ At(q) \in Vault \X Item /\ UNCHANGED items
        BY <1>d, <2>2 DEF UpsertItem
    <3>2. /\ wrote'[q].sequence \in 1 .. sequence'
          /\ items[At(q)].revision > 0 => wrote'[q].sequence = sequence + 1
          /\ items[At(q)].revision = 0 => items[At(q)].sequence = 0
        BY <2>2, <3>1, Upserted
    <3>3. items[At(q)].sequence <= sequence /\ items[At(q)].revision \in Nat
          /\ items[At(q)].sequence \in Nat
        BY <3>1, Fields DEF Forward, TypeOK
    <3> QED BY <1>c, <3>1, <3>2, <3>3
  <2>3. CASE Act(q) /\ ~UpsertItem(q)
    <3>1. ~Ready(q)'
        BY <2>3, BareType DEF Act, Handle, Receive, FastPath, AcquireMutationLock, Recheck,
           FindMutationOutcome, Answer, Goto, EnsureVaultOwnership, GetItemForUpdate,
           RejectStaleBase, EvaluateInsert, Commit, Reply, Fail, TypeOK
    <3> QED BY <1>2, <3>1
  <2>4. ASSUME NEW r \in Request, Act(r), r # q
        PROVE  (wrote[q].sequence > items[At(q)].sequence)'
    <3>1. pc'[q] = pc[q] /\ wrote'[q] = wrote[q] /\ reply'[q] = reply[q]
        BY <2>4, OthersUnchanged
    <3> QED BY <1>2, <2>1, <3>1
  <2>5. CASE (\E a \in Account, v \in Vault : ListChanges(a, v)) \/ UNCHANGED vars
      BY <1>2, <2>1, <2>5 DEF ListChanges, vars, locals
  <2> QED
    <3>1. (\E r \in Request : Act(r)) \/ (\E a \in Account, v \in Vault : ListChanges(a, v))
          \/ UNCHANGED vars
        BY DEF Next, Act
    <3> QED BY <2>2, <2>3, <2>4, <2>5, <3>1
<1> QED BY <1>1, <1>2 DEF Forward

-----------------------------------------------------------------------------
(* The theorems.                                                           *)

\* The initial state satisfies the row invariant.
LEMMA InitRows == Init => RowInv
<1> SUFFICES ASSUME Init PROVE RowInv
    OBVIOUS
<1>1. NoRow.revision = 0 /\ NoRow.sequence = 0
    BY DEF NoRow
<1>2. RowsRecorded /\ OwnerWrites
    BY <1>1 DEF Init, RowsRecorded, OwnerWrites
<1>3. Admission
    BY DEF Init, Admission, Admitted, HoldsMutationLock, InTransaction
<1>4. RowLocks /\ NextRow /\ Forward
    BY <1>1 DEF Init, RowLocks, NextRow, Forward, HoldsRowLock, HasRow
<1> QED BY <1>2, <1>3, <1>4 DEF RowInv

\* The row invariant holds throughout, next to the one of the outcomes.
LEMMA RowsInductive == Spec => [](IInv /\ RowInv)
<1>1. IInv /\ RowInv /\ [Next]_vars => RowInv'
    BY RowsRecordedStep, AdmissionStep, RowLocksStep, NextRowStep, ForwardStep DEF RowInv
<1> QED BY <1>1, InitIInv, StepIInv, InitRows, PTL DEF Spec

\* A row belongs to the account that owns its vault, also when two accounts
\* race to create the vault (ensureVaultOwnership in sync/store.mjs).
THEOREM OwnersWrite == Spec => []OwnerWrites
<1>1. RowInv => OwnerWrites
    BY DEF RowInv
<1> QED BY <1>1, RowsInductive, PTL

\* A client that follows GET /changes holds only rows whose 201 outcome is on
\* record.
THEOREM FeedRecorded == Spec => []FeedShowsOutcomes
<1>1. RowInv => FeedShowsOutcomes
    BY DEF RowInv, RowsRecorded, Outcome201, FeedShowsOutcomes
<1> QED BY <1>1, RowsInductive, PTL

\* The step that changes a row is the COMMIT of a transaction that wrote it.
LEMMA ChangeIsCommit ==
    ASSUME IInv, [Next]_vars, NEW x \in Vault \X Item, items'[x] # items[x]
    PROVE  \E r \in Request : /\ Commit(r) /\ pc[r] = "commit" /\ reply[r].status = 201
                              /\ x = At(r) /\ items'[x] = wrote[r]
                              /\ wrote[r].ciphertext = key[r]
<1>1. PICK r \in Request : Commit(r)
    BY WhoWrites
<1>2. At(r) \in Vault \X Item /\ pc[r] = "commit"
    BY <1>1, MutationStable DEF Commit
<1>3. reply[r].status = 201
    BY <1>1 DEF Commit
<1>4. items' = [items EXCEPT ![At(r)] = wrote[r]] /\ wrote[r].ciphertext = key[r]
    BY <1>1, <1>2, <1>3, Committed
<1>5. x = At(r) /\ items'[x] = wrote[r]
    BY <1>2, <1>4 DEF IInv, TypeOK
<1> QED BY <1>1, <1>2, <1>3, <1>4, <1>5

\* A mutation with baseRevision > 0 replaces exactly that revision by the next
\* one (getItemForUpdate's FOR UPDATE in sync/store.mjs).
THEOREM EditsCompareAndSwap == Spec => EditIsCompareAndSwap
<1> DEFINE A == \A x \in Vault \X Item : items'[x] # items[x] =>
                  LET base == sent[items'[x].ciphertext].base
                  IN  base > 0 => /\ items[x].revision = base
                                  /\ items'[x].revision = base + 1
<1>1. ASSUME IInv, RowInv, [Next]_vars PROVE [A]_vars
  <2>1. ASSUME NEW x \in Vault \X Item, items'[x] # items[x],
               sent[items'[x].ciphertext].base > 0
        PROVE  /\ items[x].revision = sent[items'[x].ciphertext].base
               /\ items'[x].revision = sent[items'[x].ciphertext].base + 1
    <3>1. PICK r \in Request : /\ pc[r] = "commit" /\ reply[r].status = 201
                               /\ x = At(r) /\ items'[x] = wrote[r]
                               /\ wrote[r].ciphertext = key[r]
        BY <1>1, <2>1, ChangeIsCommit
    <3>2. sent[items'[x].ciphertext] = mutation(r)
        BY <3>1 DEF mutation
    <3>3. mutation(r).base = read[r].revision /\ wrote[r].revision = read[r].revision + 1
        BY <1>1, <3>1 DEF RowInv, NextRow, HasRow
    <3>4. items[x] = read[r]
        BY <1>1, <2>1, <3>1, <3>2, <3>3 DEF RowInv, RowLocks
    <3> QED BY <3>1, <3>2, <3>3, <3>4
  <2> QED BY <2>1
<1> QED BY <1>1, RowsInductive, PTL DEF Spec, EditIsCompareAndSwap

\* A change moves its item forward in the feed, also when an insert had to
\* wait for another writer (the second nextval of upsertItem).
THEOREM ItemsMoveForward == Spec => ItemMovesForward
<1> DEFINE A == \A x \in Vault \X Item : items'[x] # items[x] =>
                  items'[x].sequence > items[x].sequence
<1>1. ASSUME IInv, RowInv, [Next]_vars PROVE [A]_vars
    BY <1>1, ChangeIsCommit DEF RowInv, Forward
<1> QED BY <1>1, RowsInductive, PTL DEF Spec, ItemMovesForward

-----------------------------------------------------------------------------
(* Waiting.                                                                *)

\* The mutation lock, the uncommitted vault row and the item row are locked in
\* this order, so a request only ever waits for one that is further on
\* (acquireMutationLock, ensureVaultOwnership, getItemForUpdate, upsertItem).
THEOREM LocksInOrder == Spec => []WaitsAscend
<1>1. ASSUME IInv, RowInv, NEW r \in Request, NEW q \in Request, WaitsFor(r, q)
      PROVE  Stage(r) < Stage(q)
  <2>1. q # r
      BY <1>1 DEF WaitsFor
  <2>2. CASE pc[r] = "lock" /\ HoldsMutationLock(q)
      BY <2>2 DEF Stage, HoldsMutationLock, InTransaction
  <2>3. CASE pc[r] = "vault" /\ claimed[q] /\ HoldsMutationLock(q)
    <3>1. Admitted(q)
        BY <1>1, <2>3 DEF RowInv, Admission
    <3> QED BY <2>3, <3>1 DEF Stage, Admitted
  <2>4. CASE pc[r] \in {"select", "upsert"} /\ HoldsRowLock(q) /\ At(q) = At(r)
    <3>1. Stage(q) = 5
        BY <2>4 DEF Stage, HoldsRowLock
    <3>2. ~HoldsRowLock(r)
        BY <1>1, <2>1, <2>4 DEF RowInv, RowLocks
    <3>3. Stage(r) \in {3, 4}
        BY <2>4, <3>2 DEF Stage
    <3> QED BY <3>1, <3>3
  <2> QED BY <1>1, <2>2, <2>3, <2>4 DEF WaitsFor
<1>2. IInv /\ RowInv => WaitsAscend
    BY <1>1 DEF WaitsAscend
<1> QED BY <1>2, RowsInductive, PTL

\* No lock keeps the request from its next step.
Unblocked(r) == UnderWay(r) /\ \A q \in Request : ~WaitsFor(r, q)

\* When requests are under way, one of them waits for nobody.
NoWaitCycle == (\E r \in Request : UnderWay(r)) => \E r \in Request : Unblocked(r)

\* Where waits ascend, the request that is furthest on waits for nobody.
LEMMA FurthestIsUnblocked == WaitsAscend => NoWaitCycle
<1> SUFFICES ASSUME WaitsAscend, NEW r \in Request, UnderWay(r)
             PROVE  \E q \in Request : Unblocked(q)
    BY DEF NoWaitCycle
<1>1. \A q \in Request : Stage(q) \in 0 .. 5 /\ (Stage(q) > 0 => UnderWay(q))
    BY DEF Stage, UnderWay
<1>2. \A p, q \in Request : WaitsFor(p, q) => Stage(p) < Stage(q)
    BY DEF WaitsAscend
<1> DEFINE Someone(n) == \E q \in Request : Stage(q) = n
           Further(n) == \E q \in Request : Stage(q) > n
<1>3. ASSUME NEW n \in 0 .. 5, NEW q \in Request, UnderWay(q), Stage(q) = n, ~Further(n)
      PROVE  Unblocked(q)
    BY <1>2, <1>3 DEF Unblocked
<1>4. \A n \in 0 .. 5 : Further(n) => \E m \in 0 .. 5 : m > n /\ Someone(m)
    BY <1>1
<1>5. \A n \in 1 .. 5 : Someone(n) /\ ~Further(n) => \E q \in Request : Unblocked(q)
    BY <1>1, <1>3
<1>6. Someone(Stage(r)) /\ Stage(r) \in 0 .. 5
    BY <1>1
<1>7. ~Further(5)
    BY <1>1
<1> HIDE DEF Someone, Further
<1>8. CASE \E n \in 1 .. 5 : Someone(n)
  <2>1. \E n \in 1 .. 5 : Someone(n) /\ ~Further(n)
    <3>1. \A n \in 1 .. 5 : Further(n) => \E m \in 1 .. 5 : m > n /\ Someone(m)
        BY <1>4
    <3> QED BY <1>7, <1>8, <3>1
  <2> QED BY <1>5, <2>1
<1>9. CASE ~\E n \in 1 .. 5 : Someone(n)
  <2>1. Stage(r) = 0 /\ ~Further(0)
      BY <1>4, <1>6, <1>9
  <2> QED BY <1>3, <2>1
<1> QED BY <1>8, <1>9

\* Whatever requests are under way, on whatever vaults and items, the locks
\* never leave them all waiting on each other.
THEOREM NoCircleOfWaits == Spec => []NoWaitCycle
BY LocksInOrder, FurthestIsUnblocked, PTL

-----------------------------------------------------------------------------
(* The abstract store.                                                     *)

\* What an open transaction has made of its mutation: the row it will write is
\* the one asked for, and a 409 shows the row it read, which is not the base.
Verdict ==
    /\ \A r \in Request : HasRow(r) => wrote[r].deleted = mutation(r).deleted
    /\ \A r \in Request : pc[r] = "commit" /\ reply[r].status = 409 =>
         reply[r].row = read[r] /\ read[r].revision \notin {0, mutation(r).base}

\* Both halves are settled in the step that looks at the base revision, and
\* stay until the transaction ends.
LEMMA VerdictStep ==
    ASSUME IInv, Verdict, [Next]_vars
    PROVE  Verdict'
<1> USE DEF IInv
<1> DEFINE V(r) == /\ HasRow(r) => wrote[r].deleted = mutation(r).deleted
                   /\ pc[r] = "commit" /\ reply[r].status = 409 =>
                        reply[r].row = read[r] /\ read[r].revision \notin {0, mutation(r).base}
<1>1. \A q \in Request : V(q)
    BY DEF Verdict
<1>2. ASSUME NEW q \in Request, pc[q] # "idle" PROVE mutation(q)' = mutation(q)
    BY <1>2, MutationStable
<1>3. ASSUME NEW q \in Request,
             pc'[q] = pc[q] /\ read'[q] = read[q] /\ wrote'[q] = wrote[q] /\ reply'[q] = reply[q]
      PROVE  V(q)'
    BY <1>1, <1>2, <1>3 DEF HasRow
<1>4. ASSUME NEW r \in Request, Act(r), NEW q \in Request
      PROVE  V(q)'
  <2>1. CASE q # r
      BY <1>3, <1>4, <2>1, OthersUnchanged
  <2>2. CASE q = r /\ (EvaluateInsert(r) \/ UpsertItem(r) \/ RejectStaleBase(r))
    <3>1. mutation(r)' = mutation(r) /\ pc[r] # "idle"
        BY <1>2, <2>2 DEF EvaluateInsert, UpsertItem, RejectStaleBase
    <3>2. CASE EvaluateInsert(r)
        BY <2>2, <3>1, <3>2 DEF EvaluateInsert, Goto, HasRow, TypeOK
    <3>3. CASE UpsertItem(r)
      <4>1. wrote[r].deleted = mutation(r).deleted
          BY <1>1, <3>3 DEF UpsertItem, HasRow
      <4>2. wrote'[r].deleted = wrote[r].deleted /\ pc'[r] = "commit" /\ reply'[r].status = 201
          BY <3>3 DEF UpsertItem, Goto, TypeOK, Row
      <4> QED BY <2>2, <3>1, <4>1, <4>2
    <3>4. CASE RejectStaleBase(r)
      <4>1. pc'[r] = "commit" /\ read' = read /\ mutation(r).base # read[r].revision
            /\ reply'[r] = IF read[r].revision = 0 THEN Bare(400)
                           ELSE [status |-> 409, row |-> read[r]]
          BY <3>4 DEF RejectStaleBase, Goto, TypeOK
      <4>2. ~HasRow(r)'
          BY <4>1, BareType DEF HasRow
      <4> QED BY <2>2, <3>1, <4>1, <4>2, BareType
    <3> QED BY <2>2, <3>2, <3>3, <3>4
  <2>3. CASE q = r /\ ~(EvaluateInsert(r) \/ UpsertItem(r) \/ RejectStaleBase(r))
    <3>1. pc'[r] \notin {"upsert", "commit"}
        BY <1>4, <2>3 DEF Act, Handle, Receive, FastPath, AcquireMutationLock, Recheck,
           FindMutationOutcome, Answer, Goto, EnsureVaultOwnership, GetItemForUpdate,
           Commit, Reply, Fail, TypeOK
    <3> QED BY <2>3, <3>1 DEF HasRow
  <2> QED BY <2>1, <2>2, <2>3
<1>5. CASE UNCHANGED locals
    BY <1>3, <1>5 DEF locals, Verdict
<1>6. (\E r \in Request : Act(r)) \/ UNCHANGED locals
    BY DEF Next, Act, vars, ListChanges
<1>7. CASE \E r \in Request : Act(r)
    BY <1>4, <1>7 DEF Verdict
<1> QED BY <1>5, <1>6, <1>7

\* A mutation sent is one the store may wait for, and what it asks for.
LEMMA AskedType ==
    ASSUME NEW m \in Mutation
    PROVE  /\ Asked(m) \in Store!Bodies
           /\ Asked(m).place = <<m.vault, m.item>> /\ Asked(m).base = m.base
           /\ Asked(m).deleted = m.deleted
BY Fields DEF Asked, Store!Bodies

\* A step that gives one mutation another outcome.
LEMMA Tabulated ==
    ASSUME NEW k \in Key, NEW o, \A j \in Key : Outcomes'[j] = IF j = k THEN o ELSE Outcomes[j]
    PROVE  Outcomes' = [Outcomes EXCEPT ![k] = o]
<1>1. Outcomes' = [j \in Key |-> Outcomes'[j]] /\ Outcomes = [j \in Key |-> Outcomes[j]]
    BY DEF Outcomes
<1> HIDE DEF Outcomes
<1> QED BY <1>1

\* What a transaction about to COMMIT finds, as a client sees it.
LEMMA CommitFinds ==
    ASSUME IInv, NEW r \in Request, Commit(r), At(r) \in Vault \X Item
    PROVE  /\ key[r] \in Key /\ mutation(r) \in Mutation /\ Bodies' = Bodies
           /\ Bodies[key[r]] = Asked(mutation(r)) /\ Asked(mutation(r)).place = At(r)
           /\ Outcomes[key[r]].status = 0 /\ Rows[At(r)] = Shown(items[At(r)])
<1>1. key[r] \in Key /\ mutation(r) \in Mutation /\ mutation(r) # None
    BY NoneAssumption DEF IInv, Commit, KeyKnown, mutation
<1>2. Bodies' = Bodies /\ Bodies[key[r]] = Asked(mutation(r)) /\ Asked(mutation(r)).place = At(r)
    BY <1>1, AskedType DEF Commit, Bodies, mutation, At
<1>3. Outcomes[key[r]].status = 0 /\ Rows[At(r)] = Shown(items[At(r)])
    BY <1>1 DEF IInv, Commit, StillFresh, Outcomes, Rows
<1> QED BY <1>1, <1>2, <1>3

\* A recorded answer becomes the outcome of its mutation.
LEMMA CommitRecords ==
    ASSUME IInv, NEW r \in Request, Commit(r), NEW status \in Recorded, reply[r].status = status
    PROVE  Outcomes' = [Outcomes EXCEPT ![key[r]] = [status |-> status, row |-> Shown(reply[r].row)]]
<1> DEFINE o == [status |-> status, row |-> Shown(reply[r].row)]
<1>1. key[r] \in Key /\ outcomes' = [outcomes EXCEPT ![key[r]] = reply[r]]
    BY DEF IInv, Commit, KeyKnown
<1>2. \A k \in Key : outcomes'[k] = IF k = key[r] THEN reply[r] ELSE outcomes[k]
    BY <1>1 DEF IInv, TypeOK
<1>3. \A k \in Key : Outcomes'[k] = IF k = key[r] THEN o ELSE Outcomes[k]
    BY <1>2 DEF Outcomes
<1> HIDE DEF o
<1>4. Outcomes' = [Outcomes EXCEPT ![key[r]] = o]
    BY <1>1, <1>3, Tabulated
<1> QED BY <1>4 DEF o

\* Only a 201 writes a row.
LEMMA CommitWrites ==
    ASSUME IInv, NEW r \in Request, Commit(r), At(r) \in Vault \X Item
    PROVE  Rows' = IF reply[r].status = 201 THEN [Rows EXCEPT ![At(r)] = Shown(wrote[r])] ELSE Rows
<1>1. CASE reply[r].status = 201
  <2>1. items' = [items EXCEPT ![At(r)] = wrote[r]]
      BY <1>1, Committed
  <2>2. \A x \in Vault \X Item : items'[x] = IF x = At(r) THEN wrote[r] ELSE items[x]
      BY <2>1 DEF IInv, TypeOK
  <2> QED BY <1>1, <2>2 DEF Rows
<1>2. CASE reply[r].status # 201
    BY <1>2 DEF Commit, Rows
<1> QED BY <1>1, <1>2

\* A COMMIT serves its mutation in one step of the store, or changes nothing
\* a client sees.
LEMMA CommitServes ==
    ASSUME IInv, RowInv, Verdict, [Next]_vars, NEW r \in Request, Commit(r)
    PROVE  Store!RacyNext \/ UNCHANGED <<Bodies, Rows, Outcomes>>
<1> DEFINE k == key[r]
           m == mutation(r)
<1>1. At(r) \in Vault \X Item /\ pc[r] = "commit"
    BY MutationStable DEF Commit
<1>2. /\ k \in Key /\ m \in Mutation /\ Bodies' = Bodies
      /\ Bodies[k] = Asked(m) /\ Asked(m).place = At(r)
      /\ Outcomes[k].status = 0 /\ Rows[At(r)] = Shown(items[At(r)])
    BY <1>1, CommitFinds
<1>3. Store!Waiting(k) /\ Store!Current(k) = Shown(items[At(r)])
    BY <1>2, AskedType DEF Store!Waiting, Store!Current
<1>4. Bodies[k].base = m.base /\ Bodies[k].deleted = m.deleted /\ m.base \in Nat
    BY <1>2, AskedType, Fields
<1>5. items[At(r)].revision \in Nat /\ Shown(items[At(r)]).revision = items[At(r)].revision
    BY <1>1, Fields DEF IInv, TypeOK, Shown
<1>6. pc[r] = "commit" /\ read[r].revision > 0 => items[At(r)] = read[r]
    BY DEF RowInv, RowLocks
<1>10. Bodies[k].place = At(r)
    BY <1>2
<1>7. CASE reply[r].status = 201
  <2>1. m.base = read[r].revision /\ wrote[r].revision = m.base + 1
        /\ wrote[r].deleted = m.deleted /\ wrote[r].ciphertext = k
      BY <1>1, <1>7 DEF RowInv, NextRow, HasRow, Verdict, IInv, Decided
  <2>2. Shown(wrote[r]) = [revision |-> m.base + 1, deleted |-> m.deleted, by |-> k]
      BY <2>1 DEF Shown
  <2>3. Store!Write(k, m.base + 1)
    <3>1. /\ Rows' = [Rows EXCEPT ![At(r)] = Shown(wrote[r])]
          /\ Outcomes' = [Outcomes EXCEPT ![k] = [status |-> 201, row |-> Shown(wrote[r])]]
      <4>1. reply[r].row = wrote[r] /\ 201 \in Recorded
          BY <1>1, <1>7 DEF IInv, Decided, Recorded
      <4>2. Rows' = [Rows EXCEPT ![At(r)] = Shown(wrote[r])]
          BY <1>1, <1>7, CommitWrites
      <4>3. Outcomes' = [Outcomes EXCEPT ![key[r]] = [status |-> 201, row |-> Shown(reply[r].row)]]
          BY <1>7, <4>1, CommitRecords
      <4> QED BY <4>1, <4>2, <4>3
    <3> HIDE DEF k, m
    <3> QED BY <1>2, <1>4, <1>10, <2>2, <3>1 DEF Store!Write
  <2>4. CASE items[At(r)].revision = m.base
    <3>1. Store!Apply(k)
        BY <1>3, <1>4, <1>5, <2>3, <2>4 DEF Store!Apply
    <3> QED BY <1>2, <3>1 DEF Store!RacyNext, Store!Next
  <2>5. CASE items[At(r)].revision # m.base
    <3>1. m.base = 0 /\ items[At(r)].revision > 0
        BY <1>1, <1>4, <1>5, <1>6, <2>1, <2>5
    <3>2. Store!CreateOver(k)
        BY <1>3, <1>4, <1>5, <2>3, <3>1 DEF Store!CreateOver
    <3> QED BY <1>2, <3>2 DEF Store!RacyNext
  <2> QED BY <2>4, <2>5
<1>8. CASE reply[r].status = 409
  <2>1. reply[r].row = read[r] /\ read[r].revision \notin {0, m.base}
      BY <1>1, <1>8 DEF Verdict
  <2>2. items[At(r)] = read[r]
      BY <1>1, <1>6, <2>1, Fields DEF IInv, TypeOK
  <2>3. Store!Refuse(k)
    <3>1. /\ Rows' = Rows
          /\ Outcomes' = [Outcomes EXCEPT ![k] = [status |-> 409, row |-> Shown(items[At(r)])]]
      <4>1. 409 \in Recorded
          BY DEF Recorded
      <4>2. Rows' = Rows
          BY <1>1, <1>8, CommitWrites
      <4>3. Outcomes' = [Outcomes EXCEPT ![key[r]] = [status |-> 409, row |-> Shown(reply[r].row)]]
          BY <1>8, <4>1, CommitRecords
      <4> QED BY <2>1, <2>2, <4>2, <4>3
    <3>2. Store!Current(k).revision \notin {0, Bodies[k].base}
        BY <1>3, <1>4, <1>5, <2>1, <2>2
    <3> HIDE DEF k, m
    <3> QED BY <1>2, <1>3, <3>1, <3>2 DEF Store!Refuse
  <2> QED BY <1>2, <2>3 DEF Store!RacyNext, Store!Next
<1>9. CASE reply[r].status \notin Recorded
  <2>1. Outcomes' = Outcomes
      BY <1>9 DEF Commit, Outcomes
  <2> QED BY <1>1, <1>2, <1>9, <2>1, CommitWrites DEF Recorded
<1> QED BY <1>7, <1>8, <1>9 DEF Recorded

\* The server implements the store: a mutation is decided as if in one step,
\* its COMMIT, against the row that is current then, and only a creation may
\* overtake another (applyMutation over READ COMMITTED).
THEOREM StoreImplemented == Spec => ImplementsStore
<1>1. Init => Store!Init
  <2> SUFFICES ASSUME Init PROVE Store!Init
      OBVIOUS
  <2>1. Shown(NoRow) = Store!NoRow
      BY DEF Shown, NoRow, Store!NoRow
  <2>2. Bodies = [k \in Key |-> None] /\ Rows = [x \in Vault \X Item |-> Store!NoRow]
      BY <2>1 DEF Init, Bodies, Rows
  <2>3. Outcomes = [k \in Key |-> [status |-> 0, row |-> Store!NoRow]]
      BY <2>1 DEF Init, Outcomes, NoResponse
  <2> QED BY <2>2, <2>3 DEF Store!Init
<1>2. ASSUME IInv, RowInv, Verdict, [Next]_vars
      PROVE  [Store!RacyNext]_<<Bodies, Rows, Outcomes>>
  <2>1. CASE \E r \in Request, k \in Key, m \in Mutation : Receive(r, k, m)
    <3>1. PICK r \in Request, k \in Key, m \in Mutation : Receive(r, k, m)
        BY <2>1
    <3>2. Rows' = Rows /\ Outcomes' = Outcomes
        BY <3>1 DEF Receive, tables, Rows, Outcomes
    <3>3. sent[k] \in {None, m} /\ sent' = [sent EXCEPT ![k] = m]
        BY <3>1 DEF Receive
    <3>4. CASE sent[k] = m
        BY <1>2, <3>2, <3>3, <3>4 DEF Bodies, IInv, TypeOK
    <3>5. CASE sent[k] = None
      <4>1. \A j \in Key : sent'[j] = IF j = k THEN m ELSE sent[j]
          BY <1>2, <3>3 DEF IInv, TypeOK
      <4>2. m # None
          BY NoneAssumption
      <4>3. Bodies' = [Bodies EXCEPT ![k] = Asked(m)]
          BY <4>1, <4>2 DEF Bodies
      <4>4. Bodies'[k] = Asked(m) /\ Bodies[k] = None
          BY <3>5, <4>3 DEF Bodies
      <4>5. Store!Submit(k)
          BY <3>2, <4>3, <4>4, AskedType DEF Store!Submit
      <4> QED BY <4>5 DEF Store!RacyNext, Store!Next
    <3> QED BY <3>3, <3>4, <3>5
  <2>2. CASE \E r \in Request : Commit(r)
      BY <1>2, <2>2, CommitServes
  <2>3. CASE /\ ~\E r \in Request, k \in Key, m \in Mutation : Receive(r, k, m)
             /\ ~\E r \in Request : Commit(r)
    <3>1. UNCHANGED <<sent, items, outcomes>>
        BY <1>2, <2>3 DEF Next, Handle, vars, tables, locals, FastPath, AcquireMutationLock,
           Recheck, EnsureVaultOwnership, GetItemForUpdate, RejectStaleBase, EvaluateInsert,
           UpsertItem, Reply, Fail, ListChanges
    <3> QED BY <3>1 DEF Bodies, Rows, Outcomes
  <2> QED BY <2>1, <2>2, <2>3
<1>3. Init => Verdict
    BY DEF Init, Verdict, HasRow
<1>4. Spec => []Verdict
  <2>1. IInv /\ RowInv /\ Verdict /\ [Next]_vars => Verdict'
      BY VerdictStep
  <2> QED BY <1>3, <2>1, RowsInductive, PTL DEF Spec
<1> QED BY <1>1, <1>2, <1>4, RowsInductive, PTL DEF Spec, ImplementsStore, Store!RacySpec, Store!vars

-----------------------------------------------------------------------------
(* The change feed.                                                        *)

\* A row above the cursor that is not on the page comes after every row of it.
LEMMA PageIsLowest ==
    ASSUME IInv, NEW v \in Vault, NEW cursor \in Nat, NEW last \in Page(v, cursor),
           NEW i \in After(v, cursor), items[<<v, i>>].sequence <= items[<<v, last>>].sequence
    PROVE  i \in Page(v, cursor)
<1> DEFINE number(j) == items[<<v, j>>].sequence
           before(j) == {k \in After(v, cursor) : number(k) < number(j)}
<1>1. \A j \in After(v, cursor) : number(j) \in Nat
  <2>1. \A j \in Item : items[<<v, j>>] \in Row
    BY DEF IInv, TypeOK
  <2> QED BY <2>1, Fields DEF After
<1>2. last \in After(v, cursor) /\ Cardinality(before(last)) < Limit
  BY DEF Page
<1>3. before(i) \subseteq before(last)
  <2> HIDE DEF number
  <2>1. number(i) <= number(last)
    BY DEF number
  <2> QED BY <1>1, <1>2, <2>1
<1>4. IsFiniteSet(before(last))
  <2>1. before(last) \subseteq Item
    BY DEF After
  <2> HIDE DEF before
  <2> QED BY <2>1, ItemAssumption, FS_Subset
<1>5. Cardinality(before(i)) < Limit
  <2> HIDE DEF before
  <2>1. IsFiniteSet(before(i)) /\ Cardinality(before(i)) <= Cardinality(before(last))
    BY <1>3, <1>4, FS_Subset
  <2>2. Cardinality(before(i)) \in Nat /\ Cardinality(before(last)) \in Nat
    BY <1>4, <2>1, FS_CardinalityType
  <2> QED BY <1>2, <2>1, <2>2, LimitAssumption
<1> QED BY <1>5 DEF Page

\* A page delivers everything up to its last row.
LEMMA PageDelivers ==
    ASSUME IInv, NEW a \in Account, NEW v \in Vault, NEW i \in Item,
           NEW b \in Account, NEW w \in Vault, ListChanges(b, w), Delivered(a, v, i)
    PROVE  Delivered(a, v, i)'
<1>1. UNCHANGED <<items, vaults>>
  BY DEF ListChanges, tables
<1> DEFINE at == feed[<<b, w>>].cursor
           page == Page(w, at)
<1>2. PICK last \in page : feed' = [feed EXCEPT ![<<b, w>>] =
         [cursor |-> items[<<w, last>>].sequence,
          got |-> [j \in Item |-> IF j \in page THEN items[<<w, j>>]
                                  ELSE feed[<<b, w>>].got[j]]]]
  BY DEF ListChanges
<1>3. at \in Nat /\ feed \in [Account \X Vault -> [cursor : Nat, got : [Item -> Row]]]
  BY DEF IInv, TypeOK
<1>4. CASE <<b, w>> # <<a, v>>
  <2>1. feed'[<<a, v>>] = feed[<<a, v>>]
    <3> HIDE DEF page
    <3> QED BY <1>2, <1>3, <1>4
  <2> QED BY <1>1, <2>1 DEF Delivered
<1>5. CASE <<b, w>> = <<a, v>>
  <2> DEFINE row == items[<<v, i>>]
  <2>1. /\ feed'[<<a, v>>].cursor = items[<<v, last>>].sequence
        /\ feed'[<<a, v>>].got[i] = IF i \in page THEN row ELSE feed[<<a, v>>].got[i]
    <3> HIDE DEF page
    <3> QED BY <1>2, <1>3, <1>5
  <2>2. SUFFICES ASSUME row.revision > 0, vaults[v] = a, row.sequence <= items[<<v, last>>].sequence
                 PROVE  feed'[<<a, v>>].got[i] = row
    BY <1>1, <2>1 DEF Delivered
  <2>3. CASE row.sequence <= at
    <3>1. feed[<<a, v>>].got[i] = row
      BY <1>5, <2>2, <2>3 DEF Delivered
    <3> QED BY <2>1, <3>1
  <2>4. CASE ~(row.sequence <= at)
    <3>1. row.sequence \in Nat
      <4>1. row \in Row
        BY DEF IInv, TypeOK
      <4> QED BY <4>1, Fields
    <3>2. i \in After(v, at)
      BY <1>3, <2>4, <3>1 DEF After
    <3>3. i \in page
      BY <1>3, <1>5, <2>2, <3>2, PageIsLowest
    <3> QED BY <2>1, <3>3
  <2> QED BY <2>3, <2>4
<1> QED BY <1>4, <1>5

\* A COMMIT that gives a vault its owner finds no other row in it.
LEMMA NewVaultIsEmpty ==
    ASSUME IInv, RowInv, NEW r \in Request, Commit(r), NEW v \in Vault, NEW i \in Item,
           vaults'[v] # vaults[v]
    PROVE  items[<<v, i>>].revision = 0
<1>1. claimed[r] /\ v = mutation(r).vault
  BY DEF Commit, IInv, TypeOK
<1>2. vaults[v] = None
  BY <1>1 DEF Commit, RowInv, Admission, Admitted
<1>3. CASE items[<<v, i>>] = NoRow
  BY <1>3 DEF NoRow
<1>4. CASE items[<<v, i>>] # NoRow
  <2>1. items[<<v, i>>].revision > 0 /\ items[<<v, i>>].ciphertext \in Key
    BY <1>4 DEF RowInv, RowsRecorded, Outcome201
  <2>2. vaults[v] \in Account
    BY <2>1, Fields DEF RowInv, OwnerWrites
  <2> QED BY <1>2, <2>2, NoneAssumption
<1> QED BY <1>3, <1>4

\* The feed leaves a change behind a client's cursor in one way only: it was
\* numbered before, and committed after, the cursor passed its number (nextval
\* in upsertItem, the listChanges query).
THEOREM OnlyLateCommits == Spec => OnlyLateCommitsSkip
<1> DEFINE A == \A a \in Account, v \in Vault, i \in Item :
                  Delivered(a, v, i) /\ ~Delivered(a, v, i)' =>
                    \E r \in Request : /\ Commit(r) /\ reply[r].status = 201 /\ At(r) = <<v, i>>
                                       /\ wrote[r].sequence <= feed[<<a, v>>].cursor
<1>1. ASSUME IInv, RowInv, [Next]_vars PROVE A
  <2> SUFFICES ASSUME NEW a \in Account, NEW v \in Vault, NEW i \in Item,
                      Delivered(a, v, i), ~Delivered(a, v, i)'
               PROVE  \E r \in Request : /\ Commit(r) /\ reply[r].status = 201 /\ At(r) = <<v, i>>
                                         /\ wrote[r].sequence <= feed[<<a, v>>].cursor
    OBVIOUS
  <2>1. UNCHANGED feed
    BY <1>1, PageDelivers, WhoWrites
  <2>2. CASE items'[<<v, i>>] # items[<<v, i>>]
    <3>1. PICK r \in Request : Commit(r) /\ reply[r].status = 201 /\ At(r) = <<v, i>>
                               /\ items'[<<v, i>>] = wrote[r]
      BY <1>1, <2>2, ChangeIsCommit
    <3>2. items'[<<v, i>>].sequence <= feed[<<a, v>>].cursor
      BY <2>1 DEF Delivered
    <3> QED BY <3>1, <3>2
  <2>3. CASE items'[<<v, i>>] = items[<<v, i>>]
    <3>1. vaults'[v] # vaults[v] /\ items[<<v, i>>].revision > 0
      BY <2>1, <2>3 DEF Delivered
    <3>2. PICK r \in Request : Commit(r)
      BY <1>1, <3>1, WhoWrites
    <3>3. items[<<v, i>>].revision = 0
      BY <1>1, <3>1, <3>2, NewVaultIsEmpty
    <3> QED BY <3>1, <3>3
  <2> QED BY <2>2, <2>3
<1> HIDE DEF A
<1>2. Spec => [][A]_vars
  BY <1>1, RowsInductive, PTL DEF Spec
<1> QED BY <1>2 DEF OnlyLateCommitsSkip, A
=============================================================================
