-------------------------- MODULE SyncBackendProofs --------------------------
(***************************************************************************)
(* Proofs about SyncBackend for every set of accounts, vaults, items,      *)
(* mutations and requests.                                                 *)
(***************************************************************************)
EXTENDS SyncBackend, TLAPS

\* Every request past "idle" carries a mutation some client minted.
KeyKnown ==
    \A r \in Request : pc[r] # "idle" => key[r] \in Key /\ sent[key[r]] \in Mutation

\* No two open transactions hold the advisory lock of one key.
LockExclusive ==
    \A r, q \in Request :
        r # q /\ HoldsMutationLock(r) /\ HoldsMutationLock(q) => key[r] # key[q]

\* Past the second look, the outcome is still absent.
StillFresh ==
    \A r \in Request :
        pc[r] \in {"vault", "select", "write", "upsert", "commit"} =>
            outcomes[key[r]].status = 0

\* A row of mutation_outcomes holds a 201 or a 409.
OutcomesFinal ==
    \A k \in Key : outcomes[k] = NoResponse \/ outcomes[k].status \in Recorded

\* What a transaction is about to commit.
Decided ==
    \A r \in Request :
        /\ pc[r] = "upsert" => wrote[r].ciphertext = key[r]
        /\ pc[r] = "commit" =>
             /\ reply[r].status \in {201, 400, 409}
             /\ reply[r].status = 201 =>
                  reply[r].row = wrote[r] /\ wrote[r].ciphertext = key[r]

IInv ==
    /\ TypeOK
    /\ KeyKnown
    /\ LockExclusive
    /\ StillFresh
    /\ OutcomesFinal
    /\ Decided
    /\ ReplyIsRecorded

-----------------------------------------------------------------------------
(* Lemmas about records.                                                   *)

\* The constants of the record types have those types.
LEMMA NoRowType == NoRow \in Row /\ NoResponse \in Response /\ NoResponse.status = 0
BY DEF NoRow, NoResponse, Row, Response

\* A bare status code of the contract is a response.
LEMMA BareType ==
    ASSUME NEW s \in {400, 404, 500}
    PROVE  Bare(s) \in Response /\ Bare(s).status = s
BY NoRowType DEF Bare, Response

\* A status and a row make a response.
LEMMA ResponseType ==
    ASSUME NEW s \in Recorded, NEW row \in Row
    PROVE  /\ [status |-> s, row |-> row] \in Response
           /\ [status |-> s, row |-> row].status = s
           /\ [status |-> s, row |-> row].row = row
BY DEF Response, Recorded

\* The fields of a row, a response and a mutation.
LEMMA Fields ==
    /\ \A x \in Row : x.revision \in Nat /\ x.sequence \in Nat
    /\ \A x \in Response : x.row \in Row /\ x.status \in {0, 201, 400, 404, 409, 500}
    /\ \A x \in Mutation : x.vault \in Vault /\ x.item \in Item /\ x.base \in Nat
                             /\ x.deleted \in BOOLEAN
    /\ \A x \in Key : x[1] \in Account
BY MutationAssumption DEF Row, Response, Key

-----------------------------------------------------------------------------
(* Type correctness.                                                       *)

\* The initial state is well typed.
LEMMA InitType == Init => TypeOK
BY NoRowType DEF Init, TypeOK, Step, Key

TypeK == TypeOK /\ KeyKnown

\* A step leaves the state well typed, and every request that has started
\* carries a mutation: mutations are never forgotten.
LEMMA TypeStep == TypeK /\ [Next]_vars => TypeK'
<1> SUFFICES ASSUME TypeOK, KeyKnown, [Next]_vars PROVE TypeOK' /\ KeyKnown'
    BY DEF TypeK
<1> USE DEF Goto
<1>1. CASE UNCHANGED vars
    BY <1>1 DEF TypeOK, KeyKnown, vars, tables, locals
<1>2. ASSUME NEW r \in Request, NEW k \in Key, NEW m \in Mutation, Receive(r, k, m)
      PROVE  TypeOK' /\ KeyKnown'
  <2>1. TypeOK'
      BY <1>2 DEF TypeOK, Receive, tables, Step
  <2>2. KeyKnown'
      BY <1>2 DEF TypeOK, KeyKnown, Receive
  <2> QED BY <2>1, <2>2
<1>3. ASSUME NEW r \in Request, FastPath(r) \/ Recheck(r)
      PROVE  TypeOK' /\ KeyKnown'
  <2>1. key[r] \in Key
      BY <1>3 DEF KeyKnown, FastPath, Recheck
  <2>2. TypeOK'
      BY <1>3, <2>1 DEF TypeOK, FastPath, Recheck, FindMutationOutcome, Answer, tables, Step
  <2>3. KeyKnown'
      BY <1>3 DEF TypeOK, KeyKnown, FastPath, Recheck, FindMutationOutcome, Answer
  <2> QED BY <2>2, <2>3
<1>4. ASSUME NEW r \in Request, AcquireMutationLock(r) \/ Reply(r)
      PROVE  TypeOK' /\ KeyKnown'
    BY <1>4 DEF TypeOK, KeyKnown, AcquireMutationLock, Reply, tables, Step
<1>5. ASSUME NEW r \in Request, EnsureVaultOwnership(r)
      PROVE  TypeOK' /\ KeyKnown'
  <2>1. TypeOK'
      BY <1>5, BareType DEF TypeOK, EnsureVaultOwnership, Answer, tables, Step
  <2>2. KeyKnown'
      BY <1>5 DEF TypeOK, KeyKnown, EnsureVaultOwnership, Answer
  <2> QED BY <2>1, <2>2
<1>6. ASSUME NEW r \in Request, GetItemForUpdate(r)
      PROVE  TypeOK' /\ KeyKnown'
  <2>1. At(r) \in Vault \X Item
      BY <1>6, Fields DEF KeyKnown, GetItemForUpdate, At, mutation
  <2>2. TypeOK'
      BY <1>6, <2>1 DEF TypeOK, GetItemForUpdate, tables, Step
  <2>3. KeyKnown'
      BY <1>6 DEF TypeOK, KeyKnown, GetItemForUpdate
  <2> QED BY <2>2, <2>3
<1>7. ASSUME NEW r \in Request, RejectStaleBase(r)
      PROVE  TypeOK' /\ KeyKnown'
  <2>1. [status |-> 409, row |-> read[r]] \in Response
      BY ResponseType DEF TypeOK, Recorded
  <2>2. TypeOK'
      BY <1>7, <2>1, BareType DEF TypeOK, RejectStaleBase, tables, Step
  <2>3. KeyKnown'
      BY <1>7 DEF TypeOK, KeyKnown, RejectStaleBase
  <2> QED BY <2>2, <2>3
<1>8. ASSUME NEW r \in Request, EvaluateInsert(r)
      PROVE  TypeOK' /\ KeyKnown'
  <2>1. [revision |-> read[r].revision + 1, deleted |-> mutation(r).deleted,
         ciphertext |-> key[r], sequence |-> sequence + 1] \in Row
    <3>1. read[r].revision + 1 \in Nat /\ sequence + 1 \in Nat
        BY Fields DEF TypeOK
    <3>2. mutation(r).deleted \in BOOLEAN /\ key[r] \in Key
        BY <1>8, Fields DEF KeyKnown, EvaluateInsert, mutation
    <3> QED BY <3>1, <3>2 DEF Row
  <2>2. TypeOK'
      BY <1>8, <2>1 DEF TypeOK, EvaluateInsert, Step
  <2>3. KeyKnown'
      BY <1>8 DEF TypeOK, KeyKnown, EvaluateInsert
  <2> QED BY <2>2, <2>3
<1>9. ASSUME NEW r \in Request, UpsertItem(r)
      PROVE  TypeOK' /\ KeyKnown'
  <2> DEFINE drawn == IF items[At(r)].revision = 0 THEN wrote[r].sequence ELSE sequence + 1
             row == [wrote[r] EXCEPT !.sequence = drawn]
  <2>1. drawn \in Nat /\ wrote[r] \in Row
      BY Fields DEF TypeOK
  <2>2. row \in Row
      BY <2>1 DEF Row
  <2>3. [status |-> 201, row |-> row] \in Response
      BY <2>2, ResponseType DEF Recorded
  <2>4. wrote' = [wrote EXCEPT ![r] = row] /\ reply' = [reply EXCEPT ![r] = [status |-> 201, row |-> row]]
      BY <1>9 DEF UpsertItem
  <2> HIDE DEF row, drawn
  <2>5. sequence' \in Nat
      BY <1>9 DEF UpsertItem, TypeOK
  <2>6. /\ pc' = [pc EXCEPT ![r] = "commit"]
        /\ UNCHANGED <<vaults, items, outcomes, sent, key, read, claimed, feed>>
      BY <1>9 DEF UpsertItem
  <2>7. TypeOK'
      BY <2>2, <2>3, <2>4, <2>5, <2>6 DEF TypeOK, Step
  <2>8. KeyKnown'
      BY <1>9 DEF TypeOK, KeyKnown, UpsertItem
  <2> QED BY <2>7, <2>8
<1>10. ASSUME NEW r \in Request, Commit(r)
       PROVE  TypeOK' /\ KeyKnown'
  <2>1. key[r] \in Key /\ key[r][1] \in Account /\ sent[key[r]] \in Mutation
      BY <1>10, Fields DEF KeyKnown, Commit
  <2>2. At(r) \in Vault \X Item
      BY <2>1, Fields DEF At, mutation
  <2>3. vaults' \in [Vault -> Account \cup {None}]
      BY <1>10, <2>1, Fields DEF Commit, TypeOK, mutation
  <2>4. items' \in [Vault \X Item -> Row] /\ outcomes' \in [Key -> Response]
      BY <1>10, <2>1, <2>2 DEF Commit, TypeOK
  <2>5. TypeOK'
      BY <1>10, <2>3, <2>4 DEF TypeOK, Commit, Step
  <2>6. KeyKnown'
      BY <1>10 DEF TypeOK, KeyKnown, Commit
  <2> QED BY <2>5, <2>6
<1>11. ASSUME NEW r \in Request, Fail(r)
       PROVE  TypeOK' /\ KeyKnown'
    BY <1>11, BareType DEF TypeOK, KeyKnown, Fail, tables, Step
<1>12. ASSUME NEW a \in Account, NEW v \in Vault, ListChanges(a, v)
       PROVE  TypeOK' /\ KeyKnown'
  <2> DEFINE page == Page(v, feed[<<a, v>>].cursor)
  <2>1. PICK last \in page : feed' = [feed EXCEPT ![<<a, v>>] =
             [cursor |-> items[<<v, last>>].sequence,
              got |-> [i \in Item |-> IF i \in page THEN items[<<v, i>>]
                                      ELSE feed[<<a, v>>].got[i]]]]
      BY <1>12 DEF ListChanges
  <2>2. last \in Item
      BY DEF Page, After
  <2>3. items[<<v, last>>].sequence \in Nat
      BY <2>2, Fields DEF TypeOK
  <2>4. [i \in Item |-> IF i \in page THEN items[<<v, i>>]
                        ELSE feed[<<a, v>>].got[i]] \in [Item -> Row]
    <3> HIDE DEF page
    <3> QED BY DEF TypeOK
  <2> HIDE DEF page
  <2>5. feed' \in [Account \X Vault -> [cursor : Nat, got : [Item -> Row]]]
      BY <2>1, <2>3, <2>4 DEF TypeOK
  <2>6. TypeOK' /\ KeyKnown'
      BY <1>12, <2>5 DEF TypeOK, KeyKnown, ListChanges, tables, locals
  <2> QED BY <2>6
<1> QED
    BY <1>1, <1>2, <1>3, <1>4, <1>5, <1>6, <1>7, <1>8, <1>9, <1>10, <1>11, <1>12
       DEF Next, Handle

\* Type correctness, for every instance.
THEOREM TypeCorrect == Spec => []TypeOK
<1>1. Init => TypeK
    BY InitType DEF TypeK, KeyKnown, Init
<1>2. TypeK /\ [Next]_vars => TypeK'
    BY TypeStep
<1> QED BY <1>1, <1>2, PTL DEF Spec, TypeK

-----------------------------------------------------------------------------
(* Idempotency.                                                            *)

\* The initial state satisfies the inductive invariant.
LEMMA InitIInv == Init => IInv
BY InitType, NoRowType DEF Init, IInv, KeyKnown, LockExclusive, StillFresh, OutcomesFinal,
   Decided, ReplyIsRecorded, HoldsMutationLock, InTransaction, Recorded

\* Every step preserves the inductive invariant.
LEMMA StepIInv == IInv /\ [Next]_vars => IInv'
<1> SUFFICES ASSUME IInv, [Next]_vars
             PROVE  /\ LockExclusive' /\ StillFresh' /\ OutcomesFinal'
                    /\ Decided' /\ ReplyIsRecorded'
    BY TypeStep DEF IInv, TypeK
<1> DEFINE Goal == /\ LockExclusive' /\ StillFresh' /\ OutcomesFinal'
                   /\ Decided' /\ ReplyIsRecorded'
<1>0. TypeOK' /\ KeyKnown'
    BY TypeStep DEF IInv, TypeK
<1> USE DEF IInv, Goto, HoldsMutationLock, InTransaction, Recorded
<1>1. CASE UNCHANGED vars
    BY <1>1 DEF vars, tables, locals, LockExclusive, StillFresh, OutcomesFinal, Decided, ReplyIsRecorded
<1>2. ASSUME NEW r \in Request, NEW k \in Key, NEW m \in Mutation, Receive(r, k, m)
      PROVE  Goal
    BY <1>2 DEF Receive, tables, TypeOK, Step, LockExclusive, StillFresh, OutcomesFinal,
       Decided, ReplyIsRecorded
<1>3. ASSUME NEW r \in Request, FastPath(r)
      PROVE  Goal
  <2>1. CASE outcomes[key[r]].status # 0
    <3>1. /\ pc' = [pc EXCEPT ![r] = "reply"]
          /\ reply' = [reply EXCEPT ![r] = outcomes[key[r]]]
          /\ UNCHANGED <<outcomes, key, wrote>>
        BY <1>3, <2>1 DEF FastPath, FindMutationOutcome, Answer, tables
    <3>2. ReplyIsRecorded'
        BY <3>1 DEF TypeOK, ReplyIsRecorded
    <3> QED
        BY <3>1, <3>2 DEF TypeOK, LockExclusive, StillFresh, OutcomesFinal, Decided
  <2>2. CASE outcomes[key[r]].status = 0
    <3>1. /\ pc' = [pc EXCEPT ![r] = "lock"]
          /\ UNCHANGED <<outcomes, key, wrote, reply>> /\ pc[r] = "replay"
        BY <1>3, <2>2 DEF FastPath, FindMutationOutcome, tables
    <3> QED
        BY <2>2, <3>1 DEF TypeOK, LockExclusive, StillFresh, OutcomesFinal, Decided, ReplyIsRecorded
  <2> QED BY <2>1, <2>2
<1>4. ASSUME NEW r \in Request, AcquireMutationLock(r)
      PROVE  Goal
    BY <1>4 DEF AcquireMutationLock, MutationLockFree, tables, TypeOK, Step, LockExclusive,
       StillFresh, OutcomesFinal, Decided, ReplyIsRecorded
<1>5. ASSUME NEW r \in Request, Recheck(r)
      PROVE  Goal
  <2>1. CASE outcomes[key[r]].status # 0
    <3>1. /\ pc' = [pc EXCEPT ![r] = "reply"]
          /\ reply' = [reply EXCEPT ![r] = outcomes[key[r]]]
          /\ UNCHANGED <<outcomes, key, wrote>>
        BY <1>5, <2>1 DEF Recheck, FindMutationOutcome, Answer, tables
    <3>2. ReplyIsRecorded'
        BY <3>1 DEF TypeOK, ReplyIsRecorded
    <3> QED
        BY <3>1, <3>2 DEF TypeOK, LockExclusive, StillFresh, OutcomesFinal, Decided
  <2>2. CASE outcomes[key[r]].status = 0
    <3>1. /\ pc' = [pc EXCEPT ![r] = "vault"]
          /\ UNCHANGED <<outcomes, key, wrote, reply>> /\ pc[r] = "recheck"
        BY <1>5, <2>2 DEF Recheck, FindMutationOutcome, tables
    <3> QED
        BY <2>2, <3>1 DEF TypeOK, LockExclusive, StillFresh, OutcomesFinal, Decided, ReplyIsRecorded
  <2> QED BY <2>1, <2>2
<1>6. ASSUME NEW r \in Request, EnsureVaultOwnership(r)
      PROVE  Goal
  <2>1. /\ UNCHANGED <<outcomes, key, wrote>> /\ pc[r] = "vault"
        /\ \/ pc' = [pc EXCEPT ![r] = "select"] /\ UNCHANGED reply
           \/ pc' = [pc EXCEPT ![r] = "reply"] /\ reply' = [reply EXCEPT ![r] = Bare(404)]
      BY <1>6 DEF EnsureVaultOwnership, Answer, tables
  <2>2. Bare(404).status = 404
      BY BareType
  <2>3. ReplyIsRecorded'
      BY <2>1, <2>2 DEF TypeOK, ReplyIsRecorded
  <2>4. Decided'
      BY <2>1 DEF TypeOK, Decided
  <2> QED
      BY <2>1, <2>3, <2>4 DEF TypeOK, LockExclusive, StillFresh, OutcomesFinal
<1>7. ASSUME NEW r \in Request, GetItemForUpdate(r)
      PROVE  Goal
    BY <1>7 DEF GetItemForUpdate, tables, TypeOK, Step, LockExclusive,
       StillFresh, OutcomesFinal, Decided, ReplyIsRecorded
<1>8. ASSUME NEW r \in Request, RejectStaleBase(r)
      PROVE  Goal
  <2>1. reply'[r].status \in {400, 409}
      BY <1>8, BareType DEF RejectStaleBase, TypeOK
  <2>2. Decided'
      BY <1>8, <2>1 DEF RejectStaleBase, TypeOK, Step, Decided
  <2> QED
      BY <1>8, <2>2 DEF RejectStaleBase, tables, TypeOK, Step, LockExclusive,
         StillFresh, OutcomesFinal, ReplyIsRecorded
<1>9. ASSUME NEW r \in Request, EvaluateInsert(r)
      PROVE  Goal
    BY <1>9 DEF EvaluateInsert, TypeOK, Step, LockExclusive,
       StillFresh, OutcomesFinal, Decided, ReplyIsRecorded
<1>10. ASSUME NEW r \in Request, UpsertItem(r)
       PROVE  Goal
  <2> DEFINE drawn == IF items[At(r)].revision = 0 THEN wrote[r].sequence ELSE sequence + 1
             row == [wrote[r] EXCEPT !.sequence = drawn]
  <2>1. /\ pc[r] = "upsert" /\ pc' = [pc EXCEPT ![r] = "commit"]
        /\ wrote' = [wrote EXCEPT ![r] = row]
        /\ reply' = [reply EXCEPT ![r] = [status |-> 201, row |-> row]]
        /\ UNCHANGED <<outcomes, key>>
      BY <1>10 DEF UpsertItem
  <2>2. row.ciphertext = key[r]
    <3>1. wrote[r].ciphertext = key[r] /\ wrote[r] \in Row
        BY <2>1 DEF Decided, TypeOK
    <3> HIDE DEF drawn
    <3> QED BY <3>1 DEF Row
  <2> HIDE DEF row, drawn
  <2>3. Decided'
      BY <2>1, <2>2 DEF TypeOK, Decided
  <2> QED
      BY <2>1, <2>3 DEF TypeOK, Step, LockExclusive, StillFresh, OutcomesFinal, ReplyIsRecorded
<1>11. ASSUME NEW r \in Request, Commit(r)
       PROVE  Goal
  <2>1. /\ pc[r] = "commit" /\ pc' = [pc EXCEPT ![r] = "reply"]
        /\ outcomes' = IF reply[r].status \in Recorded
                       THEN [outcomes EXCEPT ![key[r]] = reply[r]] ELSE outcomes
        /\ UNCHANGED <<key, wrote, reply>>
      BY <1>11 DEF Commit
  <2>2. key[r] \in Key /\ outcomes[key[r]].status = 0
      BY <2>1 DEF KeyKnown, StillFresh
  <2>3. LockExclusive' /\ Decided'
      BY <2>1 DEF TypeOK, Step, LockExclusive, Decided
  <2>4. StillFresh'
      BY <2>1, <2>2 DEF TypeOK, Step, LockExclusive, StillFresh, KeyKnown
  <2>5. OutcomesFinal'
      BY <2>1, <2>2 DEF TypeOK, OutcomesFinal
  <2>6. ReplyIsRecorded'
      BY <2>1, <2>2 DEF TypeOK, ReplyIsRecorded
  <2> QED BY <2>3, <2>4, <2>5, <2>6
<1>12. ASSUME NEW r \in Request, Reply(r)
       PROVE  Goal
    BY <1>12 DEF Reply, tables, TypeOK, Step, LockExclusive,
       StillFresh, OutcomesFinal, Decided, ReplyIsRecorded
<1>13. ASSUME NEW r \in Request, Fail(r)
       PROVE  Goal
    BY <1>13, BareType DEF Fail, tables, TypeOK, Step, LockExclusive,
       StillFresh, OutcomesFinal, Decided, ReplyIsRecorded
<1>14. ASSUME NEW a \in Account, NEW v \in Vault, ListChanges(a, v)
       PROVE  Goal
    BY <1>14 DEF ListChanges, tables, locals, LockExclusive, StillFresh, OutcomesFinal,
       Decided, ReplyIsRecorded
<1> QED
    BY <1>1, <1>2, <1>3, <1>4, <1>5, <1>6, <1>7, <1>8, <1>9, <1>10, <1>11, <1>12, <1>13, <1>14
       DEF Next, Handle

\* The inductive invariant holds throughout.
LEMMA Inductive == Spec => []IInv
BY InitIInv, StepIInv, PTL DEF Spec

\* Every 201 or 409 a request was given is the outcome on record.
THEOREM RepliesRecorded == Spec => []ReplyIsRecorded
<1>1. IInv => ReplyIsRecorded
    BY DEF IInv
<1> QED BY <1>1, Inductive, PTL

\* The INSERT into mutation_outcomes never meets an existing row.
THEOREM NoOutcomeCollision == Spec => []OutcomeInsertNeverCollides
<1>1. IInv => OutcomeInsertNeverCollides
    BY DEF IInv, StillFresh, OutcomeInsertNeverCollides
<1> QED BY <1>1, Inductive, PTL

\* A mutation changes an item at most once, together with its outcome.
THEOREM MutationAppliedOnce == Spec => AppliedOnce
<1> DEFINE A == \A x \in Vault \X Item : items'[x] # items[x] =>
                  LET k == items'[x].ciphertext
                  IN  /\ outcomes[k].status = 0
                      /\ outcomes'[k] = [status |-> 201, row |-> items'[x]]
<1>1. ASSUME IInv, [Next]_vars PROVE [A]_vars
  <2>1. ASSUME NEW x \in Vault \X Item, items'[x] # items[x]
        PROVE  LET k == items'[x].ciphertext
               IN  /\ outcomes[k].status = 0
                   /\ outcomes'[k] = [status |-> 201, row |-> items'[x]]
    <3>1. PICK r \in Request : Commit(r)
        BY <1>1, <2>1 DEF Next, Handle, vars, tables, Receive, FastPath, AcquireMutationLock,
           Recheck, EnsureVaultOwnership, GetItemForUpdate, RejectStaleBase, EvaluateInsert,
           UpsertItem, Reply, Fail, ListChanges
    <3>2. reply[r].status = 201 /\ x = At(r) /\ items'[x] = wrote[r]
        BY <2>1, <3>1, <1>1 DEF Commit, IInv, TypeOK
    <3>3. reply[r].row = wrote[r] /\ wrote[r].ciphertext = key[r] /\ key[r] \in Key
        BY <1>1, <3>1, <3>2 DEF Commit, IInv, Decided, KeyKnown
    <3>4. reply[r] = [status |-> 201, row |-> wrote[r]]
        BY <1>1, <3>2, <3>3 DEF IInv, TypeOK, Response
    <3>5. outcomes'[key[r]] = reply[r] /\ outcomes[key[r]].status = 0
        BY <1>1, <3>1, <3>2, <3>3 DEF Commit, IInv, TypeOK, Recorded
    <3> QED BY <3>2, <3>3, <3>4, <3>5
  <2> QED BY <2>1
<1> QED BY <1>1, Inductive, PTL DEF Spec, AppliedOnce

\* The server implements the abstract ledger: outcomes are written once, and
\* a client is only ever told the outcome on record.
THEOREM Refinement == Spec => ImplementsLedger
<1>1. Init => Ledger!Init
  <2> SUFFICES ASSUME Init PROVE outcomes = [k \in Key |-> NoResponse] /\ Told = {}
      BY DEF Ledger!Init
  <2> QED BY DEF Init, Told
<1>2. ASSUME IInv, [Next]_vars
      PROVE  [Ledger!Next]_<<outcomes, Told>>
  <2> DEFINE Goal == Ledger!Next \/ UNCHANGED <<outcomes, Told>>
  <2> USE <1>2 DEF IInv
  <2>1. CASE UNCHANGED vars
      BY <2>1 DEF vars, tables, locals, Told
  <2>2. ASSUME NEW r \in Request, NEW k \in Key, NEW m \in Mutation, Receive(r, k, m)
        PROVE  Goal
    <3>1. Told' = Told
        BY <2>2 DEF Receive, Goto, Told, TypeOK
    <3> QED BY <2>2, <3>1 DEF Receive, tables
  <2>3. ASSUME NEW r \in Request,
               \/ FastPath(r) \/ AcquireMutationLock(r) \/ Recheck(r)
               \/ EnsureVaultOwnership(r) \/ GetItemForUpdate(r)
               \/ RejectStaleBase(r) \/ EvaluateInsert(r) \/ UpsertItem(r)
        PROVE  Goal
    <3>1. /\ UNCHANGED <<outcomes, key>>
          /\ pc[r] # "done" /\ \E s \in Step \ {"done"} : pc' = [pc EXCEPT ![r] = s]
          /\ \A q \in Request \ {r} : reply'[q] = reply[q]
        BY <2>3 DEF FastPath, AcquireMutationLock, Recheck, EnsureVaultOwnership,
           GetItemForUpdate, RejectStaleBase, EvaluateInsert, UpsertItem,
           FindMutationOutcome, Answer, Goto, tables, Step, TypeOK
    <3>2. Told' = Told
        BY <3>1 DEF Told, TypeOK
    <3> QED BY <3>1, <3>2
  <2>4. ASSUME NEW r \in Request, Commit(r)
        PROVE  Goal
    <3>1. Told' = Told
        BY <2>4 DEF Commit, Goto, Told, TypeOK
    <3>2. key[r] \in Key /\ outcomes[key[r]] = NoResponse
        BY <2>4, NoRowType DEF Commit, KeyKnown, StillFresh, OutcomesFinal, Recorded
    <3>3. CASE reply[r].status \in Recorded
      <4>1. reply[r] \in [status : Recorded, row : Row]
          BY <3>3 DEF TypeOK, Response
      <4>2. outcomes' = [outcomes EXCEPT ![key[r]] = reply[r]]
          BY <2>4, <3>3 DEF Commit
      <4>3. outcomes'[key[r]] = reply[r]
          BY <3>2, <4>2 DEF TypeOK
      <4>4. Ledger!Record(key[r])
          BY <3>1, <3>2, <4>1, <4>2, <4>3 DEF Ledger!Record
      <4> QED BY <3>2, <4>4 DEF Ledger!Next
    <3>4. CASE reply[r].status \notin Recorded
        BY <2>4, <3>1, <3>4 DEF Commit
    <3> QED BY <3>3, <3>4
  <2>5. ASSUME NEW r \in Request, Reply(r)
        PROVE  Goal
    <3>1. /\ UNCHANGED <<outcomes, key, reply>>
          /\ pc[r] = "reply" /\ pc' = [pc EXCEPT ![r] = "done"]
        BY <2>5 DEF Reply, Goto, tables
    <3>2. CASE reply[r].status \in Recorded
      <4>1. key[r] \in Key /\ outcomes[key[r]] = reply[r]
          BY <3>1, <3>2 DEF KeyKnown, ReplyIsRecorded
      <4>2. Told' = Told \cup {<<key[r], outcomes[key[r]]>>}
          BY <3>1, <3>2, <4>1 DEF Told, TypeOK
      <4>3. outcomes[key[r]] # NoResponse
          BY <3>2, <4>1, NoRowType DEF Recorded
      <4>4. Ledger!Tell(key[r])
          BY <3>1, <4>2, <4>3 DEF Ledger!Tell
      <4> QED BY <4>1, <4>4 DEF Ledger!Next
    <3>3. CASE reply[r].status \notin Recorded
      <4>1. Told' = Told
          BY <3>1, <3>3 DEF Told, TypeOK
      <4> QED BY <3>1, <4>1
    <3> QED BY <3>2, <3>3
  <2>6. ASSUME NEW r \in Request, Fail(r)
        PROVE  Goal
    <3>1. /\ UNCHANGED <<outcomes, key>>
          /\ pc[r] # "done" /\ pc' = [pc EXCEPT ![r] = "done"]
          /\ reply' = [reply EXCEPT ![r] = Bare(500)]
        BY <2>6 DEF Fail, Goto, tables
    <3>2. Bare(500).status \notin Recorded
        BY BareType DEF Recorded
    <3>3. Told' = Told
        BY <3>1, <3>2 DEF Told, TypeOK
    <3> QED BY <3>1, <3>3
  <2>7. ASSUME NEW a \in Account, NEW v \in Vault, ListChanges(a, v)
        PROVE  Goal
      BY <2>7 DEF ListChanges, tables, locals, Told
  <2> QED
      BY <2>1, <2>2, <2>3, <2>4, <2>5, <2>6, <2>7 DEF Next, Handle
<1> QED BY <1>1, <1>2, Inductive, PTL DEF Spec, ImplementsLedger, Ledger!Spec
=============================================================================
