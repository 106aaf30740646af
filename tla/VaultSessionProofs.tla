-------------------------- MODULE VaultSessionProofs --------------------------
(***************************************************************************)
(* Proofs about VaultSession: a lock leaves no plaintext behind, the keys  *)
(* in the Worker follow the session, and a lock costs no edit made before  *)
(* it, for any items, tasks and bounds.                                    *)
(***************************************************************************)
EXTENDS VaultSession, TLAPS

(***************************************************************************)
(* The wire: at most one message of a task is on its way, and what is      *)
(* asked suits what the task does.                                         *)
(***************************************************************************)
Suits(type, op) ==
    /\ type = "unlock" => op = "unlock"
    /\ type = "setup" => op = "setup"
    /\ type = "lock" => op \in {"lock", "setup"}
    /\ type = "seal" => op \in {"save", "delete"}
    /\ type = "open" => op = "load"

Asked(j) == task[inbox[j].task]
Answered(j) == task[outbox[j].task]

Messages ==
    /\ \A j \in 1..Len(inbox) : Asked(j).at = "worker" /\ Suits(inbox[j].type, Asked(j).op)
    /\ \A j \in 1..Len(outbox) : Answered(j).at = "worker"
    /\ \A j, k \in 1..Len(inbox) : inbox[j].task = inbox[k].task => j = k
    /\ \A j, k \in 1..Len(outbox) : outbox[j].task = outbox[k].task => j = k
    /\ \A j \in 1..Len(inbox), k \in 1..Len(outbox) : inbox[j].task # outbox[k].task

\* On the onboarding's form there is no session yet, and the setup runs alone.
Alone ==
    /\ screen = "form" => session = 0 /\ \A t \in Task : task[t].op \in {"idle", "setup"}
    /\ \A t \in Task : task[t].op = "setup" =>
         screen = "form" /\ \A u \in Task : task[u].op = "setup" => u = t

\* The answers on their way that will change the session, and what to.
Decides(j) ==
    \/ Answered(j).op = "lock"
    \/ Answered(j).op = "unlock" /\ outbox[j].ok
Leaves(j) == IF Answered(j).op = "lock" THEN 0 ELSE outbox[j].handle

\* The Worker's keys are those of session x.
Matches(x) == IF x = 0 THEN handles = {} ELSE x \in handles

\* The Worker is ahead of the session by the answers on their way: its keys
\* match the session the last of them leaves.
Settled ==
    (\A t \in Task : task[t].op # "setup") =>
      /\ (\A j \in 1..Len(outbox) : ~Decides(j)) => Matches(session)
      /\ \A j \in 1..Len(outbox) :
           Decides(j) /\ (\A k \in (j + 1)..Len(outbox) : ~Decides(k)) => Matches(Leaves(j))

\* A handle given out is in the Worker until a lock answers.
LiveHandles ==
    /\ session # 0 => \/ session \in handles
                      \/ \E k \in 1..Len(outbox) : Answered(k).op = "lock"
    /\ \A j \in 1..Len(outbox) : Answered(j).op = "unlock" /\ outbox[j].ok =>
         /\ outbox[j].handle # 0
         /\ \/ outbox[j].handle \in handles
            \/ \E k \in (j + 1)..Len(outbox) : Answered(k).op = "lock"

\* An edit begun while no lock was on its way is sealed before any lock.
SealsKept ==
    /\ \A j \in 1..Len(inbox) : inbox[j].type = "seal" /\ ~Asked(j).late =>
         /\ inbox[j].handle \in handles
         /\ \A k \in 1..(j - 1) : inbox[k].type # "lock"
    /\ \A j \in 1..Len(outbox) :
         Answered(j).op \in {"save", "delete"} /\ ~Answered(j).late => outbox[j].ok

\* The onboarding leaves no key behind.
SetupCloses ==
    /\ \A j \in 1..Len(inbox) : inbox[j].type = "setup" => handles = {}
    /\ \A j \in 1..Len(outbox) :
         Answered(j).op = "setup" /\ ~(outbox[j].ok /\ outbox[j].handle # 0) => handles = {}

Wire == Messages /\ Alone /\ Settled /\ LiveHandles /\ SealsKept /\ SetupCloses

\* What a method at an await holds.
HoldsOf(k) ==
    /\ k.op = "load" /\ k.at = "worker" => k.now \in Loading
    /\ k.op = "return" => k.at = "step"
    /\ k.op \in {"save", "delete"} => k.entry \in Entry
Holds == \A t \in Task : HoldsOf(task[t])

\* No generation is younger than the last lock's.
Forgets == LockForgets /\ lockedAt <= generation

IInv == TypeOK /\ Holds /\ Wire /\ Forgets

-----------------------------------------------------------------------------
(* Queues of messages.                                                     *)

LEMMA AppendFacts ==
    ASSUME NEW S, NEW s \in Seq(S), NEW x \in S
    PROVE  /\ Append(s, x) \in Seq(S)
           /\ Len(Append(s, x)) = Len(s) + 1
           /\ \A j \in 1..Len(s) : Append(s, x)[j] = s[j]
           /\ Append(s, x)[Len(s) + 1] = x
           /\ Len(s) \in Nat
OBVIOUS

LEMMA TailFacts ==
    ASSUME NEW S, NEW s \in Seq(S), s # <<>>
    PROVE  /\ Tail(s) \in Seq(S)
           /\ Len(s) \in Nat /\ Len(s) >= 1
           /\ Len(Tail(s)) = Len(s) - 1
           /\ \A j \in 1..Len(Tail(s)) : Tail(s)[j] = s[j + 1] /\ j + 1 \in 1..Len(s)
           /\ Head(s) = s[1] /\ s[1] \in S
OBVIOUS

\* Every message is of a task.
LEMMA MessageTasks ==
    ASSUME TypeOK
    PROVE  /\ Len(inbox) \in Nat /\ Len(outbox) \in Nat
           /\ \A j \in 1..Len(inbox) : inbox[j] \in Request /\ inbox[j].task \in Task
           /\ \A j \in 1..Len(outbox) : outbox[j] \in Answer /\ outbox[j].task \in Task
                                        /\ outbox[j].ok \in BOOLEAN /\ outbox[j].handle \in Nat
<1>1. inbox \in Seq(Request) /\ outbox \in Seq(Answer)
  BY DEF TypeOK
<1>2. Len(inbox) \in Nat /\ Len(outbox) \in Nat
  BY <1>1
<1>3. \A j \in 1..Len(inbox) : inbox[j] \in Request
  BY <1>1
<1>4. \A j \in 1..Len(outbox) : outbox[j] \in Answer
  BY <1>1
<1> QED BY <1>2, <1>3, <1>4 DEF Request, Answer

-----------------------------------------------------------------------------
(* What steps do to the wire.                                              *)

\* Task u does what it did, as far as the wire goes.
Same(u) ==
    /\ task'[u].op = task[u].op
    /\ task'[u].at = task[u].at
    /\ task'[u].late = task[u].late

Keying == {"unlock", "setup", "lock"}

\* Task u awaits no answer, before and after, and opens and closes no session.
Aside(u) ==
    /\ task[u].at # "worker" /\ task'[u].at # "worker"
    /\ task[u].op \notin Keying /\ task'[u].op \notin Keying

LEMMA WireAside ==
    ASSUME TypeOK, Wire, Alone', UNCHANGED <<session, worker>>,
           \A u \in Task : Same(u) \/ Aside(u)
    PROVE  Wire'
<1>1. UNCHANGED <<session, inbox, outbox, handles, lastHandle>>
  BY DEF worker
<1>2. /\ \A j \in 1..Len(inbox) : inbox[j].task \in Task /\ Same(inbox[j].task)
      /\ \A j \in 1..Len(outbox) : outbox[j].task \in Task /\ Same(outbox[j].task)
  BY MessageTasks DEF Wire, Messages, Aside, Asked, Answered
<1>3. Messages'
  BY <1>1, <1>2 DEF Wire, Messages, Same, Asked, Answered
<1>4. \A u \in Task : task[u].op \in Keying \/ task'[u].op \in Keying => task'[u].op = task[u].op
  BY DEF Same, Aside
<1>6. \A j \in 1..Len(outbox) : Answered(j)'.op = Answered(j).op /\ Answered(j)'.late = Answered(j).late
  BY <1>1, <1>2 DEF Answered, Same
<1>7. \A j \in 1..Len(inbox) : Asked(j)'.late = Asked(j).late
  BY <1>1, <1>2 DEF Asked, Same
<1>8. Settled'
  <2>1. (\A u \in Task : task'[u].op # "setup") => \A u \in Task : task[u].op # "setup"
    BY <1>4 DEF Keying
  <2>2. \A j \in 1..Len(outbox) : (Decides(j)' <=> Decides(j)) /\ Leaves(j)' = Leaves(j)
    BY <1>1, <1>6 DEF Decides, Leaves
  <2>3. \A x : Matches(x)' <=> Matches(x)
    BY <1>1 DEF Matches
  <2>4. \A j \in 1..Len(outbox) : \A k \in (j + 1)..Len(outbox) : k \in 1..Len(outbox)
    BY MessageTasks
  <2> QED BY <1>1, <2>1, <2>2, <2>3, <2>4 DEF Wire, Settled
<1>9. LiveHandles'
  <2>1. \A j \in 1..Len(outbox) : \A k \in (j + 1)..Len(outbox) : k \in 1..Len(outbox)
    BY MessageTasks
  <2> QED BY <1>1, <1>6, <2>1 DEF Wire, LiveHandles
<1>10. SealsKept'
  BY <1>1, <1>6, <1>7 DEF Wire, SealsKept
<1>11. SetupCloses'
  BY <1>1, <1>6 DEF Wire, SetupCloses
<1> QED BY <1>3, <1>8, <1>9, <1>10, <1>11 DEF Wire

\* Away from the onboarding's form no setup runs.
LEMMA Shown ==
    ASSUME Wire, NEW t \in Task, task[t].op \notin {"idle", "setup"} \/ session # 0
    PROVE  screen # "form"
BY DEF Wire, Alone

LEMMA Away ==
    ASSUME Wire, NEW t \in Task, screen # "form", screen' # "form", task'[t].op # "setup",
           \A u \in Task \ {t} : task'[u].op = task[u].op
    PROVE  Alone'
BY DEF Wire, Alone

\* A task with no message on its way.
LEMMA NoMessage ==
    ASSUME TypeOK, Wire, NEW t \in Task, task[t].at # "worker"
    PROVE  /\ \A j \in 1..Len(inbox) : inbox[j].task # t
           /\ \A j \in 1..Len(outbox) : outbox[j].task # t
BY DEF Wire, Messages, Asked, Answered

\* A task whose answer is next has no other message on its way.
LEMMA OnlyHead ==
    ASSUME TypeOK, Wire, NEW t \in Task, outbox # <<>>, Head(outbox).task = t
    PROVE  /\ Head(outbox) = outbox[1] /\ 1 \in 1..Len(outbox)
           /\ task[t].at = "worker"
           /\ \A j \in 1..Len(inbox) : inbox[j].task # t
           /\ \A j \in 1..Len(outbox) : outbox[j].task = t => j = 1
<1>1. outbox \in Seq(Answer)
  BY DEF TypeOK
<1>2. Head(outbox) = outbox[1] /\ 1 \in 1..Len(outbox)
  BY <1>1, TailFacts
<1> QED BY <1>2 DEF Wire, Messages, Answered

\* A step in which one task does something else and posts a message.
LEMMA Posted ==
    ASSUME TypeOK, NEW t \in Task, NEW type \in {"unlock", "setup", "lock", "seal", "open"},
           NEW h \in Nat, Post(t, type, h)
    PROVE  /\ Len(inbox') = Len(inbox) + 1 /\ Len(inbox) \in Nat
           /\ inbox' \in Seq(Request)
           /\ \A j \in 1..Len(inbox) : inbox'[j] = inbox[j]
           /\ inbox'[Len(inbox) + 1].task = t
           /\ inbox'[Len(inbox) + 1].type = type
           /\ inbox'[Len(inbox) + 1].handle = h
<1>1. inbox \in Seq(Request)
  BY DEF TypeOK
<1>2. [task |-> t, type |-> type, handle |-> h] \in Request
  BY DEF Request
<1> QED BY <1>1, <1>2, AppendFacts DEF Post

\* All of the wire but Alone.
Flow == Messages /\ Settled /\ LiveHandles /\ SealsKept /\ SetupCloses

LEMMA PostFlow ==
    ASSUME TypeOK, Wire, NEW t \in Task,
           NEW type \in {"unlock", "setup", "lock", "seal", "open"}, NEW h \in Nat,
           Post(t, type, h), UNCHANGED <<session, outbox, handles>>,
           \A u \in Task \ {t} : Same(u) \/ Aside(u),
           task[t].at # "worker", task[t].op \notin Keying, task'[t].at = "worker",
           Suits(type, task'[t].op),
           type = "seal" /\ ~task'[t].late =>
             h = session /\ session # 0 /\ \A u \in Task : task[u].op # "lock",
           type = "setup" => handles = {}
    PROVE  Flow'
<1>1. PICK n \in Nat : n = Len(inbox) + 1
  BY Posted
<1>2. /\ Len(inbox') = n /\ Len(inbox) \in Nat
      /\ \A j \in 1..Len(inbox) : inbox'[j] = inbox[j]
      /\ inbox'[n].task = t /\ inbox'[n].type = type /\ inbox'[n].handle = h
  BY <1>1, Posted
<1>3. /\ \A j \in 1..Len(inbox) : inbox[j].task # t
      /\ \A j \in 1..Len(outbox) : outbox[j].task # t
  BY NoMessage
<1>4. \A j \in 1..n : j = n \/ j \in 1..Len(inbox)
  BY <1>1, <1>2
<1>5. /\ \A j \in 1..Len(inbox) : inbox[j].task \in Task /\ Same(inbox[j].task)
      /\ \A j \in 1..Len(outbox) : outbox[j].task \in Task /\ Same(outbox[j].task)
  BY <1>3, MessageTasks DEF Wire, Messages, Aside, Asked, Answered
<1>6. /\ \A j \in 1..Len(outbox) : /\ Answered(j)'.op = Answered(j).op
                                   /\ Answered(j)'.at = Answered(j).at
                                   /\ Answered(j)'.late = Answered(j).late
      /\ \A j \in 1..Len(inbox) : /\ Asked(j)'.op = Asked(j).op
                                  /\ Asked(j)'.at = Asked(j).at
                                  /\ Asked(j)'.late = Asked(j).late
      /\ Asked(n)' = task'[t]
  <2>1. \A j \in 1..Len(outbox) : /\ Answered(j)'.op = Answered(j).op
                                 /\ Answered(j)'.at = Answered(j).at
                                 /\ Answered(j)'.late = Answered(j).late
    BY <1>5 DEF Answered, Same
  <2>2. \A j \in 1..Len(inbox) : /\ Asked(j)'.op = Asked(j).op
                                /\ Asked(j)'.at = Asked(j).at
                                /\ Asked(j)'.late = Asked(j).late
    BY <1>2, <1>5 DEF Asked, Same
  <2>3. Asked(n)' = task'[t]
    BY <1>2 DEF Asked
  <2> QED BY <2>1, <2>2, <2>3
<1>7. Messages'
  <2>1. \A j \in 1..n : Asked(j)'.at = "worker" /\ Suits(inbox'[j].type, Asked(j)'.op)
    BY <1>2, <1>4, <1>6 DEF Wire, Messages
  <2>2. \A j \in 1..Len(outbox) : Answered(j)'.at = "worker"
    BY <1>6 DEF Wire, Messages
  <2>3. \A j, k \in 1..n : inbox'[j].task = inbox'[k].task => j = k
    BY <1>2, <1>3, <1>4 DEF Wire, Messages
  <2>4. \A j \in 1..n, k \in 1..Len(outbox) : inbox'[j].task # outbox[k].task
    BY <1>2, <1>3, <1>4 DEF Wire, Messages
  <2> QED BY <1>2, <2>1, <2>2, <2>3, <2>4 DEF Wire, Messages
<1>8. Settled' /\ LiveHandles'
  <2>1. (\A u \in Task : task'[u].op # "setup") => \A u \in Task : task[u].op # "setup"
    BY DEF Same, Aside, Keying
  <2>2. \A j \in 1..Len(outbox) : (Decides(j)' <=> Decides(j)) /\ Leaves(j)' = Leaves(j)
    BY <1>6 DEF Decides, Leaves
  <2>3. \A x : Matches(x)' <=> Matches(x)
    BY DEF Matches
  <2>4. \A j \in 1..Len(outbox) : \A k \in (j + 1)..Len(outbox) : k \in 1..Len(outbox)
    BY MessageTasks
  <2>5. Settled'
    BY <2>1, <2>2, <2>3, <2>4 DEF Wire, Settled
  <2> QED BY <1>6, <2>4, <2>5 DEF Wire, LiveHandles
<1>9. SealsKept'
  <2>1. ASSUME type = "seal", ~task'[t].late
        PROVE  h \in handles /\ \A k \in 1..Len(inbox) : inbox[k].type # "lock"
    <3>1. h = session /\ session # 0 /\ \A u \in Task : task[u].op # "lock"
      BY <2>1
    <3>2. \A u \in Task : task[u].op # "setup"
      BY <3>1 DEF Wire, Alone
    <3>3. session \in handles
      BY <3>1, MessageTasks DEF Wire, LiveHandles, Answered
    <3> QED BY <3>1, <3>2, <3>3, MessageTasks DEF Wire, Messages, Suits, Asked
  <2>2. ASSUME NEW j \in 1..n, inbox'[j].type = "seal", ~Asked(j)'.late
        PROVE  inbox'[j].handle \in handles /\ \A k \in 1..(j - 1) : inbox'[k].type # "lock"
    <3>1. CASE j = n
      <4>1. \A k \in 1..(j - 1) : k \in 1..Len(inbox)
        BY <1>1, <1>2, <3>1
      <4> QED BY <1>2, <1>6, <2>1, <2>2, <3>1, <4>1
    <3>2. CASE j \in 1..Len(inbox)
      <4>1. \A k \in 1..(j - 1) : k \in 1..Len(inbox)
        BY <1>2, <3>2
      <4> QED BY <1>2, <1>6, <2>2, <3>2, <4>1 DEF Wire, SealsKept
    <3> QED BY <1>4, <3>1, <3>2
  <2>3. \A j \in 1..Len(outbox) :
          Answered(j)'.op \in {"save", "delete"} /\ ~Answered(j)'.late => outbox[j].ok
    BY <1>6 DEF Wire, SealsKept
  <2> QED BY <1>2, <2>2, <2>3 DEF SealsKept
<1>10. SetupCloses'
  BY <1>2, <1>4, <1>6 DEF Wire, SetupCloses
<1> QED BY <1>7, <1>8, <1>9, <1>10 DEF Flow

\* Sealing and opening items.
LEMMA WirePost ==
    ASSUME TypeOK, Wire, Alone', NEW t \in Task, NEW type \in {"seal", "open"}, NEW h \in Nat,
           Post(t, type, h), UNCHANGED <<session, outbox, handles>>,
           \A u \in Task \ {t} : Same(u) \/ Aside(u),
           task[t].at # "worker", task[t].op \notin Keying, task'[t].at = "worker",
           Suits(type, task'[t].op),
           type = "seal" /\ ~task'[t].late =>
             h = session /\ session # 0 /\ \A u \in Task : task[u].op # "lock"
    PROVE  Wire'
<1>1. Flow'
  BY PostFlow
<1> QED BY <1>1 DEF Wire, Flow

\* A step in which one task receives its answer.
LEMMA Taken ==
    ASSUME TypeOK, Wire, NEW t \in Task, outbox # <<>>, Head(outbox).task = t,
           outbox' = Tail(outbox)
    PROVE  /\ outbox' \in Seq(Answer)
           /\ Len(outbox') = Len(outbox) - 1
           /\ \A j \in 1..Len(outbox') : /\ outbox'[j] = outbox[j + 1]
                                         /\ j + 1 \in 1..Len(outbox)
                                         /\ outbox[j + 1].task \in Task \ {t}
           /\ \A j \in 1..Len(outbox) : j = 1 \/ j - 1 \in 1..Len(outbox')
<1>1. outbox \in Seq(Answer)
  BY DEF TypeOK
<1>2. /\ outbox' \in Seq(Answer)
      /\ Len(outbox) \in Nat /\ Len(outbox) >= 1
      /\ Len(outbox') = Len(outbox) - 1
      /\ \A j \in 1..Len(outbox') : outbox'[j] = outbox[j + 1] /\ j + 1 \in 1..Len(outbox)
  BY <1>1, TailFacts
<1>3. \A j \in 1..Len(outbox) : outbox[j].task = t => j = 1
  BY OnlyHead
<1>4. \A j \in 1..Len(outbox') : j + 1 # 1
  BY <1>2
<1>5. \A j \in 1..Len(outbox') : outbox[j + 1].task \in Task \ {t}
  BY <1>2, <1>3, <1>4, MessageTasks
<1>6. \A j \in 1..Len(outbox) : j = 1 \/ j - 1 \in 1..Len(outbox')
  BY <1>2
<1> QED BY <1>2, <1>5, <1>6

\* The message task t posts on receiving its answer, if any.
PostsNext(t) ==
    \/ inbox' = inbox
    \/ \E type \in {"lock", "open"} : \E h \in Nat :
         /\ Post(t, type, h)
         /\ task'[t].at = "worker"
         /\ Suits(type, task'[t].op)

\* The other answers are of tasks that do what they did.
LEMMA TakenTasks ==
    ASSUME TypeOK, Wire, NEW t \in Task, outbox # <<>>, Head(outbox).task = t,
           outbox' = Tail(outbox), \A u \in Task \ {t} : Same(u) \/ Aside(u)
    PROVE  /\ \A j \in 1..Len(outbox') : /\ Answered(j)'.op = Answered(j + 1).op
                                         /\ Answered(j)'.at = Answered(j + 1).at
                                         /\ Answered(j)'.late = Answered(j + 1).late
           /\ \A j \in 1..Len(inbox) : inbox[j].task # t /\ inbox[j].task \in Task /\ Same(inbox[j].task)
<1>1. \A j \in 1..Len(outbox') : /\ outbox'[j] = outbox[j + 1]
                                 /\ j + 1 \in 1..Len(outbox)
                                 /\ outbox[j + 1].task \in Task \ {t}
  BY Taken
<1>2. \A j \in 1..Len(outbox') : Same(outbox[j + 1].task)
  BY <1>1 DEF Wire, Messages, Answered, Aside
<1>3. \A j \in 1..Len(inbox) : inbox[j].task # t /\ inbox[j].task \in Task
  BY OnlyHead, MessageTasks
<1>4. \A j \in 1..Len(inbox) : Same(inbox[j].task)
  BY <1>3 DEF Wire, Messages, Asked, Aside
<1>5. \A j \in 1..Len(outbox') : /\ Answered(j)'.op = Answered(j + 1).op
                                 /\ Answered(j)'.at = Answered(j + 1).at
                                 /\ Answered(j)'.late = Answered(j + 1).late
  BY <1>1, <1>2 DEF Answered, Same
<1> QED BY <1>3, <1>4, <1>5

LEMMA TakeMessages ==
    ASSUME TypeOK, Wire, NEW t \in Task, outbox # <<>>, Head(outbox).task = t,
           outbox' = Tail(outbox), UNCHANGED handles, PostsNext(t),
           \A u \in Task \ {t} : Same(u) \/ Aside(u)
    PROVE  Messages' /\ SealsKept' /\ SetupCloses'
<1>1. /\ \A j \in 1..Len(outbox') : /\ outbox'[j] = outbox[j + 1]
                                    /\ j + 1 \in 1..Len(outbox)
                                    /\ outbox[j + 1].task \in Task \ {t}
  BY Taken
<1>2. /\ \A j \in 1..Len(outbox') : /\ Answered(j)'.op = Answered(j + 1).op
                                    /\ Answered(j)'.at = Answered(j + 1).at
                                    /\ Answered(j)'.late = Answered(j + 1).late
      /\ \A j \in 1..Len(inbox) : inbox[j].task # t /\ inbox[j].task \in Task /\ Same(inbox[j].task)
  BY TakenTasks
<1>3. Len(inbox) \in Nat /\ Len(outbox) \in Nat /\ inbox \in Seq(Request)
  BY MessageTasks DEF TypeOK
<1>4. \A j, k \in 1..Len(outbox') : outbox'[j].task = outbox'[k].task => j = k
  <2> SUFFICES ASSUME NEW j \in 1..Len(outbox'), NEW k \in 1..Len(outbox'),
                      outbox'[j].task = outbox'[k].task
               PROVE  j = k
    OBVIOUS
  <2>1. j + 1 = k + 1
    BY <1>1 DEF Wire, Messages
  <2> QED BY <2>1
<1>5. \A j \in 1..Len(outbox') : Answered(j)'.at = "worker"
  BY <1>1, <1>2 DEF Wire, Messages
<1>6. \A j \in 1..Len(outbox') :
        Answered(j)'.op \in {"save", "delete"} /\ ~Answered(j)'.late => outbox'[j].ok
  BY <1>1, <1>2 DEF Wire, SealsKept
<1>7. \A j \in 1..Len(outbox') :
         Answered(j)'.op = "setup" /\ ~(outbox'[j].ok /\ outbox'[j].handle # 0) => handles' = {}
  BY <1>1, <1>2 DEF Wire, SetupCloses
<1>10. \A j \in 1..Len(inbox), k \in 1..Len(outbox') :
        inbox[j].task # outbox'[k].task
  <2> TAKE j \in 1..Len(inbox), k \in 1..Len(outbox')
  <2>1. k + 1 \in 1..Len(outbox) /\ outbox'[k] = outbox[k + 1]
    BY <1>1
  <2>2. inbox[j].task # outbox[k + 1].task
    BY <2>1 DEF Wire, Messages
  <2> QED BY <1>1, <2>1, <2>2
<1>8. CASE inbox' = inbox
  <2>1. \A j \in 1..Len(inbox) : /\ Asked(j)'.op = Asked(j).op
                                 /\ Asked(j)'.at = Asked(j).at
                                 /\ Asked(j)'.late = Asked(j).late
    BY <1>2, <1>8 DEF Asked, Same
  <2>2. Messages'
    BY <1>4, <1>5, <1>10, <1>8, <2>1 DEF Wire, Messages
  <2>3. SealsKept' /\ SetupCloses'
    BY <1>6, <1>7, <1>8, <2>1 DEF Wire, SealsKept, SetupCloses
  <2> QED BY <2>2, <2>3
<1>9. ASSUME NEW type \in {"lock", "open"}, NEW h \in Nat, Post(t, type, h),
             task'[t].at = "worker", Suits(type, task'[t].op)
      PROVE  Messages' /\ SealsKept' /\ SetupCloses'
  <2>0. PICK n \in Nat : n = Len(inbox) + 1
    BY <1>3
  <2>1. /\ Len(inbox') = n
        /\ \A j \in 1..Len(inbox) : inbox'[j] = inbox[j]
        /\ inbox'[n].task = t /\ inbox'[n].type = type
    BY <1>9, <2>0, Posted
  <2>2. \A j \in 1..n : j = n \/ j \in 1..Len(inbox)
    BY <1>3, <2>0
  <2>3. \A j \in 1..Len(inbox) : /\ Asked(j)'.op = Asked(j).op
                                 /\ Asked(j)'.at = Asked(j).at
                                 /\ Asked(j)'.late = Asked(j).late
    BY <1>2, <2>1 DEF Asked, Same
  <2>4. Asked(n)' = task'[t]
    BY <2>1 DEF Asked
  <2>5. \A j \in 1..n : Asked(j)'.at = "worker" /\ Suits(inbox'[j].type, Asked(j)'.op)
    BY <1>9, <2>1, <2>2, <2>3, <2>4 DEF Wire, Messages
  <2>6. \A j, k \in 1..n : inbox'[j].task = inbox'[k].task => j = k
    BY <1>2, <2>1, <2>2 DEF Wire, Messages
  <2>7. \A j \in 1..n, k \in 1..Len(outbox') : inbox'[j].task # outbox'[k].task
    <3> TAKE j \in 1..n, k \in 1..Len(outbox')
    <3>1. outbox'[k].task # t
      BY <1>1
    <3>2. CASE j = n
      BY <2>1, <3>1, <3>2
    <3>3. CASE j \in 1..Len(inbox)
      BY <1>10, <2>1, <3>3
    <3> QED BY <2>2, <3>2, <3>3
  <2>8. Messages'
    BY <1>4, <1>5, <2>1, <2>5, <2>6, <2>7 DEF Messages
  <2>9. ASSUME NEW j \in 1..n, inbox'[j].type = "seal", ~Asked(j)'.late
        PROVE  inbox'[j].handle \in handles /\ \A k \in 1..(j - 1) : inbox'[k].type # "lock"
    <3>1. j \in 1..Len(inbox)
      BY <2>1, <2>2, <2>9
    <3>2. \A k \in 1..(j - 1) : k \in 1..Len(inbox)
      BY <1>3, <3>1
    <3> QED BY <2>1, <2>3, <2>9, <3>1, <3>2 DEF Wire, SealsKept
  <2>10. SealsKept'
    BY <1>6, <2>1, <2>9 DEF SealsKept
  <2>11. SetupCloses'
    BY <1>7, <2>1, <2>2 DEF Wire, SetupCloses
  <2> QED BY <2>8, <2>10, <2>11
<1> QED BY <1>8, <1>9 DEF PostsNext

\* On receiving an answer the session becomes what that answer leaves.
LEMMA TakeSettled ==
    ASSUME TypeOK, Wire, NEW t \in Task, outbox # <<>>, Head(outbox).task = t,
           outbox' = Tail(outbox), UNCHANGED handles,
           \A u \in Task \ {t} : Same(u) \/ Aside(u),
           task[t].op # "setup",
           session' = IF Decides(1) THEN Leaves(1) ELSE session
    PROVE  Settled' /\ LiveHandles'
<1>0. Len(outbox) \in Nat /\ 1 \in 1..Len(outbox)
  BY OnlyHead, MessageTasks
<1>1. /\ Len(outbox') = Len(outbox) - 1
      /\ \A j \in 1..Len(outbox') : outbox'[j] = outbox[j + 1] /\ j + 1 \in 1..Len(outbox)
      /\ \A j \in 1..Len(outbox) : j = 1 \/ j - 1 \in 1..Len(outbox')
  BY Taken
<1>2. \A j \in 1..Len(outbox') : Answered(j)'.op = Answered(j + 1).op
  BY TakenTasks
<1>3. \A j \in 1..Len(outbox') : (Decides(j)' <=> Decides(j + 1)) /\ Leaves(j)' = Leaves(j + 1)
  BY <1>1, <1>2 DEF Decides, Leaves
<1>4. \A x : Matches(x)' <=> Matches(x)
  BY DEF Matches
<1>5. (\A u \in Task : task'[u].op # "setup") => \A u \in Task : task[u].op # "setup"
  BY DEF Same, Aside, Keying
<1>6. Settled'
  <2> SUFFICES ASSUME \A u \in Task : task[u].op # "setup"
               PROVE  /\ (\A j \in 1..Len(outbox') : ~Decides(j)') => Matches(session')
                      /\ \A j \in 1..Len(outbox') :
                           Decides(j)' /\ (\A k \in (j + 1)..Len(outbox') : ~Decides(k)')
                             => Matches(Leaves(j)')
    BY <1>4, <1>5 DEF Settled
  <2>1. /\ (\A j \in 1..Len(outbox) : ~Decides(j)) => Matches(session)
        /\ \A j \in 1..Len(outbox) :
             Decides(j) /\ (\A k \in (j + 1)..Len(outbox) : ~Decides(k)) => Matches(Leaves(j))
    BY DEF Wire, Settled
  <2>2. ASSUME \A j \in 1..Len(outbox') : ~Decides(j)'
        PROVE  Matches(session')
    <3>1. \A j \in 2..Len(outbox) : ~Decides(j)
      <4> TAKE j \in 2..Len(outbox)
      <4>1. j - 1 \in 1..Len(outbox') /\ (j - 1) + 1 = j
        BY <1>0, <1>1
      <4>2. ~Decides((j - 1) + 1)
        BY <1>3, <2>2, <4>1
      <4> QED BY <4>1, <4>2
    <3>2. CASE Decides(1)
      BY <1>0, <2>1, <3>1, <3>2
    <3>3. CASE ~Decides(1)
      <4>1. \A j \in 1..Len(outbox) : j = 1 \/ j \in 2..Len(outbox)
        BY <1>0
      <4> QED BY <2>1, <3>1, <3>3, <4>1
    <3> QED BY <3>2, <3>3
  <2>3. ASSUME NEW j \in 1..Len(outbox'), Decides(j)',
               \A k \in (j + 1)..Len(outbox') : ~Decides(k)'
        PROVE  Matches(Leaves(j)')
    <3>1. j + 1 \in 1..Len(outbox) /\ Decides(j + 1) /\ Leaves(j)' = Leaves(j + 1)
      BY <1>1, <1>3, <2>3
    <3>2. \A k \in ((j + 1) + 1)..Len(outbox) : ~Decides(k)
      <4> TAKE k \in ((j + 1) + 1)..Len(outbox)
      <4>1. k - 1 \in (j + 1)..Len(outbox') /\ k - 1 \in 1..Len(outbox') /\ (k - 1) + 1 = k
        BY <1>0, <1>1
      <4>2. ~Decides((k - 1) + 1)
        BY <1>3, <2>3, <4>1
      <4> QED BY <4>1, <4>2
    <3> QED BY <2>1, <3>1, <3>2
  <2> QED BY <2>2, <2>3
<1>7. LiveHandles'
  <2>0. /\ session # 0 => \/ session \in handles
                          \/ \E k \in 1..Len(outbox) : Answered(k).op = "lock"
        /\ \A j \in 1..Len(outbox) : Answered(j).op = "unlock" /\ outbox[j].ok =>
             /\ outbox[j].handle # 0
             /\ \/ outbox[j].handle \in handles
                \/ \E k \in (j + 1)..Len(outbox) : Answered(k).op = "lock"
    BY DEF Wire, LiveHandles
  <2>1. \A k \in 2..Len(outbox) : Answered(k).op = "lock" =>
          \E m \in 1..Len(outbox') : Answered(m)'.op = "lock"
    <3> TAKE k \in 2..Len(outbox)
    <3>1. k - 1 \in 1..Len(outbox') /\ (k - 1) + 1 = k
      BY <1>0, <1>1
    <3>2. Answered(k - 1)'.op = Answered((k - 1) + 1).op
      BY <1>2, <3>1
    <3> QED BY <3>1, <3>2
  <2>2. ASSUME session' # 0
        PROVE  session' \in handles \/ \E k \in 1..Len(outbox') : Answered(k)'.op = "lock"
    <3>1. CASE Answered(1).op = "lock"
      BY <2>2, <3>1 DEF Decides, Leaves
    <3>2. CASE Answered(1).op # "lock" /\ Decides(1)
      <4>1. session' = outbox[1].handle /\ Answered(1).op = "unlock" /\ outbox[1].ok
        BY <3>2 DEF Decides, Leaves
      <4>2. session' \in handles \/ \E k \in (1 + 1)..Len(outbox) : Answered(k).op = "lock"
        BY <1>0, <2>0, <4>1
      <4> QED BY <2>1, <4>2
    <3>3. CASE Answered(1).op # "lock" /\ ~Decides(1)
      <4>1. session' = session
        BY <3>3
      <4>2. session \in handles \/ \E k \in 1..Len(outbox) : Answered(k).op = "lock"
        BY <2>0, <2>2, <4>1
      <4>3. \A k \in 1..Len(outbox) : k = 1 \/ k \in 2..Len(outbox)
        BY <1>0
      <4> QED BY <2>1, <3>3, <4>1, <4>2, <4>3
    <3> QED BY <3>1, <3>2, <3>3
  <2>3. ASSUME NEW j \in 1..Len(outbox'), Answered(j)'.op = "unlock", outbox'[j].ok
        PROVE  /\ outbox'[j].handle # 0
               /\ \/ outbox'[j].handle \in handles
                  \/ \E k \in (j + 1)..Len(outbox') : Answered(k)'.op = "lock"
    <3>1. /\ j + 1 \in 1..Len(outbox) /\ outbox'[j] = outbox[j + 1]
          /\ Answered(j + 1).op = "unlock" /\ outbox[j + 1].ok
      BY <1>1, <1>2, <2>3
    <3>2. /\ outbox'[j].handle # 0
          /\ \/ outbox'[j].handle \in handles
             \/ \E k \in ((j + 1) + 1)..Len(outbox) : Answered(k).op = "lock"
      BY <2>0, <3>1
    <3>3. ASSUME NEW k \in ((j + 1) + 1)..Len(outbox), Answered(k).op = "lock"
          PROVE  \E m \in (j + 1)..Len(outbox') : Answered(m)'.op = "lock"
      <4>1. k - 1 \in (j + 1)..Len(outbox') /\ k - 1 \in 1..Len(outbox') /\ (k - 1) + 1 = k
        BY <1>0, <1>1
      <4>2. Answered(k - 1)'.op = Answered((k - 1) + 1).op
        BY <1>2, <4>1
      <4> QED BY <3>3, <4>1, <4>2
    <3> QED BY <3>2, <3>3
  <2> QED BY <2>2, <2>3 DEF LiveHandles
<1> QED BY <1>6, <1>7

\* A method that opens and closes no session receives its answer.
LEMMA WireTake ==
    ASSUME TypeOK, Wire, Alone', NEW t \in Task, outbox # <<>>, Head(outbox).task = t,
           outbox' = Tail(outbox), UNCHANGED <<session, handles>>, PostsNext(t),
           \A u \in Task \ {t} : Same(u) \/ Aside(u),
           task[t].op \notin Keying, task'[t].op \notin Keying
    PROVE  Wire'
<1>1. Messages' /\ SealsKept' /\ SetupCloses'
  BY TakeMessages
<1>2. ~Decides(1)
  <2>1. outbox[1].task = t
    BY OnlyHead
  <2> QED BY <2>1 DEF Decides, Answered, Keying
<1>3. Settled' /\ LiveHandles'
  BY <1>2, TakeSettled DEF Keying
<1> QED BY <1>1, <1>3 DEF Wire

-----------------------------------------------------------------------------
(* The wire: methods that open and close sessions.                         *)

LEMMA IdleTyped ==
    /\ Idle \in Running
    /\ Idle.op = "idle" /\ Idle.at = "step" /\ ~Idle.late
BY DEF Idle, Running, Op, Stage, Caller

LEMMA Began ==
    ASSUME TypeOK, NEW t \in Task, NEW running \in Running, Begin(t, running)
    PROVE  /\ task[t].op = "idle" /\ task[t].at = "step"
           /\ task' \in [Task -> Running]
           /\ task'[t] = running
           /\ \A u \in Task \ {t} : task'[u] = task[u] /\ Same(u)
<1>1. task \in [Task -> Running]
  BY DEF TypeOK
<1>2. task' \in [Task -> Running] /\ task'[t] = running /\ \A u \in Task \ {t} : task'[u] = task[u]
  BY <1>1 DEF Begin
<1> QED BY <1>2, IdleTyped DEF Begin, Same

LEMMA EndedTask ==
    ASSUME TypeOK, NEW t \in Task, End(t)
    PROVE  /\ task' \in [Task -> Running]
           /\ task'[t] = Idle
           /\ \A u \in Task \ {t} : task'[u] = task[u] /\ Same(u)
<1>1. task \in [Task -> Running]
  BY DEF TypeOK
<1>2. task' \in [Task -> Running] /\ task'[t] = Idle /\ \A u \in Task \ {t} : task'[u] = task[u]
  BY <1>1, IdleTyped DEF End
<1> QED BY <1>2 DEF Same

LEMMA KeyingTyped ==
    ASSUME NEW op \in Keying, NEW then \in Caller
    PROVE  LET k == [Idle EXCEPT !.op = op, !.at = "worker", !.then = then]
           IN  k \in Running /\ k.op = op /\ k.at = "worker" /\ ~k.late
BY DEF Keying, Idle, Running, Op, Stage, Caller

LEMMA LoadTyped ==
    ASSUME NEW handle \in Nat, generation \in Nat, NEW then \in Caller
    PROVE  LET k == LoadFrom(handle, then)
           IN  /\ k \in Running /\ k.op = "load" /\ k.at = "repo"
               /\ k.gen = generation /\ k.handle = handle /\ ~k.late
BY DEF LoadFrom, Idle, Running, Op, Stage, Caller

\* A method that will go on in its caller.
LEMMA ReturnTyped ==
    ASSUME NEW then \in Caller
    PROVE  LET k == [Idle EXCEPT !.op = "return", !.then = then]
           IN  k \in Running /\ k.op = "return" /\ k.at = "step" /\ ~k.late
BY DEF Idle, Running, Op, Stage, Caller

LEMMA ReturnedTask ==
    ASSUME TypeOK, NEW t \in Task, Return(t)
    PROVE  /\ task' \in [Task -> Running]
           /\ task'[t].op \in {"idle", "return"} /\ task'[t].at = "step"
           /\ \A u \in Task \ {t} : task'[u] = task[u] /\ Same(u)
<1> DEFINE k == IF task[t].then = "nothing" THEN Idle
                ELSE [Idle EXCEPT !.op = "return", !.then = task[t].then]
<1>1. task \in [Task -> Running] /\ task[t].then \in Caller
  BY DEF TypeOK, Running
<1>2. k \in Running /\ k.op \in {"idle", "return"} /\ k.at = "step"
  BY <1>1, IdleTyped, ReturnTyped
<1>3. task' = [task EXCEPT ![t] = k]
  BY <1>1 DEF Return
<1> HIDE DEF k
<1>4. task' \in [Task -> Running] /\ task'[t] = k /\ \A u \in Task \ {t} : task'[u] = task[u]
  BY <1>1, <1>2, <1>3
<1> QED BY <1>2, <1>4 DEF Same

\* A password or a recovery key is sent to the Worker.
LEMMA OpenVaultWire ==
    ASSUME TypeOK, Wire, NEW t \in Task, NEW then \in Caller, OpenVault(t, then),
           screen # "form", task[t].at # "worker", task[t].op \notin Keying
    PROVE  Wire' /\ task' \in [Task -> Running] /\ task'[t].op = "unlock"
           /\ inbox' \in Seq(Request) /\ \A u \in Task \ {t} : task'[u] = task[u]
<1> DEFINE k == [Idle EXCEPT !.op = "unlock", !.at = "worker", !.then = then]
<1>1. k \in Running /\ k.op = "unlock" /\ k.at = "worker" /\ ~k.late
  BY KeyingTyped DEF Keying
<1>2. /\ task' = [task EXCEPT ![t] = k] /\ Post(t, "unlock", 0)
      /\ UNCHANGED <<session, screen, outbox, handles>>
  BY DEF OpenVault, ui
<1> HIDE DEF k
<1>3. /\ task' \in [Task -> Running] /\ task'[t] = k
      /\ \A u \in Task \ {t} : task'[u] = task[u]
  BY <1>1, <1>2 DEF TypeOK
<1>4. \A u \in Task \ {t} : Same(u)
  BY <1>3 DEF Same
<1>5. Suits("unlock", k.op)
  BY <1>1 DEF Suits
<1>6. Flow'
  BY <1>1, <1>2, <1>3, <1>4, <1>5, PostFlow
<1>7. Alone'
  BY <1>1, <1>2, <1>3, Away
<1> QED BY <1>1, <1>2, <1>3, <1>6, <1>7, Posted DEF Wire, Flow

\* A lock, which asks the Worker if there is a session.
LEMMA LockVaultWire ==
    ASSUME TypeOK, Wire, NEW t \in Task, NEW then \in Caller, LockVault(t, then),
           screen # "form", task[t].at # "worker", task[t].op \notin Keying
    PROVE  Wire' /\ task' \in [Task -> Running] /\ HoldsOf(task'[t])
           /\ inbox' \in Seq(Request) /\ \A u \in Task \ {t} : task'[u] = task[u]
<1>0. UNCHANGED <<screen, outbox, handles, lastHandle>>
  BY DEF LockVault, ui
<1>1. CASE session # 0
  <2> DEFINE k == [Idle EXCEPT !.op = "lock", !.at = "worker", !.then = then]
  <2>1. k \in Running /\ k.op = "lock" /\ k.at = "worker" /\ ~k.late
    BY KeyingTyped DEF Keying
  <2>2. task' = [task EXCEPT ![t] = k] /\ Post(t, "lock", 0) /\ UNCHANGED session
    BY <1>1 DEF LockVault
  <2> HIDE DEF k
  <2>3. /\ task' \in [Task -> Running] /\ task'[t] = k
        /\ \A u \in Task \ {t} : task'[u] = task[u]
    BY <2>1, <2>2 DEF TypeOK
  <2>4. \A u \in Task \ {t} : Same(u)
    BY <2>3 DEF Same
  <2>5. Suits("lock", k.op)
    BY <2>1 DEF Suits
  <2>6. Flow'
    BY <1>0, <2>1, <2>2, <2>3, <2>4, <2>5, PostFlow
  <2>7. Alone'
    BY <1>0, <2>1, <2>3, Away
  <2>8. HoldsOf(task'[t])
    BY <2>1, <2>3 DEF HoldsOf
  <2> QED BY <2>2, <2>3, <2>6, <2>7, <2>8, Posted DEF Wire, Flow
<1>2. CASE session = 0
  <2> DEFINE k == [Idle EXCEPT !.op = "return", !.then = then]
  <2>1. k \in Running /\ k.op = "return" /\ k.at = "step"
    BY ReturnTyped
  <2>2. task' = [task EXCEPT ![t] = k] /\ inbox' = inbox /\ session' = session
    BY <1>2 DEF LockVault, Forget
  <2> HIDE DEF k
  <2>3. /\ task' \in [Task -> Running] /\ task'[t] = k
        /\ \A u \in Task \ {t} : task'[u] = task[u]
    BY <2>1, <2>2 DEF TypeOK
  <2>4. Alone'
    BY <1>0, <2>1, <2>3, Away
  <2>5. \A u \in Task : Same(u) \/ Aside(u)
    BY <2>1, <2>3 DEF Same, Aside, Keying
  <2>6. Wire'
    BY <1>0, <2>2, <2>4, <2>5, WireAside DEF worker
  <2>7. HoldsOf(task'[t])
    BY <2>1, <2>3 DEF HoldsOf
  <2> QED BY <2>2, <2>3, <2>6, <2>7 DEF TypeOK
<1> QED BY <1>1, <1>2

\* When no session is being opened or closed, the Worker's keys are the
\* session's.
LEMMA QuietKeys ==
    ASSUME TypeOK, Wire, ~Busy
    PROVE  Matches(session)
<1>1. \A t \in Task : task[t].op \notin {"unlock", "setup", "lock"}
  BY DEF Busy
<1>2. \A j \in 1..Len(outbox) : ~Decides(j)
  BY <1>1, MessageTasks DEF Decides, Answered
<1> QED BY <1>1, <1>2 DEF Wire, Settled

LEMMA CreateAccountSetupWire ==
    ASSUME TypeOK, Wire, NEW t \in Task, CreateAccountSetup(t)
    PROVE  Wire'
<1> DEFINE k == [Idle EXCEPT !.op = "setup", !.at = "worker"]
<1>1. k \in Running /\ k.op = "setup" /\ k.at = "worker" /\ ~k.late
  BY DEF Idle, Running, Op, Stage, Caller
<1>2. /\ screen = "form" /\ ~Busy /\ Begin(t, k) /\ Post(t, "setup", 0)
      /\ UNCHANGED <<session, screen, outbox, handles>>
  BY DEF CreateAccountSetup, ui
<1> HIDE DEF k
<1>3. /\ task[t].op = "idle" /\ task[t].at = "step" /\ task'[t] = k
      /\ \A u \in Task \ {t} : task'[u] = task[u] /\ Same(u)
  BY <1>1, <1>2, Began
<1>4. task[t].op \notin Keying /\ Suits("setup", k.op)
  BY <1>1, <1>3 DEF Keying, Suits
<1>5. handles = {}
  <2>1. session = 0
    BY <1>2 DEF Wire, Alone
  <2> QED BY <1>2, <2>1, QuietKeys DEF Matches
<1>6. Flow'
  BY <1>1, <1>2, <1>3, <1>4, <1>5, PostFlow
<1>7. Alone'
  <2>1. session = 0 /\ \A u \in Task : task[u].op = "idle"
    BY <1>2 DEF Wire, Alone, Busy
  <2> QED BY <1>1, <1>2, <1>3, <2>1 DEF Alone
<1> QED BY <1>6, <1>7 DEF Wire, Flow

LEMMA UnlockedWire ==
    ASSUME TypeOK, Wire, NEW t \in Task, Unlocked(t)
    PROVE  Wire' /\ task' \in [Task -> Running] /\ session' \in Nat
           /\ (session' = session \/ session' # 0)
<1>1. /\ outbox # <<>> /\ Head(outbox).task = t /\ task[t].op = "unlock"
      /\ outbox' = Tail(outbox) /\ UNCHANGED <<screen, inbox, handles>>
  BY DEF Unlocked, Receives, ui
<1>2. Head(outbox) = outbox[1] /\ 1 \in 1..Len(outbox)
  BY <1>1, OnlyHead
<1>3. /\ IF outbox[1].ok
         THEN /\ session' = outbox[1].handle
              /\ task' = [task EXCEPT ![t] = LoadFrom(outbox[1].handle, task[t].then)]
         ELSE End(t) /\ UNCHANGED session
  BY <1>2 DEF Unlocked
<1>4. outbox[1].ok \in BOOLEAN /\ outbox[1].handle \in Nat /\ Answered(1) = task[t]
  BY <1>1, <1>2, MessageTasks DEF Answered
<1>5. /\ task' \in [Task -> Running] /\ task'[t].op \in {"load", "idle"}
      /\ \A u \in Task \ {t} : Same(u)
  <2>1. CASE outbox[1].ok
    <3> DEFINE k == LoadFrom(outbox[1].handle, task[t].then)
    <3>0. task[t].then \in Caller
      BY DEF TypeOK, Running
    <3>1. k \in Running /\ k.op = "load"
      BY <1>4, <3>0, LoadTyped DEF TypeOK
    <3>2. task \in [Task -> Running] /\ task' = [task EXCEPT ![t] = k]
      BY <1>3, <2>1 DEF TypeOK
    <3> HIDE DEF k
    <3> QED BY <3>1, <3>2 DEF Same
  <2>2. CASE ~outbox[1].ok
    BY <1>3, <2>2, EndedTask, IdleTyped
  <2> QED BY <2>1, <2>2
<1>6. session' = IF Decides(1) THEN Leaves(1) ELSE session
  BY <1>1, <1>3, <1>4 DEF Decides, Leaves
<1>7. Settled' /\ LiveHandles'
  BY <1>1, <1>5, <1>6, TakeSettled
<1>8. Messages' /\ SealsKept' /\ SetupCloses'
  BY <1>1, <1>5, TakeMessages DEF PostsNext
<1>9. Alone'
  <2>1. screen # "form"
    BY <1>1, Shown
  <2>2. task'[t].op # "setup" /\ \A u \in Task \ {t} : task'[u].op = task[u].op
    BY <1>5 DEF Same
  <2> QED BY <1>1, <2>1, <2>2, Away
<1>10. session' \in Nat /\ (session' = session \/ session' # 0)
  BY <1>1, <1>2, <1>3, <1>4 DEF Wire, LiveHandles, TypeOK
<1> QED BY <1>5, <1>7, <1>8, <1>9, <1>10 DEF Wire

LEMMA LockedWire ==
    ASSUME TypeOK, Wire, NEW t \in Task, Locked(t)
    PROVE  Wire' /\ task' \in [Task -> Running]
<1>1. /\ outbox # <<>> /\ Head(outbox).task = t /\ task[t].op = "lock"
      /\ outbox' = Tail(outbox) /\ UNCHANGED <<screen, inbox, handles>>
      /\ session' = 0
      /\ Return(t) \/ End(t)
  BY DEF Locked, Forget, Receives, ui
<1>2. Head(outbox) = outbox[1] /\ 1 \in 1..Len(outbox)
  BY <1>1, OnlyHead
<1>3. /\ task' \in [Task -> Running] /\ task'[t].op \in {"idle", "return"}
      /\ \A u \in Task \ {t} : Same(u)
  BY <1>1, IdleTyped, EndedTask, ReturnedTask
<1>4. Decides(1) /\ Leaves(1) = 0
  BY <1>1, <1>2 DEF Decides, Leaves, Answered
<1>5. Settled' /\ LiveHandles'
  BY <1>1, <1>3, <1>4, TakeSettled
<1>6. Messages' /\ SealsKept' /\ SetupCloses'
  BY <1>1, <1>3, TakeMessages DEF PostsNext
<1>7. Alone'
  <2>1. screen # "form"
    BY <1>1, Shown
  <2>2. task'[t].op # "setup" /\ \A u \in Task \ {t} : task'[u].op = task[u].op
    BY <1>3 DEF Same
  <2> QED BY <1>1, <2>1, <2>2, Away
<1> QED BY <1>3, <1>5, <1>6, <1>7 DEF Wire

LEMMA SetupDoneWire ==
    ASSUME TypeOK, Wire, NEW t \in Task, SetupDone(t)
    PROVE  Wire' /\ task' \in [Task -> Running] /\ inbox' \in Seq(Request)
<1>1. /\ outbox # <<>> /\ Head(outbox).task = t
      /\ task[t].op = "setup" /\ task[t].at = "worker"
      /\ outbox' = Tail(outbox) /\ UNCHANGED <<session, handles>>
  BY DEF SetupDone, Receives
<1>2. Head(outbox) = outbox[1] /\ 1 \in 1..Len(outbox) /\ Answered(1) = task[t]
  BY <1>1, OnlyHead DEF Answered
<1>3. screen = "form" /\ session = 0
  BY <1>1 DEF Wire, Alone
<1>4. \A u \in Task : /\ task[u].op \in {"idle", "setup"}
                      /\ task[u].op = "setup" => u = t
  BY <1>1, <1>3 DEF Wire, Alone
<1>5. CASE outbox[1].ok /\ outbox[1].handle # 0
  <2>1. Post(t, "lock", 0) /\ UNCHANGED <<task, screen>>
    BY <1>2, <1>5 DEF SetupDone
  <2>2. \A u \in Task : Same(u)
    BY <2>1 DEF Same
  <2>3. Suits("lock", task'[t].op)
    BY <1>1, <2>1 DEF Suits
  <2>4. Messages' /\ SealsKept' /\ SetupCloses'
    BY <1>1, <2>1, <2>2, <2>3, TakeMessages DEF PostsNext
  <2>5. Alone'
    BY <1>1, <2>1 DEF Wire, Alone
  <2>6. Settled'
    BY <1>1, <2>1 DEF Settled
  <2>7. LiveHandles'
    <3>1. \A j \in 1..Len(outbox') : outbox'[j].task \in Task
      BY <1>1, Taken
    <3>2. \A j \in 1..Len(outbox') : Answered(j)'.op # "unlock"
      BY <1>4, <2>1, <3>1 DEF Answered
    <3> QED BY <1>1, <1>3, <3>2 DEF LiveHandles
  <2> QED BY <2>1, <2>4, <2>5, <2>6, <2>7, Posted DEF Wire, TypeOK
<1>6. CASE ~(outbox[1].ok /\ outbox[1].handle # 0)
  <2>1. End(t) /\ inbox' = inbox
    BY <1>2, <1>6 DEF SetupDone
  <2>2. /\ task' \in [Task -> Running] /\ task'[t] = Idle
        /\ \A u \in Task \ {t} : task'[u] = task[u] /\ Same(u)
    BY <2>1, EndedTask
  <2>3. Messages' /\ SealsKept' /\ SetupCloses'
    BY <1>1, <2>1, <2>2, TakeMessages DEF PostsNext
  <2>4. \A u \in Task : task'[u].op = "idle"
    BY <1>4, <2>2, IdleTyped
  <2>5. Alone'
    BY <1>1, <1>3, <2>4 DEF Alone
  <2>6. handles = {}
    BY <1>1, <1>2, <1>6 DEF Wire, SetupCloses
  <2>7. \A j \in 1..Len(outbox') : Answered(j)'.op \notin {"unlock", "setup", "lock"}
    <3>1. \A j \in 1..Len(outbox') : outbox'[j].task \in Task
      BY <1>1, Taken
    <3> QED BY <2>4, <3>1 DEF Answered
  <2>8. Settled' /\ LiveHandles'
    <3>1. \A j \in 1..Len(outbox') : ~Decides(j)'
      BY <2>7 DEF Decides
    <3>2. Matches(session)'
      BY <1>1, <1>3, <2>6 DEF Matches
    <3> QED BY <1>1, <1>3, <2>7, <3>1, <3>2 DEF Settled, LiveHandles
  <2> QED BY <2>1, <2>2, <2>3, <2>5, <2>8 DEF Wire, TypeOK
<1> QED BY <1>5, <1>6

-----------------------------------------------------------------------------
(* The wire: the Worker.                                                   *)

\* The Worker answers the message at the head of its queue.
LEMMA Moved ==
    ASSUME TypeOK, Wire, inbox # <<>>, NEW ok \in BOOLEAN, NEW h \in Nat, AnswerHead(ok, h)
    PROVE  /\ Messages'
           /\ inbox' \in Seq(Request) /\ outbox' \in Seq(Answer)
           /\ 1 \in 1..Len(inbox) /\ Head(inbox) = inbox[1]
           /\ inbox[1].task \in Task /\ inbox[1].handle \in Nat
           /\ Len(inbox') = Len(inbox) - 1 /\ Len(inbox) \in Nat
           /\ \A j \in 1..Len(inbox') : inbox'[j] = inbox[j + 1] /\ j + 1 \in 1..Len(inbox)
           /\ Len(outbox') = Len(outbox) + 1 /\ Len(outbox) \in Nat
           /\ \A j \in 1..Len(outbox) : outbox'[j] = outbox[j]
           /\ outbox'[Len(outbox) + 1] = [task |-> inbox[1].task, ok |-> ok, handle |-> h]
           /\ UNCHANGED <<generation, session, caches, ui, task, repository, lockedAt>>
<1>1. inbox \in Seq(Request) /\ outbox \in Seq(Answer)
  BY DEF TypeOK
<1>2. /\ inbox' = Tail(inbox)
      /\ outbox' = Append(outbox, [task |-> Head(inbox).task, ok |-> ok, handle |-> h])
      /\ UNCHANGED <<generation, session, caches, ui, task, repository, lockedAt>>
  BY DEF AnswerHead
<1>3. /\ inbox' \in Seq(Request) /\ Len(inbox) \in Nat /\ Len(inbox) >= 1
      /\ Len(inbox') = Len(inbox) - 1
      /\ \A j \in 1..Len(inbox') : inbox'[j] = inbox[j + 1] /\ j + 1 \in 1..Len(inbox)
      /\ Head(inbox) = inbox[1] /\ inbox[1] \in Request
  BY <1>1, <1>2, TailFacts
<1>4. inbox[1].task \in Task /\ inbox[1].handle \in Nat /\ 1 \in 1..Len(inbox)
  BY <1>3 DEF Request
<1> DEFINE x == [task |-> inbox[1].task, ok |-> ok, handle |-> h]
<1>5. x \in Answer /\ x.task = inbox[1].task
  BY <1>4 DEF Answer
<1>6. outbox' = Append(outbox, x)
  BY <1>2, <1>3
<1> HIDE DEF x
<1>7. /\ outbox' \in Seq(Answer) /\ Len(outbox') = Len(outbox) + 1 /\ Len(outbox) \in Nat
      /\ \A j \in 1..Len(outbox) : outbox'[j] = outbox[j]
      /\ outbox'[Len(outbox) + 1] = x
  BY <1>1, <1>5, <1>6, AppendFacts
<1>8. Messages'
  <2>0. PICK n \in Nat : n = Len(outbox) + 1
    BY <1>7
  <2>1. \A j \in 1..n : j = n \/ j \in 1..Len(outbox)
    BY <1>7, <2>0
  <2>2. \A j \in 1..Len(inbox') : Asked(j)'.at = "worker" /\ Suits(inbox'[j].type, Asked(j)'.op)
    BY <1>2, <1>3 DEF Wire, Messages, Asked
  <2>3. \A j \in 1..n : Answered(j)'.at = "worker"
    <3> TAKE j \in 1..n
    <3>1. CASE j = n
      BY <1>2, <1>4, <1>5, <1>7, <2>0, <3>1 DEF Wire, Messages, Asked, Answered
    <3>2. CASE j \in 1..Len(outbox)
      BY <1>2, <1>7, <3>2 DEF Wire, Messages, Answered
    <3> QED BY <2>1, <3>1, <3>2
  <2>4. \A j, k \in 1..Len(inbox') : inbox'[j].task = inbox'[k].task => j = k
    <3> SUFFICES ASSUME NEW j \in 1..Len(inbox'), NEW k \in 1..Len(inbox'),
                        inbox'[j].task = inbox'[k].task
                 PROVE  j = k
      OBVIOUS
    <3>1. j + 1 \in 1..Len(inbox) /\ k + 1 \in 1..Len(inbox)
          /\ inbox[j + 1].task = inbox[k + 1].task
      BY <1>3
    <3>2. j + 1 = k + 1
      BY <3>1 DEF Wire, Messages
    <3> QED BY <3>2
  <2>5. \A j \in 1..Len(inbox') : inbox'[j].task # inbox[1].task
    <3> TAKE j \in 1..Len(inbox')
    <3>1. inbox'[j] = inbox[j + 1] /\ j + 1 \in 1..Len(inbox) /\ j + 1 # 1
      BY <1>3
    <3> QED BY <1>4, <3>1 DEF Wire, Messages
  <2>6. \A k \in 1..Len(outbox) : outbox[k].task # inbox[1].task
    BY <1>4 DEF Wire, Messages
  <2>7. \A j, k \in 1..n : outbox'[j].task = outbox'[k].task => j = k
    <3> SUFFICES ASSUME NEW j \in 1..n, NEW k \in 1..n, outbox'[j].task = outbox'[k].task
                 PROVE  j = k
      OBVIOUS
    <3>1. CASE j \in 1..Len(outbox) /\ k \in 1..Len(outbox)
      BY <1>7, <3>1 DEF Wire, Messages
    <3>2. CASE j = n /\ k \in 1..Len(outbox)
      BY <1>5, <1>7, <2>0, <2>6, <3>2
    <3>3. CASE k = n /\ j \in 1..Len(outbox)
      BY <1>5, <1>7, <2>0, <2>6, <3>3
    <3> QED BY <2>1, <3>1, <3>2, <3>3
  <2>8. \A j \in 1..Len(inbox'), k \in 1..n : inbox'[j].task # outbox'[k].task
    <3> TAKE j \in 1..Len(inbox'), k \in 1..n
    <3>1. CASE k = n
      BY <1>5, <1>7, <2>0, <2>5, <3>1
    <3>2. CASE k \in 1..Len(outbox)
      <4>1. inbox'[j] = inbox[j + 1] /\ j + 1 \in 1..Len(inbox)
        BY <1>3
      <4>2. inbox[j + 1].task # outbox[k].task
        BY <3>2, <4>1 DEF Wire, Messages
      <4> QED BY <1>7, <3>2, <4>1, <4>2
    <3> QED BY <2>1, <3>1, <3>2
  <2> QED BY <1>7, <2>0, <2>2, <2>3, <2>4, <2>7, <2>8 DEF Messages
<1> QED BY <1>2, <1>3, <1>4, <1>7, <1>8 DEF x

LEMMA OpenSessionWire ==
    ASSUME TypeOK, Wire, OpenSession
    PROVE  /\ Wire'
           /\ inbox' \in Seq(Request) /\ outbox' \in Seq(Answer)
           /\ handles' \subseteq Nat /\ lastHandle' \in Nat
           /\ UNCHANGED <<generation, session, caches, ui, task, repository, lockedAt>>
<1>1. PICK ok \in BOOLEAN, h \in Nat :
        /\ AnswerHead(ok, h)
        /\ lastHandle' \in Nat
        /\ IF ok THEN h # 0 /\ handles' = handles \cup {h} ELSE h = 0 /\ handles' = handles
  <2>1. lastHandle \in Nat
    BY DEF TypeOK
  <2>2. CASE /\ handles' = handles \cup {lastHandle + 1}
             /\ lastHandle' = lastHandle + 1
             /\ AnswerHead(TRUE, lastHandle + 1)
    <3> lastHandle + 1 \in Nat /\ lastHandle + 1 # 0
      BY <2>1
    <3> WITNESS TRUE \in BOOLEAN, lastHandle + 1 \in Nat
    <3> QED BY <2>2
  <2>3. CASE AnswerHead(FALSE, 0) /\ UNCHANGED <<handles, lastHandle>>
    <3> WITNESS FALSE \in BOOLEAN, 0 \in Nat
    <3> QED BY <2>1, <2>3
  <2> QED BY <2>2, <2>3 DEF OpenSession
<1>2. inbox # <<>> /\ Head(inbox).type \in {"unlock", "setup"}
  BY DEF OpenSession
<1>3. PICK n \in Nat : n = Len(outbox) + 1
  BY <1>1, <1>2, Moved
<1>4. /\ Messages'
      /\ inbox' \in Seq(Request) /\ outbox' \in Seq(Answer)
      /\ 1 \in 1..Len(inbox) /\ Head(inbox) = inbox[1]
      /\ Len(inbox') = Len(inbox) - 1 /\ Len(inbox) \in Nat
      /\ \A j \in 1..Len(inbox') : inbox'[j] = inbox[j + 1] /\ j + 1 \in 1..Len(inbox)
      /\ Len(outbox') = n /\ Len(outbox) \in Nat
      /\ \A j \in 1..Len(outbox) : outbox'[j] = outbox[j]
      /\ outbox'[n] = [task |-> inbox[1].task, ok |-> ok, handle |-> h]
      /\ UNCHANGED <<generation, session, caches, ui, task, repository, lockedAt>>
  BY <1>1, <1>2, <1>3, Moved
<1>5. \A j \in 1..n : j = n \/ j \in 1..Len(outbox)
  BY <1>3, <1>4
<1>6. handles \subseteq handles' /\ handles' \subseteq Nat
  BY <1>1 DEF TypeOK
<1>7. /\ Answered(n)' = Asked(1)
      /\ \A j \in 1..Len(outbox) : Answered(j)' = Answered(j)
      /\ \A j \in 1..Len(inbox') : Asked(j)' = Asked(j + 1)
  <2>1. Answered(n)' = Asked(1)
    BY <1>4 DEF Answered, Asked
  <2>2. \A j \in 1..Len(outbox) : Answered(j)' = Answered(j)
    BY <1>4 DEF Answered
  <2>3. \A j \in 1..Len(inbox') : Asked(j)' = Asked(j + 1)
    BY <1>4 DEF Asked
  <2> QED BY <2>1, <2>2, <2>3
<1>8. /\ Asked(1).op \in {"unlock", "setup"}
      /\ Asked(1).op = inbox[1].type
  BY <1>2, <1>4 DEF Wire, Messages, Suits
<1>9. outbox'[n].ok = ok /\ outbox'[n].handle = h
  BY <1>4
<1>10. Alone'
  BY <1>4 DEF Wire, Alone, ui
<1>11. \A j \in 1..Len(outbox) : (Decides(j)' <=> Decides(j)) /\ Leaves(j)' = Leaves(j)
  BY <1>4, <1>7 DEF Decides, Leaves
<1>12. Settled'
  <2> SUFFICES ASSUME \A u \in Task : task[u].op # "setup"
               PROVE  /\ (\A j \in 1..n : ~Decides(j)') => Matches(session)'
                      /\ \A j \in 1..n :
                           Decides(j)' /\ (\A k \in (j + 1)..n : ~Decides(k)')
                             => Matches(Leaves(j))'
    BY <1>4 DEF Settled
  <2>1. Asked(1).op = "unlock"
    BY <1>4, <1>8, MessageTasks DEF Asked
  <2>2. CASE ok
    <3>1. Decides(n)' /\ Leaves(n)' = h
      BY <1>7, <1>9, <2>1, <2>2 DEF Decides, Leaves
    <3>2. h # 0 /\ h \in handles'
      BY <1>1, <2>2
    <3>3. Matches(Leaves(n))'
      BY <3>1, <3>2 DEF Matches
    <3>4. \A j \in 1..n : j # n => n \in (j + 1)..n
      BY <1>3
    <3>5. n \in 1..n
      BY <1>3, <1>4
    <3> QED BY <3>1, <3>3, <3>4, <3>5
  <2>3. CASE ~ok
    <3>1. ~Decides(n)'
      BY <1>7, <1>9, <2>1, <2>3 DEF Decides
    <3>2. handles' = handles
      BY <1>1, <2>3
    <3>3. /\ (\A j \in 1..Len(outbox) : ~Decides(j)) => Matches(session)
          /\ \A j \in 1..Len(outbox) :
               Decides(j) /\ (\A k \in (j + 1)..Len(outbox) : ~Decides(k)) => Matches(Leaves(j))
      BY DEF Wire, Settled
    <3>4. /\ Matches(session)' <=> Matches(session)
          /\ \A j \in 1..Len(outbox) : Matches(Leaves(j))' <=> Matches(Leaves(j))
      BY <1>4, <1>11, <3>2 DEF Matches
    <3>5. \A j \in 1..Len(outbox) : \A k \in (j + 1)..Len(outbox) : k \in (j + 1)..n /\ k \in 1..Len(outbox)
      BY <1>3, <1>4
    <3>6. \A j \in 1..Len(outbox) : j \in 1..n
      BY <1>3, <1>4
    <3> QED BY <1>5, <1>11, <3>1, <3>3, <3>4, <3>5, <3>6
  <2> QED BY <2>2, <2>3
<1>13. LiveHandles'
  <2>1. \A k \in 1..Len(outbox) : k \in 1..n
    BY <1>3, <1>4
  <2>2. session' # 0 => \/ session' \in handles'
                        \/ \E k \in 1..n : Answered(k)'.op = "lock"
    BY <1>4, <1>6, <1>7, <2>1 DEF Wire, LiveHandles
  <2>3. ASSUME NEW j \in 1..n, Answered(j)'.op = "unlock", outbox'[j].ok
        PROVE  /\ outbox'[j].handle # 0
               /\ \/ outbox'[j].handle \in handles'
                  \/ \E k \in (j + 1)..n : Answered(k)'.op = "lock"
    <3>1. CASE j = n
      BY <1>1, <1>9, <2>3, <3>1
    <3>2. CASE j \in 1..Len(outbox)
      <4>1. /\ outbox[j].handle # 0
            /\ \/ outbox[j].handle \in handles
               \/ \E k \in (j + 1)..Len(outbox) : Answered(k).op = "lock"
        BY <1>4, <1>7, <2>3, <3>2 DEF Wire, LiveHandles
      <4>2. \A k \in (j + 1)..Len(outbox) : k \in (j + 1)..n /\ k \in 1..Len(outbox)
        BY <1>3, <1>4, <3>2
      <4> QED BY <1>4, <1>6, <1>7, <3>2, <4>1, <4>2
    <3> QED BY <1>5, <3>1, <3>2
  <2> QED BY <1>4, <2>2, <2>3 DEF LiveHandles
<1>14. SealsKept'
  <2>1. ASSUME NEW j \in 1..Len(inbox'), inbox'[j].type = "seal", ~Asked(j)'.late
        PROVE  inbox'[j].handle \in handles' /\ \A k \in 1..(j - 1) : inbox'[k].type # "lock"
    <3>1. /\ inbox[j + 1].handle \in handles
          /\ \A k \in 1..((j + 1) - 1) : inbox[k].type # "lock"
      BY <1>4, <1>7, <2>1 DEF Wire, SealsKept
    <3>2. \A k \in 1..(j - 1) : k + 1 \in 1..((j + 1) - 1) /\ k \in 1..Len(inbox')
      BY <1>4
    <3> QED BY <1>4, <1>6, <3>1, <3>2
  <2>2. \A j \in 1..n :
          Answered(j)'.op \in {"save", "delete"} /\ ~Answered(j)'.late => outbox'[j].ok
    BY <1>4, <1>5, <1>7, <1>8 DEF Wire, SealsKept
  <2> QED BY <1>4, <2>1, <2>2 DEF SealsKept
<1>15. SetupCloses'
  <2>1. CASE Asked(1).op = "unlock"
    <3>1. \A u \in Task : task[u].op # "setup"
      BY <1>4, <2>1, MessageTasks DEF Wire, Alone, Asked
    <3>2. \A j \in 1..Len(inbox') : inbox'[j].type # "setup"
      BY <1>4, <3>1, MessageTasks DEF Wire, Messages, Suits, Asked
    <3>3. \A j \in 1..n : Answered(j)'.op # "setup"
      BY <1>5, <1>7, <2>1, <3>1, MessageTasks DEF Answered
    <3> QED BY <1>4, <3>2, <3>3 DEF SetupCloses
  <2>2. CASE Asked(1).op = "setup"
    <3>1. \A j \in 1..Len(inbox') : inbox'[j].type # "setup"
      <4> TAKE j \in 1..Len(inbox')
      <4> SUFFICES ASSUME inbox'[j].type = "setup" PROVE FALSE
        OBVIOUS
      <4>1. inbox[j + 1].type = "setup" /\ j + 1 \in 1..Len(inbox) /\ j + 1 # 1
        BY <1>4
      <4>2. Asked(j + 1).op = "setup"
        BY <4>1 DEF Wire, Messages, Suits
      <4>3. inbox[j + 1].task = inbox[1].task
        BY <1>4, <2>2, <4>1, <4>2, MessageTasks DEF Wire, Alone, Asked
      <4> QED BY <1>4, <4>1, <4>3 DEF Wire, Messages
    <3>2. \A j \in 1..Len(outbox) : Answered(j).op # "setup"
      <4> TAKE j \in 1..Len(outbox)
      <4> SUFFICES ASSUME Answered(j).op = "setup" PROVE FALSE
        OBVIOUS
      <4>1. outbox[j].task = inbox[1].task
        BY <1>4, <2>2, MessageTasks DEF Wire, Alone, Asked, Answered
      <4> QED BY <1>4, <4>1 DEF Wire, Messages
    <3>3. handles = {}
      BY <1>4, <1>8, <2>2 DEF Wire, SetupCloses
    <3>4. ~(ok /\ h # 0) => handles' = {}
      BY <1>1, <3>3
    <3> QED BY <1>4, <1>5, <1>7, <1>9, <3>1, <3>2, <3>4 DEF SetupCloses
  <2> QED BY <1>8, <2>1, <2>2
<1> QED BY <1>1, <1>4, <1>6, <1>10, <1>12, <1>13, <1>14, <1>15 DEF Wire

LEMMA UseSessionWire ==
    ASSUME TypeOK, Wire, UseSession
    PROVE  /\ Wire'
           /\ inbox' \in Seq(Request) /\ outbox' \in Seq(Answer)
           /\ UNCHANGED <<generation, session, caches, ui, task, repository, lockedAt, handles, lastHandle>>
<1>1. /\ inbox # <<>> /\ Head(inbox).type \in {"seal", "open"}
      /\ UNCHANGED <<handles, lastHandle>>
  BY DEF UseSession
<1>2. PICK ok \in BOOLEAN :
        /\ AnswerHead(ok, 0)
        /\ Head(inbox).type = "seal" => ok = (Head(inbox).handle \in handles)
  <2>1. CASE AnswerHead(Head(inbox).handle \in handles, 0)
    <3> WITNESS (Head(inbox).handle \in handles) \in BOOLEAN
    <3> QED BY <2>1
  <2>2. CASE Head(inbox).type = "open" /\ AnswerHead(FALSE, 0)
    <3> WITNESS FALSE \in BOOLEAN
    <3> QED BY <2>2
  <2> QED BY <2>1, <2>2 DEF UseSession
<1>3. PICK n \in Nat : n = Len(outbox) + 1
  BY <1>1, <1>2, Moved
<1>4. /\ Messages'
      /\ inbox' \in Seq(Request) /\ outbox' \in Seq(Answer)
      /\ 1 \in 1..Len(inbox) /\ Head(inbox) = inbox[1]
      /\ Len(inbox') = Len(inbox) - 1 /\ Len(inbox) \in Nat
      /\ \A j \in 1..Len(inbox') : inbox'[j] = inbox[j + 1] /\ j + 1 \in 1..Len(inbox)
      /\ Len(outbox') = n /\ Len(outbox) \in Nat
      /\ \A j \in 1..Len(outbox) : outbox'[j] = outbox[j]
      /\ outbox'[n] = [task |-> inbox[1].task, ok |-> ok, handle |-> 0]
      /\ UNCHANGED <<generation, session, caches, ui, task, repository, lockedAt>>
  BY <1>1, <1>2, <1>3, Moved
<1>5. \A j \in 1..n : j = n \/ j \in 1..Len(outbox)
  BY <1>3, <1>4
<1>7. /\ Answered(n)' = Asked(1)
      /\ \A j \in 1..Len(outbox) : Answered(j)' = Answered(j)
      /\ \A j \in 1..Len(inbox') : Asked(j)' = Asked(j + 1)
  <2>1. Answered(n)' = Asked(1)
    BY <1>4 DEF Answered, Asked
  <2>2. \A j \in 1..Len(outbox) : Answered(j)' = Answered(j)
    BY <1>4 DEF Answered
  <2>3. \A j \in 1..Len(inbox') : Asked(j)' = Asked(j + 1)
    BY <1>4 DEF Asked
  <2> QED BY <2>1, <2>2, <2>3
<1>8. /\ Asked(1).op \in {"save", "delete", "load"}
      /\ Asked(1).op \in {"save", "delete"} => inbox[1].type = "seal"
  BY <1>1, <1>4 DEF Wire, Messages, Suits
<1>9. outbox'[n].ok = ok
  BY <1>4
<1>10. Alone'
  BY <1>4 DEF Wire, Alone, ui
<1>11. /\ \A j \in 1..Len(outbox) : (Decides(j)' <=> Decides(j)) /\ Leaves(j)' = Leaves(j)
       /\ ~Decides(n)'
  <2>1. \A j \in 1..Len(outbox) : (Decides(j)' <=> Decides(j)) /\ Leaves(j)' = Leaves(j)
    BY <1>4, <1>7 DEF Decides, Leaves
  <2>2. ~Decides(n)'
    BY <1>7, <1>8 DEF Decides
  <2> QED BY <2>1, <2>2
<1>12. \A j \in 1..Len(outbox) : /\ j \in 1..n
                                 /\ \A k \in (j + 1)..Len(outbox) : k \in (j + 1)..n /\ k \in 1..Len(outbox)
  BY <1>3, <1>4
<1>13. Settled'
  <2>1. /\ Matches(session)' <=> Matches(session)
        /\ \A j \in 1..Len(outbox) : Matches(Leaves(j))' <=> Matches(Leaves(j))
    BY <1>1, <1>4, <1>11 DEF Matches
  <2> SUFFICES ASSUME \A u \in Task : task[u].op # "setup"
               PROVE  /\ (\A j \in 1..n : ~Decides(j)') => Matches(session)'
                      /\ \A j \in 1..n :
                           Decides(j)' /\ (\A k \in (j + 1)..n : ~Decides(k)')
                             => Matches(Leaves(j))'
    BY <1>4 DEF Settled
  <2>2. /\ (\A j \in 1..Len(outbox) : ~Decides(j)) => Matches(session)
        /\ \A j \in 1..Len(outbox) :
             Decides(j) /\ (\A k \in (j + 1)..Len(outbox) : ~Decides(k)) => Matches(Leaves(j))
    BY DEF Wire, Settled
  <2> QED BY <1>5, <1>11, <1>12, <2>1, <2>2
<1>14. LiveHandles'
  <2>1. session' # 0 => \/ session' \in handles'
                        \/ \E k \in 1..n : Answered(k)'.op = "lock"
    BY <1>1, <1>4, <1>7, <1>12 DEF Wire, LiveHandles
  <2>2. ASSUME NEW j \in 1..n, Answered(j)'.op = "unlock", outbox'[j].ok
        PROVE  /\ outbox'[j].handle # 0
               /\ \/ outbox'[j].handle \in handles'
                  \/ \E k \in (j + 1)..n : Answered(k)'.op = "lock"
    <3>1. j \in 1..Len(outbox)
      BY <1>5, <1>7, <1>8, <2>2
    <3>2. /\ outbox[j].handle # 0
          /\ \/ outbox[j].handle \in handles
             \/ \E k \in (j + 1)..Len(outbox) : Answered(k).op = "lock"
      BY <1>4, <1>7, <2>2, <3>1 DEF Wire, LiveHandles
    <3> QED BY <1>1, <1>4, <1>7, <1>12, <3>1, <3>2
  <2> QED BY <1>4, <2>1, <2>2 DEF LiveHandles
<1>15. SealsKept'
  <2>1. ASSUME NEW j \in 1..Len(inbox'), inbox'[j].type = "seal", ~Asked(j)'.late
        PROVE  inbox'[j].handle \in handles' /\ \A k \in 1..(j - 1) : inbox'[k].type # "lock"
    <3>1. /\ inbox[j + 1].handle \in handles
          /\ \A k \in 1..((j + 1) - 1) : inbox[k].type # "lock"
      BY <1>4, <1>7, <2>1 DEF Wire, SealsKept
    <3>2. \A k \in 1..(j - 1) : k + 1 \in 1..((j + 1) - 1) /\ k \in 1..Len(inbox')
      BY <1>4
    <3> QED BY <1>1, <1>4, <3>1, <3>2
  <2>2. Asked(1).op \in {"save", "delete"} /\ ~Asked(1).late => ok
    BY <1>2, <1>4, <1>8 DEF Wire, SealsKept
  <2>3. \A j \in 1..n :
          Answered(j)'.op \in {"save", "delete"} /\ ~Answered(j)'.late => outbox'[j].ok
    BY <1>4, <1>5, <1>7, <1>9, <2>2 DEF Wire, SealsKept
  <2> QED BY <1>4, <2>1, <2>3 DEF SealsKept
<1>16. SetupCloses'
  <2>1. \A j \in 1..Len(inbox') : inbox'[j].type = "setup" => handles' = {}
    BY <1>1, <1>4 DEF Wire, SetupCloses
  <2>2. \A j \in 1..n :
          Answered(j)'.op = "setup" /\ ~(outbox'[j].ok /\ outbox'[j].handle # 0) => handles' = {}
    BY <1>1, <1>4, <1>5, <1>7, <1>8 DEF Wire, SetupCloses
  <2> QED BY <1>4, <2>1, <2>2 DEF SetupCloses
<1> QED BY <1>1, <1>4, <1>10, <1>13, <1>14, <1>15, <1>16 DEF Wire

LEMMA CloseSessionsWire ==
    ASSUME TypeOK, Wire, CloseSessions
    PROVE  /\ Wire'
           /\ inbox' \in Seq(Request) /\ outbox' \in Seq(Answer)
           /\ handles' = {} /\ lastHandle' = lastHandle
           /\ UNCHANGED <<generation, session, caches, ui, task, repository, lockedAt>>
<1>1. /\ inbox # <<>> /\ Head(inbox).type = "lock"
      /\ handles' = {} /\ lastHandle' = lastHandle
  BY DEF CloseSessions
<1>2. PICK ok \in BOOLEAN : AnswerHead(ok, 0)
  BY DEF CloseSessions
<1>3. PICK n \in Nat : n = Len(outbox) + 1
  BY <1>1, <1>2, Moved
<1>4. /\ Messages'
      /\ inbox' \in Seq(Request) /\ outbox' \in Seq(Answer)
      /\ 1 \in 1..Len(inbox) /\ Head(inbox) = inbox[1]
      /\ Len(inbox') = Len(inbox) - 1 /\ Len(inbox) \in Nat
      /\ \A j \in 1..Len(inbox') : inbox'[j] = inbox[j + 1] /\ j + 1 \in 1..Len(inbox)
      /\ Len(outbox') = n /\ Len(outbox) \in Nat
      /\ \A j \in 1..Len(outbox) : outbox'[j] = outbox[j]
      /\ outbox'[n] = [task |-> inbox[1].task, ok |-> ok, handle |-> 0]
      /\ UNCHANGED <<generation, session, caches, ui, task, repository, lockedAt>>
  BY <1>1, <1>2, <1>3, Moved
<1>5. \A j \in 1..n : j = n \/ j \in 1..Len(outbox)
  BY <1>3, <1>4
<1>7. /\ Answered(n)' = Asked(1)
      /\ \A j \in 1..Len(outbox) : Answered(j)' = Answered(j)
      /\ \A j \in 1..Len(inbox') : Asked(j)' = Asked(j + 1)
  <2>1. Answered(n)' = Asked(1)
    BY <1>4 DEF Answered, Asked
  <2>2. \A j \in 1..Len(outbox) : Answered(j)' = Answered(j)
    BY <1>4 DEF Answered
  <2>3. \A j \in 1..Len(inbox') : Asked(j)' = Asked(j + 1)
    BY <1>4 DEF Asked
  <2> QED BY <2>1, <2>2, <2>3
<1>8. Asked(1).op \in {"lock", "setup"}
  BY <1>1, <1>4 DEF Wire, Messages, Suits
<1>9. n \in 1..n /\ \A j \in 1..Len(outbox) : j \in 1..n /\ n \in (j + 1)..n
  BY <1>3, <1>4
<1>10. Alone'
  BY <1>4 DEF Wire, Alone, ui
<1>11. Settled'
  <2> SUFFICES ASSUME \A u \in Task : task[u].op # "setup"
               PROVE  /\ (\A j \in 1..n : ~Decides(j)') => Matches(session)'
                      /\ \A j \in 1..n :
                           Decides(j)' /\ (\A k \in (j + 1)..n : ~Decides(k)')
                             => Matches(Leaves(j))'
    BY <1>4 DEF Settled
  <2>1. Asked(1).op = "lock"
    BY <1>4, <1>8, MessageTasks DEF Asked
  <2>2. Decides(n)' /\ Leaves(n)' = 0
    BY <1>7, <2>1 DEF Decides, Leaves
  <2>3. Matches(Leaves(n))'
    BY <1>1, <2>2 DEF Matches
  <2> QED BY <1>5, <1>9, <2>2, <2>3
<1>12. LiveHandles'
  <2>1. CASE Asked(1).op = "lock"
    <3>1. Answered(n)'.op = "lock"
      BY <1>7, <2>1
    <3>2. \A j \in 1..n : Answered(j)'.op = "unlock" =>
            j \in 1..Len(outbox) /\ Answered(j).op = "unlock" /\ outbox'[j] = outbox[j]
      BY <1>4, <1>5, <1>7, <3>1
    <3>3. \A j \in 1..n : Answered(j)'.op = "unlock" /\ outbox'[j].ok =>
            outbox'[j].handle # 0 /\ n \in (j + 1)..n
      BY <1>9, <3>2 DEF Wire, LiveHandles
    <3> QED BY <1>4, <1>9, <3>1, <3>3 DEF LiveHandles
  <2>2. CASE Asked(1).op = "setup"
    <3>1. session = 0 /\ \A u \in Task : task[u].op # "unlock"
      BY <1>4, <2>2, MessageTasks DEF Wire, Alone, Asked
    <3>2. \A j \in 1..n : Answered(j)'.op # "unlock"
      BY <1>5, <1>7, <2>2, <3>1, MessageTasks DEF Answered
    <3> QED BY <1>4, <3>1, <3>2 DEF LiveHandles
  <2> QED BY <1>8, <2>1, <2>2
<1>13. SealsKept'
  <2>1. ASSUME NEW j \in 1..Len(inbox'), inbox'[j].type = "seal", ~Asked(j)'.late
        PROVE  FALSE
    <3>1. \A k \in 1..((j + 1) - 1) : inbox[k].type # "lock"
      BY <1>4, <1>7, <2>1 DEF Wire, SealsKept
    <3>2. 1 \in 1..((j + 1) - 1)
      BY <1>4
    <3> QED BY <1>1, <1>4, <3>1, <3>2
  <2>2. \A j \in 1..n :
          Answered(j)'.op \in {"save", "delete"} /\ ~Answered(j)'.late => outbox'[j].ok
    BY <1>4, <1>5, <1>7, <1>8 DEF Wire, SealsKept
  <2> QED BY <1>4, <2>1, <2>2 DEF SealsKept
<1>14. SetupCloses'
  BY <1>1 DEF SetupCloses
<1> QED BY <1>1, <1>4, <1>10, <1>11, <1>12, <1>13, <1>14 DEF Wire

-----------------------------------------------------------------------------
(* The steps.                                                              *)

\* A method that neither loads nor seals.
LEMMA NothingHeld ==
    ASSUME NEW k,
           k.op \in {"idle", "unlock", "setup", "lock"} \/ (k.op = "return" /\ k.at = "step")
    PROVE  HoldsOf(k)
BY DEF HoldsOf

\* A step of one task.
LEMMA OneTask ==
    ASSUME IInv, TypeOK', Wire', NEW t \in Task,
           \A u \in Task \ {t} : task'[u] = task[u],
           HoldsOf(task'[t]), Forgets'
    PROVE  IInv'
<1>1. \A u \in Task : HoldsOf(task'[u])
  BY DEF IInv, Holds
<1> QED BY <1>1 DEF IInv, Holds

\* The cache stays, and a session that is open.
LEMMA CacheStays ==
    ASSUME IInv, UNCHANGED <<itemCache, lockedAt>>, generation' \in {generation, generation + 1},
           session # 0 => session' # 0
    PROVE  Forgets'
<1>1. generation \in Nat /\ lockedAt \in Nat /\ lockedAt <= generation
  BY DEF IInv, TypeOK, Forgets
<1>2. lockedAt' <= generation'
  BY <1>1
<1>3. LockForgets'
  BY DEF IInv, Forgets, LockForgets
<1> QED BY <1>2, <1>3 DEF Forgets

\* A step that leaves the tasks alone.
LEMMA NoTask ==
    ASSUME IInv, TypeOK', Wire', UNCHANGED <<task, generation, session, itemCache, lockedAt>>
    PROVE  IInv'
<1>1. Forgets'
  BY CacheStays
<1>2. Holds'
  BY DEF IInv, Holds
<1> QED BY <1>1, <1>2 DEF IInv

\* lock's finally block leaves nothing.
LEMMA Forgotten ==
    ASSUME TypeOK, Forget
    PROVE  /\ Forgets'
           /\ generation' \in Nat /\ lockedAt' \in Nat /\ session' = 0
           /\ itemCache' \in [Item -> Plain \cup {None}]
           /\ revisionCache' \in [Item -> Nat] /\ deletedLocally' \subseteq Item
<1>1. generation \in Nat
  BY DEF TypeOK
<1>2. \A i \in Item : itemCache'[i] = None
  BY DEF Forget
<1>3. lockedAt' = generation' /\ generation' \in Nat
  BY <1>1 DEF Forget
<1> QED BY <1>1, <1>2, <1>3 DEF Forget, Forgets, LockForgets

LEMMA WorkerStepOK ==
    ASSUME IInv, WorkerStep
    PROVE  IInv'
<1>1. TypeOK /\ Wire
  BY DEF IInv
<1>2. /\ Wire'
      /\ inbox' \in Seq(Request) /\ outbox' \in Seq(Answer)
      /\ handles' \subseteq Nat /\ lastHandle' \in Nat
      /\ UNCHANGED <<generation, session, caches, ui, task, repository, lockedAt>>
  <2>1. CASE OpenSession
    BY <1>1, <2>1, OpenSessionWire
  <2>2. CASE UseSession
    BY <1>1, <2>2, UseSessionWire DEF TypeOK
  <2>3. CASE CloseSessions
    BY <1>1, <2>3, CloseSessionsWire DEF TypeOK
  <2> QED BY <2>1, <2>2, <2>3 DEF WorkerStep
<1>3. TypeOK'
  BY <1>1, <1>2 DEF TypeOK, caches, ui, repository
<1> QED BY <1>2, <1>3, NoTask DEF caches

LEMMA OpenVaultStep ==
    ASSUME IInv, NEW t \in Task, NEW then \in Caller, OpenVault(t, then),
           screen # "form", task[t].at # "worker", task[t].op \notin Keying
    PROVE  IInv'
<1>1. TypeOK /\ Wire
  BY DEF IInv
<1>2. /\ generation' = generation + 1
      /\ UNCHANGED <<session, caches, ui, repository, outbox, handles, lastHandle, lockedAt>>
  BY DEF OpenVault
<1>3. /\ Wire' /\ task' \in [Task -> Running] /\ task'[t].op = "unlock"
      /\ inbox' \in Seq(Request) /\ \A u \in Task \ {t} : task'[u] = task[u]
  BY <1>1, OpenVaultWire
<1>4. generation' \in Nat
  BY <1>1, <1>2 DEF TypeOK
<1>5. TypeOK'
  BY <1>1, <1>2, <1>3, <1>4 DEF TypeOK, caches, ui, repository
<1>6. Forgets'
  BY <1>2, CacheStays DEF caches
<1> QED BY <1>3, <1>5, <1>6, NothingHeld, OneTask

LEMMA UnlockStep ==
    ASSUME IInv, NEW t \in Task, Unlock(t)
    PROVE  IInv'
<1>1. screen # "form" /\ task[t].at # "worker" /\ task[t].op \notin Keying
  BY IdleTyped DEF Unlock, Keying
<1>2. PICK then \in Caller : OpenVault(t, then)
  BY DEF Unlock, Caller
<1> QED BY <1>1, <1>2, OpenVaultStep

LEMMA UnlockedStep ==
    ASSUME IInv, NEW t \in Task, Unlocked(t)
    PROVE  IInv'
<1>1. TypeOK /\ Wire
  BY DEF IInv
<1>2. /\ Wire' /\ task' \in [Task -> Running] /\ session' \in Nat
      /\ session' = session \/ session' # 0
  BY <1>1, UnlockedWire
<1>3. /\ outbox # <<>> /\ Head(outbox).task = t /\ outbox' = Tail(outbox)
      /\ \/ task' = [task EXCEPT ![t] = LoadFrom(Head(outbox).handle, task[t].then)]
         \/ task' = [task EXCEPT ![t] = Idle]
      /\ UNCHANGED <<generation, caches, ui, repository, inbox, handles, lastHandle, lockedAt>>
  BY DEF Unlocked, Receives, End
<1>4. outbox' \in Seq(Answer)
  BY <1>1, <1>3, Taken
<1>5. TypeOK'
  BY <1>1, <1>2, <1>3, <1>4 DEF TypeOK, caches, ui, repository
<1>6. /\ \A u \in Task \ {t} : task'[u] = task[u]
      /\ task'[t] = Idle \/ task'[t] = LoadFrom(Head(outbox).handle, task[t].then)
  BY <1>1, <1>3 DEF TypeOK
<1>7. Head(outbox).handle \in Nat /\ task[t].then \in Caller /\ generation \in Nat
  BY <1>1, <1>3, OnlyHead, MessageTasks DEF TypeOK, Running
<1>8. HoldsOf(task'[t])
  BY <1>6, <1>7, LoadTyped, IdleTyped DEF HoldsOf
<1>9. Forgets'
  BY <1>2, <1>3, CacheStays DEF caches
<1> QED BY <1>2, <1>5, <1>6, <1>8, <1>9, OneTask

LEMMA CreateAccountSetupStep ==
    ASSUME IInv, NEW t \in Task, CreateAccountSetup(t)
    PROVE  IInv'
<1> DEFINE k == [Idle EXCEPT !.op = "setup", !.at = "worker"]
<1>1. k \in Running /\ k.op = "setup"
  BY DEF Idle, Running, Op, Stage, Caller
<1>2. /\ Begin(t, k) /\ Post(t, "setup", 0)
      /\ UNCHANGED <<generation, session, caches, ui, repository, outbox, handles, lastHandle, lockedAt>>
  BY DEF CreateAccountSetup
<1> HIDE DEF k
<1>3. TypeOK /\ Wire
  BY DEF IInv
<1>4. /\ task' \in [Task -> Running] /\ task'[t] = k
      /\ \A u \in Task \ {t} : task'[u] = task[u]
  BY <1>1, <1>2, <1>3, Began
<1>5. inbox' \in Seq(Request)
  BY <1>2, <1>3, Posted
<1>6. TypeOK'
  BY <1>2, <1>3, <1>4, <1>5 DEF TypeOK, caches, ui, repository
<1>7. Wire'
  BY <1>3, CreateAccountSetupWire
<1>8. Forgets'
  BY <1>2, CacheStays DEF caches
<1> QED BY <1>1, <1>4, <1>6, <1>7, <1>8, NothingHeld, OneTask

LEMMA LockVaultStep ==
    ASSUME IInv, NEW t \in Task, NEW then \in Caller, LockVault(t, then),
           screen # "form", task[t].at # "worker", task[t].op \notin Keying
    PROVE  IInv'
<1>1. TypeOK /\ Wire
  BY DEF IInv
<1>2. UNCHANGED <<ui, repository, outbox, handles, lastHandle>>
  BY DEF LockVault
<1>3. /\ Wire' /\ task' \in [Task -> Running] /\ HoldsOf(task'[t])
      /\ inbox' \in Seq(Request) /\ \A u \in Task \ {t} : task'[u] = task[u]
  BY <1>1, LockVaultWire
<1>4. CASE Forget
  <2>1. TypeOK'
    BY <1>1, <1>2, <1>3, <1>4, Forgotten DEF TypeOK, ui, repository
  <2> QED BY <1>1, <1>3, <1>4, <2>1, Forgotten, OneTask
<1>5. CASE UNCHANGED <<generation, session, caches, lockedAt>>
  <2>1. TypeOK'
    BY <1>1, <1>2, <1>3, <1>5 DEF TypeOK, caches, ui, repository
  <2>2. Forgets'
    BY <1>5, CacheStays DEF caches
  <2> QED BY <1>3, <2>1, <2>2, OneTask
<1> QED BY <1>4, <1>5 DEF LockVault

LEMMA LockStep ==
    ASSUME IInv, NEW t \in Task, Lock(t)
    PROVE  IInv'
<1>1. screen # "form" /\ task[t].at # "worker" /\ task[t].op \notin Keying
  BY IdleTyped, Shown DEF IInv, Lock, Keying
<1>2. LockVault(t, "leave") /\ "leave" \in Caller
  BY DEF Lock, Caller
<1> QED BY <1>1, <1>2, LockVaultStep

LEMMA SetupDoneStep ==
    ASSUME IInv, NEW t \in Task, SetupDone(t)
    PROVE  IInv'
<1>1. TypeOK /\ Wire
  BY DEF IInv
<1>2. Wire' /\ task' \in [Task -> Running] /\ inbox' \in Seq(Request)
  BY <1>1, SetupDoneWire
<1>3. /\ outbox # <<>> /\ Head(outbox).task = t /\ outbox' = Tail(outbox)
      /\ task[t].op = "setup"
      /\ task' = task \/ task' = [task EXCEPT ![t] = Idle]
      /\ screen' \in {screen, "confirm"}
      /\ UNCHANGED <<generation, session, caches, form, repository, handles, lastHandle, lockedAt>>
  BY DEF SetupDone, Receives, End
<1>4. outbox' \in Seq(Answer)
  BY <1>1, <1>3, Taken
<1>5. TypeOK'
  BY <1>1, <1>2, <1>3, <1>4 DEF TypeOK, caches, repository, Screen
<1>6. /\ \A u \in Task \ {t} : task'[u] = task[u]
      /\ task'[t].op \in {"idle", "setup"}
  BY <1>1, <1>3, IdleTyped DEF TypeOK
<1>7. Forgets'
  BY <1>3, CacheStays DEF caches
<1> QED BY <1>2, <1>5, <1>6, <1>7, NothingHeld, OneTask

LEMMA LockedStep ==
    ASSUME IInv, NEW t \in Task, Locked(t)
    PROVE  IInv'
<1>1. TypeOK /\ Wire
  BY DEF IInv
<1>2. Wire' /\ task' \in [Task -> Running]
  BY <1>1, LockedWire
<1>3. /\ outbox # <<>> /\ Head(outbox).task = t /\ outbox' = Tail(outbox)
      /\ Forget /\ (Return(t) \/ End(t))
      /\ UNCHANGED <<ui, repository, inbox, handles, lastHandle>>
  BY DEF Locked, Receives
<1>4. outbox' \in Seq(Answer)
  BY <1>1, <1>3, Taken
<1>5. TypeOK'
  BY <1>1, <1>2, <1>3, <1>4, Forgotten DEF TypeOK, ui, repository
<1>6. /\ HoldsOf(task'[t])
      /\ \A u \in Task \ {t} : task'[u] = task[u]
  BY <1>1, <1>3, EndedTask, ReturnedTask, IdleTyped, NothingHeld
<1> QED BY <1>1, <1>2, <1>3, <1>5, <1>6, Forgotten, OneTask

\* A step of one task that keeps the session and the decrypted items.
LEMMA TaskStep ==
    ASSUME IInv, TypeOK', Wire', NEW t \in Task,
           \A u \in Task \ {t} : task'[u] = task[u],
           HoldsOf(task'[t]), UNCHANGED <<generation, session, itemCache, lockedAt>>
    PROVE  IInv'
BY CacheStays, OneTask

\* A caller goes on.
LEMMA ResumedStep ==
    ASSUME IInv, NEW t \in Task, Resumed(t)
    PROVE  IInv'
<1>1. TypeOK /\ Wire
  BY DEF IInv
<1>2. task[t].op = "return" /\ task[t].op \notin Keying
  BY DEF Resumed, Keying
<1>3. screen # "form"
  BY <1>1, <1>2, Shown
<1>4. task[t].at # "worker"
  BY <1>2 DEF IInv, Holds, HoldsOf
<1>5. CASE task[t].then \in {"vault", "leave"}
  <2>1. PICK view \in {"vault", "unlock"} : Show(view)
    BY <1>5 DEF Resumed
  <2>2. End(t) /\ UNCHANGED <<generation, session, caches, repository, worker, lockedAt>>
    BY <1>5 DEF Resumed
  <2>3. screen' \in {"vault", "unlock"} /\ form' \in {form, None}
    BY <2>1 DEF Show, Mounted
  <2>4. /\ task' \in [Task -> Running] /\ task'[t] = Idle
        /\ \A u \in Task \ {t} : task'[u] = task[u]
    BY <1>1, <2>2, EndedTask
  <2>5. TypeOK'
    BY <1>1, <2>2, <2>3, <2>4 DEF TypeOK, caches, repository, worker, Screen
  <2>6. Aside(t)
    BY <1>2, <1>4, <2>4, IdleTyped DEF Aside, Keying
  <2>7. Alone'
    BY <1>1, <1>3, <2>3, <2>4, IdleTyped, Away
  <2>8. Wire'
    <3>1. \A u \in Task : Same(u) \/ Aside(u)
      BY <2>4, <2>6 DEF Same
    <3> QED BY <1>1, <2>2, <2>7, <3>1, WireAside
  <2>9. HoldsOf(task'[t])
    BY <2>4, IdleTyped, NothingHeld
  <2> QED BY <2>2, <2>4, <2>5, <2>8, <2>9, TaskStep DEF caches
<1>6. CASE LockVault(t, "reopen")
  BY <1>2, <1>3, <1>4, <1>6, LockVaultStep DEF Caller
<1>7. CASE OpenVault(t, "vault")
  BY <1>2, <1>3, <1>4, <1>7, OpenVaultStep DEF Caller
<1> QED BY <1>5, <1>6, <1>7 DEF Resumed

\* A method that loads, or ends.
LEMMA LoadHolds ==
    ASSUME NEW k, k.op \in {"idle", "load", "return"},
           k.op = "load" /\ k.at = "worker" => k.now \in Loading,
           k.op = "return" => k.at = "step"
    PROVE  HoldsOf(k)
BY DEF HoldsOf

\* Methods that wait for the repository, or run.
LEMMA AsideStep ==
    ASSUME TypeOK, Wire, NEW t \in Task, UNCHANGED <<session, screen, worker>>,
           \A u \in Task \ {t} : task'[u] = task[u], Aside(t), screen # "form"
    PROVE  Wire'
<1>1. \A u \in Task : Same(u) \/ Aside(u)
  BY DEF Same
<1>2. Alone'
  BY Away DEF Aside, Keying
<1> QED BY <1>1, <1>2, WireAside

\* No task moves.
LEMMA StillStep ==
    ASSUME TypeOK, Wire, UNCHANGED <<session, task, worker>>,
           screen' = screen \/ (screen # "form" /\ screen' # "form")
    PROVE  Wire'
<1>1. \A u \in Task : Same(u)
  BY DEF Same
<1>2. Alone'
  BY DEF Wire, Alone
<1> QED BY <1>1, <1>2, WireAside

LEMMA RefreshStep ==
    ASSUME IInv, NEW t \in Task, Refresh(t)
    PROVE  IInv'
<1> DEFINE k == LoadFrom(session, "nothing")
<1>1. TypeOK /\ Wire
  BY DEF IInv
<1>2. generation \in Nat /\ session \in Nat
  BY <1>1 DEF TypeOK
<1>3. k \in Running /\ k.op = "load" /\ k.at = "repo"
  BY <1>2, LoadTyped DEF Caller
<1>4. Begin(t, k) /\ UNCHANGED <<generation, session, caches, ui, repository, worker, lockedAt>>
  BY DEF Refresh
<1> HIDE DEF k
<1>5. /\ task[t].op = "idle" /\ task[t].at = "step"
      /\ task' \in [Task -> Running] /\ task'[t] = k
      /\ \A u \in Task \ {t} : task'[u] = task[u]
  BY <1>1, <1>3, <1>4, Began
<1>6. TypeOK'
  BY <1>1, <1>4, <1>5 DEF TypeOK, caches, ui, repository, worker
<1>7. Aside(t) /\ screen # "form"
  BY <1>1, <1>3, <1>5, Shown DEF Aside, Keying, Refresh
<1>8. Wire'
  BY <1>1, <1>4, <1>5, <1>7, AsideStep DEF ui
<1>9. HoldsOf(task'[t])
  BY <1>3, <1>5, LoadHolds
<1> QED BY <1>4, <1>5, <1>6, <1>8, <1>9, TaskStep DEF caches

LEMMA ListedStep ==
    ASSUME IInv, NEW t \in Task, Listed(t)
    PROVE  IInv'
<1>1. TypeOK /\ Wire
  BY DEF IInv
<1>2. /\ task[t].op = "load" /\ task[t].at = "repo"
      /\ UNCHANGED <<generation, session, caches, ui, repository, worker, lockedAt>>
  BY DEF Listed
<1>3. task[t] \in Running
  BY <1>1 DEF TypeOK
<1>4. /\ task' \in [Task -> Running]
      /\ \A u \in Task \ {t} : task'[u] = task[u]
      /\ task'[t].op \in {"idle", "load", "return"} /\ task'[t].at = "step"
  <2> DEFINE S == IF task[t].stage = "records"
                  THEN {[item |-> i, origin |-> records[i].revision, deleted |-> records[i].deleted] :
                          i \in {j \in Item : records[j].revision > 0}}
                  ELSE {[item |-> e.item, origin |-> e.origin, deleted |-> e.deleted] :
                          e \in {q \in queue : q.conflict = 0}}
  <2>1. S \subseteq Loading
    <3>1. \A i \in Item : records[i] \in Record
      BY <1>1 DEF TypeOK
    <3>2. \A e \in queue : e \in Entry
      BY <1>1 DEF TypeOK
    <3> QED BY <3>1, <3>2 DEF Loading, Record, Entry
  <2>2. CASE isGenerationCurrent(task[t].gen)
    <3>1. task' = [task EXCEPT ![t].at = "step", ![t].todo = S]
      BY <2>2 DEF Listed
    <3> HIDE DEF S
    <3>2. [task[t] EXCEPT !.at = "step", !.todo = S] \in Running
      BY <1>3, <2>1 DEF Running
    <3>3. task' = [task EXCEPT ![t] = [task[t] EXCEPT !.at = "step", !.todo = S]]
      BY <1>1, <3>1 DEF TypeOK
    <3>4. /\ [task[t] EXCEPT !.at = "step", !.todo = S].op = "load"
          /\ [task[t] EXCEPT !.at = "step", !.todo = S].at = "step"
      BY <1>2, <1>3 DEF Running
    <3> QED BY <1>1, <3>2, <3>3, <3>4 DEF TypeOK
  <2>3. CASE ~isGenerationCurrent(task[t].gen)
    <3>1. Return(t)
      BY <2>3 DEF Listed
    <3> QED BY <1>1, <3>1, ReturnedTask
  <2> QED BY <2>2, <2>3
<1>5. TypeOK'
  BY <1>1, <1>2, <1>4 DEF TypeOK, caches, ui, repository, worker
<1>6. Aside(t) /\ screen # "form"
  BY <1>1, <1>2, <1>4, Shown DEF Aside, Keying
<1>7. Wire'
  BY <1>1, <1>2, <1>4, <1>6, AsideStep DEF ui
<1>8. HoldsOf(task'[t])
  BY <1>4, LoadHolds
<1> QED BY <1>2, <1>4, <1>5, <1>7, <1>8, TaskStep DEF caches

LEMMA LoadNextStep ==
    ASSUME IInv, NEW t \in Task, LoadNext(t)
    PROVE  IInv'
<1>1. TypeOK /\ Wire
  BY DEF IInv
<1>2. /\ task[t].op = "load" /\ task[t].at = "step"
      /\ UNCHANGED <<generation, session, caches, ui, repository, worker, lockedAt>>
  BY DEF LoadNext
<1>3. task[t] \in Running
  BY <1>1 DEF TypeOK
<1>4. /\ task' \in [Task -> Running]
      /\ \A u \in Task \ {t} : task'[u] = task[u]
      /\ task'[t].op \in {"idle", "load", "return"} /\ task'[t].at \in {"step", "repo"}
      /\ task'[t].op = "return" => task'[t].at = "step"
  <2> DEFINE k == [task[t] EXCEPT !.stage = "queue", !.at = "repo"]
  <2>1. k \in Running /\ k.op = "load" /\ k.at = "repo"
    BY <1>2, <1>3 DEF Running, Stage
  <2>2. task' = [task EXCEPT ![t] = k] \/ Return(t)
    BY <1>1 DEF LoadNext, TypeOK
  <2> HIDE DEF k
  <2> QED BY <1>1, <2>1, <2>2, ReturnedTask DEF TypeOK
<1>5. TypeOK'
  BY <1>1, <1>2, <1>4 DEF TypeOK, caches, ui, repository, worker
<1>6. Aside(t) /\ screen # "form"
  BY <1>1, <1>2, <1>4, Shown DEF Aside, Keying
<1>7. Wire'
  BY <1>1, <1>2, <1>4, <1>6, AsideStep DEF ui
<1>8. HoldsOf(task'[t])
  BY <1>4, LoadHolds
<1> QED BY <1>2, <1>4, <1>5, <1>7, <1>8, TaskStep DEF caches

LEMMA LoadOneStep ==
    ASSUME IInv, NEW t \in Task, LoadOne(t)
    PROVE  IInv'
<1>1. TypeOK /\ Wire
  BY DEF IInv
<1>2. PICK l \in task[t].todo :
        /\ task[t].op = "load" /\ task[t].at = "step"
        /\ IF isGenerationCurrent(task[t].gen)
           THEN /\ revisionCache' = IF task[t].stage = "records"
                                    THEN [revisionCache EXCEPT ![l.item] = l.origin]
                                    ELSE revisionCache
                /\ IF l.deleted
                   THEN /\ deletedLocally' = deletedLocally \cup {l.item}
                        /\ task' = [task EXCEPT ![t].todo = @ \ {l}]
                        /\ UNCHANGED inbox
                   ELSE /\ task' = [task EXCEPT ![t].todo = @ \ {l}, ![t].now = l, ![t].at = "worker"]
                        /\ Post(t, "open", task[t].handle)
                        /\ UNCHANGED deletedLocally
           ELSE Return(t) /\ UNCHANGED <<revisionCache, deletedLocally, inbox>>
        /\ UNCHANGED <<generation, session, itemCache, ui, repository, outbox, handles, lastHandle, lockedAt>>
  BY DEF LoadOne
<1>3. task[t] \in Running /\ task[t].handle \in Nat /\ screen # "form"
  BY <1>1, <1>2, Shown DEF TypeOK, Running
<1>4. l \in Loading
  BY <1>2, <1>3 DEF Running
<1>5. l.item \in Item /\ l.origin \in Nat
  BY <1>4 DEF Loading
<1>6. revisionCache' \in [Item -> Nat] /\ deletedLocally' \subseteq Item
  BY <1>1, <1>2, <1>5 DEF TypeOK
<1>7. /\ task' \in [Task -> Running]
      /\ \A u \in Task \ {t} : task'[u] = task[u]
      /\ task'[t].op \in {"idle", "load", "return"} /\ (task'[t].op = "return" => task'[t].at = "step")
      /\ task'[t].op = "load" /\ task'[t].at = "worker" => task'[t].now \in Loading
      /\ inbox' \in Seq(Request)
      /\ Wire'
  <2>1. CASE isGenerationCurrent(task[t].gen) /\ l.deleted
    <3> DEFINE k == [task[t] EXCEPT !.todo = @ \ {l}]
    <3>1. k \in Running /\ k.op = "load" /\ k.at = "step"
      BY <1>2, <1>3 DEF Running
    <3>2. task' = [task EXCEPT ![t] = k] /\ UNCHANGED worker
      BY <1>1, <1>2, <2>1 DEF TypeOK, worker
    <3> HIDE DEF k
    <3>3. /\ task' \in [Task -> Running] /\ task'[t] = k
          /\ \A u \in Task \ {t} : task'[u] = task[u]
      BY <1>1, <3>1, <3>2 DEF TypeOK
    <3>4. Aside(t)
      BY <1>2, <3>1, <3>3 DEF Aside, Keying
    <3>5. Wire'
      BY <1>1, <1>2, <1>3, <3>2, <3>3, <3>4, AsideStep DEF ui
    <3> QED BY <1>1, <3>1, <3>2, <3>3, <3>5 DEF TypeOK, worker
  <2>2. CASE isGenerationCurrent(task[t].gen) /\ ~l.deleted
    <3> DEFINE k == [task[t] EXCEPT !.todo = @ \ {l}, !.now = l, !.at = "worker"]
    <3>1. k \in Running /\ k.op = "load" /\ k.at = "worker" /\ k.now = l
      BY <1>2, <1>3, <1>4 DEF Running
    <3>2. task' = [task EXCEPT ![t] = k] /\ Post(t, "open", task[t].handle)
      BY <1>1, <1>2, <2>2 DEF TypeOK
    <3> HIDE DEF k
    <3>3. /\ task' \in [Task -> Running] /\ task'[t] = k
          /\ \A u \in Task \ {t} : task'[u] = task[u]
      BY <1>1, <3>1, <3>2 DEF TypeOK
    <3>4. \A u \in Task \ {t} : Same(u)
      BY <3>3 DEF Same
    <3>5. Suits("open", task'[t].op) /\ task[t].op \notin Keying
      BY <1>2, <3>1, <3>3 DEF Suits, Keying
    <3>6. Wire'
      <4>1. Alone'
        BY <1>1, <1>2, <1>3, <3>1, <3>3, Away DEF ui
      <4> QED BY <1>1, <1>2, <1>3, <3>1, <3>2, <3>3, <3>4, <3>5, <4>1, WirePost
    <3>7. inbox' \in Seq(Request)
      BY <1>1, <1>3, <3>2, Posted
    <3> QED BY <1>4, <3>1, <3>3, <3>6, <3>7
  <2>3. CASE ~isGenerationCurrent(task[t].gen)
    <3>1. Return(t) /\ UNCHANGED worker
      BY <1>2, <2>3 DEF worker
    <3>2. /\ task' \in [Task -> Running] /\ task'[t].op \in {"idle", "return"} /\ task'[t].at = "step"
          /\ \A u \in Task \ {t} : task'[u] = task[u]
      BY <1>1, <3>1, ReturnedTask
    <3>3. Aside(t)
      BY <1>2, <3>2 DEF Aside, Keying
    <3>4. Wire'
      BY <1>1, <1>2, <1>3, <3>1, <3>2, <3>3, AsideStep DEF ui
    <3> QED BY <1>1, <3>1, <3>2, <3>4 DEF TypeOK, worker
  <2> QED BY <2>1, <2>2, <2>3
<1>8. TypeOK'
  BY <1>1, <1>2, <1>6, <1>7 DEF TypeOK, repository, ui
<1>9. HoldsOf(task'[t])
  BY <1>7, LoadHolds
<1> QED BY <1>2, <1>7, <1>8, <1>9, TaskStep

LEMMA LoadedStep ==
    ASSUME IInv, NEW t \in Task, Loaded(t)
    PROVE  IInv'
<1> DEFINE l == task[t].now
           current == Head(outbox).ok /\ isGenerationCurrent(task[t].gen)
<1>1. TypeOK /\ Wire /\ Holds /\ LockForgets /\ lockedAt <= generation
  BY DEF IInv, Forgets
<1>2. /\ outbox # <<>> /\ Head(outbox).task = t /\ outbox' = Tail(outbox)
      /\ task[t].op = "load" /\ task[t].at = "worker"
      /\ current => itemCache' = [itemCache EXCEPT ![l.item] = [origin |-> l.origin, gen |-> task[t].gen]]
      /\ ~current => itemCache' = itemCache
      /\ deletedLocally' \in {deletedLocally, deletedLocally \ {l.item}}
      /\ Return(t) \/ task' = [task EXCEPT ![t].at = "step", ![t].now = None]
      /\ UNCHANGED <<generation, session, revisionCache, ui, repository, inbox, handles, lastHandle, lockedAt>>
  BY DEF Loaded, Receives
<1>3. task[t] \in Running /\ l \in Loading
  BY <1>1, <1>2 DEF TypeOK, Holds, HoldsOf
<1>4. l.item \in Item /\ l.origin \in Nat /\ task[t].gen \in Nat
  BY <1>3 DEF Loading, Running
<1>5. current => task[t].gen = generation /\ session # 0
  BY DEF isGenerationCurrent
<1> HIDE DEF l, current
<1>6. /\ itemCache' \in [Item -> Plain \cup {None}]
      /\ \A i \in Item : itemCache'[i] # None => session # 0 /\ itemCache'[i].gen >= lockedAt
  <2>1. CASE current
    <3>1. [origin |-> l.origin, gen |-> task[t].gen] \in Plain
      BY <1>4 DEF Plain
    <3>2. itemCache \in [Item -> Plain \cup {None}]
      BY <1>1 DEF TypeOK
    <3>3. itemCache' \in [Item -> Plain \cup {None}]
      BY <1>2, <2>1, <3>1, <3>2
    <3>4. \A i \in Item : itemCache'[i] = IF i = l.item THEN [origin |-> l.origin, gen |-> task[t].gen]
                                          ELSE itemCache[i]
      BY <1>2, <2>1, <3>2
    <3> QED BY <1>1, <1>5, <2>1, <3>3, <3>4 DEF LockForgets
  <2>2. CASE ~current
    BY <1>1, <1>2, <2>2 DEF TypeOK, LockForgets
  <2> QED BY <2>1, <2>2
<1>7. /\ task' \in [Task -> Running]
      /\ \A u \in Task \ {t} : task'[u] = task[u]
      /\ task'[t].op \in {"idle", "load", "return"} /\ task'[t].at = "step"
  <2> DEFINE k == [task[t] EXCEPT !.at = "step", !.now = None]
  <2>1. k \in Running /\ k.op = "load" /\ k.at = "step"
    BY <1>2, <1>3 DEF Running
  <2>2. task' = [task EXCEPT ![t] = k] \/ Return(t)
    BY <1>1, <1>2 DEF TypeOK
  <2> HIDE DEF k
  <2> QED BY <1>1, <2>1, <2>2, ReturnedTask DEF TypeOK
<1>8. outbox' \in Seq(Answer)
  BY <1>1, <1>2, Taken
<1>9. TypeOK'
  BY <1>1, <1>2, <1>6, <1>7, <1>8 DEF TypeOK, repository, ui
<1>10. Wire'
  <2>1. task[t].op \notin Keying /\ task'[t].op \notin Keying
    BY <1>2, <1>7 DEF Keying
  <2>2. \A u \in Task \ {t} : Same(u)
    BY <1>7 DEF Same
  <2>3. PostsNext(t)
    BY <1>2 DEF PostsNext
  <2>4. Alone'
    BY <1>1, <1>2, <1>7, Shown, Away DEF ui
  <2> QED BY <1>1, <1>2, <2>1, <2>2, <2>3, <2>4, WireTake
<1>11. HoldsOf(task'[t])
  BY <1>7, LoadHolds
<1>12. Forgets'
  BY <1>1, <1>2, <1>6 DEF Forgets, LockForgets
<1> QED BY <1>7, <1>9, <1>10, <1>11, <1>12, OneTask

LEMMA OpenFormStep ==
    ASSUME IInv, NEW i \in Item, OpenForm(i)
    PROVE  IInv'
<1>1. TypeOK /\ Wire
  BY DEF IInv
<1>2. /\ form' = [item |-> i, origin |-> IF i \in Visible THEN itemCache[i].origin ELSE 0]
      /\ UNCHANGED <<generation, session, caches, screen, task, repository, worker, lockedAt>>
  BY DEF OpenForm
<1>3. i \in Visible => itemCache[i].origin \in Nat
  BY <1>1 DEF Visible, TypeOK, Plain
<1>4. form' \in Form
  BY <1>2, <1>3 DEF Form
<1>5. TypeOK'
  BY <1>1, <1>2, <1>4 DEF TypeOK, caches, repository, worker
<1>6. Wire'
  BY <1>1, <1>2, StillStep
<1> QED BY <1>2, <1>5, <1>6, NoTask DEF caches

LEMMA LeaveFormStep ==
    ASSUME IInv, LeaveForm
    PROVE  IInv'
<1>1. TypeOK /\ Wire
  BY DEF IInv
<1>2. /\ screen = "vault" /\ screen' \in {"vault", "unlock"} /\ form' = None
      /\ UNCHANGED <<generation, session, caches, task, repository, worker, lockedAt>>
  BY DEF LeaveForm, Mounted
<1>3. TypeOK'
  BY <1>1, <1>2 DEF TypeOK, caches, repository, worker, Screen
<1>4. Wire'
  BY <1>1, <1>2, StillStep
<1> QED BY <1>2, <1>3, <1>4, NoTask DEF caches

LEMMA UndoDeleteStep ==
    ASSUME IInv, UndoDelete
    PROVE  IInv'
<1>1. TypeOK /\ Wire
  BY DEF IInv
<1>2. PICK e \in queue :
        /\ queue' = queue \ {e}
        /\ deletedLocally' = deletedLocally \ {e.item}
        /\ UNCHANGED <<generation, session, itemCache, revisionCache, ui, task, records, worker, lockedAt>>
  BY DEF UndoDelete
<1>3. TypeOK'
  BY <1>1, <1>2 DEF TypeOK, ui, worker
<1>4. Wire'
  BY <1>1, <1>2, StillStep DEF ui
<1> QED BY <1>2, <1>3, <1>4, NoTask

LEMMA PushedStep ==
    ASSUME IInv, NEW e \in queue, Pushed(e)
    PROVE  IInv'
<1>1. TypeOK /\ Wire
  BY DEF IInv
<1>2. e \in Entry /\ records \in [Item -> Record] /\ queue \subseteq Entry
  BY <1>1 DEF TypeOK
<1>3. e.item \in Item /\ e.deleted \in BOOLEAN /\ records[e.item].revision \in Nat
  BY <1>2 DEF Entry, Record
<1>4. /\ \/ /\ records' = [records EXCEPT ![e.item] =
                    [revision |-> @.revision + 1, deleted |-> e.deleted]]
            /\ queue' = queue \ {e}
         \/ /\ queue' = (queue \ {e}) \cup {[e EXCEPT !.conflict = records[e.item].revision]}
            /\ records' = records
      /\ UNCHANGED <<generation, session, caches, ui, task, worker, lockedAt>>
  BY DEF Pushed
<1>5. [e EXCEPT !.conflict = records[e.item].revision] \in Entry
  BY <1>2, <1>3 DEF Entry
<1>6. [revision |-> records[e.item].revision + 1, deleted |-> e.deleted] \in Record
  BY <1>3 DEF Record
<1>7. records' \in [Item -> Record] /\ queue' \subseteq Entry
  BY <1>2, <1>3, <1>4, <1>5, <1>6
<1>8. TypeOK'
  BY <1>1, <1>4, <1>7 DEF TypeOK, caches, ui, worker
<1>9. Wire'
  BY <1>1, <1>4, StillStep DEF ui
<1> QED BY <1>4, <1>8, <1>9, NoTask DEF caches

LEMMA PulledStep ==
    ASSUME IInv, NEW i \in Item, Pulled(i)
    PROVE  IInv'
<1>1. TypeOK /\ Wire
  BY DEF IInv
<1>2. PICK deleted \in BOOLEAN :
        records' = [records EXCEPT ![i] = [revision |-> @.revision + 1, deleted |-> deleted]]
  BY DEF Pulled
<1>3. UNCHANGED <<generation, session, caches, ui, task, queue, worker, lockedAt>>
  BY DEF Pulled
<1>4. records \in [Item -> Record]
  BY <1>1 DEF TypeOK
<1>5. [revision |-> records[i].revision + 1, deleted |-> deleted] \in Record
  BY <1>4 DEF Record
<1>6. records' \in [Item -> Record]
  BY <1>2, <1>4, <1>5
<1>7. TypeOK'
  BY <1>1, <1>3, <1>6 DEF TypeOK, caches, ui, worker
<1>8. Wire'
  BY <1>1, <1>3, StillStep DEF ui
<1> QED BY <1>3, <1>7, <1>8, NoTask DEF caches

\* What is sealed while no lock is on its way is sealed with the session's key.
LEMMA SealStep ==
    ASSUME IInv, NEW t \in Task, NEW op \in {"save", "delete"}, NEW i \in Item,
           NEW origin \in Nat,
           Seal(t, op, i, origin), form' \in {form, None},
           UNCHANGED <<generation, session, caches, screen, repository, outbox, handles, lastHandle, lockedAt>>
    PROVE  IInv'
<1> DEFINE e == [item |-> i, origin |-> origin, base |-> 0, deleted |-> op = "delete", conflict |-> 0]
           k == [Idle EXCEPT !.op = op, !.at = "worker", !.gen = generation, !.handle = session,
                             !.entry = e, !.late = LockRequested]
<1>1. TypeOK /\ Wire
  BY DEF IInv
<1>2. generation \in Nat /\ session \in Nat
  BY <1>1 DEF TypeOK
<1>3. e \in Entry
  BY DEF Entry
<1>4. session # 0 /\ Begin(t, k) /\ Post(t, "seal", session)
  BY DEF Seal
<1> HIDE DEF e
<1>5. LockRequested \in BOOLEAN
  BY DEF LockRequested
<1>6. /\ k \in Running /\ k.op = op /\ k.at = "worker" /\ k.entry = e
      /\ k.late = LockRequested
  BY <1>2, <1>3, <1>5 DEF Idle, Running, Op, Stage, Caller
<1> HIDE DEF k
<1>7. /\ task[t].op = "idle" /\ task[t].at = "step"
      /\ task' \in [Task -> Running] /\ task'[t] = k
      /\ \A u \in Task \ {t} : task'[u] = task[u] /\ Same(u)
  BY <1>1, <1>4, <1>6, Began
<1>8. inbox' \in Seq(Request)
  BY <1>1, <1>2, <1>4, Posted
<1>9. form' \in Form \cup {None}
  BY <1>1 DEF TypeOK
<1>10. TypeOK'
  BY <1>1, <1>7, <1>8, <1>9 DEF TypeOK, caches, repository
<1>11. Wire'
  <2>1. ~task'[t].late => \A u \in Task : task[u].op # "lock"
    BY <1>6, <1>7 DEF LockRequested
  <2>2. Suits("seal", task'[t].op) /\ task[t].op \notin Keying /\ task[t].at # "worker"
    BY <1>6, <1>7 DEF Suits, Keying
  <2>3. Alone'
    BY <1>1, <1>4, <1>6, <1>7, Shown, Away
  <2> QED BY <1>1, <1>2, <1>4, <1>6, <1>7, <2>1, <2>2, <2>3, WirePost
<1>12. HoldsOf(task'[t])
  BY <1>3, <1>6, <1>7 DEF HoldsOf
<1> QED BY <1>7, <1>10, <1>11, <1>12, TaskStep DEF caches

LEMMA SaveItemStep ==
    ASSUME IInv, NEW t \in Task, SaveItem(t)
    PROVE  IInv'
<1>1. form \in Form
  BY DEF IInv, TypeOK, SaveItem
<1>2. form.item \in Item /\ form.origin \in Nat
  BY <1>1 DEF Form
<1> QED BY <1>2, SealStep DEF SaveItem

LEMMA DeleteItemStep ==
    ASSUME IInv, NEW t \in Task, DeleteItem(t)
    PROVE  IInv'
<1>1. PICK i \in Visible :
        /\ Seal(t, "delete", i, itemCache[i].origin)
        /\ UNCHANGED <<generation, session, caches, ui, repository, outbox, handles, lastHandle, lockedAt>>
  BY DEF DeleteItem
<1>2. i \in Item /\ itemCache[i].origin \in Nat
  BY DEF IInv, TypeOK, Visible, Plain
<1> QED BY <1>1, <1>2, SealStep DEF ui

LEMMA ImportItemStep ==
    ASSUME IInv, NEW t \in Task, ImportItem(t)
    PROVE  IInv'
<1>1. PICK i \in Item :
        /\ Seal(t, "save", i, 0)
        /\ UNCHANGED <<generation, session, caches, ui, repository, outbox, handles, lastHandle, lockedAt>>
  BY DEF ImportItem
<1> QED BY <1>1, SealStep DEF ui

LEMMA SealedStep ==
    ASSUME IInv, NEW t \in Task, NEW op \in {"save", "delete"}, Sealed(t, op)
    PROVE  IInv'
<1>1. TypeOK /\ Wire /\ Holds
  BY DEF IInv
<1>2. /\ outbox # <<>> /\ Head(outbox).task = t /\ outbox' = Tail(outbox)
      /\ task[t].op = op /\ task[t].at = "worker"
      /\ UNCHANGED <<generation, session, caches, ui, repository, inbox, handles, lastHandle, lockedAt>>
  BY DEF Sealed, Receives
<1>3. task[t] \in Running /\ task[t].entry \in Entry
  BY <1>1, <1>2 DEF TypeOK, Holds, HoldsOf
<1>4. task[t].entry.item \in Item /\ task[t].entry.base \in Nat
  BY <1>3 DEF Entry
<1>5. revisionCache[task[t].entry.item] \in Nat
  BY <1>1, <1>4 DEF TypeOK
<1>6. /\ task' \in [Task -> Running]
      /\ \A u \in Task \ {t} : task'[u] = task[u]
      /\ task'[t].op \in {"idle", op} /\ HoldsOf(task'[t])
  <2> DEFINE base == revisionCache[task[t].entry.item]
             k == [task[t] EXCEPT !.at = "repo", !.entry = [task[t].entry EXCEPT !.base = base]]
  <2>1. base \in Nat
    BY <1>4, <1>5
  <2>2. task' = [task EXCEPT ![t] = k] \/ End(t)
    <3>1. CASE Head(outbox).ok
      <4>1. task' = [task EXCEPT ![t].at = "repo", ![t].entry.base = base]
        BY <3>1 DEF Sealed
      <4> QED BY <1>1, <1>3, <4>1 DEF TypeOK, Running
    <3>2. CASE ~Head(outbox).ok
      BY <3>2 DEF Sealed
    <3> QED BY <3>1, <3>2
  <2> HIDE DEF base
  <2>3. [task[t].entry EXCEPT !.base = base] \in Entry
    BY <1>3, <2>1 DEF Entry
  <2>4. k \in Running /\ k.op = op /\ k.at = "repo" /\ k.entry \in Entry
    BY <1>2, <1>3, <2>3 DEF Running
  <2> HIDE DEF k
  <2>5. CASE task' = [task EXCEPT ![t] = k]
    <3>1. task' \in [Task -> Running] /\ task'[t] = k /\ \A u \in Task \ {t} : task'[u] = task[u]
      BY <1>1, <2>4, <2>5 DEF TypeOK
    <3> QED BY <2>4, <3>1 DEF HoldsOf
  <2>6. CASE End(t)
    BY <1>1, <2>6, EndedTask, IdleTyped, NothingHeld
  <2> QED BY <2>2, <2>5, <2>6
<1>7. outbox' \in Seq(Answer)
  BY <1>1, <1>2, Taken
<1>8. TypeOK'
  BY <1>1, <1>2, <1>6, <1>7 DEF TypeOK, caches, ui, repository
<1>9. Wire'
  <2>1. task[t].op \notin Keying /\ task'[t].op \notin Keying
    BY <1>2, <1>6 DEF Keying
  <2>2. \A u \in Task \ {t} : Same(u)
    BY <1>6 DEF Same
  <2>3. PostsNext(t)
    BY <1>2 DEF PostsNext
  <2>4. Alone'
    BY <1>1, <1>2, <1>6, Shown, Away DEF ui
  <2> QED BY <1>1, <1>2, <2>1, <2>2, <2>3, <2>4, WireTake
<1> QED BY <1>2, <1>6, <1>8, <1>9, TaskStep DEF caches

LEMMA EnqueuedStep ==
    ASSUME IInv, NEW t \in Task, NEW op \in {"save", "delete"}, Enqueued(t, op)
    PROVE  IInv'
<1> DEFINE i == task[t].entry.item
           kept == op = "save" /\ isGenerationCurrent(task[t].gen)
<1>1. TypeOK /\ Wire /\ Holds /\ LockForgets /\ lockedAt <= generation
  BY DEF IInv, Forgets
<1>2. /\ task[t].op = op /\ task[t].at = "repo"
      /\ queue' = queue \cup {task[t].entry}
      /\ kept => itemCache' = [itemCache EXCEPT ![i] =
                                 [origin |-> task[t].entry.origin, gen |-> task[t].gen]]
      /\ ~kept => itemCache' = itemCache
      /\ deletedLocally' \in {deletedLocally, deletedLocally \ {i}, deletedLocally \cup {i}}
      /\ End(t)
      /\ UNCHANGED <<generation, session, revisionCache, ui, records, worker, lockedAt>>
  BY DEF Enqueued
<1>3. task[t] \in Running /\ task[t].entry \in Entry
  BY <1>1, <1>2 DEF TypeOK, Holds, HoldsOf
<1>4. /\ i \in Item /\ task[t].entry.origin \in Nat /\ task[t].gen \in Nat
      /\ generation \in Nat /\ session \in Nat
  BY <1>1, <1>3 DEF Entry, Running, TypeOK
<1>5. kept => task[t].gen = generation /\ session # 0
  BY DEF isGenerationCurrent
<1> HIDE DEF i, kept
<1>6. /\ itemCache' \in [Item -> Plain \cup {None}]
      /\ \A j \in Item : itemCache'[j] # None => session # 0 /\ itemCache'[j].gen >= lockedAt
  <2>1. CASE kept
    <3>1. [origin |-> task[t].entry.origin, gen |-> task[t].gen] \in Plain
      BY <1>4 DEF Plain
    <3>2. itemCache \in [Item -> Plain \cup {None}]
      BY <1>1 DEF TypeOK
    <3>3. itemCache' \in [Item -> Plain \cup {None}]
      BY <1>2, <2>1, <3>1, <3>2
    <3>4. \A j \in Item : itemCache'[j] = IF j = i THEN [origin |-> task[t].entry.origin, gen |-> task[t].gen]
                                          ELSE itemCache[j]
      BY <1>2, <2>1, <3>2
    <3> QED BY <1>1, <1>5, <2>1, <3>3, <3>4 DEF LockForgets
  <2>2. CASE ~kept
    BY <1>1, <1>2, <2>2 DEF TypeOK, LockForgets
  <2> QED BY <2>1, <2>2
<1>7. queue' \subseteq Entry /\ deletedLocally' \subseteq Item
  BY <1>1, <1>2, <1>3, <1>4 DEF TypeOK
<1>8. task' \in [Task -> Running] /\ task'[t] = Idle /\ \A u \in Task \ {t} : task'[u] = task[u]
  BY <1>1, <1>2, EndedTask
<1>9. TypeOK'
  BY <1>1, <1>2, <1>6, <1>7, <1>8 DEF TypeOK, ui, worker
<1>10. Aside(t) /\ screen # "form"
  BY <1>1, <1>2, <1>8, IdleTyped, Shown DEF Aside, Keying
<1>11. Wire'
  BY <1>1, <1>2, <1>8, <1>10, AsideStep DEF ui
<1>12. HoldsOf(task'[t])
  BY <1>8, IdleTyped, NothingHeld
<1>13. Forgets'
  BY <1>1, <1>2, <1>6 DEF Forgets, LockForgets
<1> QED BY <1>8, <1>9, <1>11, <1>12, <1>13, OneTask

-----------------------------------------------------------------------------
(* The invariant and what follows from it.                                 *)

LEMMA InitOK ==
    ASSUME Init
    PROVE  IInv
<1>1. /\ generation = 0 /\ session = 0 /\ task = [t \in Task |-> Idle]
      /\ inbox = <<>> /\ outbox = <<>> /\ handles = {} /\ lockedAt = 0
      /\ itemCache = [i \in Item |-> None]
  BY DEF Init
<1>2. \A t \in Task : task[t] = Idle
  BY <1>1
<1>3. TypeOK
  BY IdleTyped DEF Init, TypeOK, Record, Screen
<1>4. Len(inbox) = 0 /\ Len(outbox) = 0
  BY <1>1
<1>5. Wire
  <2>1. Messages /\ LiveHandles /\ SealsKept /\ SetupCloses
    BY <1>1, <1>4 DEF Messages, LiveHandles, SealsKept, SetupCloses
  <2>2. Alone
    BY <1>1, <1>2, IdleTyped DEF Alone
  <2>3. Settled
    BY <1>1, <1>4 DEF Settled, Matches
  <2> QED BY <2>1, <2>2, <2>3 DEF Wire
<1>6. Holds
  BY <1>2, IdleTyped, NothingHeld DEF Holds
<1>7. Forgets
  BY <1>1 DEF Forgets, LockForgets
<1> QED BY <1>3, <1>5, <1>6, <1>7 DEF IInv

LEMMA Quiet ==
    ASSUME IInv, UNCHANGED vars
    PROVE  IInv'
<1>1. UNCHANGED <<generation, session, caches, ui, task, repository, worker, lockedAt>>
  BY DEF vars
<1>2. TypeOK'
  BY <1>1 DEF IInv, TypeOK, caches, ui, repository, worker
<1>3. Wire'
  BY <1>1, StillStep DEF IInv, ui
<1> QED BY <1>1, <1>2, <1>3, NoTask DEF caches

LEMMA StepOK ==
    ASSUME IInv, [Next]_vars
    PROVE  IInv'
<1>1. CASE WorkerStep
  BY <1>1, WorkerStepOK
<1>2. ASSUME NEW t \in Task, Resume(t)
      PROVE  IInv'
  <2>1. CASE Unlocked(t)
    BY <2>1, UnlockedStep
  <2>2. CASE SetupDone(t)
    BY <2>2, SetupDoneStep
  <2>3. CASE Locked(t)
    BY <2>3, LockedStep
  <2>4. CASE Listed(t)
    BY <2>4, ListedStep
  <2>5. CASE LoadOne(t)
    BY <2>5, LoadOneStep
  <2>6. CASE Loaded(t)
    BY <2>6, LoadedStep
  <2>7. CASE LoadNext(t)
    BY <2>7, LoadNextStep
  <2>8. CASE Resumed(t)
    BY <2>8, ResumedStep
  <2>9. CASE \E op \in {"save", "delete"} : Sealed(t, op)
    BY <2>9, SealedStep
  <2>10. CASE \E op \in {"save", "delete"} : Enqueued(t, op)
    BY <2>10, EnqueuedStep
  <2> QED BY <1>2, <2>1, <2>2, <2>3, <2>4, <2>5, <2>6, <2>7, <2>8, <2>9, <2>10 DEF Resume
<1>3. ASSUME NEW t \in Task, Call(t)
      PROVE  IInv'
  <2>1. CASE Unlock(t)
    BY <2>1, UnlockStep
  <2>2. CASE CreateAccountSetup(t)
    BY <2>2, CreateAccountSetupStep
  <2>3. CASE Refresh(t)
    BY <2>3, RefreshStep
  <2>4. CASE Lock(t)
    BY <2>4, LockStep
  <2>5. CASE SaveItem(t)
    BY <2>5, SaveItemStep
  <2>6. CASE ImportItem(t)
    BY <2>6, ImportItemStep
  <2>7. CASE DeleteItem(t)
    BY <2>7, DeleteItemStep
  <2> QED BY <1>3, <2>1, <2>2, <2>3, <2>4, <2>5, <2>6, <2>7 DEF Call
<1>4. ASSUME NEW i \in Item, OpenForm(i) \/ Pulled(i)
      PROVE  IInv'
  BY <1>4, OpenFormStep, PulledStep
<1>5. CASE LeaveForm \/ UndoDelete
  BY <1>5, LeaveFormStep, UndoDeleteStep
<1>6. ASSUME NEW e \in queue, Pushed(e)
      PROVE  IInv'
  BY <1>6, PushedStep
<1>7. CASE UNCHANGED vars
  BY <1>7, Quiet
<1> QED BY <1>1, <1>2, <1>3, <1>4, <1>5, <1>6, <1>7 DEF Next

\* Every reachable state satisfies the inductive invariant.
THEOREM Invariance == Spec => []IInv
<1>1. Init => IInv
  BY InitOK
<1>2. IInv /\ [Next]_vars => IInv'
  BY StepOK
<1> QED BY <1>1, <1>2, PTL DEF Spec

\* The state of VaultSession and of the Worker is well-typed.
THEOREM TypeCorrect == Spec => []TypeOK
<1>1. IInv => TypeOK
  BY DEF IInv
<1> QED BY <1>1, Invariance, PTL

\* isGenerationCurrent in loadAllItemsIntoMemory and saveItem: what a method
\* begun before a lock decrypted never reaches the cache after it.
THEOREM LockForgetsHolds == Spec => []LockForgets
<1>1. IInv => LockForgets
  BY DEF IInv, Forgets
<1> QED BY <1>1, Invariance, PTL

\* Because the Worker answers in the order it is asked, the last answer that
\* sets the vault's session is the one its keys match.
THEOREM KeysFollowHolds == Spec => []KeysFollowSession
<1>1. IInv => KeysFollowSession
  BY QuietKeys DEF IInv, KeysFollowSession, Matches
<1> QED BY <1>1, Invariance, PTL

\* The step in which a save or a delete leaves the Worker for nothing: its seal
\* was refused.
LEMMA RefusedIsLate ==
    ASSUME IInv, Next, NEW t \in Task, task[t].op \in {"save", "delete"},
           task[t].at = "worker", task'[t] = Idle
    PROVE  task[t].late
<1>1. TypeOK /\ Wire
  BY DEF IInv
<1>2. task[t] # Idle
  BY IdleTyped
<1>3. task'[t] # task[t]
  BY <1>2
<1>4. ASSUME NEW op \in {"save", "delete"}, Sealed(t, op)
      PROVE  task[t].late
  <2>1. outbox # <<>> /\ Head(outbox).task = t
    BY <1>4 DEF Sealed, Receives
  <2>2. outbox[1].task = t /\ 1 \in 1..Len(outbox) /\ Head(outbox) = outbox[1]
    BY <1>1, <2>1, OnlyHead
  <2>3. ~Head(outbox).ok
    <3> SUFFICES ASSUME Head(outbox).ok
                 PROVE  FALSE
      OBVIOUS
    <3>1. task' = [task EXCEPT ![t].at = "repo",
                                ![t].entry.base = revisionCache[task[t].entry.item]]
      BY <1>4 DEF Sealed
    <3>2. task'[t].at = "repo"
      BY <1>1, <3>1 DEF TypeOK, Running
    <3> QED BY <3>2, IdleTyped
  <2> QED BY <1>1, <2>2, <2>3 DEF Wire, SealsKept, Answered
\* Nothing else moves a task that awaits its seal.
<1>5. ASSUME NEW u \in Task, Resume(u), \A op \in {"save", "delete"} : ~Sealed(t, op)
      PROVE  task'[t].op = task[t].op
  <2>1. task \in [Task -> Running]
    BY <1>1 DEF TypeOK
  <2>2. CASE Unlocked(u)
    BY <2>1, <2>2 DEF Unlocked, Receives, End
  <2>3. CASE SetupDone(u)
    BY <2>1, <2>3 DEF SetupDone, Receives, End
  <2>4. CASE Locked(u)
    <3>1. u # t /\ (End(u) \/ Return(u))
      BY <2>4 DEF Locked, Receives
    <3> QED BY <2>1, <3>1 DEF End, Return
  <2>5. CASE Listed(u)
    BY <2>1, <2>5 DEF Listed, Return
  <2>6. CASE LoadOne(u)
    BY <2>1, <2>6 DEF LoadOne, Return
  <2>7. CASE Loaded(u)
    BY <2>1, <2>7 DEF Loaded, Receives, Return
  <2>8. CASE LoadNext(u)
    BY <2>1, <2>8 DEF LoadNext, Return
  <2>9. CASE Resumed(u)
    <3>1. u # t /\ \E k : task' = [task EXCEPT ![u] = k]
      BY <2>9 DEF Resumed, End, LockVault, OpenVault
    <3> QED BY <2>1, <3>1
  <2>10. ASSUME NEW op \in {"save", "delete"}, Sealed(u, op)
         PROVE  task'[t].op = task[t].op
    <3>1. u # t
      BY <1>5, <2>10
    <3> QED BY <2>1, <2>10, <3>1 DEF Sealed, End
  <2>11. ASSUME NEW op \in {"save", "delete"}, Enqueued(u, op)
         PROVE  task'[t].op = task[t].op
    <3>1. u # t
      BY <2>11 DEF Enqueued
    <3>2. End(u)
      BY <2>11 DEF Enqueued
    <3> QED BY <2>1, <3>1, <3>2 DEF End
  <2> QED BY <1>5, <2>2, <2>3, <2>4, <2>5, <2>6, <2>7, <2>8, <2>9, <2>10, <2>11 DEF Resume
<1>6. ASSUME NEW u \in Task, Call(u)
      PROVE  task'[t] = task[t]
  <2>1. task[u] = Idle /\ \E k : task' = [task EXCEPT ![u] = k]
    BY <1>6 DEF Call, Unlock, OpenVault, CreateAccountSetup, Refresh, Lock, LockVault, SaveItem,
                ImportItem, DeleteItem, Seal, Begin
  <2> QED BY <1>1, <1>2, <2>1 DEF TypeOK
<1>7. CASE WorkerStep
  BY <1>3, <1>7 DEF WorkerStep, OpenSession, UseSession, CloseSessions, AnswerHead
<1>8. CASE LeaveForm \/ UndoDelete
  BY <1>3, <1>8 DEF LeaveForm, UndoDelete
<1>9. ASSUME NEW i \in Item, OpenForm(i) \/ Pulled(i)
      PROVE  task'[t] = task[t]
  BY <1>9 DEF OpenForm, Pulled
<1>10. ASSUME NEW e \in queue, Pushed(e)
       PROVE  task'[t] = task[t]
  BY <1>10 DEF Pushed
<1>11. task'[t].op # task[t].op
  BY IdleTyped
<1> QED BY <1>3, <1>4, <1>5, <1>6, <1>7, <1>8, <1>9, <1>10, <1>11 DEF Next

\* Because the Worker answers in order, a seal posted before a lock is
\* requested is answered before the lock closes its session.
THEOREM EditSurvives == Spec => EditSurvivesLock
<1> DEFINE A == \A t \in Task :
         (task[t].op \in {"save", "delete"} /\ task[t].at = "worker"
            /\ task'[t] = Idle) => task[t].late
<1>1. IInv /\ [Next]_vars => [A]_vars
  BY RefusedIsLate
<1>2. Spec => []IInv /\ [][Next]_vars
  BY Invariance, PTL DEF Spec
<1> HIDE DEF A
<1>3. Spec => [][A]_vars
  BY <1>1, <1>2, PTL
<1> QED BY <1>3 DEF EditSurvivesLock, A
=============================================================================
