--------------------------- MODULE LoginLegsProofs ---------------------------
(***************************************************************************)
(* Proofs about LoginLegs, for any number of accounts, clients and         *)
(* handlers, any limits, and any number of attempts and faults.            *)
(***************************************************************************)
EXTENDS LoginLegs, TLAPS

-----------------------------------------------------------------------------
(* What the records of the model are after an update                       *)

\* A value that Free stands for is a handler.
LEMMA FreeTyped ==
    /\ Free \in Handler /\ Free.pc = "free" /\ Free.from = None /\ Free.account = None
    /\ Free.login = NoLogin /\ Free.leg = "bad" /\ Free.reply = "none"
<1>1. 0 \in Windows
  <2>1. MaxTime \in Nat /\ Window \in Nat \ {0}  BY LoginAssumption
  <2>2. MaxTime \div Window \in Nat  BY <2>1
  <2> QED  BY <2>2 DEF Windows
<1> QED  BY <1>1 DEF Free, Handler, Scope, Leg, Reply

\* Message: a request on its way, from the client that waits for its answer.
LEMMA MessageTyped ==
    ASSUME NEW c \in Client \cup {None}, NEW a \in Account, NEW leg \in Leg,
           NEW l \in Login \cup {NoLogin}, NEW p \in Password \cup {None}
    PROVE  /\ Message(c, a, leg, l, p) \in Handler
           /\ Message(c, a, leg, l, p).pc = "sent" /\ Message(c, a, leg, l, p).account = a
           /\ Message(c, a, leg, l, p).leg = leg /\ Message(c, a, leg, l, p).login = l
           /\ Message(c, a, leg, l, p).from = c /\ Message(c, a, leg, l, p).pw = p
           /\ Message(c, a, leg, l, p).scope = IF leg \in {"reg1", "reg2"} THEN "register" ELSE "login"
           /\ Message(c, a, leg, l, p).reply = "none"
<1> DEFINE s == IF leg \in {"reg1", "reg2"} THEN "register" ELSE "login"
<1>1. s \in Scope  BY DEF Scope
<1> HIDE DEF s
<1>2. Message(c, a, leg, l, p) =
        [Free EXCEPT !.pc = "sent", !.scope = s, !.account = a, !.leg = leg, !.login = l, !.pw = p, !.from = c]
  BY DEF Message, s
<1>3. Free \in Handler /\ Free.reply = "none"  BY FreeTyped
<1> DEFINE m == Message(c, a, leg, l, p)
<1> HIDE DEF m
<1>4. m = [Free EXCEPT !.pc = "sent", !.scope = s, !.account = a, !.leg = leg, !.login = l, !.pw = p, !.from = c]
  BY <1>2 DEF m
<1>5. /\ m \in Handler /\ m.pc = "sent" /\ m.account = a /\ m.leg = leg /\ m.login = l
      /\ m.from = c /\ m.pw = p /\ m.scope = s /\ m.reply = "none"
  BY <1>1, <1>3, <1>4 DEF Handler
<1> QED  BY <1>5 DEF m, s

\* Over: a caller that is no longer in a call.
LEMMA OverTyped ==
    ASSUME TypeOK, NEW c \in Client
    PROVE  /\ Over(c) \in Caller /\ Over(c).pc = "idle" /\ Over(c).account = None
           /\ Over(c).tries = client[c].tries /\ ~Over(c).quiet
<1>1. client[c] \in Caller  BY DEF TypeOK
<1>2. client[c].tries \in 0 .. MaxTries  BY <1>1 DEF Caller
<1> QED  BY <1>2 DEF Over, Nobody, Caller

\* Loud: an attempt under way goes on, disturbed; nothing else is left.
LEMMA LoudTyped ==
    ASSUME TypeOK, NEW c \in Client
    PROVE  /\ Loud(c) \in Caller /\ Loud(c).tries = client[c].tries /\ ~Loud(c).quiet
           /\ Waiting(c) => /\ Loud(c).pc = client[c].pc /\ Loud(c).account = client[c].account
                            /\ Loud(c).pw = client[c].pw /\ Loud(c).buf = client[c].buf
           /\ ~Waiting(c) => Loud(c) = Over(c)
<1>1. client[c] \in Caller  BY DEF TypeOK
<1>2. CASE Waiting(c)
  <2>1. Loud(c) = [client[c] EXCEPT !.quiet = FALSE]  BY <1>2 DEF Loud
  <2> QED  BY <1>1, <1>2, <2>1 DEF Caller
<1>3. CASE ~Waiting(c)
  BY <1>3, OverTyped DEF Loud
<1> QED  BY <1>2, <1>3

\* Refused: the call is over; only an undisturbed attempt is remembered.
LEMMA RefusedTyped ==
    ASSUME TypeOK, NEW c \in Client, NEW reply \in Reply
    PROVE  /\ Refused(c, reply) \in Caller /\ Refused(c, reply).tries = client[c].tries
           /\ Refused(c, reply).pc \in {"idle", "refused"}
           /\ Refused(c, reply).quiet =>
                /\ client[c].quiet /\ reply \notin {"limited", "error"} /\ Refused(c, reply).pc = "refused"
                /\ Refused(c, reply).account = client[c].account
                /\ Refused(c, reply).pw = client[c].pw /\ Refused(c, reply).buf = client[c].buf
<1>1. client[c] \in Caller  BY DEF TypeOK
<1>2. CASE client[c].quiet /\ reply \notin {"limited", "error"}
  <2>1. Refused(c, reply) = [client[c] EXCEPT !.pc = "refused"]  BY <1>2 DEF Refused
  <2> QED  BY <1>1, <1>2, <2>1 DEF Caller
<1>3. CASE ~(client[c].quiet /\ reply \notin {"limited", "error"})
  <2>1. Refused(c, reply) = Over(c)  BY <1>3 DEF Refused
  <2> QED  BY <2>1, OverTyped
<1> QED  BY <1>2, <1>3

\* Disturbed: the clients but c whose call is about account a are loud.
LEMMA DisturbedTyped ==
    ASSUME TypeOK, NEW a \in Account, NEW c \in Client \cup {None}
    PROVE  /\ Disturbed(a, c) \in [Client -> Caller]
           /\ \A d \in Client : Disturbed(a, c)[d] = IF d # c /\ client[d].account = a THEN Loud(d) ELSE client[d]
<1>1. client \in [Client -> Caller]  BY DEF TypeOK
<1>2. \A d \in Client : Loud(d) \in Caller  BY LoudTyped
<1> QED  BY <1>1, <1>2 DEF Disturbed

\* n is what is left of request m once it is answered.
Replied(m, n, reply) ==
    \/ m.from = None /\ n = Free
    \/ /\ m.from # None /\ n.from = m.from /\ n.pc = "done" /\ n.account = m.account
       /\ n.login = m.login /\ n.cred = m.cred /\ n.reply = reply /\ n.leg = "bad"

\* Answer touches no request but the one it answers.
LEMMA AnswerTyped ==
    ASSUME TypeOK, NEW r \in Request, NEW reply \in Reply, Answer(r, reply)
    PROVE  /\ req' \in [Request -> Handler]
           /\ \A q \in Request : q # r => req'[q] = req[q]
           /\ Replied(req[r], req'[r], reply)
<1> DEFINE n == [Free EXCEPT !.pc = "done", !.account = req[r].account, !.login = req[r].login,
                             !.from = req[r].from, !.cred = req[r].cred, !.reply = reply]
<1>1. req \in [Request -> Handler] /\ req[r] \in Handler  BY DEF TypeOK
<1>2. Free \in Handler /\ Free.leg = "bad"  BY FreeTyped
<1> HIDE DEF n
<1>3. /\ n \in Handler /\ n.pc = "done" /\ n.account = req[r].account /\ n.login = req[r].login
      /\ n.from = req[r].from /\ n.cred = req[r].cred /\ n.reply = reply /\ n.leg = "bad"
  <2>1. /\ req[r].account \in Account \cup {None} /\ req[r].login \in Login \cup {NoLogin}
        /\ req[r].from \in Client \cup {None} /\ req[r].cred \in Password \cup {None}
    BY <1>1 DEF Handler
  <2> QED  BY <1>2, <2>1 DEF n, Handler
<1>4. req' = [req EXCEPT ![r] = IF req[r].from = None THEN Free ELSE n]
  BY <1>1 DEF Answer, n
<1>5. req'[r] = IF req[r].from = None THEN Free ELSE n
  BY <1>1, <1>4
<1>6. Replied(req[r], req'[r], reply)
  BY <1>3, <1>5 DEF Replied
<1> QED  BY <1>1, <1>2, <1>3, <1>4, <1>6
-----------------------------------------------------------------------------
(* The inductive invariant                                                 *)

\* What a handler knows at each of its awaits: the shape of its message.
Sound(m) ==
    /\ m.pc = "free" => m = Free
    /\ m.pc # "free" => m.account \in Account
    /\ m.pc \in {"read", "set"} => m.leg \in {"ke1", "badKe1"}
    /\ m.pc = "limit" /\ m.scope = "login" /\ ~m.hasPending => m.leg \in {"ke1", "badKe1"}
    /\ m.leg = "badKe1" => m.login = NoLogin

Routed == \A r \in Request : Sound(req[r])

\* A client in a call has an account and a password.
Callers == \A c \in Client : Waiting(c) => client[c].account \in Account /\ client[c].pw \in Password

\* A client waits for one answer at a time, about the account it called for.
Addressed ==
    \A r \in Request : req[r].from # None =>
        /\ Waiting(req[r].from)
        /\ req[r].account = client[req[r].from].account
        /\ \A q \in Request : req[q].from = req[r].from => q = r

\* A handler at its limiter is in a window that no sweep may delete yet, nor may a
\* sweep that began earlier.
Paced ==
    /\ cleaner.now <= now
    /\ \A r \in Request : req[r].pc = "limit" => req[r].window * Window >= now - Retention

\* Up to the maximum, what passed was counted, until the row may be swept.
Counted ==
    \A a \in Account, s \in Scope, w \in Windows :
        /\ passed[a][s][w] <= LimitMax
        /\ passed[a][s][w] <= count[a][s][w] \/ w * Window < now - Retention

\* Login l has neither a session nor state at the server.
Untouched(l) == \A a \in Account : sessions[a][l] = 0 /\ (pending[a] # None => pending[a].login # l)

\* An attempt that has not begun has left nothing.
Unborn == \A l \in Login : l[2] > client[l[1]].tries => Untouched(l)

\* The first leg the client waits for has set no state yet, and no copy of it can.
Asking ==
    \A r \in Request :
        req[r].from # None /\ req[r].pc \in {"sent", "limit", "read", "set"} /\ req[r].leg = "ke1"
            => /\ req[r].login = <<req[r].from, client[req[r].from].tries>>
               /\ Untouched(req[r].login)

\* A login's state is kept for one account, and it has no session.
Unspent ==
    \A a \in Account : pending[a] # None =>
        \A b \in Account : /\ pending[a].login \in Login => sessions[b][pending[a].login] = 0
                           /\ pending[b] # None /\ pending[b].login = pending[a].login
                                /\ pending[a].login \in Login => a = b

\* entry is the state of m's login, and its time is not over at t.
Kept(m, entry, t) == entry # None /\ entry.kind = "real" /\ entry.login = m.login /\ t < entry.expiresAt

\* What the server knows while m is the first leg, or the second, of an undisturbed
\* attempt: entry is the state of the account, record its credential record.
InFirst(m, entry, record, t) ==
    \/ /\ m.pc \in {"sent", "limit", "read", "set"} /\ m.leg = "ke1" /\ m.scope = "login"
       /\ ~m.hasPending /\ entry = None
       /\ m.pc = "set" => m.cred = record
    \/ m.pc = "done" /\ m.reply \in {"limited", "error"}
    \/ m.pc = "done" /\ m.reply = "decoy" /\ record = None
    \/ m.pc = "done" /\ m.reply = "ok" /\ m.cred = record /\ Kept(m, entry, t)

InSecond(m, entry, t) ==
    \/ /\ m.pc \in {"sent", "limit", "take"} /\ m.leg = "ke3" /\ m.scope = "login"
       /\ m.pc = "limit" => m.hasPending
       /\ Kept(m, entry, t)
    \/ m.pc = "done" /\ m.reply \in {"limited", "error", "session"}

\* An undisturbed attempt has its account to itself, and the server keeps the
\* state of its first leg until the second.
CalmAt(c) ==
    LET me == client[c]
        a == me.account
    IN  me.quiet =>
          /\ a \in Account
          /\ me.pc \in {"log1", "log2", "refused"}
          /\ me.pc = "refused" /\ me.buf = me.pw => me.pw # cred[a]
          /\ \A r \in Request : req[r].account = a =>
                /\ req[r].from = c
                /\ me.pc = "log1" => InFirst(req[r], pending[a], cred[a], now)
                /\ me.pc = "log2" => InSecond(req[r], pending[a], now)

Calm == \A c \in Client : CalmAt(c)

\* The clients and their requests; the logins and their sessions.
Calls == Routed /\ Callers /\ Addressed /\ Unborn /\ Asking
Spending == Unspent /\ OneSessionPerLogin

Base == TypeOK /\ Calls /\ Paced /\ Counted /\ Spending

\* A row that refers to an account keeps it: a registration past the limiter has its
\* counted window, which no sweep may delete yet, and the state of a real login has
\* its credential record.
Owned ==
    /\ \A r \in Request : req[r].pc = "save" =>
         /\ count[req[r].account][req[r].scope][req[r].window] > 0
         /\ req[r].window * Window >= now - Retention
    /\ \A a \in Account : Referenced(a) => created[a] # NoRow
    /\ \A a \in Account : pending[a] # None /\ pending[a].kind = "real" => cred[a] # None
    /\ \A r \in Request : req[r].pc = "set" /\ req[r].cred # None => cred[req[r].account] # None

IInv == Base /\ Calm /\ Owned
-----------------------------------------------------------------------------
(* The clock                                                               *)

Cleaners == [pc : {"idle", "windows", "accounts", "delete", "failed"}, now : 0 .. MaxTime, doomed : SUBSET Account]
Sweep == [NoSweep EXCEPT !.pc = "windows", !.now = now]

\* The sweeps of the model, none and one that begins.
LEMMA SweepTyped ==
    ASSUME TypeOK
    PROVE  /\ cleaner \in Cleaners /\ NoSweep \in Cleaners /\ [NoSweep EXCEPT !.pc = "failed"] \in Cleaners
           /\ Sweep \in Cleaners /\ Sweep.now = now
           /\ NoSweep.now = 0 /\ [NoSweep EXCEPT !.pc = "failed"].now = 0 /\ 0 <= now
<1>1. 0 \in 0 .. MaxTime /\ now \in 0 .. MaxTime /\ 0 <= now  BY LoginAssumption DEF TypeOK
<1>2. cleaner \in Cleaners  BY DEF TypeOK, Cleaners
<1>3. NoSweep \in Cleaners /\ NoSweep.now = 0  BY <1>1 DEF Cleaners, NoSweep
<1>4. Sweep \in Cleaners /\ Sweep.now = now  BY <1>1 DEF Cleaners, NoSweep, Sweep
<1>5. [NoSweep EXCEPT !.pc = "failed"] \in Cleaners /\ [NoSweep EXCEPT !.pc = "failed"].now = 0
  BY <1>1 DEF Cleaners, NoSweep
<1> QED  BY <1>1, <1>2, <1>3, <1>4, <1>5

\* The window of a point in time begins less than a window before it.
LEMMA WindowOf ==
    ASSUME NEW n \in 0 .. MaxTime
    PROVE  /\ n \div Window \in Windows
           /\ (n \div Window) * Window <= n
           /\ n < (n \div Window) * Window + Window
<1>1. Window \in Nat \ {0} /\ MaxTime \in Nat /\ n \in Nat /\ n <= MaxTime  BY LoginAssumption
<1> DEFINE x == n \div Window
           y == MaxTime \div Window
<1>2. x \in Nat /\ Window * x <= n /\ n < Window * x + Window  BY <1>1
<1>3. y \in Nat /\ MaxTime < Window * y + Window  BY <1>1
<1> HIDE DEF x, y
<1>4. x <= y
  <2>1. Window * x < Window * y + Window  BY <1>1, <1>2, <1>3
  <2>2. CASE x >= y + 1
    <3>1. Window * x >= Window * (y + 1)  BY <1>1, <1>2, <1>3, <2>2
    <3> QED  BY <1>1, <1>2, <1>3, <2>1, <3>1
  <2> QED  BY <1>2, <1>3, <2>2
<1>5. x \in Windows  BY <1>2, <1>3, <1>4 DEF Windows, y
<1>6. x * Window = Window * x  BY <1>1, <1>2
<1> QED  BY <1>2, <1>5, <1>6 DEF x

\* evictExpired removes the entries whose time is over and touches no other.
LEMMA EvictedTyped ==
    ASSUME TypeOK
    PROVE  /\ Evicted \in [Account -> Entry \cup {None}]
           /\ \A a \in Account :
                /\ Evicted[a] = pending[a] \/ Evicted[a] = None
                /\ Evicted[a] # None => now < Evicted[a].expiresAt
                /\ pending[a] # None /\ now < pending[a].expiresAt => Evicted[a] = pending[a]
<1>1. pending \in [Account -> Entry \cup {None}] /\ now \in Nat  BY LoginAssumption DEF TypeOK
<1>2. \A a \in Account : Evicted[a] = IF pending[a] # None /\ pending[a].expiresAt <= now THEN None ELSE pending[a]
  BY DEF Evicted
<1>3. \A a \in Account : pending[a] # None => pending[a].expiresAt \in Nat
  <2> SUFFICES ASSUME NEW a \in Account, pending[a] # None PROVE pending[a].expiresAt \in Nat  OBVIOUS
  <2>1. pending[a] \in Entry  BY <1>1
  <2> QED  BY <2>1, LoginAssumption DEF Entry
<1> QED  BY <1>1, <1>2, <1>3 DEF Evicted
-----------------------------------------------------------------------------
(* The handlers                                                            *)

\* The handler of m goes on as n.
Onward(m, n) ==
    /\ n.from = m.from /\ n.account = m.account /\ n.login = m.login
    /\ n.leg = m.leg /\ n.scope = m.scope

\* An answered request is sound.
LEMMA RepliedSound ==
    ASSUME NEW m \in Handler, NEW n \in Handler, NEW reply, Replied(m, n, reply), m.account \in Account
    PROVE  Sound(n)
<1>1. CASE n = Free
  BY <1>1, FreeTyped DEF Sound
<1>2. CASE n # Free
  BY <1>2 DEF Sound, Replied
<1> QED  BY <1>1, <1>2

\* Arrive: refused, limited, or on to the limiter of the window it is in.
LEMMA ArriveEffect ==
    ASSUME TypeOK, Routed, NEW r \in Request, Arrive(r)
    PROVE  /\ req[r].pc = "sent" /\ req[r].account \in Account
           /\ req' \in [Request -> Handler]
           /\ \A q \in Request : q # r => req'[q] = req[q]
           /\ \/ \E reply \in {"refused", "limited"} : Replied(req[r], req'[r], reply)
              \/ /\ Onward(req[r], req'[r]) /\ req'[r].pc = "limit"
                 /\ req'[r].window = now \div Window
                 /\ req'[r].hasPending = (req[r].scope = "login" /\ Evicted[req[r].account] # None)
           /\ Sound(req'[r])
           /\ req[r].leg = "ke1" /\ req[r].scope = "login" => ~Replied(req[r], req'[r], "refused") \/ req[r].from = None
           /\ req[r].leg = "ke3" /\ req[r].scope = "login" /\ Evicted[req[r].account] # None
                => ~Replied(req[r], req'[r], "refused") \/ req[r].from = None
           /\ pending' \in {pending, Evicted}
           /\ created' \in [Account -> (0 .. MaxTime) \cup {-1}]
           /\ bucket' \in [count : 0 .. AdmissionMax + 1, windowEnd : 0 .. MaxTime + Window]
           /\ UNCHANGED <<now, cred, count, sessions, cleaner, client, faults, passed>>
<1> DEFINE m == req[r]
           a == req[r].account
           hasPending == Evicted[a] # None
           wrongLength == m.scope = "login" /\ ~hasPending /\ m.leg \notin {"ke1", "badKe1"}
           malformed == m.scope = "register" /\ m.leg \notin {"reg1", "reg2"}
           refusal == IF wrongLength \/ (Admitted /\ malformed) THEN "refused"
                      ELSE IF ~Admitted THEN "limited" ELSE "none"
<1>1. m \in Handler /\ req \in [Request -> Handler] /\ m.pc = "sent" /\ now \in 0 .. MaxTime
  BY DEF TypeOK, Arrive
<1>2. a \in Account  BY <1>1 DEF Routed, Sound
<1>3. pending' \in {pending, Evicted}  BY DEF Arrive
<1>4. bucket' \in [count : 0 .. AdmissionMax + 1, windowEnd : 0 .. MaxTime + Window]
  <2>1. bucket \in [count : 0 .. AdmissionMax + 1, windowEnd : 0 .. MaxTime + Window]  BY DEF TypeOK
  <2>2. AdmissionMax \in Nat \ {0} /\ Window \in Nat \ {0} /\ MaxTime \in Nat  BY LoginAssumption
  <2>3. Admission \in [count : 0 .. AdmissionMax + 1, windowEnd : 0 .. MaxTime + Window]
    BY <1>1, <2>1, <2>2 DEF Admission
  <2>4. CASE CountAdmission
    <3>1. Admission.count \in 0 .. AdmissionMax + 1  BY <2>3
    <3> DEFINE n == IF Admission.count <= AdmissionMax THEN Admission.count + 1 ELSE Admission.count
    <3>2. n \in 0 .. AdmissionMax + 1  BY <2>2, <3>1
    <3>3. bucket' = [Admission EXCEPT !.count = n]  BY <2>4 DEF CountAdmission
    <3> QED  BY <2>3, <3>2, <3>3
  <2>5. CASE UNCHANGED bucket  BY <2>1, <2>5
  <2> QED  BY <2>4, <2>5 DEF Arrive
<1>5. CASE refusal # "none"
  <2>1. Answer(r, refusal) /\ UNCHANGED created  BY <1>5 DEF Arrive
  <2>2. refusal \in {"refused", "limited"} /\ refusal \in Reply  BY <1>5 DEF Reply
  <2>3. /\ req' \in [Request -> Handler] /\ \A q \in Request : q # r => req'[q] = req[q]
        /\ Replied(req[r], req'[r], refusal)
    BY <2>1, <2>2, AnswerTyped
  <2>4. Sound(req'[r])
    <3>1. req'[r] \in Handler  BY <2>3
    <3> QED  BY <1>1, <1>2, <2>3, <3>1, RepliedSound
  <2>5. m.leg = "ke1" /\ m.scope = "login" => refusal = "limited"
    BY <1>5
  <2>6. m.leg = "ke3" /\ m.scope = "login" /\ hasPending => refusal = "limited"
    BY <1>5
  <2>7. refusal = "limited" => ~Replied(req[r], req'[r], "refused") \/ req[r].from = None
    BY <2>3 DEF Replied
  <2> HIDE DEF refusal
  <2>8. \E reply \in {"refused", "limited"} : Replied(req[r], req'[r], reply)  BY <2>2, <2>3
  <2>9. created' \in [Account -> (0 .. MaxTime) \cup {-1}]  BY <2>1 DEF TypeOK
  <2>10. UNCHANGED <<now, cred, count, sessions, cleaner, client, faults, passed>>  BY DEF Arrive
  <2> QED  BY <1>1, <1>2, <1>3, <1>4, <2>3, <2>4, <2>5, <2>6, <2>7, <2>8, <2>9, <2>10
<1>6. CASE refusal = "none"
  <2>1. /\ created' = [created EXCEPT ![a] = IF @ = NoRow THEN now ELSE @]
        /\ req' = [req EXCEPT ![r].pc = "limit", ![r].window = now \div Window,
                              ![r].hasPending = (m.scope = "login" /\ hasPending)]
    BY <1>6 DEF Arrive
  <2> DEFINE n == [m EXCEPT !.pc = "limit", !.window = now \div Window, !.hasPending = (m.scope = "login" /\ hasPending)]
  <2>2. req' = [req EXCEPT ![r] = n]  BY <1>1, <2>1
  <2>3. now \div Window \in Windows  BY <1>1, WindowOf
  <2>4. (m.scope = "login" /\ hasPending) \in BOOLEAN  OBVIOUS
  <2> HIDE DEF hasPending
  <2>5. /\ n \in Handler /\ Onward(m, n) /\ n.pc = "limit" /\ n.window = now \div Window
        /\ n.hasPending = (m.scope = "login" /\ hasPending)
    BY <1>1, <2>3, <2>4 DEF Handler, Onward
  <2> HIDE DEF n
  <2>6. req'[r] = n  BY <1>1, <2>2
  <2>7. created' \in [Account -> (0 .. MaxTime) \cup {-1}]  BY <1>1, <2>1 DEF TypeOK
  <2>8. Sound(n)
    <3>1. Sound(m)  BY DEF Routed
    <3>2. n.scope = "login" /\ ~n.hasPending => n.leg \in {"ke1", "badKe1"}
      BY <1>6, <2>5 DEF Onward
    <3> QED  BY <1>1, <1>2, <2>5, <3>1, <3>2 DEF Sound, Onward
  <2>9. ~Replied(req[r], n, "refused") \/ req[r].from = None
    BY <2>5 DEF Replied
  <2>10. req' \in [Request -> Handler] /\ \A q \in Request : q # r => req'[q] = req[q]
    BY <1>1, <2>2, <2>5
  <2>11. UNCHANGED <<now, cred, count, sessions, cleaner, client, faults, passed>>  BY DEF Arrive
  <2> HIDE DEF refusal
  <2> QED  BY <1>1, <1>2, <1>3, <1>4, <2>5, <2>6, <2>7, <2>8, <2>9, <2>10, <2>11 DEF hasPending
<1> QED  BY <1>5, <1>6

\* checkAndIncrement: answered, or on to the statement its leg needs.
LEMMA CheckEffect ==
    ASSUME TypeOK, Routed, NEW r \in Request, CheckAndIncrement(r)
    PROVE  /\ req[r].pc = "limit" /\ req[r].account \in Account
           /\ req' \in [Request -> Handler]
           /\ \A q \in Request : q # r => req'[q] = req[q]
           /\ \/ \E reply \in {"error", "limited", "ok"} :
                    Replied(req[r], req'[r], reply) /\ (reply = "ok" => req[r].leg = "reg1")
              \/ /\ Onward(req[r], req'[r]) /\ ~req'[r].hasPending
                 /\ req'[r].pc = IF req[r].scope = "register" THEN "save"
                                 ELSE IF req[r].hasPending THEN "take" ELSE "read"
                 /\ req[r].scope = "register" => req'[r].window = req[r].window
           /\ Sound(req'[r])
           /\ cleaner' \in {cleaner, Sweep}
           /\ UNCHANGED <<now, cred, created, sessions, pending, bucket, client, faults>>
<1> DEFINE m == req[r]
           pc == IF m.scope = "register" THEN "save" ELSE IF m.hasPending THEN "take" ELSE "read"
           w == IF m.scope = "register" THEN m.window ELSE 0
           n == [m EXCEPT !.hasPending = FALSE, !.window = w, !.pc = pc]
<1>1. m \in Handler /\ req \in [Request -> Handler] /\ m.pc = "limit"
  BY DEF TypeOK, CheckAndIncrement
<1>2. m.account \in Account /\ Sound(m)  BY <1>1 DEF Routed, Sound
<1>3. 0 \in Windows
  <2>1. MaxTime \div Window \in Nat  BY LoginAssumption
  <2> QED  BY <2>1 DEF Windows
<1>4. n \in Handler /\ Onward(m, n) /\ ~n.hasPending /\ n.pc = pc /\ (m.scope = "register" => n.window = m.window)
  <2>1. pc \in {"save", "take", "read"}  OBVIOUS
  <2>2. w \in Windows /\ (m.scope = "register" => w = m.window)  BY <1>1, <1>3 DEF Handler
  <2> HIDE DEF pc, w
  <2> QED  BY <1>1, <2>1, <2>2 DEF Handler, Onward
<1>5. Sound(n)
  <2>1. m.scope \in Scope /\ m.hasPending \in BOOLEAN  BY <1>1 DEF Handler
  <2>2. pc = "read" => m.leg \in {"ke1", "badKe1"}  BY <1>1, <1>2, <2>1 DEF Sound, Scope
  <2>3. n.leg = m.leg /\ n.login = m.login /\ n.account = m.account  BY <1>4 DEF Onward
  <2>4. n.pc = pc /\ pc \in {"save", "take", "read"}  BY <1>4
  <2> HIDE DEF n, pc
  <2> QED  BY <1>2, <2>2, <2>3, <2>4 DEF Sound
<1> HIDE DEF n
<1>6. \/ \E reply \in {"error", "limited", "ok"} : Answer(r, reply) /\ (reply = "ok" => m.leg = "reg1")
      \/ req' = [req EXCEPT ![r].hasPending = FALSE, ![r].window = w, ![r].pc = pc]
  BY Zenon DEF CheckAndIncrement
<1>7. cleaner' \in {cleaner, Sweep}  BY DEF CheckAndIncrement, StartSweep, Sweep
<1>8. UNCHANGED <<now, cred, created, sessions, pending, bucket, client, faults>>  BY DEF CheckAndIncrement
<1>9. CASE req' = [req EXCEPT ![r].hasPending = FALSE, ![r].window = w, ![r].pc = pc]
  <2>1. req' = [req EXCEPT ![r] = n]
    <3> HIDE DEF pc, w
    <3> QED  BY <1>1, <1>9 DEF n
  <2>2. req'[r] = n  BY <1>1, <2>1
  <2>3. req' \in [Request -> Handler] /\ \A q \in Request : q # r => req'[q] = req[q]
    BY <1>1, <1>4, <2>1
  <2> QED  BY <1>1, <1>2, <1>4, <1>5, <1>7, <1>8, <2>2, <2>3
<1>10. ASSUME NEW reply \in {"error", "limited", "ok"}, Answer(r, reply), reply = "ok" => m.leg = "reg1"
       PROVE  /\ req' \in [Request -> Handler] /\ \A q \in Request : q # r => req'[q] = req[q]
              /\ Replied(req[r], req'[r], reply) /\ Sound(req'[r])
  <2>1. reply \in Reply  BY DEF Reply
  <2>2. /\ req' \in [Request -> Handler] /\ \A q \in Request : q # r => req'[q] = req[q]
        /\ Replied(req[r], req'[r], reply)
    BY <1>10, <2>1, AnswerTyped
  <2>3. req'[r] \in Handler  BY <2>2
  <2> QED  BY <1>1, <1>2, <2>2, <2>3, RepliedSound
<1> QED  BY <1>1, <1>2, <1>6, <1>7, <1>8, <1>9, <1>10

\* saveCredentialRecordIfAbsent is answered.
LEMMA SaveEffect ==
    ASSUME TypeOK, Routed, NEW r \in Request, SaveCredentialRecordIfAbsent(r)
    PROVE  /\ req[r].pc = "save" /\ req[r].account \in Account
           /\ req' \in [Request -> Handler]
           /\ \A q \in Request : q # r => req'[q] = req[q]
           /\ \E reply \in {"error", "ok"} : Replied(req[r], req'[r], reply)
           /\ Sound(req'[r])
           /\ cred' \in [Account -> Password \cup {None}]
           /\ \A a \in Account : a # req[r].account => cred'[a] = cred[a]
           /\ UNCHANGED <<now, created, count, sessions, pending, bucket, cleaner, client, faults, passed>>
<1> DEFINE m == req[r]
<1>1. m \in Handler /\ req \in [Request -> Handler] /\ m.pc = "save"
  BY DEF TypeOK, SaveCredentialRecordIfAbsent
<1>2. m.account \in Account  BY <1>1 DEF Routed, Sound
<1>3. PICK reply \in {"error", "ok"} : Answer(r, reply)  BY DEF SaveCredentialRecordIfAbsent
<1>4. reply \in Reply  BY DEF Reply
<1>5. /\ req' \in [Request -> Handler] /\ \A q \in Request : q # r => req'[q] = req[q]
      /\ Replied(req[r], req'[r], reply)
  BY <1>3, <1>4, AnswerTyped
<1>6. Sound(req'[r])
  <2>1. req'[r] \in Handler  BY <1>5
  <2> QED  BY <1>1, <1>2, <1>5, <2>1, RepliedSound
<1>7. m.pw \in Password \cup {None}  BY <1>1 DEF Handler
<1>8. /\ cred' \in [Account -> Password \cup {None}]
      /\ \A a \in Account : a # m.account => cred'[a] = cred[a]
  BY <1>2, <1>7 DEF SaveCredentialRecordIfAbsent, TypeOK
<1> QED  BY <1>1, <1>2, <1>5, <1>6, <1>8 DEF SaveCredentialRecordIfAbsent

\* getCredentialRecord: the handler keeps what it read.
LEMMA ReadEffect ==
    ASSUME TypeOK, Routed, NEW r \in Request, GetCredentialRecord(r)
    PROVE  /\ req[r].pc = "read" /\ req[r].account \in Account
           /\ req' \in [Request -> Handler]
           /\ \A q \in Request : q # r => req'[q] = req[q]
           /\ Onward(req[r], req'[r]) /\ req'[r].pc = "set" /\ req'[r].cred = cred[req[r].account]
           /\ req'[r].hasPending = req[r].hasPending
           /\ Sound(req'[r])
           /\ UNCHANGED <<now, cred, created, count, sessions, pending, bucket, cleaner, client, faults, passed>>
<1> DEFINE m == req[r]
           n == [m EXCEPT !.pc = "set", !.cred = cred[m.account]]
<1>1. m \in Handler /\ req \in [Request -> Handler] /\ m.pc = "read"
  BY DEF TypeOK, GetCredentialRecord
<1>2. m.account \in Account /\ Sound(m)  BY <1>1 DEF Routed, Sound
<1>3. cred[m.account] \in Password \cup {None}  BY <1>2 DEF TypeOK
<1>4. /\ n \in Handler /\ Onward(m, n) /\ n.pc = "set" /\ n.cred = cred[m.account]
      /\ n.hasPending = m.hasPending
  BY <1>1, <1>3 DEF Handler, Onward
<1>5. req' = [req EXCEPT ![r] = n]  BY <1>1 DEF GetCredentialRecord
<1> HIDE DEF n
<1>6. Sound(n)  BY <1>1, <1>2, <1>4 DEF Sound, Onward
<1>7. req'[r] = n  BY <1>1, <1>5
<1>8. req' \in [Request -> Handler] /\ \A q \in Request : q # r => req'[q] = req[q]
  BY <1>1, <1>4, <1>5
<1>9. UNCHANGED <<now, cred, created, count, sessions, pending, bucket, cleaner, client, faults, passed>>
  BY DEF GetCredentialRecord, tables
<1> QED  BY <1>1, <1>2, <1>4, <1>6, <1>7, <1>8, <1>9

\* What is pending for the account of m, once its leg 1 has set it.
Set(m, entry) ==
    /\ entry \in Entry /\ entry.expiresAt = now + Ttl
    /\ entry.kind = IF m.cred = None THEN "fake" ELSE "real"
    /\ entry.login = IF m.from = None THEN NoLogin ELSE m.login

\* Leg 1 replaces the state of its account and is answered, or it is refused.
LEMMA StartEffect ==
    ASSUME TypeOK, Routed, NEW r \in Request, LoginStart(r)
    PROVE  /\ req[r].pc = "set" /\ req[r].account \in Account
           /\ req' \in [Request -> Handler]
           /\ \A q \in Request : q # r => req'[q] = req[q]
           /\ \/ /\ Replied(req[r], req'[r], "refused") /\ pending' = pending
                 /\ req[r].leg # "ke1"
              \/ /\ Replied(req[r], req'[r], IF req[r].cred = None THEN "decoy" ELSE "ok")
                 /\ Set(req[r], pending'[req[r].account])
                 /\ \A b \in Account : b # req[r].account => pending'[b] = Evicted[b]
           /\ Sound(req'[r])
           /\ pending' \in [Account -> Entry \cup {None}]
           /\ UNCHANGED <<now, cred, created, count, sessions, bucket, cleaner, client, faults, passed>>
<1> DEFINE m == req[r]
           e == [kind |-> IF m.cred = None THEN "fake" ELSE "real",
                 login |-> IF m.from = None THEN NoLogin ELSE m.login, expiresAt |-> now + Ttl]
           reply == IF m.cred # None /\ m.leg # "ke1" THEN "refused" ELSE IF m.cred = None THEN "decoy" ELSE "ok"
<1>1. m \in Handler /\ req \in [Request -> Handler] /\ m.pc = "set"
  BY DEF TypeOK, LoginStart
<1>2. m.account \in Account  BY <1>1 DEF Routed, Sound
<1>3. Set(m, e)
  <2>1. m.login \in Login \cup {NoLogin}  BY <1>1 DEF Handler
  <2>2. now + Ttl \in 0 .. MaxTime + Ttl  BY LoginAssumption DEF TypeOK
  <2> QED  BY <2>1, <2>2 DEF Set, Entry
<1> HIDE DEF e
<1>4. Answer(r, reply) /\ reply \in Reply  BY DEF LoginStart, Reply
<1>5. /\ req' \in [Request -> Handler] /\ \A q \in Request : q # r => req'[q] = req[q]
      /\ Replied(req[r], req'[r], reply)
  <2> HIDE DEF reply
  <2> QED  BY <1>4, AnswerTyped
<1>6. Sound(req'[r])
  <2>1. req'[r] \in Handler  BY <1>5
  <2> HIDE DEF reply
  <2> QED  BY <1>1, <1>2, <1>5, <2>1, RepliedSound
<1>7. UNCHANGED <<now, cred, created, count, sessions, bucket, cleaner, client, faults, passed>>
  BY DEF LoginStart, tables
<1>8. CASE m.cred # None /\ m.leg # "ke1"
  <2>1. pending' = pending  BY <1>8 DEF LoginStart
  <2>2. pending' \in [Account -> Entry \cup {None}]  BY <2>1 DEF TypeOK
  <2>3. Replied(req[r], req'[r], "refused")  BY <1>5, <1>8
  <2> HIDE DEF reply
  <2> QED  BY <1>1, <1>2, <1>5, <1>6, <1>7, <1>8, <2>1, <2>2, <2>3
<1>9. CASE ~(m.cred # None /\ m.leg # "ke1")
  <2>1. pending' = [Evicted EXCEPT ![m.account] = e]  BY <1>9 DEF LoginStart, SetPending, e
  <2>2. Evicted \in [Account -> Entry \cup {None}]  BY EvictedTyped
  <2>3. e \in Entry  BY <1>3 DEF Set
  <2>4. /\ pending' \in [Account -> Entry \cup {None}] /\ pending'[m.account] = e
        /\ \A b \in Account : b # m.account => pending'[b] = Evicted[b]
    BY <1>2, <2>1, <2>2, <2>3
  <2>5. Replied(req[r], req'[r], IF req[r].cred = None THEN "decoy" ELSE "ok")  BY <1>5, <1>9
  <2> HIDE DEF reply
  <2> QED  BY <1>1, <1>2, <1>3, <1>5, <1>6, <1>7, <2>4, <2>5
<1> QED  BY <1>8, <1>9

\* Message m finishes the login whose state is entry.
Verified(m, entry) == entry # None /\ entry.kind = "real" /\ m.leg = "ke3" /\ m.login = entry.login

\* Leg 2 takes the state of its account; a session is inserted if it fits.
LEMMA FinishEffect ==
    ASSUME TypeOK, Routed, OneSessionPerLogin, NEW r \in Request, LoginFinish(r)
    PROVE  /\ req[r].pc = "take" /\ req[r].account \in Account
           /\ req' \in [Request -> Handler]
           /\ \A q \in Request : q # r => req'[q] = req[q]
           /\ \/ /\ Replied(req[r], req'[r], "session") /\ Verified(req[r], Evicted[req[r].account])
                 /\ sessions' = [sessions EXCEPT ![req[r].account][req[r].login] = @ + 1]
              \/ /\ Replied(req[r], req'[r], "refused") /\ ~Verified(req[r], Evicted[req[r].account])
                 /\ sessions' = sessions
           /\ Sound(req'[r])
           /\ pending' \in [Account -> Entry \cup {None}]
           /\ pending'[req[r].account] = None
           /\ \A b \in Account : b # req[r].account => pending'[b] = Evicted[b]
           /\ sessions' \in [Account -> [Login -> 0 .. 2]]
           /\ UNCHANGED <<now, cred, created, count, bucket, cleaner, client, faults, passed>>
<1> DEFINE m == req[r]
           a == m.account
           reply == IF Verified(m, Evicted[a]) THEN "session" ELSE "refused"
<1>1. m \in Handler /\ req \in [Request -> Handler] /\ m.pc = "take"
  BY DEF TypeOK, LoginFinish
<1>2. a \in Account  BY <1>1 DEF Routed, Sound
<1>3. Answer(r, reply) /\ reply \in Reply  BY DEF LoginFinish, Verified, Reply
<1>4. /\ req' \in [Request -> Handler] /\ \A q \in Request : q # r => req'[q] = req[q]
      /\ Replied(req[r], req'[r], reply)
  <2> HIDE DEF reply
  <2> QED  BY <1>3, AnswerTyped
<1>5. Sound(req'[r])
  <2>1. req'[r] \in Handler  BY <1>4
  <2> HIDE DEF reply
  <2> QED  BY <1>1, <1>2, <1>4, <2>1, RepliedSound
<1>6. /\ pending' \in [Account -> Entry \cup {None}] /\ pending'[a] = None
      /\ \A b \in Account : b # a => pending'[b] = Evicted[b]
  <2>1. Evicted \in [Account -> Entry \cup {None}]  BY EvictedTyped
  <2>2. pending' = [Evicted EXCEPT ![a] = None]  BY DEF LoginFinish, Take
  <2> QED  BY <1>2, <2>1, <2>2
<1>7. sessions \in [Account -> [Login -> 0 .. 2]]  BY DEF TypeOK
<1>8. CASE Verified(m, Evicted[a])
  <2>1. sessions' = [sessions EXCEPT ![a][m.login] = @ + 1]  BY <1>8 DEF LoginFinish, Verified
  <2>2. sessions' \in [Account -> [Login -> 0 .. 2]]
    <3>1. CASE m.login \in Login
      <4>1. sessions[a][m.login] \in 0 .. 2 /\ sessions[a][m.login] <= 1
        BY <1>2, <1>7, <3>1 DEF OneSessionPerLogin
      <4>2. sessions[a][m.login] + 1 \in 0 .. 2  BY <4>1
      <4> QED  BY <1>2, <1>7, <2>1, <3>1, <4>2
    <3>2. CASE m.login \notin Login
      <4>1. [sessions[a] EXCEPT ![m.login] = @ + 1] = sessions[a]  BY <1>2, <1>7, <3>2
      <4> QED  BY <1>2, <1>7, <2>1, <4>1
    <3> QED  BY <3>1, <3>2
  <2> QED  BY <1>1, <1>2, <1>4, <1>5, <1>6, <1>8, <2>1, <2>2 DEF LoginFinish
<1>9. CASE ~Verified(m, Evicted[a])
  <2>1. sessions' = sessions  BY <1>9 DEF LoginFinish, Verified
  <2> QED  BY <1>1, <1>2, <1>4, <1>5, <1>6, <1>7, <1>9, <2>1 DEF LoginFinish
<1> QED  BY <1>8, <1>9
-----------------------------------------------------------------------------
(* The clients                                                             *)

\* A client that takes no step of its own is as it was, or loud.
Unmoved(d) == client'[d] \in {client[d], Loud(d)}

LEMMA UnmovedFacts ==
    ASSUME TypeOK, NEW d \in Client, Unmoved(d)
    PROVE  /\ client'[d] \in Caller /\ client'[d].tries = client[d].tries
           /\ Waiting(d)' <=> Waiting(d)
           /\ Waiting(d) => client'[d].account = client[d].account /\ client'[d].pw = client[d].pw
           /\ client'[d].quiet => client'[d] = client[d]
<1>1. client[d] \in Caller  BY DEF TypeOK
<1>2. CASE client'[d] = client[d]
  BY <1>1, <1>2 DEF Waiting
<1>3. CASE client'[d] = Loud(d) /\ Waiting(d)
  BY <1>3, LoudTyped DEF Waiting
<1>4. CASE client'[d] = Loud(d) /\ ~Waiting(d)
  <2>1. client'[d] = Over(d)  BY <1>4, LoudTyped
  <2> QED  BY <1>4, <2>1, OverTyped DEF Waiting
<1> QED  BY <1>2, <1>3, <1>4 DEF Unmoved

\* A message is posted: by a client that begins a call, or by nobody that waits.
LEMMA PostedStep ==
    ASSUME TypeOK, Calls, NEW r \in Request, NEW m \in Handler,
           req[r].pc = "free", req' = [req EXCEPT ![r] = m],
           m.pc = "sent", Sound(m),
           client' \in [Client -> Caller],
           \A d \in Client : d # m.from => Unmoved(d),
           m.from # None =>
               /\ ~Waiting(m.from) /\ Waiting(m.from)'
               /\ client'[m.from].account = m.account /\ client'[m.from].pw \in Password
               /\ client'[m.from].tries = client[m.from].tries + 1
               /\ m.leg = "ke1" => m.login = <<m.from, client'[m.from].tries>>,
           UNCHANGED <<pending, sessions>>
    PROVE  Calls'
<1>1. req \in [Request -> Handler] /\ client \in [Client -> Caller]  BY DEF TypeOK
<1>2. req'[r] = m /\ \A q \in Request : q # r => req'[q] = req[q]  BY <1>1
<1>3. m.from \in Client \cup {None}  BY DEF Handler
<1>4. \A q \in Request : req[q].from \in Client \cup {None}  BY <1>1 DEF Handler
<1>5. \A d \in Client : client[d].tries \in Nat
  BY <1>1, LoginAssumption DEF Caller
<1>6. \A d \in Client : d # m.from =>
        /\ client'[d].tries = client[d].tries /\ (Waiting(d)' <=> Waiting(d))
        /\ Waiting(d) => client'[d].account = client[d].account /\ client'[d].pw = client[d].pw
  BY UnmovedFacts
<1>7. req[r].from = None  BY FreeTyped DEF Calls, Routed, Sound
<1>8. \A q \in Request : q # r => req[q].from # m.from \/ m.from = None
  BY <1>3, <1>4 DEF Calls, Addressed
<1>9. \A l : Untouched(l)' <=> Untouched(l)
  BY DEF Untouched
<1>10. Routed'  BY <1>2 DEF Calls, Routed
<1>11. Callers'
  <2> SUFFICES ASSUME NEW d \in Client, Waiting(d)'
               PROVE  client'[d].account \in Account /\ client'[d].pw \in Password
    BY DEF Callers
  <2>1. CASE d = m.from
    <3>1. m.from # None  BY <2>1, NoneAssumption
    <3> QED  BY <2>1, <3>1 DEF Sound
  <2>2. CASE d # m.from
    BY <1>6, <2>2 DEF Calls, Callers
  <2> QED  BY <2>1, <2>2
<1>12. Addressed'
  <2> DEFINE W(d) == client'[d].pc \in {"reg1", "reg2", "log1", "log2"}
  <2>0. \A d : W(d) <=> Waiting(d)'  BY DEF Waiting
  <2> SUFFICES ASSUME NEW q \in Request, req'[q].from # None
               PROVE  /\ W(req'[q].from) /\ req'[q].account = client'[req'[q].from].account
                      /\ \A p \in Request : req'[p].from = req'[q].from => p = q
    BY DEF Addressed, Waiting
  <2> HIDE DEF W
  <2>1. CASE q = r
    BY <1>2, <1>8, <2>0, <2>1
  <2>2. CASE q # r
    <3>1. req'[q] = req[q] /\ req[q].from \in Client  BY <1>2, <1>4, <2>2
    <3>2. req[q].from # m.from  BY <1>8, <2>2, <3>1
    <3>3. Waiting(req[q].from) /\ req[q].account = client[req[q].from].account
      BY <3>1 DEF Calls, Addressed
    <3>4. \A p \in Request : req'[p].from = req[q].from => p = q
      BY <1>2, <3>1, <3>2 DEF Calls, Addressed
    <3> QED  BY <1>6, <2>0, <3>1, <3>2, <3>3, <3>4
  <2> QED  BY <2>1, <2>2
<1>13. Unborn'
  <2> SUFFICES ASSUME NEW l \in Login, l[2] > client'[l[1]].tries PROVE Untouched(l)
    BY <1>9 DEF Unborn
  <2>1. l[1] \in Client /\ l[2] \in Nat  BY DEF Login
  <2>2. client'[l[1]].tries >= client[l[1]].tries
    <3>1. CASE l[1] = m.from  BY <1>5, <2>1, <3>1, NoneAssumption
    <3>2. CASE l[1] # m.from  BY <1>5, <1>6, <2>1, <3>2
    <3> QED  BY <3>1, <3>2
  <2>3. client'[l[1]].tries \in Nat
    <3>1. client'[l[1]] \in Caller  BY <2>1
    <3> QED  BY <3>1, LoginAssumption DEF Caller
  <2>4. l[2] > client[l[1]].tries  BY <1>5, <2>1, <2>2, <2>3
  <2> QED  BY <2>4 DEF Calls, Unborn
<1>14. Asking'
  <2> SUFFICES ASSUME NEW q \in Request, req'[q].from # None,
                      req'[q].pc \in {"sent", "limit", "read", "set"}, req'[q].leg = "ke1"
               PROVE  /\ req'[q].login = <<req'[q].from, client'[req'[q].from].tries>>
                      /\ Untouched(req'[q].login)
    BY <1>9 DEF Asking
  <2>1. CASE q = r
    <3>1. m.from \in Client /\ m.from # None /\ m.leg = "ke1"  BY <1>2, <1>3, <2>1
    <3>2. m.login = <<m.from, client[m.from].tries + 1>> /\ client'[m.from].tries = client[m.from].tries + 1
      BY <3>1
    <3>3. m.login \in Login
      <4>1. client'[m.from] \in Caller  BY <3>1
      <4>2. client'[m.from].tries \in 1 .. MaxTries  BY <1>5, <3>1, <3>2, <4>1 DEF Caller
      <4> QED  BY <3>1, <3>2, <4>2 DEF Login
    <3>4. Untouched(m.login)
      BY <1>5, <3>1, <3>2, <3>3 DEF Calls, Unborn
    <3> QED  BY <1>2, <2>1, <3>2, <3>4
  <2>2. CASE q # r
    <3>1. req'[q] = req[q] /\ req[q].from \in Client  BY <1>2, <1>4, <2>2
    <3>2. req[q].from # m.from  BY <1>8, <2>2, <3>1
    <3> QED  BY <1>6, <3>1, <3>2 DEF Calls, Asking
  <2> QED  BY <2>1, <2>2
<1> QED  BY <1>10, <1>11, <1>12, <1>13, <1>14 DEF Calls

\* A client reads the answer to its request: it posts its second leg or is done.
LEMMA AnswerReadStep ==
    ASSUME TypeOK, Calls, NEW c \in Client, NEW r \in Request, NEW n \in Handler, NEW x \in Caller,
           req[r].from = c, req' = [req EXCEPT ![r] = n], client' = [client EXCEPT ![c] = x],
           x.tries = client[c].tries,
           \/ n = Free /\ x.pc \in {"idle", "refused"}
           \/ /\ n.pc = "sent" /\ Sound(n) /\ n.from = c /\ n.leg # "ke1" /\ n.account = client[c].account
              /\ x.pc \in {"reg2", "log2"} /\ x.account = client[c].account /\ x.pw = client[c].pw,
           UNCHANGED <<pending, sessions>>
    PROVE  Calls'
<1>1. req \in [Request -> Handler] /\ client \in [Client -> Caller]  BY DEF TypeOK
<1>2. /\ req'[r] = n /\ \A q \in Request : q # r => req'[q] = req[q]
      /\ client'[c] = x /\ \A d \in Client : d # c => client'[d] = client[d]
  BY <1>1
<1>3. c # None  BY NoneAssumption
<1>4. /\ Waiting(c) /\ req[r].account = client[c].account
      /\ \A q \in Request : q # r => req[q].from # c
  BY <1>3 DEF Calls, Addressed
<1>5. \A q \in Request : req[q].from \in Client \cup {None}  BY <1>1 DEF Handler
<1>6. \A l : Untouched(l)' <=> Untouched(l)  BY DEF Untouched
<1>7. Routed'
  <2>1. Sound(n)  BY FreeTyped DEF Sound
  <2> QED  BY <1>2, <2>1 DEF Calls, Routed
<1>8. Callers'  BY <1>2, <1>4 DEF Calls, Callers, Waiting
<1>9. Addressed'
  <2> DEFINE W(d) == client'[d].pc \in {"reg1", "reg2", "log1", "log2"}
  <2> SUFFICES ASSUME NEW q \in Request, req'[q].from # None
               PROVE  /\ W(req'[q].from) /\ req'[q].account = client'[req'[q].from].account
                      /\ \A p \in Request : req'[p].from = req'[q].from => p = q
    BY DEF Addressed, Waiting
  <2>1. CASE q = r
    <3>1. n.from = c /\ n.account = client[c].account /\ x.pc \in {"reg2", "log2"} /\ x.account = client[c].account
      BY <1>2, <2>1, FreeTyped
    <3> QED  BY <1>2, <1>4, <2>1, <3>1
  <2>2. CASE q # r
    <3>1. req'[q] = req[q] /\ req[q].from \in Client /\ req[q].from # c  BY <1>2, <1>4, <1>5, <2>2
    <3>2. Waiting(req[q].from) /\ req[q].account = client[req[q].from].account
      BY <3>1 DEF Calls, Addressed
    <3>3. n.from \in {c, None}  BY FreeTyped
    <3>4. \A p \in Request : req'[p].from = req[q].from => p = q
      BY <1>2, <3>1, <3>3 DEF Calls, Addressed
    <3> QED  BY <1>2, <3>1, <3>2, <3>4 DEF Waiting
  <2> QED  BY <2>1, <2>2
<1>10. \A d \in Client : client'[d].tries = client[d].tries  BY <1>2
<1>11. Unborn'
  <2> SUFFICES ASSUME NEW l \in Login, l[2] > client'[l[1]].tries PROVE Untouched(l)
    BY <1>6 DEF Unborn
  <2>1. l[1] \in Client  BY DEF Login
  <2> QED  BY <1>10, <2>1 DEF Calls, Unborn
<1>12. Asking'
  <2> SUFFICES ASSUME NEW q \in Request, req'[q].from # None,
                      req'[q].pc \in {"sent", "limit", "read", "set"}, req'[q].leg = "ke1"
               PROVE  /\ req'[q].login = <<req'[q].from, client'[req'[q].from].tries>>
                      /\ Untouched(req'[q].login)
    BY <1>6 DEF Asking
  <2>1. q # r  BY <1>2, FreeTyped
  <2>2. req'[q] = req[q] /\ req[q].from \in Client  BY <1>2, <1>5, <2>1
  <2> QED  BY <1>10, <2>2 DEF Calls, Asking
<1> QED  BY <1>7, <1>8, <1>9, <1>11, <1>12 DEF Calls

\* A client stops waiting, and its request goes on without it.
LEMMA AbandonStep ==
    ASSUME TypeOK, Calls, NEW c \in Client, Abandon(c)
    PROVE  /\ Calls'
           /\ req' \in [Request -> Handler] /\ client' \in [Client -> Caller]
           /\ \A q \in Request :
                \/ req[q].from # c /\ req'[q] = req[q]
                \/ req[q].from = c /\ req'[q] = Free
                \/ req[q].from = c /\ Onward([req[q] EXCEPT !.from = None], req'[q])
                   /\ req'[q].pc = req[q].pc /\ req'[q].window = req[q].window
<1>1. req \in [Request -> Handler] /\ client \in [Client -> Caller]  BY DEF TypeOK
<1>2. \A q \in Request : req'[q] = IF req[q].from # c THEN req[q]
                                   ELSE IF req[q].pc = "done" THEN Free ELSE [req[q] EXCEPT !.from = None]
  BY DEF Abandon
<1>3. \A q \in Request : req[q].from \in Client \cup {None}  BY <1>1 DEF Handler
<1>4. \A q \in Request :
        LET n == [req[q] EXCEPT !.from = None]
        IN  /\ n \in Handler /\ n.from = None /\ n.pc = req[q].pc /\ n.account = req[q].account
            /\ n.login = req[q].login /\ n.leg = req[q].leg /\ n.scope = req[q].scope
            /\ n.window = req[q].window /\ n.hasPending = req[q].hasPending
  <2> TAKE q \in Request
  <2>1. req[q] \in Handler  BY <1>1
  <2> QED  BY <2>1 DEF Handler
<1>5. \A q \in Request : req[q].from = c => req'[q].from = None /\ Sound(req'[q])
  <2> SUFFICES ASSUME NEW q \in Request, req[q].from = c PROVE req'[q].from = None /\ Sound(req'[q])
    OBVIOUS
  <2> DEFINE n == [req[q] EXCEPT !.from = None]
  <2>1. /\ n.from = None /\ n.pc = req[q].pc /\ n.account = req[q].account
        /\ n.login = req[q].login /\ n.leg = req[q].leg /\ n.scope = req[q].scope
        /\ n.hasPending = req[q].hasPending
    BY <1>4
  <2> HIDE DEF n
  <2>2. Sound(req[q])  BY DEF Calls, Routed
  <2>3. req[q].pc # "free"  BY <2>2, FreeTyped, NoneAssumption DEF Sound
  <2>4. Sound(n)  BY <2>1, <2>2, <2>3 DEF Sound
  <2>5. req'[q] = Free \/ req'[q] = n  BY <1>2 DEF n
  <2>6. Sound(Free) /\ Free.from = None  BY FreeTyped DEF Sound
  <2> QED  BY <2>1, <2>4, <2>5, <2>6
<1>6. req' \in [Request -> Handler]
  <2>1. Free \in Handler  BY FreeTyped
  <2>2. req' = [q \in Request |-> req'[q]]  BY DEF Abandon
  <2> QED  BY <1>1, <1>2, <1>4, <2>1, <2>2
<1>7. /\ client' \in [Client -> Caller] /\ client'[c] = Over(c)
      /\ \A d \in Client : d # c => client'[d] = client[d]
  BY <1>1, OverTyped DEF Abandon
<1>8. \A l : Untouched(l)' <=> Untouched(l)  BY DEF Untouched, Abandon, tables
<1>9. \A d \in Client : client'[d].tries = client[d].tries  BY <1>7, OverTyped
<1>10. Routed'  BY <1>2, <1>5 DEF Calls, Routed
<1>11. Callers'  BY <1>7, OverTyped DEF Calls, Callers, Waiting
<1>12. Addressed'
  <2> DEFINE W(d) == client'[d].pc \in {"reg1", "reg2", "log1", "log2"}
  <2> SUFFICES ASSUME NEW q \in Request, req'[q].from # None
               PROVE  /\ W(req'[q].from) /\ req'[q].account = client'[req'[q].from].account
                      /\ \A p \in Request : req'[p].from = req'[q].from => p = q
    BY DEF Addressed, Waiting
  <2>1. req'[q] = req[q] /\ req[q].from \in Client /\ req[q].from # c  BY <1>2, <1>3, <1>5
  <2>2. Waiting(req[q].from) /\ req[q].account = client[req[q].from].account
    BY <2>1 DEF Calls, Addressed
  <2>3. \A p \in Request : req'[p].from = req[q].from => p = q
    BY <1>2, <1>5, <2>1 DEF Calls, Addressed
  <2> QED  BY <1>7, <2>1, <2>2, <2>3 DEF Waiting
<1>13. Unborn'
  <2> SUFFICES ASSUME NEW l \in Login, l[2] > client'[l[1]].tries PROVE Untouched(l)
    BY <1>8 DEF Unborn
  <2>1. l[1] \in Client  BY DEF Login
  <2> QED  BY <1>9, <2>1 DEF Calls, Unborn
<1>14. Asking'
  <2> SUFFICES ASSUME NEW q \in Request, req'[q].from # None,
                      req'[q].pc \in {"sent", "limit", "read", "set"}, req'[q].leg = "ke1"
               PROVE  /\ req'[q].login = <<req'[q].from, client'[req'[q].from].tries>>
                      /\ Untouched(req'[q].login)
    BY <1>8 DEF Asking
  <2>1. req'[q] = req[q] /\ req[q].from \in Client  BY <1>2, <1>3, <1>5
  <2> QED  BY <1>9, <2>1 DEF Calls, Asking
<1>15. \A q \in Request :
         \/ req[q].from # c /\ req'[q] = req[q]
         \/ req[q].from = c /\ req'[q] = Free
         \/ req[q].from = c /\ Onward([req[q] EXCEPT !.from = None], req'[q])
            /\ req'[q].pc = req[q].pc /\ req'[q].window = req[q].window
  <2> TAKE q \in Request
  <2> DEFINE n == [req[q] EXCEPT !.from = None]
  <2>1. n.pc = req[q].pc /\ n.window = req[q].window /\ Onward(n, n)  BY <1>4 DEF Onward
  <2> QED  BY <1>2, <2>1
<1> QED  BY <1>6, <1>7, <1>10, <1>11, <1>12, <1>13, <1>14, <1>15 DEF Calls

\* A handler moves: no login is touched but the one whose first leg it is.
LEMMA HandledStep ==
    ASSUME TypeOK, Calls, NEW r \in Request, client' = client,
           \A q \in Request : q # r => req'[q] = req[q],
           Sound(req'[r]),
           \/ Onward(req[r], req'[r]) /\ req[r].pc \in {"sent", "limit", "read"}
           \/ \E reply \in Reply : Replied(req[r], req'[r], reply),
           \A l \in Login : Untouched(l) /\ ~Untouched(l)' =>
               l = req[r].login /\ req[r].from # None /\ req[r].leg = "ke1" /\ req[r].pc = "set"
    PROVE  Calls'
<1>1. req \in [Request -> Handler] /\ client \in [Client -> Caller]  BY DEF TypeOK
<1>2. \A q \in Request : /\ req[q].from \in Client \cup {None} /\ req[q].login \in Login \cup {NoLogin}
  BY <1>1 DEF Handler
<1>3. req'[r].from = req[r].from
  BY FreeTyped DEF Onward, Replied
<1>4. req'[r].from # None => req'[r].account = req[r].account
  BY FreeTyped DEF Onward, Replied
<1>5. req'[r].leg = "ke1" => Onward(req[r], req'[r]) /\ req[r].pc \in {"sent", "limit", "read"}
  BY FreeTyped DEF Replied
<1>6. Routed'  BY DEF Calls, Routed
<1>7. Callers'  BY DEF Calls, Callers, Waiting
<1>8. Addressed'
  <2> DEFINE W(d) == client[d].pc \in {"reg1", "reg2", "log1", "log2"}
  <2> SUFFICES ASSUME NEW q \in Request, req'[q].from # None
               PROVE  /\ W(req'[q].from) /\ req'[q].account = client[req'[q].from].account
                      /\ \A p \in Request : req'[p].from = req'[q].from => p = q
    BY DEF Addressed, Waiting
  <2>1. /\ req'[q].from = req[q].from /\ req'[q].account = req[q].account
        /\ \A p \in Request : req'[p].from = req[p].from
    BY <1>3, <1>4
  <2> QED  BY <2>1 DEF Calls, Addressed, Waiting
\* The login of an asking request is the attempt its client is at.
<1>9. \A q \in Request :
        req[q].from # None /\ req[q].pc \in {"sent", "limit", "read", "set"} /\ req[q].leg = "ke1"
          => /\ req[q].login \in Login /\ req[q].login[1] = req[q].from
             /\ req[q].login[2] = client[req[q].from].tries
             /\ req[q].login = <<req[q].from, client[req[q].from].tries>> /\ Untouched(req[q].login)
  <2> SUFFICES ASSUME NEW q \in Request, req[q].from # None,
                      req[q].pc \in {"sent", "limit", "read", "set"}, req[q].leg = "ke1"
               PROVE  /\ req[q].login \in Login /\ req[q].login[1] = req[q].from
                      /\ req[q].login[2] = client[req[q].from].tries
                      /\ req[q].login = <<req[q].from, client[req[q].from].tries>> /\ Untouched(req[q].login)
    OBVIOUS
  <2>1. req[q].login = <<req[q].from, client[req[q].from].tries>> /\ Untouched(req[q].login)
    BY DEF Calls, Asking
  <2>2. req[q].login # NoLogin  BY <2>1 DEF NoLogin
  <2> QED  BY <1>2, <2>1, <2>2
<1>10. Unborn'
  <2> SUFFICES ASSUME NEW l \in Login, l[2] > client[l[1]].tries PROVE Untouched(l)'
    BY DEF Unborn
  <2>1. Untouched(l)  BY DEF Calls, Unborn
  <2>2. ~(l = req[r].login /\ req[r].from # None /\ req[r].leg = "ke1" /\ req[r].pc = "set")
    <3> SUFFICES ASSUME l = req[r].login, req[r].from # None, req[r].leg = "ke1", req[r].pc = "set" PROVE FALSE
      OBVIOUS
    <3>1. l[2] = client[l[1]].tries  BY <1>9
    <3>2. l[2] \in Nat  BY DEF Login
    <3> QED  BY <3>1, <3>2
  <2> QED  BY <2>1, <2>2
<1>11. Asking'
  <2> DEFINE U(l) == \A a \in Account : sessions'[a][l] = 0 /\ (pending'[a] # None => pending'[a].login # l)
  <2>0. \A l : U(l) <=> Untouched(l)'  BY DEF Untouched
  <2> SUFFICES ASSUME NEW q \in Request, req'[q].from # None,
                      req'[q].pc \in {"sent", "limit", "read", "set"}, req'[q].leg = "ke1"
               PROVE  /\ req'[q].login = <<req'[q].from, client[req'[q].from].tries>>
                      /\ U(req'[q].login)
    BY DEF Asking, Untouched
  <2> HIDE DEF U
  <2>1. /\ req'[q].from = req[q].from /\ req'[q].login = req[q].login /\ req[q].leg = "ke1"
        /\ req[q].pc \in {"sent", "limit", "read", "set"} /\ (q = r => req[q].pc # "set")
    BY <1>3, <1>5 DEF Onward
  <2>2. /\ req[q].login \in Login /\ req[q].login[1] = req[q].from /\ Untouched(req[q].login)
        /\ req[q].login = <<req[q].from, client[req[q].from].tries>>
    BY <1>9, <2>1
  <2>3. ~(req[q].login = req[r].login /\ req[r].from # None /\ req[r].leg = "ke1" /\ req[r].pc = "set")
    <3> SUFFICES ASSUME req[q].login = req[r].login, req[r].from # None, req[r].leg = "ke1", req[r].pc = "set" PROVE FALSE
      OBVIOUS
    <3>1. req[r].login[1] = req[r].from  BY <1>9
    <3>2. req[q].from = req[r].from  BY <2>2, <3>1
    <3>3. q = r  BY <3>2 DEF Calls, Addressed
    <3> QED  BY <2>1, <3>3
  <2> QED  BY <2>0, <2>1, <2>2, <2>3
<1> QED  BY <1>6, <1>7, <1>8, <1>10, <1>11 DEF Calls
-----------------------------------------------------------------------------
(* The limiter                                                             *)

Counters == count \in [Account -> [Scope -> [Windows -> 0 .. LimitMax + 1]]]
            /\ passed \in [Account -> [Scope -> [Windows -> 0 .. LimitMax + 2]]]

\* The upsert counts what it lets through, in a window that is still kept.
LEMMA CheckCounts ==
    ASSUME TypeOK, Routed, Paced, Counted, NEW r \in Request, CheckAndIncrement(r)
    PROVE  Counters' /\ Counted'
<1> DEFINE m == req[r]
           a == m.account
           s == m.scope
           w == m.window
           k == count[a][s][w]
           k1 == IF k <= LimitMax THEN k + 1 ELSE k
<1>1. m \in Handler /\ m.pc = "limit" /\ now' = now  BY DEF TypeOK, CheckAndIncrement
<1>2. a \in Account /\ s \in Scope /\ w \in Windows
  BY <1>1 DEF Handler, Routed, Sound
<1>3. /\ count \in [Account -> [Scope -> [Windows -> 0 .. LimitMax + 1]]]
      /\ passed \in [Account -> [Scope -> [Windows -> 0 .. LimitMax + 2]]]
  BY DEF TypeOK
<1>4. k \in 0 .. LimitMax + 1 /\ passed[a][s][w] \in 0 .. LimitMax + 2 /\ LimitMax \in Nat
  BY <1>2, <1>3, LoginAssumption
<1>5. passed[a][s][w] <= LimitMax /\ passed[a][s][w] <= k
  <2>1. w * Window >= now - Retention  BY <1>1 DEF Paced
  <2>2. w * Window \in Int /\ now - Retention \in Int
    <3>1. w \in Int  BY <1>2, LoginAssumption DEF Windows
    <3> QED  BY <3>1, LoginAssumption DEF TypeOK
  <2>3. passed[a][s][w] <= LimitMax /\ (passed[a][s][w] <= k \/ w * Window < now - Retention)
    BY <1>2 DEF Counted
  <2> QED  BY <2>1, <2>2, <2>3
<1>6. \/ UNCHANGED <<count, passed>>
      \/ /\ count' = [count EXCEPT ![a][s][w] = k1]
         /\ UNCHANGED passed \/ (k + 1 <= LimitMax /\ passed' = [passed EXCEPT ![a][s][w] = @ + 1])
  BY <1>2, <1>3 DEF CheckAndIncrement, Within
<1>7. CASE UNCHANGED <<count, passed>>
  BY <1>1, <1>3, <1>7 DEF Counters, Counted
<1>8. CASE count' = [count EXCEPT ![a][s][w] = k1]
  <2>1. k1 \in 0 .. LimitMax + 1 /\ k1 >= k /\ (k + 1 <= LimitMax => k1 = k + 1)  BY <1>4
  <2> HIDE DEF k1
  <2>2. /\ count' \in [Account -> [Scope -> [Windows -> 0 .. LimitMax + 1]]]
        /\ count'[a][s][w] = k1
        /\ \A b \in Account, t \in Scope, v \in Windows : <<b, t, v>> # <<a, s, w>> => count'[b][t][v] = count[b][t][v]
    BY <1>2, <1>3, <1>8, <2>1
  <2>3. CASE UNCHANGED passed
    <3>1. Counted'
      <4> SUFFICES ASSUME NEW b \in Account, NEW t \in Scope, NEW v \in Windows
                   PROVE  /\ passed[b][t][v] <= LimitMax
                          /\ passed[b][t][v] <= count'[b][t][v] \/ v * Window < now - Retention
        BY <1>1, <2>3 DEF Counted
      <4>1. CASE <<b, t, v>> = <<a, s, w>>  BY <1>4, <1>5, <2>1, <2>2, <4>1
      <4>2. CASE <<b, t, v>> # <<a, s, w>>  BY <2>2, <4>2 DEF Counted
      <4> QED  BY <4>1, <4>2
    <3> QED  BY <1>3, <2>2, <2>3, <3>1 DEF Counters
  <2>4. CASE k + 1 <= LimitMax /\ passed' = [passed EXCEPT ![a][s][w] = @ + 1]
    <3> DEFINE p == passed[a][s][w]
               p1 == p + 1
    <3>0. k + 1 <= LimitMax /\ passed' = [passed EXCEPT ![a][s][w] = p1]  BY <1>2, <1>3, <2>4
    <3>1. p1 \in 0 .. LimitMax + 2 /\ p1 <= LimitMax /\ p1 <= k1
      <4>1. p \in Nat /\ p <= LimitMax /\ p <= k /\ k \in Nat /\ LimitMax \in Nat  BY <1>4, <1>5
      <4>2. k1 = k + 1 /\ k + 1 <= LimitMax  BY <2>1, <3>0
      <4> HIDE DEF k, p
      <4> QED  BY <4>1, <4>2
    <3> HIDE DEF p1
    <3>2. /\ passed' \in [Account -> [Scope -> [Windows -> 0 .. LimitMax + 2]]]
          /\ passed'[a][s][w] = p1
          /\ \A b \in Account, t \in Scope, v \in Windows : <<b, t, v>> # <<a, s, w>> => passed'[b][t][v] = passed[b][t][v]
      BY <1>2, <1>3, <3>0, <3>1
    <3>3. Counted'
      <4> SUFFICES ASSUME NEW b \in Account, NEW t \in Scope, NEW v \in Windows
                   PROVE  /\ passed'[b][t][v] <= LimitMax
                          /\ passed'[b][t][v] <= count'[b][t][v] \/ v * Window < now - Retention
        BY <1>1 DEF Counted
      <4>1. CASE <<b, t, v>> = <<a, s, w>>  BY <2>2, <3>1, <3>2, <4>1
      <4>2. CASE <<b, t, v>> # <<a, s, w>>  BY <2>2, <3>2, <4>2 DEF Counted
      <4> QED  BY <4>1, <4>2
    <3> QED  BY <2>2, <3>2, <3>3 DEF Counters
  <2> QED  BY <1>6, <1>7, <2>3, <2>4
<1> QED  BY <1>6, <1>7, <1>8

\* The sweep forgets no window that a handler may still count in.
LEMMA SweepCounts ==
    ASSUME TypeOK, Paced, Counted, CleanWindows
    PROVE  Counters' /\ Counted'
<1>1. /\ count \in [Account -> [Scope -> [Windows -> 0 .. LimitMax + 1]]]
      /\ passed \in [Account -> [Scope -> [Windows -> 0 .. LimitMax + 2]]]
      /\ cleaner.now \in Nat /\ now \in Nat /\ LimitMax \in Nat /\ Window \in Nat /\ Retention \in Nat
  BY LoginAssumption DEF TypeOK
<1>2. UNCHANGED <<passed, now>> /\ cleaner.now <= now  BY DEF CleanWindows, Paced
<1>3. /\ count' \in [Account -> [Scope -> [Windows -> 0 .. LimitMax + 1]]]
      /\ \A a \in Account, s \in Scope, w \in Windows :
           count'[a][s][w] = IF StaleWindow(w) THEN 0 ELSE count[a][s][w]
  BY <1>1 DEF CleanWindows
<1>4. \A w \in Windows : StaleWindow(w) => w * Window < now - Retention
  <2> SUFFICES ASSUME NEW w \in Windows, w * Window < cleaner.now - Retention PROVE w * Window < now - Retention
    BY DEF StaleWindow
  <2>1. w \in Int  BY LoginAssumption DEF Windows
  <2>2. w * Window \in Int  BY <1>1, <2>1
  <2> QED  BY <1>1, <1>2, <2>2
<1>5. Counted'
  <2> SUFFICES ASSUME NEW a \in Account, NEW s \in Scope, NEW w \in Windows
               PROVE  /\ passed[a][s][w] <= LimitMax
                      /\ passed[a][s][w] <= count'[a][s][w] \/ w * Window < now - Retention
    BY <1>2 DEF Counted
  <2> QED  BY <1>3, <1>4 DEF Counted
<1> QED  BY <1>1, <1>2, <1>3, <1>5 DEF Counters
-----------------------------------------------------------------------------
(* The pending logins                                                      *)

\* Entries that go give nobody a session.
LEMMA EntriesGo ==
    ASSUME TypeOK, Spending, sessions' = sessions,
           \A a \in Account : pending'[a] = pending[a] \/ pending'[a] = None
    PROVE  Spending' /\ \A l : Untouched(l) => Untouched(l)'
<1>1. \A l : Untouched(l) => Untouched(l)'  BY DEF Untouched
<1>2. OneSessionPerLogin'  BY DEF Spending, OneSessionPerLogin
<1>3. Unspent'
  <2> SUFFICES ASSUME NEW a \in Account, pending'[a] # None, NEW b \in Account
               PROVE  /\ pending'[a].login \in Login => sessions[b][pending'[a].login] = 0
                      /\ /\ pending'[b] # None /\ pending'[b].login = pending'[a].login
                         /\ pending'[a].login \in Login
                         => a = b
    BY DEF Unspent
  <2>1. pending'[a] = pending[a] /\ (pending'[b] # None => pending'[b] = pending[b])  OBVIOUS
  <2> QED  BY <2>1 DEF Spending, Unspent
<1> QED  BY <1>1, <1>2, <1>3 DEF Spending

\* A leg 1 makes state of a login that has none yet, and only its own.
LEMMA StartSpends ==
    ASSUME TypeOK, Calls, Spending, NEW r \in Request, LoginStart(r)
    PROVE  /\ Spending'
           /\ \A l \in Login : Untouched(l) /\ ~Untouched(l)' =>
                l = req[r].login /\ req[r].from # None /\ req[r].leg = "ke1" /\ req[r].pc = "set"
<1> DEFINE m == req[r]
           a == m.account
<1>0. Routed  BY DEF Calls
<1>1. m.pc = "set" /\ a \in Account /\ sessions' = sessions  BY <1>0, StartEffect
<1>2. m \in Handler  BY DEF TypeOK
<1>3. \A b \in Account : Evicted[b] = pending[b] \/ Evicted[b] = None  BY EvictedTyped
<1>4. CASE pending' = pending
  BY <1>1, <1>4, EntriesGo
<1>5. CASE Set(m, pending'[a]) /\ \A b \in Account : b # a => pending'[b] = Evicted[b]
  <2> DEFINE e == pending'[a]
  <2>1. e.login = IF m.from = None THEN NoLogin ELSE m.login  BY <1>5 DEF Set
  <2>2. NoLogin \notin Login  BY DEF NoLogin, Login
  <2>3. e.login \in Login => /\ m.from # None /\ m.leg = "ke1" /\ m.login = e.login /\ Untouched(e.login)
    <3> SUFFICES ASSUME e.login \in Login PROVE m.from # None /\ m.leg = "ke1" /\ m.login = e.login /\ Untouched(e.login)
      OBVIOUS
    <3>1. m.from # None /\ m.login = e.login  BY <2>1, <2>2
    <3>2. m.leg = "ke1"  BY <1>0, <1>1, <2>2, <3>1 DEF Routed, Sound
    <3>3. Untouched(m.login)  BY <1>1, <3>1, <3>2 DEF Calls, Asking
    <3> QED  BY <3>1, <3>2, <3>3
  <2> HIDE DEF e
  <2>4. OneSessionPerLogin'  BY <1>1 DEF Spending, OneSessionPerLogin
  <2>5. \A b \in Account : b # a => pending'[b] = pending[b] \/ pending'[b] = None  BY <1>3, <1>5
  <2>6. Unspent'
    <3> SUFFICES ASSUME NEW x \in Account, pending'[x] # None, NEW b \in Account
                 PROVE  /\ pending'[x].login \in Login => sessions[b][pending'[x].login] = 0
                        /\ /\ pending'[b] # None /\ pending'[b].login = pending'[x].login
                           /\ pending'[x].login \in Login
                           => x = b
      BY <1>1 DEF Unspent
    <3>1. CASE x = a
      <4>1. pending'[x] = e  BY <3>1 DEF e
      <4>2. e.login \in Login => sessions[b][e.login] = 0 /\ (pending[b] # None => pending[b].login # e.login)
        BY <2>3 DEF Untouched
      <4>3. b # a => pending'[b] = pending[b] \/ pending'[b] = None  BY <2>5
      <4> QED  BY <3>1, <4>1, <4>2, <4>3
    <3>2. CASE x # a /\ b = a
      <4>1. pending'[b] = e /\ pending'[x] = pending[x]  BY <2>5, <3>2 DEF e
      <4>2. pending[x].login \in Login => sessions[b][pending[x].login] = 0
        BY <4>1 DEF Spending, Unspent
      <4>3. e.login \in Login => pending[x].login # e.login
        BY <2>3, <4>1 DEF Untouched
      <4> QED  BY <4>1, <4>2, <4>3
    <3>3. CASE x # a /\ b # a
      <4>1. pending'[x] = pending[x] /\ (pending'[b] # None => pending'[b] = pending[b])  BY <2>5, <3>3
      <4> QED  BY <4>1 DEF Spending, Unspent
    <3> QED  BY <3>1, <3>2, <3>3
  <2>7. ASSUME NEW l \in Login, Untouched(l), ~Untouched(l)'
        PROVE  l = m.login /\ m.from # None /\ m.leg = "ke1" /\ m.pc = "set"
    <3>1. PICK b \in Account : ~(sessions[b][l] = 0 /\ (pending'[b] # None => pending'[b].login # l))
      BY <1>1, <2>7 DEF Untouched
    <3>2. sessions[b][l] = 0 /\ (pending[b] # None => pending[b].login # l)  BY <2>7 DEF Untouched
    <3>3. pending'[b] # None /\ pending'[b].login = l  BY <3>1, <3>2
    <3>4. b = a  BY <2>5, <3>2, <3>3
    <3> QED  BY <1>1, <2>3, <3>3, <3>4 DEF e
  <2> QED  BY <2>4, <2>6, <2>7 DEF Spending
<1> QED  BY <1>0, <1>4, <1>5, StartEffect

\* A leg 2 spends the state it takes: the login it gives a session had none.
LEMMA FinishSpends ==
    ASSUME TypeOK, Calls, Spending, NEW r \in Request, LoginFinish(r)
    PROVE  Spending' /\ \A l \in Login : Untouched(l) => Untouched(l)'
<1> DEFINE m == req[r]
           a == m.account
<1>0. Routed /\ OneSessionPerLogin  BY DEF Calls, Spending
<1>1. /\ a \in Account /\ pending'[a] = None /\ \A b \in Account : b # a => pending'[b] = Evicted[b]
      /\ \/ sessions' = sessions
         \/ Verified(m, Evicted[a]) /\ sessions' = [sessions EXCEPT ![a][m.login] = @ + 1]
  BY <1>0, FinishEffect
<1>2. \A b \in Account : Evicted[b] = pending[b] \/ Evicted[b] = None  BY EvictedTyped
<1>3. \A b \in Account : pending'[b] = pending[b] \/ pending'[b] = None  BY <1>1, <1>2
<1>4. CASE sessions' = sessions  BY <1>3, <1>4, EntriesGo
<1>5. CASE Verified(m, Evicted[a]) /\ sessions' = [sessions EXCEPT ![a][m.login] = @ + 1]
  <2>1. pending[a] # None /\ pending[a].login = m.login  BY <1>1, <1>2, <1>5 DEF Verified
  <2>2. sessions \in [Account -> [Login -> 0 .. 2]]  BY DEF TypeOK
  <2>3. \A b \in Account, l \in Login : l # m.login => sessions'[b][l] = sessions[b][l]
    BY <1>1, <1>5, <2>2
  <2>4. \A l \in Login : l = m.login => \A b \in Account : sessions[b][l] = 0 /\ sessions'[b][l] <= 1
    <3> SUFFICES ASSUME m.login \in Login, NEW b \in Account PROVE sessions[b][m.login] = 0 /\ sessions'[b][m.login] <= 1
      OBVIOUS
    <3>1. sessions[b][m.login] = 0 /\ sessions[a][m.login] = 0  BY <1>1, <2>1 DEF Spending, Unspent
    <3> QED  BY <1>1, <1>5, <2>2, <3>1
  <2>5. OneSessionPerLogin'
    <3> SUFFICES ASSUME NEW b \in Account, NEW l \in Login PROVE sessions'[b][l] <= 1
      BY DEF OneSessionPerLogin
    <3> QED  BY <1>0, <2>3, <2>4 DEF OneSessionPerLogin
  <2>6. Unspent'
    <3> SUFFICES ASSUME NEW x \in Account, pending'[x] # None, NEW b \in Account
                 PROVE  /\ pending'[x].login \in Login => sessions'[b][pending'[x].login] = 0
                        /\ /\ pending'[b] # None /\ pending'[b].login = pending'[x].login
                           /\ pending'[x].login \in Login
                           => x = b
      BY DEF Unspent
    <3>1. x # a /\ pending'[x] = pending[x] /\ (pending'[b] # None => pending'[b] = pending[b])
      BY <1>1, <1>3
    <3>2. pending[x].login \in Login => pending[x].login # m.login
      BY <1>1, <2>1, <3>1 DEF Spending, Unspent
    <3>3. pending[x].login \in Login => sessions[b][pending[x].login] = 0
      BY <3>1 DEF Spending, Unspent
    <3>4. /\ pending'[b] # None /\ pending'[b].login = pending'[x].login /\ pending'[x].login \in Login
          => x = b
      BY <3>1 DEF Spending, Unspent
    <3> QED  BY <2>3, <3>1, <3>2, <3>3, <3>4
  <2>7. ASSUME NEW l \in Login, Untouched(l) PROVE Untouched(l)'
    <3>1. l # m.login  BY <1>1, <2>1, <2>7 DEF Untouched
    <3> QED  BY <1>3, <2>3, <2>7, <3>1 DEF Untouched
  <2> QED  BY <2>5, <2>6, <2>7 DEF Spending
<1> QED  BY <1>1, <1>4, <1>5
-----------------------------------------------------------------------------
(* The steps preserve Base                                                 *)

\* A step of a handler that is not the limiter's.
LEMMA Moved ==
    ASSUME Base, NEW r \in Request, now' = now, cleaner' = cleaner,
           \A q \in Request : q # r => req'[q] = req[q],
           req'[r].pc = "limit" => req'[r].window = now \div Window
    PROVE  Paced'
<1>1. now \in 0 .. MaxTime  BY DEF Base, TypeOK
<1>2. (now \div Window) * Window >= now - Retention
  <2>1. (now \div Window) * Window \in Int
    <3>1. now \div Window \in Int  BY <1>1, LoginAssumption
    <3> QED  BY <3>1, LoginAssumption
  <2> QED  BY <1>1, <2>1, WindowOf, LoginAssumption
<1> QED  BY <1>2 DEF Base, Paced

LEMMA ArriveStep ==
    ASSUME Base, NEW r \in Request, Arrive(r)
    PROVE  Base'
<1>0. TypeOK /\ Calls /\ Routed /\ Spending  BY DEF Base, Calls
<1>1. /\ req[r].pc = "sent" /\ req[r].account \in Account
      /\ req' \in [Request -> Handler] /\ \A q \in Request : q # r => req'[q] = req[q]
      /\ \/ \E reply \in {"refused", "limited"} : Replied(req[r], req'[r], reply)
         \/ Onward(req[r], req'[r]) /\ req'[r].pc = "limit" /\ req'[r].window = now \div Window
      /\ Sound(req'[r]) /\ pending' \in {pending, Evicted}
      /\ created' \in [Account -> (0 .. MaxTime) \cup {-1}]
      /\ bucket' \in [count : 0 .. AdmissionMax + 1, windowEnd : 0 .. MaxTime + Window]
      /\ UNCHANGED <<now, cred, count, sessions, cleaner, client, faults, passed>>
  BY <1>0, ArriveEffect
<1>2. Evicted \in [Account -> Entry \cup {None}] /\ \A a \in Account : Evicted[a] = pending[a] \/ Evicted[a] = None
  BY <1>0, EvictedTyped
<1>3. TypeOK'  BY <1>0, <1>1, <1>2 DEF TypeOK
<1>4. \A a \in Account : pending'[a] = pending[a] \/ pending'[a] = None  BY <1>1, <1>2
<1>5. Spending' /\ \A l : Untouched(l) => Untouched(l)'  BY <1>0, <1>1, <1>4, EntriesGo
<1>6. Calls'
  <2>1. \/ Onward(req[r], req'[r]) /\ req[r].pc \in {"sent", "limit", "read"}
        \/ \E reply \in Reply : Replied(req[r], req'[r], reply)
    BY <1>1 DEF Reply
  <2> QED  BY <1>0, <1>1, <1>5, <2>1, HandledStep
<1>7. req'[r].pc = "limit" => req'[r].window = now \div Window  BY <1>1, FreeTyped DEF Replied
<1>8. Paced'  BY <1>1, <1>7, Moved
<1>9. Counted'  BY <1>1 DEF Base, Counted
<1> QED  BY <1>3, <1>5, <1>6, <1>8, <1>9 DEF Base

LEMMA CheckStep ==
    ASSUME Base, NEW r \in Request, CheckAndIncrement(r)
    PROVE  Base'
<1>0. TypeOK /\ Calls /\ Routed /\ Spending /\ Paced /\ Counted  BY DEF Base, Calls
<1>1. /\ req[r].pc = "limit" /\ req[r].account \in Account
      /\ req' \in [Request -> Handler] /\ \A q \in Request : q # r => req'[q] = req[q]
      /\ \/ \E reply \in {"error", "limited", "ok"} : Replied(req[r], req'[r], reply)
         \/ Onward(req[r], req'[r]) /\ req'[r].pc \in {"save", "take", "read"}
      /\ Sound(req'[r]) /\ cleaner' \in {cleaner, Sweep}
      /\ UNCHANGED <<now, cred, created, sessions, pending, bucket, client, faults>>
  BY <1>0, CheckEffect
<1>2. Counters' /\ Counted'  BY <1>0, CheckCounts
<1>3. TypeOK'
  <2>1. cleaner' \in Cleaners  BY <1>0, <1>1, SweepTyped
  <2> QED  BY <1>0, <1>1, <1>2, <2>1 DEF TypeOK, Counters, Cleaners
<1>4. Spending' /\ \A l : Untouched(l) => Untouched(l)'  BY <1>0, <1>1, EntriesGo
<1>5. Calls'
  <2>1. \/ Onward(req[r], req'[r]) /\ req[r].pc \in {"sent", "limit", "read"}
        \/ \E reply \in Reply : Replied(req[r], req'[r], reply)
    BY <1>1 DEF Reply
  <2> QED  BY <1>0, <1>1, <1>4, <2>1, HandledStep
<1>6. req'[r].pc # "limit"  BY <1>1, FreeTyped DEF Replied
<1>7. Paced'
  <2>1. cleaner'.now <= now  BY <1>0, <1>1, SweepTyped DEF Paced, TypeOK
  <2> QED  BY <1>0, <1>1, <1>6, <2>1 DEF Paced
<1> QED  BY <1>2, <1>3, <1>4, <1>5, <1>7 DEF Base

LEMMA RecordStep ==
    ASSUME Base, NEW r \in Request, SaveCredentialRecordIfAbsent(r) \/ GetCredentialRecord(r)
    PROVE  Base'
<1>0. TypeOK /\ Calls /\ Routed /\ Spending  BY DEF Base, Calls
<1>1. /\ req' \in [Request -> Handler] /\ \A q \in Request : q # r => req'[q] = req[q]
      /\ \/ \E reply \in Reply : Replied(req[r], req'[r], reply)
         \/ Onward(req[r], req'[r]) /\ req[r].pc \in {"sent", "limit", "read"} /\ req'[r].pc = "set"
      /\ Sound(req'[r]) /\ cred' \in [Account -> Password \cup {None}]
      /\ UNCHANGED <<now, created, count, sessions, pending, bucket, cleaner, client, faults, passed>>
  <2>1. CASE SaveCredentialRecordIfAbsent(r)
    <3>1. \E reply \in Reply : Replied(req[r], req'[r], reply)  BY <1>0, <2>1, SaveEffect DEF Reply
    <3> QED  BY <1>0, <2>1, <3>1, SaveEffect
  <2>2. CASE GetCredentialRecord(r)
    <3>1. cred \in [Account -> Password \cup {None}]  BY <1>0 DEF TypeOK
    <3> QED  BY <1>0, <2>2, <3>1, ReadEffect
  <2> QED  BY <2>1, <2>2
<1>2. TypeOK'  BY <1>0, <1>1 DEF TypeOK
<1>3. Spending' /\ \A l : Untouched(l) => Untouched(l)'  BY <1>0, <1>1, EntriesGo
<1>4. Calls'  BY <1>0, <1>1, <1>3, HandledStep
<1>5. req'[r].pc # "limit"  BY <1>1, FreeTyped DEF Replied
<1>6. Paced'  BY <1>1, <1>5, Moved
<1>7. Counted'  BY <1>1 DEF Base, Counted
<1> QED  BY <1>2, <1>3, <1>4, <1>6, <1>7 DEF Base

LEMMA LegStep ==
    ASSUME Base, NEW r \in Request, LoginStart(r) \/ LoginFinish(r)
    PROVE  Base'
<1>0. TypeOK /\ Calls /\ Routed /\ Spending /\ OneSessionPerLogin  BY DEF Base, Calls, Spending
<1>1. /\ req' \in [Request -> Handler] /\ \A q \in Request : q # r => req'[q] = req[q]
      /\ \E reply \in Reply : Replied(req[r], req'[r], reply)
      /\ Sound(req'[r]) /\ pending' \in [Account -> Entry \cup {None}]
      /\ sessions' \in [Account -> [Login -> 0 .. 2]]
      /\ UNCHANGED <<now, cred, created, count, bucket, cleaner, client, faults, passed>>
  <2>1. CASE LoginStart(r)
    <3>1. \E reply \in Reply : Replied(req[r], req'[r], reply)
      <4>1. {"refused", "decoy", "ok"} \subseteq Reply  BY DEF Reply
      <4> QED  BY <1>0, <2>1, <4>1, StartEffect
    <3>2. sessions \in [Account -> [Login -> 0 .. 2]]  BY <1>0 DEF TypeOK
    <3> QED  BY <1>0, <2>1, <3>1, <3>2, StartEffect
  <2>2. CASE LoginFinish(r)
    <3>1. \E reply \in Reply : Replied(req[r], req'[r], reply)
      <4>1. {"refused", "session"} \subseteq Reply  BY DEF Reply
      <4> QED  BY <1>0, <2>2, <4>1, FinishEffect
    <3> QED  BY <1>0, <2>2, <3>1, FinishEffect
  <2> QED  BY <2>1, <2>2
<1>2. TypeOK'  BY <1>0, <1>1 DEF TypeOK
<1>3. /\ Spending'
      /\ \A l \in Login : Untouched(l) /\ ~Untouched(l)' =>
           l = req[r].login /\ req[r].from # None /\ req[r].leg = "ke1" /\ req[r].pc = "set"
  BY <1>0, StartSpends, FinishSpends
<1>4. Calls'  BY <1>0, <1>1, <1>3, HandledStep
<1>5. req'[r].pc # "limit"  BY <1>1, FreeTyped DEF Replied
<1>6. Paced'  BY <1>1, <1>5, Moved
<1>7. Counted'  BY <1>1 DEF Base, Counted
<1> QED  BY <1>2, <1>3, <1>4, <1>6, <1>7 DEF Base

\* A step of a client or of the network leaves the server's state alone.
LEMMA Exchanged ==
    ASSUME Base, Calls', req' \in [Request -> Handler], client' \in [Client -> Caller],
           faults' \in 0 .. MaxFaults,
           \A q \in Request : req'[q].pc = "limit" => req[q].pc = "limit" /\ req'[q].window = req[q].window,
           UNCHANGED <<now, cred, created, count, sessions, pending, bucket, cleaner, passed>>
    PROVE  Base'
<1>1. TypeOK'  BY DEF Base, TypeOK
<1>2. Paced' /\ Counted'  BY DEF Base, Paced, Counted
<1>3. Spending'
  <2>1. TypeOK /\ Spending  BY DEF Base
  <2> QED  BY <2>1, EntriesGo
<1> QED  BY <1>1, <1>2, <1>3 DEF Base

\* A call begins: x is the client, in the call that m is the first message of.
LEMMA CallBegins ==
    ASSUME Base, NEW c \in Client, NEW r \in Request, NEW a \in Account, NEW m \in Handler, NEW x \in Caller,
           ~Waiting(c), req[r].pc = "free",
           req' = [req EXCEPT ![r] = m], client' = [Disturbed(a, c) EXCEPT ![c] = x],
           m.pc = "sent", m.account = a, m.from = c, m.leg \in {"reg1", "ke1"},
           m.leg = "ke1" => m.login = <<c, x.tries>>,
           x.pc \in {"reg1", "log1"}, x.account = a, x.pw \in Password, x.tries = client[c].tries + 1,
           UNCHANGED <<now, tables, pending, bucket, cleaner, faults, passed>>
    PROVE  Base'
<1>0. TypeOK /\ Calls /\ req \in [Request -> Handler]  BY DEF Base, TypeOK
<1>1. /\ Disturbed(a, c) \in [Client -> Caller]
      /\ \A d \in Client : Disturbed(a, c)[d] \in {client[d], Loud(d)}
  BY <1>0, DisturbedTyped
<1>2. client' \in [Client -> Caller] /\ client'[c] = x /\ \A d \in Client : d # c => Unmoved(d)
  BY <1>1 DEF Unmoved
<1>3. Sound(m)  BY DEF Sound
<1>4. Calls'
  <2>1. c # None  BY NoneAssumption
  <2>2. Waiting(c)'  BY <1>2 DEF Waiting
  <2>3. UNCHANGED <<pending, sessions>>  BY DEF tables
  <2> QED  BY <1>0, <1>2, <1>3, <2>1, <2>2, <2>3, PostedStep
<1>5. req' \in [Request -> Handler]  BY <1>0
<1>6. \A q \in Request : req'[q].pc = "limit" => req[q].pc = "limit" /\ req'[q].window = req[q].window
  BY <1>0
<1>7. faults' \in 0 .. MaxFaults  BY <1>0 DEF TypeOK
<1> QED  BY <1>2, <1>4, <1>5, <1>6, <1>7, Exchanged DEF tables

LEMMA StartStep ==
    ASSUME Base, NEW c \in Client, NEW r \in Request, NEW a \in Account, NEW p \in Password, NEW awaited \in BOOLEAN,
           StartRegister(c, r, a, p) \/ StartLogin(c, r, a, p, awaited)
    PROVE  Base'
<1>1. client[c] \in Caller  BY DEF Base, TypeOK
<1>2. client[c].tries \in Nat  BY <1>1, LoginAssumption DEF Caller
<1>3. CASE StartRegister(c, r, a, p)
  <2> DEFINE m == Message(c, a, "reg1", NoLogin, None)
             x == [pc |-> "reg1", account |-> a, pw |-> p, buf |-> p, tries |-> client[c].tries + 1, quiet |-> FALSE]
  <2>1. client[c].tries + 1 \in 0 .. MaxTries  BY <1>2, <1>3, LoginAssumption DEF StartRegister
  <2>2. x \in Caller  BY <2>1 DEF Caller
  <2>3. m \in Handler /\ m.pc = "sent" /\ m.account = a /\ m.from = c /\ m.leg = "reg1"
    BY MessageTyped DEF Leg
  <2>4. /\ ~Waiting(c) /\ req[r].pc = "free" /\ req' = [req EXCEPT ![r] = m]
        /\ client' = [Disturbed(a, c) EXCEPT ![c] = x]
        /\ UNCHANGED <<now, tables, pending, bucket, cleaner, faults, passed>>
    BY <1>3 DEF StartRegister
  <2>5. x.pc = "reg1" /\ x.account = a /\ x.pw = p /\ x.tries = client[c].tries + 1  OBVIOUS
  <2> HIDE DEF m, x
  <2> QED  BY <2>2, <2>3, <2>4, <2>5, CallBegins
<1>4. CASE StartLogin(c, r, a, p, awaited)
  <2> DEFINE l == <<c, client[c].tries + 1>>
             m == Message(c, a, "ke1", l, None)
             buf == IF awaited THEN p ELSE Zeros
             x == [pc |-> "log1", account |-> a, pw |-> p, buf |-> buf,
                   tries |-> client[c].tries + 1, quiet |-> Alone(a)]
  <2>1. client[c].tries + 1 \in 1 .. MaxTries  BY <1>2, <1>4, LoginAssumption DEF StartLogin
  <2>2. x \in Caller
    <3>1. Alone(a) \in BOOLEAN  BY DEF Alone
    <3>2. buf \in Password \cup {None, Zeros}  OBVIOUS
    <3>3. client[c].tries + 1 \in 0 .. MaxTries  BY <1>2, <2>1
    <3> HIDE DEF buf
    <3> QED  BY <3>1, <3>2, <3>3 DEF Caller
  <2>3. l \in Login  BY <2>1 DEF Login
  <2>4. m \in Handler /\ m.pc = "sent" /\ m.account = a /\ m.from = c /\ m.leg = "ke1" /\ m.login = l
    <3> HIDE DEF l
    <3> QED  BY <2>3, MessageTyped DEF Leg
  <2>5. /\ ~Waiting(c) /\ req[r].pc = "free" /\ req' = [req EXCEPT ![r] = m]
        /\ client' = [Disturbed(a, c) EXCEPT ![c] = x]
        /\ UNCHANGED <<now, tables, pending, bucket, cleaner, faults, passed>>
    BY <1>4 DEF StartLogin
  <2>6. x.pc = "log1" /\ x.account = a /\ x.pw = p /\ x.tries = client[c].tries + 1 /\ l = <<c, x.tries>>
    OBVIOUS
  <2> HIDE DEF m, x, l
  <2> QED  BY <2>2, <2>4, <2>5, <2>6, CallBegins
<1> QED  BY <1>3, <1>4

\* A message of nobody that waits: stray, or a copy of another.
LEMMA NetworkStep ==
    ASSUME Base, NEW r \in Request, Network(r)
    PROVE  Base'
<1>0. TypeOK /\ Calls /\ Routed /\ req \in [Request -> Handler]  BY DEF Base, TypeOK, Calls
<1>1. ASSUME NEW k \in Request, NEW m \in Handler, NEW a \in Account,
             req[k].pc = "free", req' = [req EXCEPT ![k] = m], m.pc = "sent", m.from = None, Sound(m),
             client' = Disturbed(a, None), faults < MaxFaults, faults' = faults + 1,
             UNCHANGED <<now, tables, pending, bucket, cleaner, passed>>
      PROVE  Base'
  <2>1. client' \in [Client -> Caller] /\ \A d \in Client : Unmoved(d)
    BY <1>0, <1>1, DisturbedTyped DEF Unmoved
  <2>2. Calls'
    <3>1. UNCHANGED <<pending, sessions>>  BY <1>1 DEF tables
    <3> QED  BY <1>0, <1>1, <2>1, <3>1, PostedStep
  <2>3. req' \in [Request -> Handler]  BY <1>0, <1>1
  <2>4. \A q \in Request : req'[q].pc = "limit" => req[q].pc = "limit" /\ req'[q].window = req[q].window
    BY <1>0, <1>1
  <2>5. faults' \in 0 .. MaxFaults  BY <1>0, <1>1, LoginAssumption DEF TypeOK
  <2>6. UNCHANGED <<now, cred, created, count, sessions, pending, bucket, cleaner, passed>>  BY <1>1 DEF tables
  <2> QED  BY <2>1, <2>2, <2>3, <2>4, <2>5, <2>6, Exchanged
<1>2. ASSUME NEW a \in Account, NEW scope \in Scope, NEW leg \in {"bad", "badKe1"}, Stray(r, a, scope, leg)
      PROVE  Base'
  <2> DEFINE n == Message(None, a, leg, NoLogin, None)
             m == [n EXCEPT !.scope = scope]
  <2>1. n \in Handler /\ n.pc = "sent" /\ n.from = None /\ n.account = a /\ n.leg = leg /\ n.login = NoLogin
    BY MessageTyped DEF Leg
  <2> HIDE DEF n
  <2>2. m \in Handler /\ m.pc = "sent" /\ m.from = None /\ m.account = a /\ m.leg = leg /\ m.login = NoLogin
    BY <2>1 DEF Handler
  <2>3. req' = [req EXCEPT ![r] = m]  BY <1>2 DEF Stray, n
  <2> HIDE DEF m
  <2>4. Sound(m)  BY <2>2 DEF Sound
  <2> QED  BY <1>1, <1>2, <2>2, <2>3, <2>4 DEF Stray
<1>3. ASSUME NEW copy \in Request, Duplicate(r, copy)
      PROVE  Base'
  <2> DEFINE m == [req[r] EXCEPT !.from = None]
  <2>1. req[r] \in Handler /\ Sound(req[r]) /\ req[r].pc = "sent"  BY <1>0, <1>3 DEF Routed, Duplicate
  <2>2. /\ m \in Handler /\ m.pc = "sent" /\ m.from = None /\ m.account = req[r].account
        /\ m.leg = req[r].leg /\ m.login = req[r].login
    BY <2>1 DEF Handler
  <2>3. req' = [req EXCEPT ![copy] = m]  BY <1>3 DEF Duplicate
  <2> HIDE DEF m
  <2>4. Sound(m) /\ req[r].account \in Account  BY <2>1, <2>2 DEF Sound
  <2> QED  BY <1>1, <1>3, <2>2, <2>3, <2>4 DEF Duplicate
<1> QED  BY <1>2, <1>3 DEF Network, Scope

\* What a client does with an answer.
LEMMA ReadAnswerEffect ==
    ASSUME Base, NEW c \in Client, NEW r \in Request, SecondLeg(c, r) \/ Complete(c, r)
    PROVE  /\ req[r].from = c /\ req[r].pc = "done" /\ Waiting(c)
           /\ req[r].account = client[c].account /\ client[c].account \in Account
           /\ UNCHANGED <<now, cred, created, count, sessions, pending, bucket, cleaner, faults, passed>>
           /\ req' \in [Request -> Handler] /\ \A q \in Request : q # r => req'[q] = req[q]
           /\ client' \in [Client -> Caller] /\ \A d \in Client : d # c => client'[d] = client[d]
           /\ client'[c].tries = client[c].tries
           /\ \/ /\ req'[r] = Free /\ client'[c].pc \in {"idle", "refused"}
                 /\ client'[c] \in {Over(c), Refused(c, req[r].reply)}
                 /\ client[c].pc = "log1" => client'[c] = Refused(c, req[r].reply) /\ ~FinishOpens(c, r)
                 /\ client[c].pc = "log2" =>
                      client'[c] = IF req[r].reply = "session" THEN Over(c) ELSE Refused(c, req[r].reply)
              \/ /\ req'[r].pc = "sent" /\ Sound(req'[r]) /\ req'[r].from = c
                 /\ req'[r].account = client[c].account /\ req'[r].login = req[r].login
                 /\ client[c].pc = "reg1" => client'[c].pc = "reg2" /\ req'[r].leg = "reg2"
                 /\ client[c].pc # "reg1" => /\ client[c].pc = "log1" /\ client'[c].pc = "log2"
                                             /\ req'[r].leg = "ke3" /\ req'[r].scope = "login" /\ FinishOpens(c, r)
                 /\ client'[c].account = client[c].account /\ client'[c].pw = client[c].pw
                 /\ client'[c].quiet = client[c].quiet /\ client'[c].buf = client[c].buf
<1>0. TypeOK /\ Calls /\ Callers /\ Addressed  BY DEF Base, Calls
<1>1. /\ req \in [Request -> Handler] /\ client \in [Client -> Caller]
      /\ req[r] \in Handler /\ client[c] \in Caller
  BY <1>0 DEF TypeOK
<1>2. req[r].from = c /\ req[r].pc = "done" /\ Waiting(c)
  BY DEF SecondLeg, Complete, Waiting
<1>3. req[r].account = client[c].account /\ client[c].account \in Account /\ client[c].pw \in Password
  BY <1>0, <1>2, NoneAssumption DEF Callers, Addressed
<1>4. UNCHANGED <<now, cred, created, count, sessions, pending, bucket, cleaner, faults, passed>>
  BY DEF SecondLeg, Complete, tables
<1>5. req[r].reply \in Reply /\ req[r].login \in Login \cup {NoLogin}  BY <1>1 DEF Handler
<1> DEFINE x == Refused(c, req[r].reply)
<1>6. /\ Over(c) \in Caller /\ Over(c).tries = client[c].tries /\ Over(c).pc = "idle"
      /\ x \in Caller /\ x.tries = client[c].tries /\ x.pc \in {"idle", "refused"} /\ Free \in Handler
  BY <1>0, <1>5, OverTyped, RefusedTyped, FreeTyped
<1> HIDE DEF x
<1>7. ASSUME NEW y \in {Over(c), x}, req' = [req EXCEPT ![r] = Free], client' = [client EXCEPT ![c] = y]
      PROVE  /\ req' \in [Request -> Handler] /\ \A q \in Request : q # r => req'[q] = req[q]
             /\ client' \in [Client -> Caller] /\ \A d \in Client : d # c => client'[d] = client[d]
             /\ client'[c] = y /\ req'[r] = Free
             /\ client'[c].tries = client[c].tries /\ client'[c].pc \in {"idle", "refused"}
  BY <1>1, <1>6, <1>7
<1>8. CASE Complete(c, r)
  <2> DEFINE y == IF req[r].reply = (IF client[c].pc = "reg2" THEN "ok" ELSE "session") THEN Over(c) ELSE x
  <2>1. y \in {Over(c), x} /\ req' = [req EXCEPT ![r] = Free] /\ client' = [client EXCEPT ![c] = y]
    BY <1>8 DEF Complete, x
  <2>2. client[c].pc \in {"reg2", "log2"}  BY <1>8 DEF Complete
  <2>3. client[c].pc = "log2" => y = IF req[r].reply = "session" THEN Over(c) ELSE x  OBVIOUS
  <2> HIDE DEF y
  <2> QED  BY <1>2, <1>3, <1>4, <1>7, <2>1, <2>2, <2>3 DEF x
<1>9. CASE SecondLeg(c, r)
  <2> DEFINE me == client[c]
             goes == IF me.pc = "reg1" THEN req[r].reply = "ok" ELSE FinishOpens(c, r)
             leg == IF me.pc = "reg1" THEN "reg2" ELSE "ke3"
             n == Message(c, me.account, leg, req[r].login, IF leg = "reg2" THEN me.pw ELSE None)
             pc == IF me.pc = "reg1" THEN "reg2" ELSE "log2"
             y == [me EXCEPT !.pc = pc]
  <2>1. me.pc \in {"reg1", "log1"}  BY <1>9 DEF SecondLeg
  <2>2. CASE goes
    <3>1. req' = [req EXCEPT ![r] = n] /\ client' = [client EXCEPT ![c] = y]
      BY <1>1, <1>9, <2>2 DEF SecondLeg
    <3>2. /\ n \in Handler /\ n.pc = "sent" /\ n.account = me.account /\ n.from = c /\ n.leg = leg
          /\ n.login = req[r].login /\ n.scope = IF leg \in {"reg1", "reg2"} THEN "register" ELSE "login"
      <4>1. leg \in Leg  BY DEF Leg
      <4> HIDE DEF leg
      <4> QED  BY <1>3, <1>5, <4>1, MessageTyped
    <3>3. /\ y \in Caller /\ y.pc = pc /\ y.account = me.account /\ y.pw = me.pw
          /\ y.tries = me.tries /\ y.quiet = me.quiet /\ y.buf = me.buf
      <4>1. pc \in {"reg2", "log2"}  OBVIOUS
      <4> HIDE DEF pc
      <4> QED  BY <1>1, <4>1 DEF Caller
    <3> HIDE DEF n, y
    <3>4. Sound(n)  BY <1>3, <3>2 DEF Sound
    <3>5. /\ req' \in [Request -> Handler] /\ req'[r] = n /\ \A q \in Request : q # r => req'[q] = req[q]
          /\ client' \in [Client -> Caller] /\ client'[c] = y /\ \A d \in Client : d # c => client'[d] = client[d]
      BY <1>1, <3>1, <3>2, <3>3
    <3>6. me.pc = "reg1" => y.pc = "reg2" /\ n.leg = "reg2"  BY <3>2, <3>3
    <3>7. me.pc # "reg1" => me.pc = "log1" /\ y.pc = "log2" /\ n.leg = "ke3" /\ n.scope = "login" /\ FinishOpens(c, r)
      BY <2>1, <2>2, <3>2, <3>3
    <3> HIDE DEF goes, leg, pc
    <3> QED  BY <1>2, <1>3, <1>4, <3>2, <3>3, <3>4, <3>5, <3>6, <3>7
  <2>3. CASE ~goes
    <3>1. req' = [req EXCEPT ![r] = Free] /\ client' = [client EXCEPT ![c] = x]
      BY <1>1, <1>9, <2>3 DEF SecondLeg, x
    <3>2. me.pc = "log1" => ~FinishOpens(c, r)  BY <2>3
    <3> HIDE DEF goes
    <3> QED  BY <1>2, <1>3, <1>4, <1>7, <2>1, <3>1, <3>2 DEF x
  <2> QED  BY <2>2, <2>3
<1> QED  BY <1>8, <1>9

LEMMA AnswerStep ==
    ASSUME Base, NEW c \in Client, NEW r \in Request, SecondLeg(c, r) \/ Complete(c, r)
    PROVE  Base'
<1>0. TypeOK /\ Calls /\ req \in [Request -> Handler] /\ client \in [Client -> Caller]  BY DEF Base, TypeOK
<1> DEFINE n == req'[r]
           x == client'[c]
<1>1. /\ req[r].from = c /\ client'[c].tries = client[c].tries
      /\ UNCHANGED <<now, cred, created, count, sessions, pending, bucket, cleaner, faults, passed>>
      /\ req' \in [Request -> Handler] /\ \A q \in Request : q # r => req'[q] = req[q]
      /\ client' \in [Client -> Caller] /\ \A d \in Client : d # c => client'[d] = client[d]
      /\ \/ req'[r] = Free /\ client'[c].pc \in {"idle", "refused"}
         \/ /\ req'[r].pc = "sent" /\ Sound(req'[r]) /\ req'[r].from = c /\ req'[r].leg # "ke1"
            /\ req'[r].account = client[c].account
            /\ client'[c].pc \in {"reg2", "log2"}
            /\ client'[c].account = client[c].account /\ client'[c].pw = client[c].pw
  BY ReadAnswerEffect
<1>2. req' = [req EXCEPT ![r] = n] /\ client' = [client EXCEPT ![c] = x]  BY <1>0, <1>1
<1>3. n \in Handler /\ x \in Caller  BY <1>1
<1>4. Calls'
  <2>1. PICK nn \in Handler : nn = req'[r]  BY <1>3
  <2>2. PICK xx \in Caller : xx = client'[c]  BY <1>3
  <2> QED  BY <1>0, <1>1, <1>2, <2>1, <2>2, AnswerReadStep
<1>5. \A q \in Request : req'[q].pc = "limit" => req[q].pc = "limit" /\ req'[q].window = req[q].window
  BY <1>1, FreeTyped
<1>6. faults' \in 0 .. MaxFaults  BY <1>0, <1>1 DEF TypeOK
<1> QED  BY <1>1, <1>4, <1>5, <1>6, Exchanged

LEMMA LostStep ==
    ASSUME Base, NEW c \in Client, Abandon(c)
    PROVE  Base'
<1>0. TypeOK /\ Calls  BY DEF Base
<1>1. Calls' /\ req' \in [Request -> Handler] /\ client' \in [Client -> Caller]  BY <1>0, AbandonStep
<1>2. \A q \in Request : req'[q].pc = "limit" => req[q].pc = "limit" /\ req'[q].window = req[q].window
  BY <1>0, AbandonStep, FreeTyped
<1>3. faults' \in 0 .. MaxFaults  BY <1>0, LoginAssumption DEF TypeOK, Abandon
<1>4. UNCHANGED <<now, cred, created, count, sessions, pending, bucket, cleaner, passed>>  BY DEF Abandon, tables
<1> QED  BY <1>1, <1>2, <1>3, <1>4, Exchanged

\* The sweep: between its statements nothing is held, and no handler at the limiter
\* is in a window it deletes.
LEMMA SweepStep ==
    ASSUME Base, CheckElsewhere \/ CleanWindows \/ SnapshotAccounts \/ CleanAccounts
    PROVE  Base'
<1>0. TypeOK /\ Calls /\ Spending /\ Paced /\ Counted  BY DEF Base
<1>1. UNCHANGED <<now, cred, sessions, pending, bucket, req, client, faults, passed>>
  BY DEF CheckElsewhere, CleanWindows, SnapshotAccounts, CleanAccounts, tables
<1>2. Counters' /\ Counted'
  <2>1. CASE CleanWindows  BY <1>0, <2>1, SweepCounts
  <2>2. CASE UNCHANGED count  BY <1>0, <1>1, <2>2 DEF TypeOK, Counters, Counted
  <2> QED  BY <2>1, <2>2 DEF CheckElsewhere, SnapshotAccounts, CleanAccounts, tables
<1>3. created' \in [Account -> (0 .. MaxTime) \cup {-1}]
  <2>1. CASE UNCHANGED created  BY <1>0, <2>1 DEF TypeOK
  <2>2. CASE CleanAccounts  BY <1>0, <2>2 DEF TypeOK, NoRow, CleanAccounts
  <2> QED  BY <2>1, <2>2 DEF CheckElsewhere, CleanWindows, SnapshotAccounts, tables
<1>4. cleaner' \in Cleaners /\ cleaner'.now <= now
  <2>1. cleaner \in Cleaners /\ cleaner.now <= now  BY <1>0, SweepTyped DEF Paced
  <2>2. CASE CheckElsewhere
    <3>1. cleaner' = Sweep  BY <2>2 DEF CheckElsewhere, StartSweep, Sweep
    <3>2. now <= now  BY <1>0 DEF TypeOK
    <3> QED  BY <1>0, <3>1, <3>2, SweepTyped
  <2>3. CASE CleanWindows
    <3>1. cleaner' = [cleaner EXCEPT !.pc = "accounts"]  BY <2>3 DEF CleanWindows
    <3> QED  BY <2>1, <3>1 DEF Cleaners
  <2>4. CASE SnapshotAccounts
    <3> DEFINE d == {a \in Account : created[a] # NoRow /\ created[a] < cleaner.now - Retention /\ Unused(a)}
    <3>1. cleaner' = [cleaner EXCEPT !.pc = "delete", !.doomed = d]  BY <2>4 DEF SnapshotAccounts
    <3>2. d \in SUBSET Account  OBVIOUS
    <3> HIDE DEF d
    <3> QED  BY <2>1, <3>1, <3>2 DEF Cleaners
  <2>5. CASE CleanAccounts
    <3>1. cleaner' \in {NoSweep, [NoSweep EXCEPT !.pc = "failed"]}  BY <2>5 DEF CleanAccounts
    <3> QED  BY <1>0, <3>1, SweepTyped
  <2> QED  BY <2>2, <2>3, <2>4, <2>5
<1>5. TypeOK'  BY <1>0, <1>1, <1>2, <1>3, <1>4 DEF TypeOK, Counters, Cleaners
<1>6. Calls'  BY <1>0, <1>1 DEF Calls, Routed, Callers, Addressed, Unborn, Asking, Waiting, Untouched
<1>7. Spending'  BY <1>0, <1>1, EntriesGo
<1>8. Paced'  BY <1>0, <1>1, <1>4 DEF Paced
<1> QED  BY <1>2, <1>5, <1>6, <1>7, <1>8 DEF Base

\* The clock: every attempt under way is disturbed, no handler is outlived.
LEMMA TickStep ==
    ASSUME Base, Tick
    PROVE  Base'
<1>0. /\ TypeOK /\ Calls /\ Spending /\ Paced /\ Counted
      /\ Routed /\ Callers /\ Addressed /\ Unborn /\ Asking
  BY DEF Base, Calls
<1>1. /\ now' = now + 1 /\ now < MaxTime
      /\ UNCHANGED <<cred, created, count, sessions, pending, bucket, req, cleaner, faults, passed>>
      /\ \A d \in Client : client'[d] = Loud(d)
      /\ client' = [c \in Client |-> Loud(c)]
  BY DEF Tick, tables
<1>2. now \in Nat /\ now' \in 0 .. MaxTime /\ cleaner.now \in Nat /\ Retention \in Nat
  BY <1>0, <1>1, LoginAssumption DEF TypeOK
<1>3. \A d \in Client : Loud(d) \in Caller  BY <1>0, LoudTyped
<1>4. client' \in [Client -> Caller]  BY <1>1, <1>3
<1>5. TypeOK'  BY <1>0, <1>1, <1>2, <1>4 DEF TypeOK
<1>6. \A d \in Client :
        /\ client'[d].tries = client[d].tries /\ (Waiting(d)' <=> Waiting(d))
        /\ Waiting(d) => client'[d].account = client[d].account /\ client'[d].pw = client[d].pw
  BY <1>0, <1>1, UnmovedFacts DEF Unmoved
<1>7. \A q \in Request : req[q].from \in Client \cup {None}  BY <1>0 DEF TypeOK, Handler
<1>8. Calls'
  <2>1. Routed'  BY <1>0, <1>1 DEF Routed
  <2>2. Callers'  BY <1>0, <1>6 DEF Callers
  <2>3. Addressed'
    <3> DEFINE W(d) == client'[d].pc \in {"reg1", "reg2", "log1", "log2"}
    <3> SUFFICES ASSUME NEW q \in Request, req[q].from # None
                 PROVE  /\ W(req[q].from) /\ req[q].account = client'[req[q].from].account
                        /\ \A p \in Request : req[p].from = req[q].from => p = q
      BY <1>1 DEF Addressed, Waiting
    <3>1. req[q].from \in Client /\ Waiting(req[q].from)  BY <1>0, <1>7 DEF Addressed
    <3>2. W(req[q].from) <=> Waiting(req[q].from)  BY <1>6, <3>1 DEF Waiting
    <3> QED  BY <1>0, <1>6, <3>1, <3>2 DEF Addressed
  <2>4. \A l : Untouched(l)' <=> Untouched(l)  BY <1>1 DEF Untouched
  <2>5. Unborn'
    <3> SUFFICES ASSUME NEW l \in Login, l[2] > client'[l[1]].tries PROVE Untouched(l)
      BY <2>4 DEF Unborn
    <3>1. l[1] \in Client  BY DEF Login
    <3> QED  BY <1>0, <1>6, <3>1 DEF Unborn
  <2>6. Asking'
    <3> SUFFICES ASSUME NEW q \in Request, req[q].from # None,
                        req[q].pc \in {"sent", "limit", "read", "set"}, req[q].leg = "ke1"
                 PROVE  /\ req[q].login = <<req[q].from, client'[req[q].from].tries>>
                        /\ Untouched(req[q].login)
      BY <1>1, <2>4 DEF Asking
    <3> QED  BY <1>0, <1>6, <1>7 DEF Asking
  <2> QED  BY <2>1, <2>2, <2>3, <2>5, <2>6 DEF Calls
<1>9. Spending'  BY <1>0, <1>1, EntriesGo
<1>10. Paced'
  <2>1. \A r \in Request : req[r].pc = "limit" => req[r].window * Window >= now + 1 - Retention  BY DEF Tick
  <2> QED  BY <1>0, <1>1, <1>2, <2>1 DEF Paced
<1>11. Counted'
  <2> SUFFICES ASSUME NEW a \in Account, NEW s \in Scope, NEW w \in Windows
               PROVE  /\ passed[a][s][w] <= LimitMax
                      /\ passed[a][s][w] <= count[a][s][w] \/ w * Window < now' - Retention
    BY <1>1 DEF Counted
  <2>1. w * Window \in Int
    <3>1. w \in Int  BY LoginAssumption DEF Windows
    <3> QED  BY <3>1, LoginAssumption
  <2> QED  BY <1>0, <1>1, <1>2, <2>1 DEF Counted
<1> QED  BY <1>5, <1>8, <1>9, <1>10, <1>11 DEF Base

\* A restart: the handlers and the pending logins are gone, the clients' calls end.
LEMMA RestartStep ==
    ASSUME Base, Restart
    PROVE  Base'
<1>0. /\ TypeOK /\ Calls /\ Spending /\ Paced /\ Counted /\ Callers /\ Unborn
  BY DEF Base, Calls
<1>1. /\ UNCHANGED <<now, cred, created, count, sessions, passed>>
      /\ pending' = [a \in Account |-> None] /\ bucket' = [count |-> 0, windowEnd |-> 0]
      /\ req' = [r \in Request |-> Free] /\ cleaner' = NoSweep
      /\ client' = [c \in Client |-> IF Waiting(c) THEN Over(c) ELSE client[c]]
      /\ faults < MaxFaults /\ faults' = faults + 1
  BY DEF Restart, tables
<1>2. client \in [Client -> Caller]  BY <1>0 DEF TypeOK
<1>3. \A c \in Client : Over(c) \in Caller /\ Over(c).pc = "idle" /\ Over(c).tries = client[c].tries
  BY <1>0, OverTyped
<1>4. client' \in [Client -> Caller]  BY <1>1, <1>2, <1>3
<1>5. \A c \in Client : ~Waiting(c)' /\ client'[c].tries = client[c].tries
  BY <1>1, <1>3 DEF Waiting
<1>6. TypeOK'
  <2>1. 0 \in 0 .. MaxTime /\ 0 \in 0 .. AdmissionMax + 1 /\ 0 \in 0 .. MaxTime + Window /\ faults' \in 0 .. MaxFaults
    BY <1>0, <1>1, LoginAssumption DEF TypeOK
  <2>2. /\ bucket' \in [count : 0 .. AdmissionMax + 1, windowEnd : 0 .. MaxTime + Window]
        /\ cleaner' \in Cleaners
        /\ pending' \in [Account -> Entry \cup {None}] /\ req' \in [Request -> Handler]
    BY <1>0, <1>1, <2>1, FreeTyped, SweepTyped
  <2> QED  BY <1>0, <1>1, <1>4, <2>1, <2>2 DEF TypeOK, Cleaners
<1>7. \A r \in Request : req'[r] = Free  BY <1>1
<1>8. Routed' /\ Callers' /\ Addressed' /\ Asking'
  BY <1>5, <1>7, FreeTyped DEF Routed, Sound, Callers, Addressed, Asking
<1>9. Spending' /\ \A l : Untouched(l) => Untouched(l)'  BY <1>0, <1>1, EntriesGo
<1>10. Unborn'
  <2> SUFFICES ASSUME NEW l \in Login, l[2] > client'[l[1]].tries PROVE Untouched(l)'
    BY DEF Unborn
  <2>1. l[1] \in Client  BY DEF Login
  <2> QED  BY <1>0, <1>5, <1>9, <2>1 DEF Unborn
<1>11. Paced' /\ Counted'
  <2>1. cleaner'.now = 0 /\ 0 <= now  BY <1>0, <1>1, SweepTyped
  <2>2. \A r \in Request : req'[r].pc # "limit"  BY <1>7, FreeTyped
  <2> QED  BY <1>0, <1>1, <2>1, <2>2 DEF Paced, Counted
<1> QED  BY <1>6, <1>8, <1>9, <1>10, <1>11 DEF Base, Calls
-----------------------------------------------------------------------------
(* The steps preserve Calm                                                 *)

\* An undisturbed attempt has one request, which it waits for.
LEMMA Sole ==
    ASSUME Base, NEW c \in Client, CalmAt(c), client[c].quiet,
           NEW r \in Request, req[r].account = client[c].account
    PROVE  /\ req[r].from = c /\ c # None /\ client[c].pc \in {"log1", "log2"}
           /\ \A q \in Request : req[q].account = client[c].account => q = r
<1>1. c # None  BY NoneAssumption
<1>2. \A q \in Request : req[q].account = client[c].account => req[q].from = c  BY DEF CalmAt
<1>3. Waiting(c) /\ \A q \in Request : req[q].from = c => q = r
  BY <1>1, <1>2 DEF Base, Calls, Addressed
<1> QED  BY <1>1, <1>2, <1>3 DEF CalmAt, Waiting

\* A step that touches neither the account of an attempt nor its request.
LEMMA CalmKept ==
    ASSUME TypeOK, NEW c \in Client, CalmAt(c), client'[c] = client[c], client[c].quiet, now' = now,
           cred'[client[c].account] = cred[client[c].account],
           \/ pending'[client[c].account] = pending[client[c].account]
           \/ /\ pending[client[c].account] # None /\ ~(now < pending[client[c].account].expiresAt)
              /\ pending'[client[c].account] = None,
           \A r \in Request : req'[r].account = client[c].account => req'[r] = req[r]
    PROVE  CalmAt(c)'
<1> DEFINE a == client[c].account
<1>1. \A m : InFirst(m, pending[a], cred[a], now) => InFirst(m, pending'[a], cred[a], now)
  BY DEF InFirst, Kept
<1>2. \A m : InSecond(m, pending[a], now) => InSecond(m, pending'[a], now)
  BY DEF InSecond, Kept
<1> QED  BY <1>1, <1>2 DEF CalmAt

\* What Evicted does to the entry of an account is what CalmKept allows.
LEMMA EvictedKeeps ==
    ASSUME TypeOK, NEW a \in Account
    PROVE  \/ Evicted[a] = pending[a]
           \/ pending[a] # None /\ ~(now < pending[a].expiresAt) /\ Evicted[a] = None
BY EvictedTyped

\* A handler of another account.
LEMMA CalmElsewhere ==
    ASSUME Base, Calm, NEW r \in Request, now' = now, client' = client,
           \A q \in Request : q # r => req'[q] = req[q],
           req'[r].account \in {req[r].account, None},
           \A a \in Account : a # req[r].account =>
               cred'[a] = cred[a] /\ pending'[a] \in {pending[a], Evicted[a]},
           NEW c \in Client, client[c].quiet, client[c].account # req[r].account
    PROVE  CalmAt(c)'
<1> DEFINE a == client[c].account
<1>0. TypeOK  BY DEF Base
<1>1. CalmAt(c) /\ a \in Account  BY DEF Calm, CalmAt
<1>2. a # None  BY <1>1, NoneAssumption
<1>3. \A q \in Request : req'[q].account = a => req'[q] = req[q]  BY <1>2
<1>4. \/ pending'[a] = pending[a]
      \/ pending[a] # None /\ ~(now < pending[a].expiresAt) /\ pending'[a] = None
  BY <1>0, <1>1, EvictedKeeps
<1> QED  BY <1>0, <1>1, <1>3, <1>4, CalmKept

\* A handler's step keeps every attempt calm if it keeps the one it serves.
LEMMA CalmHandled ==
    ASSUME Base, Calm, NEW r \in Request, req[r].account \in Account, now' = now, client' = client,
           \A q \in Request : q # r => req'[q] = req[q],
           req'[r].account \in {req[r].account, None},
           \A a \in Account : a # req[r].account =>
               cred'[a] = cred[a] /\ pending'[a] \in {pending[a], Evicted[a]},
           \A c \in Client : client[c].quiet /\ client[c].account = req[r].account /\ req[r].from = c =>
               /\ req'[r].from = c
               /\ client[c].pc = "log1" => InFirst(req'[r], pending'[req[r].account], cred'[req[r].account], now)
               /\ client[c].pc = "log2" => InSecond(req'[r], pending'[req[r].account], now)
    PROVE  Calm'
<1> SUFFICES ASSUME NEW c \in Client PROVE CalmAt(c)'
  BY DEF Calm
<1>1. CASE ~client[c].quiet  BY <1>1 DEF CalmAt
<1>2. CASE client[c].quiet /\ client[c].account # req[r].account  BY <1>2, CalmElsewhere
<1>3. CASE client[c].quiet /\ client[c].account = req[r].account
  <2> DEFINE a == client[c].account
  <2>1. CalmAt(c)  BY DEF Calm
  <2>2. req[r].from = c /\ client[c].pc \in {"log1", "log2"} /\ \A q \in Request : req[q].account = a => q = r
    BY <1>3, <2>1, Sole
  <2>3. \A q \in Request : req'[q].account = a => q = r  BY <2>2
  <2>4. /\ req'[r].from = c
        /\ client[c].pc = "log1" => InFirst(req'[r], pending'[a], cred'[a], now)
        /\ client[c].pc = "log2" => InSecond(req'[r], pending'[a], now)
    BY <1>3, <2>2
  <2> QED  BY <1>3, <2>2, <2>3, <2>4 DEF CalmAt
<1> QED  BY <1>1, <1>2, <1>3

\* What the invariant says of the request of an undisturbed attempt.
LEMMA CalmRequest ==
    ASSUME Base, Calm, NEW r \in Request, NEW c \in Client,
           client[c].quiet, client[c].account = req[r].account
    PROVE  LET a == req[r].account
           IN  /\ req[r].from = c /\ c # None /\ a \in Account
               /\ \/ client[c].pc = "log1" /\ InFirst(req[r], pending[a], cred[a], now)
                  \/ client[c].pc = "log2" /\ InSecond(req[r], pending[a], now)
<1>1. CalmAt(c)  BY DEF Calm
<1>2. req[r].from = c /\ c # None /\ client[c].pc \in {"log1", "log2"}  BY <1>1, Sole
<1> QED  BY <1>1, <1>2 DEF CalmAt

LEMMA ArriveCalm ==
    ASSUME Base, Calm, NEW r \in Request, Arrive(r)
    PROVE  Calm'
<1>0. TypeOK /\ Routed  BY DEF Base, Calls
<1> DEFINE m == req[r]
           n == req'[r]
           a == m.account
<1>1. /\ m.pc = "sent" /\ a \in Account /\ \A q \in Request : q # r => req'[q] = req[q]
      /\ \/ \E reply \in {"refused", "limited"} : Replied(m, n, reply)
         \/ Onward(m, n) /\ n.pc = "limit" /\ n.hasPending = (m.scope = "login" /\ Evicted[a] # None)
      /\ m.leg = "ke1" /\ m.scope = "login" => ~Replied(m, n, "refused") \/ m.from = None
      /\ m.leg = "ke3" /\ m.scope = "login" /\ Evicted[a] # None => ~Replied(m, n, "refused") \/ m.from = None
      /\ pending' \in {pending, Evicted} /\ now' = now /\ cred' = cred /\ client' = client
  BY <1>0, ArriveEffect
<1>2. n.account \in {a, None}  BY <1>1, FreeTyped DEF Replied, Onward
<1>3. \A b \in Account : cred'[b] = cred[b] /\ pending'[b] \in {pending[b], Evicted[b]}  BY <1>1
<1>4. ASSUME NEW c \in Client, client[c].quiet, client[c].account = a, m.from = c
      PROVE  /\ n.from = c
             /\ client[c].pc = "log1" => InFirst(n, pending'[a], cred'[a], now)
             /\ client[c].pc = "log2" => InSecond(n, pending'[a], now)
  <2>1. /\ c # None
        /\ \/ client[c].pc = "log1" /\ InFirst(m, pending[a], cred[a], now)
           \/ client[c].pc = "log2" /\ InSecond(m, pending[a], now)
    BY <1>4, CalmRequest
  <2>2. n.from = c  BY <1>1, <1>4, <2>1 DEF Replied, Onward
  <2>3. CASE client[c].pc = "log1"
    <3>1. m.leg = "ke1" /\ m.scope = "login" /\ pending[a] = None  BY <1>1, <2>1, <2>3 DEF InFirst
    <3>2. Evicted[a] = None /\ pending'[a] = None  BY <1>0, <1>1, <3>1, EvictedTyped
    <3>3. CASE Replied(m, n, "limited")
      <4>1. n.pc = "done" /\ n.reply = "limited"  BY <1>4, <2>1, <3>3 DEF Replied
      <4> QED  BY <2>2, <2>3, <4>1 DEF InFirst
    <3>4. CASE Onward(m, n) /\ n.pc = "limit" /\ n.hasPending = (m.scope = "login" /\ Evicted[a] # None)
      <4>1. n.leg = "ke1" /\ n.scope = "login" /\ ~n.hasPending  BY <3>1, <3>2, <3>4 DEF Onward
      <4> QED  BY <2>2, <2>3, <3>2, <3>4, <4>1 DEF InFirst
    <3> QED  BY <1>1, <1>4, <2>1, <3>1, <3>3, <3>4
  <2>4. CASE client[c].pc = "log2"
    <3>1. m.leg = "ke3" /\ m.scope = "login" /\ Kept(m, pending[a], now)  BY <1>1, <2>1, <2>4 DEF InSecond
    <3>2. Evicted[a] = pending[a] /\ Evicted[a] # None /\ pending'[a] = pending[a]
      BY <1>0, <1>1, <3>1, EvictedTyped DEF Kept
    <3>3. CASE Replied(m, n, "limited")
      <4>1. n.pc = "done" /\ n.reply = "limited"  BY <1>4, <2>1, <3>3 DEF Replied
      <4> QED  BY <2>2, <2>4, <4>1 DEF InSecond
    <3>4. CASE Onward(m, n) /\ n.pc = "limit" /\ n.hasPending = (m.scope = "login" /\ Evicted[a] # None)
      <4>1. n.leg = "ke3" /\ n.scope = "login" /\ n.hasPending /\ n.login = m.login  BY <3>1, <3>2, <3>4 DEF Onward
      <4>2. Kept(n, pending'[a], now)  BY <3>1, <3>2, <4>1 DEF Kept
      <4> QED  BY <2>2, <2>4, <3>4, <4>1, <4>2 DEF InSecond
    <3> QED  BY <1>1, <1>4, <2>1, <3>1, <3>2, <3>3, <3>4
  <2> QED  BY <2>1, <2>3, <2>4
<1> QED  BY <1>1, <1>2, <1>3, <1>4, CalmHandled

LEMMA CheckCalm ==
    ASSUME Base, Calm, NEW r \in Request, CheckAndIncrement(r)
    PROVE  Calm'
<1>0. TypeOK /\ Routed  BY DEF Base, Calls
<1> DEFINE m == req[r]
           n == req'[r]
           a == m.account
<1>1. /\ m.pc = "limit" /\ a \in Account /\ \A q \in Request : q # r => req'[q] = req[q]
      /\ \/ \E reply \in {"error", "limited", "ok"} : Replied(m, n, reply) /\ (reply = "ok" => m.leg = "reg1")
         \/ /\ Onward(m, n) /\ ~n.hasPending
            /\ n.pc = IF m.scope = "register" THEN "save" ELSE IF m.hasPending THEN "take" ELSE "read"
      /\ now' = now /\ cred' = cred /\ pending' = pending /\ client' = client
  BY <1>0, CheckEffect
<1>2. n.account \in {a, None}  BY <1>1, FreeTyped DEF Replied, Onward
<1>3. ASSUME NEW c \in Client, client[c].quiet, client[c].account = a, m.from = c
      PROVE  /\ n.from = c
             /\ client[c].pc = "log1" => InFirst(n, pending'[a], cred'[a], now)
             /\ client[c].pc = "log2" => InSecond(n, pending'[a], now)
  <2>1. /\ c # None
        /\ \/ client[c].pc = "log1" /\ InFirst(m, pending[a], cred[a], now)
           \/ client[c].pc = "log2" /\ InSecond(m, pending[a], now)
    BY <1>3, CalmRequest
  <2>2. n.from = c  BY <1>1, <1>3, <2>1 DEF Replied, Onward
  <2>3. \/ client[c].pc = "log1" /\ m.leg = "ke1" /\ m.scope = "login" /\ ~m.hasPending /\ pending[a] = None
        \/ client[c].pc = "log2" /\ m.leg = "ke3" /\ m.scope = "login" /\ m.hasPending /\ Kept(m, pending[a], now)
    BY <1>1, <2>1 DEF InFirst, InSecond
  <2>4. CASE \E reply \in {"error", "limited", "ok"} : Replied(m, n, reply) /\ (reply = "ok" => m.leg = "reg1")
    <3>1. n.pc = "done" /\ n.reply \in {"error", "limited"}  BY <1>3, <2>1, <2>3, <2>4 DEF Replied
    <3> QED  BY <2>2, <3>1 DEF InFirst, InSecond
  <2>5. CASE /\ Onward(m, n) /\ ~n.hasPending
             /\ n.pc = IF m.scope = "register" THEN "save" ELSE IF m.hasPending THEN "take" ELSE "read"
    <3>1. n.leg = m.leg /\ n.scope = m.scope /\ n.login = m.login  BY <2>5 DEF Onward
    <3>2. n.pc = IF client[c].pc = "log1" THEN "read" ELSE "take"  BY <2>3, <2>5
    <3>3. Kept(m, pending[a], now) => Kept(n, pending'[a], now)  BY <1>1, <3>1 DEF Kept
    <3> QED  BY <1>1, <2>2, <2>3, <2>5, <3>1, <3>2, <3>3 DEF InFirst, InSecond
  <2> QED  BY <1>1, <2>4, <2>5
<1> QED  BY <1>1, <1>2, <1>3, CalmHandled

LEMMA RecordCalm ==
    ASSUME Base, Calm, NEW r \in Request, SaveCredentialRecordIfAbsent(r) \/ GetCredentialRecord(r)
    PROVE  Calm'
<1>0. TypeOK /\ Routed  BY DEF Base, Calls
<1> DEFINE m == req[r]
           n == req'[r]
           a == m.account
<1>1. CASE SaveCredentialRecordIfAbsent(r)
  <2>1. /\ m.pc = "save" /\ a \in Account /\ \A q \in Request : q # r => req'[q] = req[q]
        /\ \E reply \in {"error", "ok"} : Replied(m, n, reply)
        /\ now' = now /\ pending' = pending /\ client' = client
        /\ \A b \in Account : b # a => cred'[b] = cred[b]
    BY <1>0, <1>1, SaveEffect
  <2>2. n.account \in {a, None}  BY <2>1, FreeTyped DEF Replied
  <2>3. \A c \in Client : ~(client[c].quiet /\ client[c].account = a)
    BY <2>1, CalmRequest DEF InFirst, InSecond
  <2> QED  BY <2>1, <2>2, <2>3, CalmHandled
<1>2. CASE GetCredentialRecord(r)
  <2>1. /\ m.pc = "read" /\ a \in Account /\ \A q \in Request : q # r => req'[q] = req[q]
        /\ Onward(m, n) /\ n.pc = "set" /\ n.cred = cred[a] /\ n.hasPending = m.hasPending
        /\ now' = now /\ cred' = cred /\ pending' = pending /\ client' = client
    BY <1>0, <1>2, ReadEffect
  <2>2. n.account = a  BY <2>1 DEF Onward
  <2>3. ASSUME NEW c \in Client, client[c].quiet, client[c].account = a, m.from = c
        PROVE  /\ n.from = c
               /\ client[c].pc = "log1" => InFirst(n, pending'[a], cred'[a], now)
               /\ client[c].pc = "log2" => InSecond(n, pending'[a], now)
    <3>1. client[c].pc = "log1" /\ InFirst(m, pending[a], cred[a], now)
      BY <2>1, <2>3, CalmRequest DEF InSecond
    <3>2. m.leg = "ke1" /\ m.scope = "login" /\ ~m.hasPending /\ pending[a] = None
      BY <2>1, <3>1 DEF InFirst
    <3> QED  BY <2>1, <2>3, <3>1, <3>2 DEF InFirst, Onward
  <2> QED  BY <2>1, <2>2, <2>3, CalmHandled
<1> QED  BY <1>1, <1>2

LEMMA LegCalm ==
    ASSUME Base, Calm, NEW r \in Request, LoginStart(r) \/ LoginFinish(r)
    PROVE  Calm'
<1>0. TypeOK /\ Routed /\ OneSessionPerLogin  BY DEF Base, Calls, Spending
<1> DEFINE m == req[r]
           n == req'[r]
           a == m.account
<1>1. CASE LoginStart(r)
  <2>1. /\ m.pc = "set" /\ a \in Account /\ \A q \in Request : q # r => req'[q] = req[q]
        /\ \/ Replied(m, n, "refused") /\ pending' = pending /\ m.leg # "ke1"
           \/ /\ Replied(m, n, IF m.cred = None THEN "decoy" ELSE "ok") /\ Set(m, pending'[a])
              /\ \A b \in Account : b # a => pending'[b] = Evicted[b]
        /\ now' = now /\ cred' = cred /\ client' = client
    BY <1>0, <1>1, StartEffect
  <2>2. n.account \in {a, None}  BY <2>1, FreeTyped DEF Replied
  <2>3. ASSUME NEW c \in Client, client[c].quiet, client[c].account = a, m.from = c
        PROVE  /\ n.from = c
               /\ client[c].pc = "log1" => InFirst(n, pending'[a], cred'[a], now)
               /\ client[c].pc = "log2" => InSecond(n, pending'[a], now)
    <3>1. client[c].pc = "log1" /\ InFirst(m, pending[a], cred[a], now) /\ c # None
      BY <2>1, <2>3, CalmRequest DEF InSecond
    <3>2. m.leg = "ke1" /\ m.cred = cred[a]  BY <2>1, <3>1 DEF InFirst
    <3>3. Set(m, pending'[a]) /\ Replied(m, n, IF m.cred = None THEN "decoy" ELSE "ok")  BY <2>1, <3>2
    <3>4. n.from = c /\ n.pc = "done" /\ n.login = m.login /\ n.cred = m.cred
          /\ n.reply = IF m.cred = None THEN "decoy" ELSE "ok"
      BY <2>3, <3>1, <3>3 DEF Replied
    <3>5. CASE m.cred = None
      BY <2>1, <3>1, <3>2, <3>4, <3>5 DEF InFirst
    <3>6. CASE m.cred # None
      <4> DEFINE e == pending'[a]
      <4>1. e \in Entry /\ e.expiresAt = now + Ttl /\ e.kind = "real" /\ e.login = m.login
        BY <2>3, <3>1, <3>3, <3>6 DEF Set
      <4>2. e # None  BY <4>1, NoneAssumption
      <4>3. now < now + Ttl  BY <1>0, LoginAssumption DEF TypeOK
      <4>4. Kept(n, e, now)  BY <3>4, <4>1, <4>2, <4>3 DEF Kept
      <4> QED  BY <2>1, <3>1, <3>2, <3>4, <3>6, <4>4 DEF InFirst
    <3> QED  BY <3>5, <3>6
  <2>4. \A b \in Account : b # a => cred'[b] = cred[b] /\ pending'[b] \in {pending[b], Evicted[b]}  BY <2>1
  <2> QED  BY <2>1, <2>2, <2>3, <2>4, CalmHandled
<1>2. CASE LoginFinish(r)
  <2>1. /\ m.pc = "take" /\ a \in Account /\ \A q \in Request : q # r => req'[q] = req[q]
        /\ \/ Replied(m, n, "session")
           \/ Replied(m, n, "refused") /\ ~Verified(m, Evicted[a])
        /\ \A b \in Account : b # a => pending'[b] = Evicted[b]
        /\ now' = now /\ cred' = cred /\ client' = client
    BY <1>0, <1>2, FinishEffect
  <2>2. n.account \in {a, None}  BY <2>1, FreeTyped DEF Replied
  <2>3. ASSUME NEW c \in Client, client[c].quiet, client[c].account = a, m.from = c
        PROVE  /\ n.from = c
               /\ client[c].pc = "log1" => InFirst(n, pending'[a], cred'[a], now)
               /\ client[c].pc = "log2" => InSecond(n, pending'[a], now)
    <3>1. client[c].pc = "log2" /\ InSecond(m, pending[a], now) /\ c # None
      BY <2>1, <2>3, CalmRequest DEF InFirst
    <3>2. m.leg = "ke3" /\ Kept(m, pending[a], now)  BY <2>1, <3>1 DEF InSecond
    <3>3. Evicted[a] = pending[a]  BY <1>0, <2>1, <3>2, EvictedTyped DEF Kept
    <3>4. Verified(m, Evicted[a])  BY <3>2, <3>3 DEF Verified, Kept
    <3>5. n.from = c /\ n.pc = "done" /\ n.reply = "session"  BY <2>1, <2>3, <3>1, <3>4 DEF Replied
    <3> QED  BY <3>1, <3>5 DEF InSecond
  <2>4. \A b \in Account : b # a => cred'[b] = cred[b] /\ pending'[b] \in {pending[b], Evicted[b]}  BY <2>1
  <2> QED  BY <2>1, <2>2, <2>3, <2>4, CalmHandled
<1> QED  BY <1>1, <1>2

\* A message for account a is posted in r: whoever was at it there is disturbed.
LEMMA PostedCalm ==
    ASSUME Base, Calm, NEW r \in Request, NEW a \in Account, NEW d \in Client \cup {None},
           req[r].pc = "free", \A q \in Request : q # r => req'[q] = req[q], req'[r].account = a,
           \A c \in Client : c # d => client'[c] = Disturbed(a, d)[c],
           UNCHANGED <<now, cred, pending>>,
           NEW c \in Client, c # d
    PROVE  CalmAt(c)'
<1>0. TypeOK /\ CalmAt(c)  BY DEF Base, Calm
<1>1. client'[c] = IF client[c].account = a THEN Loud(c) ELSE client[c]  BY <1>0, DisturbedTyped
<1>2. ~Loud(c).quiet  BY <1>0, LoudTyped
<1>3. CASE ~client'[c].quiet  BY <1>3 DEF CalmAt
<1>4. CASE client'[c].quiet
  <2>1. client[c].account # a /\ client'[c] = client[c] /\ client[c].quiet  BY <1>1, <1>2, <1>4
  <2>2. \A q \in Request : req'[q].account = client[c].account => req'[q] = req[q]  BY <2>1
  <2> QED  BY <1>0, <2>1, <2>2, CalmKept
<1> QED  BY <1>3, <1>4

LEMMA StartCalm ==
    ASSUME Base, Calm, NEW d \in Client, NEW r \in Request, NEW a \in Account, NEW p \in Password,
           NEW awaited \in BOOLEAN, StartRegister(d, r, a, p) \/ StartLogin(d, r, a, p, awaited)
    PROVE  Calm'
<1>0. TypeOK /\ req \in [Request -> Handler] /\ d # None  BY NoneAssumption DEF Base, TypeOK
<1>1. Disturbed(a, d) \in [Client -> Caller]  BY <1>0, DisturbedTyped
<1>2. UNCHANGED <<now, cred, pending>> /\ req[r].pc = "free"  BY DEF StartRegister, StartLogin, tables
<1>3. CASE StartRegister(d, r, a, p)
  <2>1. /\ \A q \in Request : q # r => req'[q] = req[q]
        /\ req'[r] = Message(d, a, "reg1", NoLogin, None) /\ ~client'[d].quiet
        /\ \A c \in Client : c # d => client'[c] = Disturbed(a, d)[c]
    BY <1>0, <1>1, <1>3 DEF StartRegister
  <2>2. req'[r].account = a  BY <2>1, MessageTyped DEF Leg
  <2>3. CalmAt(d)'  BY <2>1 DEF CalmAt
  <2> QED  BY <1>2, <2>1, <2>2, <2>3, PostedCalm DEF Calm
<1>4. CASE StartLogin(d, r, a, p, awaited)
  <2> DEFINE l == <<d, client[d].tries + 1>>
             m == req'[r]
  <2>1. /\ \A q \in Request : q # r => req'[q] = req[q]
        /\ m = Message(d, a, "ke1", l, None)
        /\ client'[d].quiet = Alone(a) /\ client'[d].pc = "log1" /\ client'[d].account = a
        /\ \A c \in Client : c # d => client'[c] = Disturbed(a, d)[c]
    BY <1>0, <1>1, <1>4 DEF StartLogin
  <2>2. l \in Login
    <3>1. client[d] \in Caller /\ client[d].tries < MaxTries  BY <1>0, <1>4 DEF TypeOK, StartLogin
    <3>2. client[d].tries + 1 \in 1 .. MaxTries  BY <3>1, LoginAssumption DEF Caller
    <3> QED  BY <3>2 DEF Login
  <2>3. m.account = a /\ m.pc = "sent" /\ m.leg = "ke1" /\ m.scope = "login" /\ m.from = d
    <3> HIDE DEF l
    <3> QED  BY <2>1, <2>2, MessageTyped DEF Leg
  <2>4. ~m.hasPending
    <3>1. Free \in Handler /\ ~Free.hasPending  BY FreeTyped DEF Free
    <3> HIDE DEF l
    <3> QED  BY <2>1, <3>1 DEF Message, Handler
  <2>5. CalmAt(d)'
    <3> SUFFICES ASSUME Alone(a)
                 PROVE  \A q \in Request : req'[q].account = a =>
                          req'[q].from = d /\ InFirst(req'[q], pending[a], cred[a], now)
      BY <1>2, <2>1 DEF CalmAt
    <3>1. pending[a] = None /\ \A q \in Request : req[q].account # a  BY DEF Alone
    <3>2. \A q \in Request : req'[q].account = a => q = r  BY <2>1, <3>1
    <3> QED  BY <2>3, <2>4, <3>1, <3>2 DEF InFirst
  <2> QED  BY <1>2, <2>1, <2>3, <2>5, PostedCalm DEF Calm
<1> QED  BY <1>3, <1>4

LEMMA NetworkCalm ==
    ASSUME Base, Calm, NEW r \in Request, Network(r)
    PROVE  Calm'
<1>0. TypeOK /\ Routed /\ req \in [Request -> Handler]  BY DEF Base, Calls, TypeOK
<1>1. ASSUME NEW k \in Request, NEW m, NEW a \in Account, req[k].pc = "free", req' = [req EXCEPT ![k] = m],
             m.account = a, client' = Disturbed(a, None), UNCHANGED <<now, cred, pending>>
      PROVE  Calm'
  <2>1. (\A q \in Request : q # k => req'[q] = req[q]) /\ req'[k] = m  BY <1>0, <1>1
  <2>2. \A c \in Client : c # None  BY NoneAssumption
  <2> QED  BY <1>1, <2>1, <2>2, PostedCalm DEF Calm
<1>2. ASSUME NEW a \in Account, NEW scope \in Scope, NEW leg \in {"bad", "badKe1"}, Stray(r, a, scope, leg)
      PROVE  Calm'
  <2> DEFINE n == Message(None, a, leg, NoLogin, None)
             m == [n EXCEPT !.scope = scope]
  <2>1. n \in Handler /\ n.account = a  BY MessageTyped DEF Leg
  <2> HIDE DEF n
  <2>2. m.account = a  BY <2>1 DEF Handler
  <2>3. req' = [req EXCEPT ![r] = m]  BY <1>2 DEF Stray, n
  <2> HIDE DEF m
  <2> QED  BY <1>1, <1>2, <2>2, <2>3 DEF Stray, tables
<1>3. ASSUME NEW copy \in Request, Duplicate(r, copy)
      PROVE  Calm'
  <2> DEFINE m == [req[r] EXCEPT !.from = None]
  <2>1. req[r] \in Handler /\ Sound(req[r]) /\ req[r].pc = "sent"  BY <1>0, <1>3 DEF Routed, Duplicate
  <2>2. m.account = req[r].account /\ req[r].account \in Account  BY <2>1 DEF Handler, Sound
  <2>3. req' = [req EXCEPT ![copy] = m]  BY <1>3 DEF Duplicate
  <2> HIDE DEF m
  <2> QED  BY <1>1, <1>3, <2>2, <2>3 DEF Duplicate, tables
<1> QED  BY <1>2, <1>3 DEF Network, Scope

\* A client reads an answer: the refusal of an undisturbed attempt is deserved.
LEMMA AnswerCalm ==
    ASSUME Base, Calm, NEW d \in Client, NEW r \in Request, SecondLeg(d, r) \/ Complete(d, r)
    PROVE  Calm'
<1>0. TypeOK /\ Callers  BY DEF Base, Calls
<1> DEFINE a == client[d].account
           m == req[r]
           n == req'[r]
<1>1. /\ m.from = d /\ m.pc = "done" /\ Waiting(d) /\ m.account = a /\ a \in Account
      /\ \A q \in Request : q # r => req'[q] = req[q]
      /\ \A c \in Client : c # d => client'[c] = client[c]
      /\ now' = now /\ cred' = cred /\ pending' = pending
      /\ \/ /\ n = Free
            /\ client'[d] \in {Over(d), Refused(d, m.reply)}
            /\ client[d].pc = "log1" => client'[d] = Refused(d, m.reply) /\ ~FinishOpens(d, r)
            /\ client[d].pc = "log2" => client'[d] = IF m.reply = "session" THEN Over(d) ELSE Refused(d, m.reply)
         \/ /\ n.pc = "sent" /\ n.from = d /\ n.account = a /\ n.login = m.login
            /\ client[d].pc # "reg1" => /\ client[d].pc = "log1" /\ client'[d].pc = "log2"
                                        /\ n.leg = "ke3" /\ n.scope = "login" /\ FinishOpens(d, r)
            /\ client'[d].account = a /\ client'[d].quiet = client[d].quiet
  BY ReadAnswerEffect
<1>2. ASSUME NEW c \in Client, c # d PROVE CalmAt(c)'
  <2>1. CalmAt(c) /\ client'[c] = client[c]  BY <1>1, <1>2 DEF Calm
  <2>2. CASE ~client[c].quiet  BY <2>1, <2>2 DEF CalmAt
  <2>3. CASE client[c].quiet
    <3>1. client[c].account \in Account /\ client[c].account # None  BY <2>1, <2>3, NoneAssumption DEF CalmAt
    <3>2. client[c].account # a  BY <1>1, <1>2, <2>1, <2>3 DEF CalmAt
    <3>3. n.account \in {a, None}  BY <1>1, FreeTyped
    <3>4. \A q \in Request : req'[q].account = client[c].account => req'[q] = req[q]
      BY <1>1, <3>1, <3>2, <3>3
    <3> QED  BY <1>0, <1>1, <2>1, <2>3, <3>4, CalmKept
  <2> QED  BY <2>2, <2>3
<1>3. CalmAt(d)'
  <2>1. CASE ~client'[d].quiet  BY <2>1 DEF CalmAt
  <2>2. CASE client'[d].quiet
    <3>1. m.reply \in Reply  BY <1>0 DEF TypeOK, Handler
    <3>2. client[d].quiet
      <4>1. ~Over(d).quiet  BY <1>0, OverTyped
      <4>2. Refused(d, m.reply).quiet => client[d].quiet  BY <1>0, <3>1, RefusedTyped
      <4>3. client'[d] \in {Over(d), Refused(d, m.reply)} \/ client'[d].quiet = client[d].quiet  BY <1>1
      <4> QED  BY <2>2, <4>1, <4>2, <4>3
    <3>3. /\ \/ client[d].pc = "log1" /\ InFirst(m, pending[a], cred[a], now)
             \/ client[d].pc = "log2" /\ InSecond(m, pending[a], now)
      BY <1>1, <3>2, CalmRequest
    <3>4. \A q \in Request : req[q].account = a => q = r
      <4>1. CalmAt(d)  BY DEF Calm
      <4> QED  BY <1>1, <3>2, <4>1, Sole
    <3>5. CASE n = Free
      <4>1. client'[d] = Refused(d, m.reply)
        BY <1>0, <1>1, <2>2, <3>3, <3>5, OverTyped, FreeTyped
      <4>2. /\ client'[d].pc = "refused" /\ m.reply \notin {"limited", "error"}
            /\ client'[d].account = a /\ client'[d].pw = client[d].pw /\ client'[d].buf = client[d].buf
        BY <1>0, <2>2, <3>1, <4>1, RefusedTyped
      <4>3. client[d].pc = "log1" /\ ~FinishOpens(d, r)
        BY <1>0, <1>1, <2>2, <3>3, <3>5, <4>2, OverTyped, FreeTyped DEF InSecond
      <4>4. client[d].pw \in Password /\ client[d].pw # None  BY <1>0, <1>1, NoneAssumption DEF Callers
      <4>5. client[d].buf = client[d].pw => client[d].pw # cred[a]
        BY <1>1, <3>3, <4>2, <4>3, <4>4 DEF FinishOpens, InFirst
      <4>6. \A q \in Request : req'[q].account # a
        BY <1>1, <3>4, <3>5, FreeTyped, NoneAssumption
      <4> QED  BY <1>1, <4>2, <4>5, <4>6 DEF CalmAt
    <3>6. CASE n # Free
      <4>1. /\ client[d].pc = "log1" /\ client'[d].pc = "log2" /\ n.pc = "sent" /\ n.from = d /\ n.login = m.login
            /\ n.leg = "ke3" /\ n.scope = "login" /\ FinishOpens(d, r) /\ client'[d].account = a
        BY <1>1, <3>3, <3>6
      <4>2. Kept(m, pending[a], now)  BY <1>1, <3>3, <4>1 DEF FinishOpens, InFirst
      <4>3. InSecond(n, pending[a], now)  BY <4>1, <4>2 DEF InSecond, Kept
      <4>4. \A q \in Request : req'[q].account = a => q = r  BY <1>1, <3>4
      <4> QED  BY <1>1, <4>1, <4>3, <4>4 DEF CalmAt
    <3> QED  BY <3>5, <3>6
  <2> QED  BY <2>1, <2>2
<1> QED  BY <1>2, <1>3 DEF Calm

LEMMA LostCalm ==
    ASSUME Base, Calm, NEW d \in Client, Abandon(d)
    PROVE  Calm'
<1>0. TypeOK /\ Calls /\ client \in [Client -> Caller]  BY DEF Base, TypeOK
<1>1. client'[d] = Over(d) /\ \A c \in Client : c # d => client'[c] = client[c]  BY <1>0 DEF Abandon
<1>2. UNCHANGED <<now, cred, pending>>  BY DEF Abandon, tables
<1>3. \A q \in Request : req[q].from # d => req'[q] = req[q]  BY DEF Abandon
<1>4. \A q \in Request : req[q].from = d => req'[q].account \in {req[q].account, None}
  <2> SUFFICES ASSUME NEW q \in Request, req[q].from = d PROVE req'[q].account \in {req[q].account, None}
    OBVIOUS
  <2>1. req'[q] = Free \/ req'[q] = [req[q] EXCEPT !.from = None]  BY DEF Abandon
  <2>2. req[q] \in Handler  BY <1>0 DEF TypeOK
  <2> QED  BY <2>1, <2>2, FreeTyped DEF Handler
<1>5. ASSUME NEW c \in Client PROVE CalmAt(c)'
  <2>1. CASE ~client'[c].quiet  BY <2>1 DEF CalmAt
  <2>2. CASE client'[c].quiet
    <3>1. c # d  BY <1>0, <1>1, <2>2, OverTyped
    <3>2. client'[c] = client[c] /\ client[c].quiet /\ CalmAt(c)  BY <1>1, <2>2, <3>1 DEF Calm
    <3>3. client[c].account # None  BY <3>2, NoneAssumption DEF CalmAt
    <3>4. \A q \in Request : req'[q].account = client[c].account => req'[q] = req[q]
      BY <1>3, <1>4, <3>1, <3>2, <3>3 DEF CalmAt
    <3> QED  BY <1>0, <1>2, <3>2, <3>4, CalmKept
  <2> QED  BY <2>1, <2>2
<1> QED  BY <1>5 DEF Calm

LEMMA OthersCalm ==
    ASSUME Base, Calm, CheckElsewhere \/ CleanWindows \/ SnapshotAccounts \/ CleanAccounts \/ Tick \/ Restart
    PROVE  Calm'
<1>0. TypeOK  BY DEF Base
<1>1. CASE CheckElsewhere \/ CleanWindows \/ SnapshotAccounts \/ CleanAccounts
  <2>1. UNCHANGED <<now, cred, pending, req, client>>
    BY <1>1 DEF CheckElsewhere, CleanWindows, SnapshotAccounts, CleanAccounts, tables
  <2> QED  BY <2>1 DEF Calm, CalmAt
<1>2. CASE Tick
  <2>1. \A c \in Client : ~client'[c].quiet  BY <1>0, <1>2, LoudTyped DEF Tick
  <2> QED  BY <2>1 DEF Calm, CalmAt
<1>3. CASE Restart
  <2> SUFFICES ASSUME NEW c \in Client, client'[c].quiet PROVE CalmAt(c)'
    BY DEF Calm, CalmAt
  <2>1. client'[c] = IF Waiting(c) THEN Over(c) ELSE client[c]  BY <1>3 DEF Restart
  <2>2. ~Waiting(c) /\ client'[c] = client[c]  BY <1>0, <2>1, OverTyped
  <2>3. CalmAt(c) /\ client[c].pc = "refused"  BY <2>2 DEF Calm, CalmAt, Waiting
  <2>4. cred' = cred /\ \A r \in Request : req'[r].account = None  BY <1>3, FreeTyped DEF Restart, tables
  <2> QED  BY <2>2, <2>3, <2>4, NoneAssumption DEF CalmAt
<1> QED  BY <1>1, <1>2, <1>3
-----------------------------------------------------------------------------
(* The steps preserve Owned                                                *)

\* If n waits to save or to set, so did m, for the same account.
AsBefore(n, m) ==
    n.pc \in {"save", "set"} =>
        n.pc = m.pc /\ n.account = m.account /\ n.scope = m.scope /\ n.window = m.window /\ n.cred = m.cred

LEMMA RepliedFree ==
    ASSUME NEW m, NEW n, NEW reply, Replied(m, n, reply)
    PROVE  n.pc \notin {"save", "set"}
BY FreeTyped DEF Replied

\* A step that writes no table, sets no state and lets no handler on.
LEMMA OwnedKept ==
    ASSUME Owned, now' = now, UNCHANGED <<cred, created, count, sessions>>,
           \A a \in Account : pending'[a] = pending[a] \/ pending'[a] = None,
           \A q \in Request : AsBefore(req'[q], req[q])
    PROVE  Owned'
<1>1. \A a \in Account : Referenced(a)' <=> Referenced(a)  BY DEF Referenced, Limited, HasSession
<1> QED  BY <1>1 DEF Owned, AsBefore

LEMMA CallOwned ==
    ASSUME Base, Owned, (\E c \in Client : ClientStep(c)) \/ (\E r \in Request : Network(r))
    PROVE  Owned'
<1>0. req \in [Request -> Handler]  BY DEF Base, TypeOK
<1>1. UNCHANGED <<now, cred, created, count, sessions, pending>>
  <2>1. ASSUME NEW c \in Client, ClientStep(c) PROVE UNCHANGED <<now, cred, created, count, sessions, pending>>
    BY <2>1 DEF ClientStep, StartRegister, StartLogin, SecondLeg, Complete, Abandon, tables
  <2>2. ASSUME NEW r \in Request, Network(r) PROVE UNCHANGED <<now, cred, created, count, sessions, pending>>
    BY <2>2 DEF Network, Stray, Duplicate, tables
  <2> QED  BY <2>1, <2>2
<1>2. \A d, a, leg, l, p : Message(d, a, leg, l, p).pc = "sent"  BY DEF Message, Free
<1>3. Free.pc = "free"  BY FreeTyped
<1>4. \A q \in Request : AsBefore(req'[q], req[q])
  <2>1. CASE \E c \in Client, x \in Request, a \in Account, p \in Password, w \in BOOLEAN :
               StartRegister(c, x, a, p) \/ StartLogin(c, x, a, p, w)
    BY <1>0, <1>2, <2>1 DEF StartRegister, StartLogin, AsBefore
  <2>2. CASE \E c \in Client, x \in Request : SecondLeg(c, x) \/ Complete(c, x)
    BY <1>0, <1>2, <1>3, <2>2 DEF SecondLeg, Complete, AsBefore
  <2>3. CASE \E c \in Client : Abandon(c)
    <3> SUFFICES ASSUME NEW q \in Request PROVE AsBefore(req'[q], req[q])  OBVIOUS
    <3>1. req'[q] \in {req[q], Free, [req[q] EXCEPT !.from = None]}  BY <2>3 DEF Abandon
    <3>2. req[q] \in Handler  BY <1>0
    <3> QED  BY <1>3, <3>1, <3>2 DEF AsBefore, Handler
  <2>4. ASSUME NEW r \in Request, Network(r) PROVE \A q \in Request : AsBefore(req'[q], req[q])
    <3> SUFFICES ASSUME NEW q \in Request PROVE AsBefore(req'[q], req[q])  OBVIOUS
    <3>1. CASE \E a \in Account, s \in Scope, leg \in Leg : Stray(r, a, s, leg)
      <4>1. PICK a \in Account, s \in Scope, leg \in Leg : Stray(r, a, s, leg)  BY <3>1
      <4> QED  BY <1>0, <4>1 DEF Stray, AsBefore, Message, Free
    <3>2. CASE \E x \in Request : Duplicate(r, x)
      <4>1. PICK x \in Request : Duplicate(r, x)  BY <3>2
      <4>2. req'[q] \in {req[q], [req[r] EXCEPT !.from = None]} /\ req[r].pc = "sent"  BY <1>0, <4>1 DEF Duplicate
      <4>3. req[r] \in Handler  BY <1>0
      <4> QED  BY <4>2, <4>3 DEF AsBefore, Handler
    <3> QED  BY <2>4, <3>1, <3>2 DEF Network, Scope, Leg
  <2> QED  BY <2>1, <2>2, <2>3, <2>4 DEF ClientStep
<1> QED  BY <1>1, <1>4, OwnedKept

LEMMA ArriveOwned ==
    ASSUME Base, Owned, NEW r \in Request, Arrive(r)
    PROVE  Owned'
<1>0. TypeOK /\ Routed  BY DEF Base, Calls
<1>1. /\ UNCHANGED <<now, cred, count, sessions>> /\ pending' \in {pending, Evicted}
      /\ \A q \in Request : q # r => req'[q] = req[q]
      /\ req'[r].pc \notin {"save", "set"}
  <2>1. \/ \E reply \in {"refused", "limited"} : Replied(req[r], req'[r], reply)
        \/ req'[r].pc = "limit"
    BY <1>0, ArriveEffect
  <2> QED  BY <1>0, <2>1, ArriveEffect, RepliedFree
<1>2. \A a \in Account : pending'[a] = pending[a] \/ pending'[a] = None  BY <1>0, <1>1, EvictedTyped
<1>3. \A a \in Account : created[a] # NoRow => created'[a] # NoRow
  BY <1>0 DEF Arrive, TypeOK
<1>4. \A a \in Account : Referenced(a)' <=> Referenced(a)  BY <1>1 DEF Referenced, Limited, HasSession
<1> QED  BY <1>1, <1>2, <1>3, <1>4 DEF Owned

\* What the limiter lets on is counted, in an account that is there.
LEMMA CheckOwned ==
    ASSUME Base, Owned, NEW r \in Request, CheckAndIncrement(r)
    PROVE  Owned'
<1> DEFINE m == req[r]
<1>0. TypeOK /\ Routed /\ Paced /\ LimitMax \in Nat  BY LoginAssumption DEF Base, Calls
<1>1. /\ UNCHANGED <<now, cred, created, sessions, pending>>
      /\ \A q \in Request : q # r => req'[q] = req[q]
      /\ m.pc = "limit" /\ m.account \in Account /\ req' \in [Request -> Handler]
      /\ req'[r].pc # "set"
      /\ req'[r].pc = "save" => Onward(m, req'[r]) /\ m.scope = "register" /\ req'[r].window = m.window
  <2>1. \/ \E reply \in {"error", "limited", "ok"} : Replied(m, req'[r], reply)
        \/ /\ Onward(m, req'[r])
           /\ req'[r].pc = IF m.scope = "register" THEN "save" ELSE IF m.hasPending THEN "take" ELSE "read"
           /\ m.scope = "register" => req'[r].window = m.window
    BY <1>0, CheckEffect
  <2> QED  BY <1>0, <2>1, CheckEffect, RepliedFree
<1>2. m.scope \in Scope /\ m.window \in Windows  BY <1>0 DEF TypeOK, Handler
<1>3. CASE created[m.account] = NoRow
  <2>1. Answer(r, "error") /\ UNCHANGED count  BY <1>3 DEF CheckAndIncrement
  <2>2. "error" \in Reply  BY DEF Reply
  <2>3. req'[r].pc \notin {"save", "set"}  BY <1>0, <2>1, <2>2, AnswerTyped, RepliedFree
  <2>4. \A q \in Request : AsBefore(req'[q], req[q])  BY <1>1, <2>3 DEF AsBefore
  <2> QED  BY <1>1, <2>1, <2>4, OwnedKept
<1>4. CASE created[m.account] # NoRow
  <2>1. count' = [count EXCEPT ![m.account][m.scope][m.window] = IF @ <= LimitMax THEN @ + 1 ELSE @]
    BY <1>4 DEF CheckAndIncrement
  <2>2. \A a \in Account, s \in Scope, w \in Windows : count[a][s][w] \in Nat
    BY <1>0, LoginAssumption DEF TypeOK
  <2>3. /\ count'[m.account][m.scope][m.window] > 0
        /\ \A a \in Account : a # m.account => count'[a] = count[a]
        /\ \A a \in Account, s \in Scope, w \in Windows : count[a][s][w] > 0 => count'[a][s][w] > 0
    <3> DEFINE n == IF count[m.account][m.scope][m.window] <= LimitMax
                    THEN count[m.account][m.scope][m.window] + 1 ELSE count[m.account][m.scope][m.window]
    <3>1. n \in Nat /\ n > 0  BY <1>0, <1>1, <1>2, <2>2
    <3>2. count' = [count EXCEPT ![m.account][m.scope][m.window] = n]  BY <2>1
    <3>3. count \in [Account -> [Scope -> [Windows -> 0 .. LimitMax + 1]]]  BY <1>0 DEF TypeOK
    <3> HIDE DEF n, m
    <3>4. /\ count'[m.account][m.scope][m.window] = n
          /\ \A a \in Account : a # m.account => count'[a] = count[a]
          /\ \A a \in Account, s \in Scope, w \in Windows :
               count'[a][s][w] = IF a = m.account /\ s = m.scope /\ w = m.window THEN n ELSE count[a][s][w]
      BY <1>1, <1>2, <3>2, <3>3
    <3> QED  BY <3>1, <3>4
  <2>4. \A a \in Account : Referenced(a)' => Referenced(a) \/ a = m.account
    BY <1>1, <2>3 DEF Referenced, Limited, HasSession
  <2>5. ASSUME NEW q \in Request, req'[q].pc = "save"
        PROVE  /\ count'[req'[q].account][req'[q].scope][req'[q].window] > 0
               /\ req'[q].window * Window >= now - Retention
    <3>1. CASE q = r
      BY <1>0, <1>1, <2>3, <2>5, <3>1 DEF Onward, Paced
    <3>2. CASE q # r
      <4>1. req'[q] = req[q] /\ req[q] \in Handler  BY <1>0, <1>1, <3>2 DEF TypeOK
      <4>2. req[q].account \in Account  BY <1>0, <2>5, <4>1 DEF Routed, Sound
      <4>3. req[q].scope \in Scope /\ req[q].window \in Windows  BY <4>1 DEF Handler
      <4> QED  BY <2>3, <2>5, <4>1, <4>2, <4>3 DEF Owned
    <3> QED  BY <3>1, <3>2
  <2>6. \A q \in Request : req'[q].pc = "set" => req'[q] = req[q]  BY <1>1
  <2> QED  BY <1>1, <1>4, <2>4, <2>5, <2>6 DEF Owned
<1> QED  BY <1>3, <1>4

\* The record is saved in an account that is there, and read as it is.
LEMMA RecordOwned ==
    ASSUME Base, Owned, NEW r \in Request, SaveCredentialRecordIfAbsent(r) \/ GetCredentialRecord(r)
    PROVE  Owned'
<1>0. TypeOK /\ Routed  BY DEF Base, Calls
<1>1. CASE SaveCredentialRecordIfAbsent(r)
  <2>1. /\ UNCHANGED <<now, created, count, sessions, pending>>
        /\ \A q \in Request : q # r => req'[q] = req[q]
        /\ req'[r].pc \notin {"save", "set"} /\ req[r].account \in Account
    BY <1>0, <1>1, SaveEffect, RepliedFree
  <2>2. /\ \A a \in Account : cred[a] # None => cred'[a] # None
        /\ \A a \in Account : cred[a] = None /\ cred'[a] # None => created[a] # NoRow
    BY <1>0, <1>1, <2>1 DEF SaveCredentialRecordIfAbsent, TypeOK
  <2>3. \A a \in Account : Referenced(a)' => Referenced(a) \/ created[a] # NoRow
    BY <2>1, <2>2 DEF Referenced, Limited, HasSession
  <2>4. \A q \in Request : req[q].pc = "set" => req[q].account \in Account  BY <1>0 DEF Routed, Sound
  <2> QED  BY <2>1, <2>2, <2>3, <2>4 DEF Owned
<1>2. CASE GetCredentialRecord(r)
  <2>1. /\ UNCHANGED <<now, cred, created, count, sessions, pending>> /\ req[r].account \in Account
        /\ \A q \in Request : q # r => req'[q] = req[q]
        /\ req'[r].pc = "set" /\ req'[r].account = req[r].account /\ req'[r].cred = cred[req[r].account]
    BY <1>0, <1>2, ReadEffect DEF Onward
  <2>2. \A a \in Account : Referenced(a)' <=> Referenced(a)  BY <2>1 DEF Referenced, Limited, HasSession
  <2> QED  BY <2>1, <2>2 DEF Owned
<1> QED  BY <1>1, <1>2

\* A real state is set for an account with a record, and a session is inserted for
\* an account with a real state.
LEMMA LegOwned ==
    ASSUME Base, Owned, NEW r \in Request, LoginStart(r) \/ LoginFinish(r)
    PROVE  Owned'
<1>0. TypeOK /\ Routed /\ OneSessionPerLogin  BY DEF Base, Calls, Spending
<1>1. \A a \in Account : Evicted[a] = pending[a] \/ Evicted[a] = None  BY <1>0, EvictedTyped
<1>2. CASE LoginStart(r)
  <2> DEFINE k == IF req[r].cred = None THEN "fake" ELSE "real"
             e == [kind |-> k, login |-> IF req[r].from = None THEN NoLogin ELSE req[r].login, expiresAt |-> now + Ttl]
  <2>1. /\ UNCHANGED <<now, cred, created, count, sessions>> /\ req[r].account \in Account /\ req[r].pc = "set"
        /\ \A q \in Request : q # r => req'[q] = req[q]
        /\ req'[r].pc \notin {"save", "set"}
    <3>1. {"refused", "decoy", "ok"} \subseteq Reply  BY DEF Reply
    <3> QED  BY <1>0, <1>2, <3>1, StartEffect, RepliedFree
  <2>2. pending' = pending \/ pending' = [Evicted EXCEPT ![req[r].account] = e]
    BY <1>2 DEF LoginStart, SetPending
  <2>3. e.kind = "real" => req[r].cred # None  OBVIOUS
  <2> HIDE DEF e, k
  <2>4. \A a \in Account : \/ pending'[a] = pending[a] \/ pending'[a] = None
                           \/ a = req[r].account /\ pending'[a] = e
    BY <1>0, <1>1, <2>1, <2>2, EvictedTyped
  <2>5. \A a \in Account : Referenced(a)' <=> Referenced(a)  BY <2>1 DEF Referenced, Limited, HasSession
  <2> QED  BY <2>1, <2>3, <2>4, <2>5 DEF Owned
<1>3. CASE LoginFinish(r)
  <2>1. /\ UNCHANGED <<now, cred, created, count>> /\ req[r].account \in Account
        /\ \A q \in Request : q # r => req'[q] = req[q]
        /\ req'[r].pc \notin {"save", "set"}
    <3>1. {"refused", "session"} \subseteq Reply  BY DEF Reply
    <3> QED  BY <1>0, <1>3, <3>1, FinishEffect, RepliedFree
  <2>2. pending' = [Evicted EXCEPT ![req[r].account] = None]  BY <1>3 DEF LoginFinish, Take
  <2>3. \A a \in Account : pending'[a] = pending[a] \/ pending'[a] = None
    BY <1>0, <1>1, <2>2, EvictedTyped
  <2>4. \A a \in Account : Referenced(a)' => Referenced(a) \/ cred[a] # None
    <3>1. sessions' # sessions => Verified(req[r], Evicted[req[r].account])
                                  /\ sessions' = [sessions EXCEPT ![req[r].account][req[r].login] = @ + 1]
      BY <1>0, <1>3, FinishEffect
    <3>2. sessions' # sessions => cred[req[r].account] # None  BY <1>1, <2>1, <3>1 DEF Verified, Owned
    <3>3. \A a \in Account : a # req[r].account => sessions'[a] = sessions[a]
      BY <1>0, <3>1 DEF TypeOK
    <3> QED  BY <2>1, <3>2, <3>3 DEF Referenced, Limited, HasSession
  <2>5. \A a \in Account : cred[a] # None => Referenced(a)  BY DEF Referenced
  <2> QED  BY <2>1, <2>3, <2>4, <2>5 DEF Owned
<1> QED  BY <1>2, <1>3

\* The sweep deletes no window a registration under way was counted in, and no
\* account that is referred to when its deletes are checked.
LEMMA OthersOwned ==
    ASSUME Base, Owned, CheckElsewhere \/ CleanWindows \/ SnapshotAccounts \/ CleanAccounts \/ Tick \/ Restart
    PROVE  Owned'
<1>0. TypeOK /\ Routed /\ Paced  BY DEF Base, Calls
<1>1. CASE CheckElsewhere \/ SnapshotAccounts
  <2>1. UNCHANGED <<now, cred, created, count, sessions, pending, req>>
    BY <1>1 DEF CheckElsewhere, SnapshotAccounts, tables
  <2> QED  BY <2>1, OwnedKept DEF AsBefore
<1>2. CASE CleanWindows
  <2>1. UNCHANGED <<now, cred, created, sessions, pending, req>>  BY <1>2 DEF CleanWindows
  <2>2. \A a \in Account, s \in Scope, w \in Windows :
          count'[a][s][w] = IF StaleWindow(w) THEN 0 ELSE count[a][s][w]
    BY <1>2 DEF CleanWindows
  <2>3. \A a \in Account : Referenced(a)' => Referenced(a)
    BY <2>1, <2>2 DEF Referenced, Limited, HasSession
  <2>4. ASSUME NEW q \in Request, req[q].pc = "save"
        PROVE  count'[req[q].account][req[q].scope][req[q].window] > 0
    <3>1. req[q] \in Handler /\ req[q].account \in Account  BY <1>0, <2>4 DEF TypeOK, Routed, Sound
    <3>2. req[q].scope \in Scope /\ req[q].window \in Windows  BY <3>1 DEF Handler
    <3>3. req[q].window * Window \in Int /\ cleaner.now \in Int /\ now \in Int /\ Retention \in Int
      <4>1. req[q].window \in Int  BY <3>2, LoginAssumption DEF Windows
      <4> QED  BY <1>0, <4>1, LoginAssumption DEF TypeOK
    <3>4. ~StaleWindow(req[q].window)
      BY <1>0, <2>4, <3>3 DEF StaleWindow, Paced, Owned
    <3> QED  BY <2>2, <2>4, <3>1, <3>2, <3>4 DEF Owned
  <2> QED  BY <2>1, <2>3, <2>4 DEF Owned
<1>3. CASE CleanAccounts
  <2>1. UNCHANGED <<now, cred, count, sessions, pending, req>>  BY <1>3 DEF CleanAccounts
  <2>2. \A a \in Account : Referenced(a) => created'[a] = created[a]
    BY <1>0, <1>3 DEF CleanAccounts, TypeOK
  <2>3. \A a \in Account : Referenced(a)' <=> Referenced(a)  BY <2>1 DEF Referenced, Limited, HasSession
  <2> QED  BY <2>1, <2>2, <2>3 DEF Owned
<1>4. CASE Tick
  <2>1. UNCHANGED <<cred, created, count, sessions, pending, req>>  BY <1>4 DEF Tick, tables
  <2>2. \A q \in Request : req[q].pc = "save" => req[q].window * Window >= now' - Retention
    <3>1. /\ \A r \in Request : req[r].pc \in {"limit", "save"} => req[r].window * Window >= now + 1 - Retention
          /\ now' = now + 1
      BY <1>4 DEF Tick
    <3>2. now \in Nat /\ now' \in Nat /\ Retention \in Nat  BY <1>0, <3>1, LoginAssumption DEF TypeOK
    <3> QED  BY <3>1, <3>2
  <2>3. \A a \in Account : Referenced(a)' <=> Referenced(a)  BY <2>1 DEF Referenced, Limited, HasSession
  <2> QED  BY <2>1, <2>2, <2>3 DEF Owned
<1>5. CASE Restart
  <2>1. UNCHANGED <<now, cred, created, count, sessions>> /\ \A q \in Request : req'[q].pc = "free"
    BY <1>5, FreeTyped DEF Restart, tables
  <2>2. \A a \in Account : pending'[a] = None  BY <1>5 DEF Restart
  <2> QED  BY <2>1, <2>2, OwnedKept DEF AsBefore
<1> QED  BY <1>1, <1>2, <1>3, <1>4, <1>5
-----------------------------------------------------------------------------
(* The theorems                                                            *)

LEMMA InitBase == Init => IInv
<1> SUFFICES ASSUME Init PROVE IInv  OBVIOUS
<1>1. 0 \in 0 .. MaxTime /\ MaxTime \div Window \in Nat  BY LoginAssumption
<1>2. TypeOK
  <2>1. /\ now \in 0 .. MaxTime /\ cred \in [Account -> Password \cup {None}]
        /\ created \in [Account -> (0 .. MaxTime) \cup {-1}]
    BY <1>1 DEF Init, NoRow
  <2>2. /\ count \in [Account -> [Scope -> [Windows -> 0 .. LimitMax + 1]]]
        /\ passed \in [Account -> [Scope -> [Windows -> 0 .. LimitMax + 2]]]
        /\ sessions \in [Account -> [Login -> 0 .. 2]] /\ pending \in [Account -> Entry \cup {None}]
    BY LoginAssumption DEF Init
  <2>3. /\ bucket \in [count : 0 .. AdmissionMax + 1, windowEnd : 0 .. MaxTime + Window]
        /\ cleaner \in [pc : {"idle", "windows", "accounts", "delete", "failed"}, now : 0 .. MaxTime, doomed : SUBSET Account]
    BY <1>1, LoginAssumption DEF Init, NoSweep
  <2>4. Nobody \in Caller  BY LoginAssumption DEF Nobody, Caller
  <2>5. req \in [Request -> Handler] /\ client \in [Client -> Caller] /\ faults \in 0 .. MaxFaults
    BY <2>4, FreeTyped, LoginAssumption DEF Init
  <2> QED  BY <2>1, <2>2, <2>3, <2>5 DEF TypeOK
<1>3. \A r \in Request : req[r] = Free  BY DEF Init
<1>4. \A c \in Client : client[c] = Nobody  BY DEF Init
<1>5. \A l \in Login : Untouched(l)  BY DEF Init, Untouched
<1>6. Calls
  BY <1>3, <1>4, <1>5, FreeTyped DEF Calls, Routed, Sound, Callers, Addressed, Unborn, Asking, Waiting, Nobody
<1>7. Paced  BY <1>3, FreeTyped DEF Init, Paced, NoSweep
<1>8. Counted  BY LoginAssumption DEF Init, Counted
<1>9. Spending  BY DEF Init, Spending, Unspent, OneSessionPerLogin
<1>10. Calm  BY <1>4 DEF Calm, CalmAt, Nobody
<1>11. Owned
  <2>1. \A a \in Account : Referenced(a) => cred[a] # None
    BY DEF Init, Referenced, Limited, HasSession
  <2>2. \A a \in Account : cred[a] # None => created[a] # NoRow  BY DEF Init, NoRow
  <2>3. \A a \in Account : pending[a] = None  BY DEF Init
  <2> QED  BY <1>3, <2>1, <2>2, <2>3, FreeTyped DEF Owned
<1> QED  BY <1>2, <1>6, <1>7, <1>8, <1>9, <1>10, <1>11 DEF IInv, Base

\* Every action preserves the invariant.
LEMMA Inductive == IInv /\ [Next]_vars => IInv'
<1> SUFFICES ASSUME IInv, [Next]_vars PROVE IInv'  OBVIOUS
<1>0. Base /\ Calm /\ Owned  BY DEF IInv
<1>1. CASE UNCHANGED vars
  <2>1. TypeOK' /\ Calls' /\ Paced' /\ Counted' /\ Spending'
    BY <1>0, <1>1 DEF Base, TypeOK, Calls, Routed, Callers, Addressed, Unborn, Asking, Untouched, Waiting, Paced, Counted,
         Spending, Unspent, OneSessionPerLogin, vars
  <2>2. Calm'  BY <1>0, <1>1 DEF Calm, CalmAt, vars
  <2>3. Owned'  BY <1>0, <1>1 DEF Owned, Referenced, Limited, HasSession, vars
  <2> QED  BY <2>1, <2>2, <2>3 DEF IInv, Base
<1>2. ASSUME NEW c \in Client, ClientStep(c) PROVE IInv'
  <2>0. Owned'  BY <1>0, <1>2, CallOwned
  <2>1. CASE \E r \in Request, a \in Account, p \in Password :
               \/ StartRegister(c, r, a, p)
               \/ \E awaited \in BOOLEAN : StartLogin(c, r, a, p, awaited)
    <3>1. PICK r \in Request, a \in Account, p \in Password, awaited \in BOOLEAN :
            StartRegister(c, r, a, p) \/ StartLogin(c, r, a, p, awaited)
      BY <2>1
    <3> QED  BY <1>0, <2>0, <3>1, StartStep, StartCalm DEF IInv
  <2>2. CASE \E r \in Request : SecondLeg(c, r) \/ Complete(c, r)
    BY <1>0, <2>0, <2>2, AnswerStep, AnswerCalm DEF IInv
  <2>3. CASE Abandon(c)
    BY <1>0, <2>0, <2>3, LostStep, LostCalm DEF IInv
  <2> QED  BY <1>2, <2>1, <2>2, <2>3 DEF ClientStep
<1>3. ASSUME NEW r \in Request, Handle(r) PROVE IInv'
  <2>1. CASE Arrive(r)  BY <1>0, <2>1, ArriveStep, ArriveCalm, ArriveOwned DEF IInv
  <2>2. CASE CheckAndIncrement(r)  BY <1>0, <2>2, CheckStep, CheckCalm, CheckOwned DEF IInv
  <2>3. CASE SaveCredentialRecordIfAbsent(r) \/ GetCredentialRecord(r)
    BY <1>0, <2>3, RecordStep, RecordCalm, RecordOwned DEF IInv
  <2>4. CASE LoginStart(r) \/ LoginFinish(r)  BY <1>0, <2>4, LegStep, LegCalm, LegOwned DEF IInv
  <2> QED  BY <1>3, <2>1, <2>2, <2>3, <2>4 DEF Handle
<1>4. ASSUME NEW r \in Request, Network(r) PROVE IInv'
  BY <1>0, <1>4, NetworkStep, NetworkCalm, CallOwned DEF IInv
<1>5. CASE CheckElsewhere \/ CleanWindows \/ SnapshotAccounts \/ CleanAccounts
  BY <1>0, <1>5, SweepStep, OthersCalm, OthersOwned DEF IInv
<1>6. CASE Tick  BY <1>0, <1>6, TickStep, OthersCalm, OthersOwned DEF IInv
<1>7. CASE Restart  BY <1>0, <1>7, RestartStep, OthersCalm, OthersOwned DEF IInv
<1> QED  BY <1>1, <1>2, <1>3, <1>4, <1>5, <1>6, <1>7 DEF Next

LEMMA Invariance == Spec => []IInv
BY InitBase, Inductive, PTL DEF Spec

\* The types of the model hold in every reachable state.
THEOREM TypeCorrect == Spec => []TypeOK
<1>1. IInv => TypeOK  BY DEF IInv, Base
<1> QED  BY <1>1, Invariance, PTL

\* Copies, retries and other clients' legs never make two sessions of one login:
\* loginStateStore.take gives a state away once, and no copy of a leg 1 can set the
\* same state again.
THEOREM SingleSession == Spec => []OneSessionPerLogin
<1>1. IInv => OneSessionPerLogin  BY DEF IInv, Base, Spending
<1> QED  BY <1>1, Invariance, PTL

\* An awaited login with the right password that nothing disturbed and no limit
\* stopped is not refused: its account is its own from leg 1 to leg 2.
THEOREM RightPasswordLogsIn == Spec => []LoginCompletes
<1>1. IInv => LoginCompletes  BY DEF IInv, Calm, CalmAt, LoginCompletes
<1> QED  BY <1>1, Invariance, PTL

\* checkAndIncrement lets no window have more than its maximum, because a window is
\* at most as long as the retention: the sweep deletes no row that is counted in.
THEOREM LimitHolds == Spec => []AttemptsBounded
<1>1. IInv => AttemptsBounded  BY DEF IInv, Base, Counted, AttemptsBounded
<1> QED  BY <1>1, Invariance, PTL

\* cleanupStaleAuthState takes no account from a registration past the limiter, nor
\* from a credential, a session or a limiter row, although its guards are evaluated
\* before its deletes: the foreign keys are checked last, and the row of a window
\* that may still be counted in is not swept.
THEOREM AttemptsSpared == Spec => []SweepSparesAttempts
<1>1. IInv => SweepSparesAttempts
  <2> SUFFICES ASSUME IInv PROVE SweepSparesAttempts  OBVIOUS
  <2>1. Owned /\ TypeOK /\ Routed  BY DEF IInv, Base, Calls
  <2>2. ASSUME NEW r \in Request, req[r].pc = "save" PROVE Limited(req[r].account) /\ req[r].account \in Account
    <3>1. req[r] \in Handler /\ req[r].account \in Account  BY <2>1, <2>2 DEF TypeOK, Routed, Sound
    <3>2. req[r].scope \in Scope /\ req[r].window \in Windows  BY <3>1 DEF Handler
    <3> QED  BY <2>1, <2>2, <3>1, <3>2 DEF Owned, Limited
  <2> QED  BY <2>1, <2>2 DEF Owned, SweepSparesAttempts, Referenced
<1> QED  BY <1>1, Invariance, PTL

\* A session comes of a state whose time is not over when it is taken.
THEOREM NoLateFinish == Spec => FinishedInTime
<1>1. IInv /\ [Next]_vars =>
        [\A a \in Account, l \in Login : sessions'[a][l] > sessions[a][l] => now < pending[a].expiresAt]_vars
  <2> SUFFICES ASSUME IInv, Next, NEW a \in Account, NEW l \in Login, sessions'[a][l] > sessions[a][l]
               PROVE  now < pending[a].expiresAt
    BY DEF vars
  <2>0. TypeOK /\ Routed /\ OneSessionPerLogin  BY DEF IInv, Base, Calls, Spending
  <2>1. sessions[a][l] \in 0 .. 2  BY <2>0 DEF TypeOK
  <2>2. sessions' # sessions  BY <2>1
  <2>3. PICK r \in Request : LoginFinish(r)
    <3>1. \A c \in Client : ~ClientStep(c)
      BY <2>2 DEF ClientStep, StartRegister, StartLogin, SecondLeg, Complete, Abandon, tables
    <3>2. \A r \in Request : ~Network(r)  BY <2>2 DEF Network, Stray, Duplicate, tables
    <3>3. ~CheckElsewhere /\ ~CleanWindows /\ ~SnapshotAccounts /\ ~CleanAccounts /\ ~Tick /\ ~Restart
      BY <2>2 DEF CheckElsewhere, CleanWindows, SnapshotAccounts, CleanAccounts, Tick, Restart, tables
    <3>4. \A r \in Request : Handle(r) => LoginFinish(r)
      BY <2>2 DEF Handle, Arrive, CheckAndIncrement, SaveCredentialRecordIfAbsent, GetCredentialRecord, LoginStart, tables
    <3> QED  BY <3>1, <3>2, <3>3, <3>4 DEF Next
  <2> DEFINE b == req[r].account
  <2>4. /\ b \in Account /\ Verified(req[r], Evicted[b])
        /\ sessions' = [sessions EXCEPT ![b][req[r].login] = @ + 1]
    BY <2>0, <2>2, <2>3, FinishEffect
  <2>5. b = a
    <3>1. sessions \in [Account -> [Login -> 0 .. 2]]  BY <2>0 DEF TypeOK
    <3>2. b # a => sessions'[a] = sessions[a]  BY <2>4, <3>1
    <3> QED  BY <2>1, <3>2
  <2>6. Evicted[a] # None /\ Evicted[a] = pending[a] /\ now < Evicted[a].expiresAt
    BY <2>0, <2>4, <2>5, EvictedTyped DEF Verified
  <2> QED  BY <2>6
<1> QED  BY <1>1, Invariance, PTL DEF Spec, FinishedInTime
=============================================================================
