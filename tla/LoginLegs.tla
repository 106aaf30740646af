------------------------------ MODULE LoginLegs ------------------------------
(***************************************************************************)
(* OPAQUE registration and login: apps/backend/src/auth (the register and  *)
(* login routes, login-state, rate-limit, cleanup, admission-limit,        *)
(* credentials) and the SDK's AuthClient that drives the two legs.  The    *)
(* contract has no login id: a message is a leg 2 when its account has a   *)
(* pending login, which the handler reads before it awaits the database.   *)
(* One action is a handler's code up to an await and the SQL statement it  *)
(* awaits.  The OPAQUE messages are abstracted to what the protocol        *)
(* verifies.                                                               *)
(***************************************************************************)
EXTENDS Integers

CONSTANTS
    Account, Client, Password,
    Request,       \* handlers that run at the same time
    Ttl,           \* DEFAULT_TTL_MS, in ticks of the clock
    Window,        \* length of a rate-limit window and of an admission window
    Retention,     \* both retentions of cleanupStaleAuthState
    LimitMax,      \* config.authRateLimitMax
    AdmissionMax,  \* config.authAdmissionRateLimitMax
    MaxTime,       \* bounds the clock
    MaxTries,      \* bounds the attempts of a client
    MaxFaults,     \* bounds the stray or doubled messages, the lost answers and the restarts
    None

ASSUME LoginAssumption ==
    /\ {Ttl, Window, Retention, LimitMax, AdmissionMax} \subseteq Nat \ {0}
    /\ MaxTime \in Nat /\ MaxTries \in Nat /\ MaxFaults \in Nat
    /\ Window <= Retention   \* minutes against a day

VARIABLES
    now,       \* Date.now()
    cred,      \* opaque_credentials: account -> password of its record
    created,   \* accounts: account -> created_at
    count,     \* auth_rate_limits: account, scope, window -> count (0: no row)
    sessions,  \* sessions: account, login -> rows issueSession inserted
    pending,   \* loginStateStore: account -> entry
    bucket,    \* admissionLimiter, one origin
    req,       \* request -> where its handler is
    cleaner,   \* cleanupStaleAuthState
    client,    \* AuthClient calls
    faults,    \* what went wrong so far
    passed     \* history: account, scope, window -> attempts let through

vars == <<now, cred, created, count, sessions, pending, bucket, req, cleaner, client, faults, passed>>
tables == <<cred, created, count, sessions>>

Scope == {"register", "login"}
Windows == 0 .. MaxTime \div Window
Login == Client \X (1 .. MaxTries)
NoLogin == <<None, 0>>
Zeros == "zeros"   \* a password buffer after fill(0)

Leg == {"reg1", "reg2", "ke1", "ke3", "badKe1", "bad"}
Reply == {"none", "ok", "decoy", "session", "refused", "limited", "error"}
Handler == [pc : {"free", "sent", "limit", "read", "set", "take", "save", "done"},
            scope : Scope, account : Account \cup {None}, leg : Leg,
            login : Login \cup {NoLogin},     \* the client state the message belongs to
            pw : Password \cup {None},        \* the password a registration's record is for
            from : Client \cup {None},        \* who waits for the answer
            hasPending : BOOLEAN, window : Windows,
            cred : Password \cup {None},      \* credentialRecord as read
            reply : Reply]
Free == [pc |-> "free", scope |-> "login", account |-> None, leg |-> "bad", login |-> NoLogin,
         pw |-> None, from |-> None, hasPending |-> FALSE, window |-> 0, cred |-> None, reply |-> "none"]

Entry == [kind : {"real", "fake"}, login : Login \cup {NoLogin}, expiresAt : 0 .. MaxTime + Ttl]

ASSUME NoneAssumption == None \notin Account /\ None \notin Client /\ None \notin Password /\ None \notin Entry

Caller == [pc : {"idle", "reg1", "reg2", "log1", "log2", "refused"},
           account : Account \cup {None}, pw : Password \cup {None},
           buf : Password \cup {None, Zeros},  \* the caller's buffer at leg 2
           tries : 0 .. MaxTries,
           quiet : BOOLEAN]  \* history: nothing disturbed this attempt
Nobody == [pc |-> "idle", account |-> None, pw |-> None, buf |-> None, tries |-> 0, quiet |-> FALSE]

TypeOK ==
    /\ now \in 0 .. MaxTime
    /\ cred \in [Account -> Password \cup {None}]
    /\ created \in [Account -> (0 .. MaxTime) \cup {-1}]
    /\ count \in [Account -> [Scope -> [Windows -> 0 .. LimitMax + 1]]]
    /\ sessions \in [Account -> [Login -> 0 .. 2]]
    /\ pending \in [Account -> Entry \cup {None}]
    /\ bucket \in [count : 0 .. AdmissionMax + 1, windowEnd : 0 .. MaxTime + Window]
    /\ req \in [Request -> Handler]
    /\ cleaner \in [pc : {"idle", "windows", "accounts", "delete", "failed"}, now : 0 .. MaxTime,
                    doomed : SUBSET Account]  \* the accounts the statement's snapshot found unused
    /\ client \in [Client -> Caller]
    /\ faults \in 0 .. MaxFaults
    /\ passed \in [Account -> [Scope -> [Windows -> 0 .. LimitMax + 2]]]

NoRow == -1   \* created_at of an account that has no row

NoSweep == [pc |-> "idle", now |-> 0, doomed |-> {}]

\* The server starts with the accounts that registered before.
Init ==
    /\ now = 0
    /\ cred \in [Account -> Password \cup {None}]
    /\ created = [a \in Account |-> IF cred[a] = None THEN NoRow ELSE 0]
    /\ count = [a \in Account |-> [s \in Scope |-> [w \in Windows |-> 0]]]
    /\ sessions = [a \in Account |-> [l \in Login |-> 0]]
    /\ pending = [a \in Account |-> None]
    /\ bucket = [count |-> 0, windowEnd |-> 0]
    /\ req = [r \in Request |-> Free]
    /\ cleaner = NoSweep
    /\ client = [c \in Client |-> Nobody]
    /\ faults = 0
    /\ passed = [a \in Account |-> [s \in Scope |-> [w \in Windows |-> 0]]]

-----------------------------------------------------------------------------
(* The client: AuthClient.register and AuthClient.login                    *)

Over(c) == [Nobody EXCEPT !.tries = client[c].tries]

\* A call that threw; the refusal of an attempt nothing disturbed is remembered.
Refused(c, reply) ==
    IF client[c].quiet /\ reply \notin {"limited", "error"} THEN [client[c] EXCEPT !.pc = "refused"] ELSE Over(c)

Waiting(c) == client[c].pc \in {"reg1", "reg2", "log1", "log2"}

Loud(c) == IF Waiting(c) THEN [client[c] EXCEPT !.quiet = FALSE] ELSE Over(c)

\* Every attempt under way on account a but c's own has been disturbed.
Disturbed(a, c) ==
    [d \in Client |-> IF d # c /\ client[d].account = a THEN Loud(d) ELSE client[d]]

Alone(a) ==
    /\ pending[a] = None
    /\ \A r \in Request : req[r].account # a

Message(c, a, leg, login, p) ==
    [Free EXCEPT !.pc = "sent", !.scope = IF leg \in {"reg1", "reg2"} THEN "register" ELSE "login",
                 !.account = a, !.leg = leg, !.login = login, !.pw = p, !.from = c]

\* register(accountId, password): clientRegistrationStart and the first leg.
StartRegister(c, r, a, p) ==
    /\ ~Waiting(c)
    /\ client[c].tries < MaxTries
    /\ req[r].pc = "free"
    /\ req' = [req EXCEPT ![r] = Message(c, a, "reg1", NoLogin, None)]
    /\ client' = [Disturbed(a, c) EXCEPT ![c] =
         [pc |-> "reg1", account |-> a, pw |-> p, buf |-> p, tries |-> client[c].tries + 1, quiet |-> FALSE]]
    /\ UNCHANGED <<now, tables, pending, bucket, cleaner, faults, passed>>

\* login(accountId, password): clientLoginStart and the first leg.  The devices
\* and export views and the extension await the login; the unlock view does not,
\* and its finally overwrites the buffer before any answer can arrive.
StartLogin(c, r, a, p, awaited) ==
    /\ ~Waiting(c)
    /\ client[c].tries < MaxTries
    /\ req[r].pc = "free"
    /\ req' = [req EXCEPT ![r] = Message(c, a, "ke1", <<c, client[c].tries + 1>>, None)]
    /\ client' = [Disturbed(a, c) EXCEPT ![c] =
         [pc |-> "log1", account |-> a, pw |-> p, buf |-> IF awaited THEN p ELSE Zeros,
          tries |-> client[c].tries + 1, quiet |-> Alone(a)]]
    /\ UNCHANGED <<now, tables, pending, bucket, cleaner, faults, passed>>

\* clientLoginFinish opens the KE2 with the buffer as it is now.
FinishOpens(c, r) ==
    /\ req[r].reply = "ok"
    /\ client[c].buf = client[c].pw
    /\ req[r].cred = client[c].pw

\* The first leg's answer: the second leg, or the exception of expectOk, of the
\* check of leg1.kind or of clientLoginFinish.
SecondLeg(c, r) ==
    LET me == client[c]
        goes == IF me.pc = "reg1" THEN req[r].reply = "ok" ELSE FinishOpens(c, r)
        leg == IF me.pc = "reg1" THEN "reg2" ELSE "ke3"
    IN  /\ req[r].pc = "done" /\ req[r].from = c
        /\ me.pc \in {"reg1", "log1"}
        /\ req' = [req EXCEPT ![r] = IF goes THEN Message(c, me.account, leg, req[r].login, IF leg = "reg2" THEN me.pw ELSE None) ELSE Free]
        /\ client' = [client EXCEPT ![c] =
             IF goes THEN [@ EXCEPT !.pc = IF me.pc = "reg1" THEN "reg2" ELSE "log2"]
             ELSE Refused(c, req[r].reply)]
        /\ UNCHANGED <<now, tables, pending, bucket, cleaner, faults, passed>>

\* The second leg's answer: done, or HttpError.
Complete(c, r) ==
    LET me == client[c]
    IN  /\ req[r].pc = "done" /\ req[r].from = c
        /\ me.pc \in {"reg2", "log2"}
        /\ client' = [client EXCEPT ![c] =
             IF req[r].reply = (IF me.pc = "reg2" THEN "ok" ELSE "session") THEN Over(c)
             ELSE Refused(c, req[r].reply)]
        /\ req' = [req EXCEPT ![r] = Free]
        /\ UNCHANGED <<now, tables, pending, bucket, cleaner, faults, passed>>

\* The client stops waiting: the answer is lost, withDeadline rejects, the page
\* is closed.  The handler goes on.
Abandon(c) ==
    /\ Waiting(c)
    /\ faults < MaxFaults
    /\ faults' = faults + 1
    /\ client' = [client EXCEPT ![c] = Over(c)]
    /\ req' = [r \in Request |-> IF req[r].from # c THEN req[r]
                                ELSE IF req[r].pc = "done" THEN Free ELSE [req[r] EXCEPT !.from = None]]
    /\ UNCHANGED <<now, tables, pending, bucket, cleaner, passed>>

\* A malformed message: of another length, or a KE1's length but no KE1.
Stray(r, a, scope, leg) ==
    /\ req[r].pc = "free"
    /\ faults < MaxFaults
    /\ faults' = faults + 1
    /\ req' = [req EXCEPT ![r] = [Message(None, a, leg, NoLogin, None) EXCEPT !.scope = scope]]
    /\ client' = Disturbed(a, None)
    /\ UNCHANGED <<now, tables, pending, bucket, cleaner, passed>>

\* A request delivered twice: the transport sends it again.
Duplicate(r, copy) ==
    /\ req[r].pc = "sent" /\ req[copy].pc = "free"
    /\ faults < MaxFaults
    /\ faults' = faults + 1
    /\ req' = [req EXCEPT ![copy] = [req[r] EXCEPT !.from = None]]
    /\ client' = Disturbed(req[r].account, None)
    /\ UNCHANGED <<now, tables, pending, bucket, cleaner, passed>>

-----------------------------------------------------------------------------
(* The server                                                              *)

\* Fault: nothing expires.
NotEvicted == pending

\* Fault: expires a tick early.
EvictedEarly == [a \in Account |-> IF pending[a] # None /\ pending[a].expiresAt <= now + 1 THEN None ELSE pending[a]]

\* evictExpired of the login-state store.
Evicted == [a \in Account |-> IF pending[a] # None /\ pending[a].expiresAt <= now THEN None ELSE pending[a]]

\* The reply, which a client that still waits will read.
Answer(r, reply) ==
    req' = [req EXCEPT ![r] =
        IF @.from = None THEN Free
        ELSE [Free EXCEPT !.pc = "done", !.account = req[r].account, !.login = req[r].login,
                          !.from = req[r].from, !.cred = req[r].cred, !.reply = reply]]

\* allow(key): evict, open a bucket when there is none, always count.
Admission == IF bucket.windowEnd <= now THEN [count |-> 0, windowEnd |-> now + Window] ELSE bucket
Admitted == Admission.count + 1 <= AdmissionMax
CountAdmission ==
    \* counts past the limit all refuse: AdmissionMax + 1 stands for them
    bucket' = [Admission EXCEPT !.count = IF @ <= AdmissionMax THEN @ + 1 ELSE @]

\* A handler up to and with its first statement: the shape of the message, whether
\* the account has a pending login, the admission limit, registrationStep, and
\* ensureAccount's INSERT ... ON CONFLICT DO NOTHING; then the window is computed.
Arrive(r) ==
    LET m == req[r]
        hasPending == Evicted[m.account] # None
        wrongLength == m.scope = "login" /\ ~hasPending /\ m.leg \notin {"ke1", "badKe1"}
        malformed == m.scope = "register" /\ m.leg \notin {"reg1", "reg2"}
        refusal == IF wrongLength \/ (Admitted /\ malformed) THEN "refused"
                   ELSE IF ~Admitted THEN "limited" ELSE "none"
    IN  /\ m.pc = "sent"
        /\ pending' = IF m.scope = "login" THEN Evicted ELSE pending
        /\ IF wrongLength THEN UNCHANGED bucket ELSE CountAdmission
        /\ IF refusal # "none"
           THEN Answer(r, refusal) /\ UNCHANGED created
           ELSE /\ created' = [created EXCEPT ![m.account] = IF @ = NoRow THEN now ELSE @]
                /\ req' = [req EXCEPT ![r].pc = "limit", ![r].window = now \div Window,
                                     ![r].hasPending = (m.scope = "login" /\ hasPending)]
        /\ UNCHANGED <<now, cred, count, sessions, cleaner, client, faults, passed>>

\* Fault: off by one.
WithinOff(n) == n <= LimitMax + 1
Within(n) == n <= LimitMax

\* cleanupStaleAuthState, up to its first statement.
StartSweep ==
    /\ cleaner.pc \in {"idle", "failed"}
    /\ cleaner' = [NoSweep EXCEPT !.pc = "windows", !.now = now]

\* checkAndIncrement: the upsert, which fails if the account is gone, and now and
\* then a sweep in the background.
CheckAndIncrement(r) ==
    LET m == req[r]
        n == count[m.account][m.scope][m.window] + 1
    IN  /\ m.pc = "limit"
        /\ IF created[m.account] = NoRow
           THEN Answer(r, "error") /\ UNCHANGED <<count, cleaner, passed>>
           ELSE /\ count' = [count EXCEPT ![m.account][m.scope][m.window] =
                               IF @ <= LimitMax THEN @ + 1 ELSE @]   \* more than the limit is as good as one more
                /\ UNCHANGED cleaner \/ StartSweep
                /\ IF ~Within(n)
                   THEN Answer(r, "limited") /\ UNCHANGED passed
                   ELSE /\ passed' = [passed EXCEPT ![m.account][m.scope][m.window] = @ + 1]
                        /\ IF m.leg = "reg1" THEN Answer(r, "ok")
                           ELSE req' = [req EXCEPT ![r].hasPending = FALSE,
                                                   ![r].window = IF m.scope = "register" THEN @ ELSE 0,
                                                   ![r].pc = IF m.scope = "register" THEN "save"
                                                             ELSE IF m.hasPending THEN "take" ELSE "read"]
        /\ UNCHANGED <<now, cred, created, sessions, pending, bucket, client, faults>>

\* checkAndIncrement for an account that is not one of Account, as far as it
\* concerns these: the sweep it may start.
CheckElsewhere ==
    /\ StartSweep
    /\ UNCHANGED <<now, tables, pending, bucket, req, client, faults, passed>>

\* saveCredentialRecordIfAbsent: a second registration is answered like the first.
SaveCredentialRecordIfAbsent(r) ==
    LET a == req[r].account
    IN  /\ req[r].pc = "save"
        /\ IF created[a] = NoRow
           THEN Answer(r, "error") /\ UNCHANGED cred
           ELSE Answer(r, "ok") /\ cred' = [cred EXCEPT ![a] = IF @ = None THEN req[r].pw ELSE @]
        /\ UNCHANGED <<now, created, count, sessions, pending, bucket, cleaner, client, faults, passed>>

\* Leg 1: getCredentialRecord.
GetCredentialRecord(r) ==
    /\ req[r].pc = "read"
    /\ req' = [req EXCEPT ![r].pc = "set", ![r].cred = cred[req[r].account]]
    /\ UNCHANGED <<now, tables, pending, bucket, cleaner, client, faults, passed>>

\* setReal and setFake: the entry of the account is replaced.
SetPending(r, entry) == pending' = [Evicted EXCEPT ![req[r].account] = entry]

\* Leg 1: loginStart and setReal, or the decoy of an account without a record.
\* loginStart draws new keys: the state fits the KE3 made of its own KE2 only, and
\* the KE2 of a request nobody waits for (a copy, say) reaches nobody.
LoginStart(r) ==
    LET m == req[r]
        entry == [kind |-> IF m.cred = None THEN "fake" ELSE "real",
                  login |-> IF m.from = None THEN NoLogin ELSE m.login, expiresAt |-> now + Ttl]
    IN  /\ m.pc = "set"
        /\ IF m.cred # None /\ m.leg # "ke1"   \* loginStart throws
           THEN Answer(r, "refused") /\ UNCHANGED pending
           ELSE SetPending(r, entry) /\ Answer(r, IF m.cred = None THEN "decoy" ELSE "ok")
        /\ UNCHANGED <<now, tables, bucket, cleaner, client, faults, passed>>

\* Fault: reads the entry and leaves it.
Peek(a) == Evicted
\* take: one-shot.
Take(a) == [Evicted EXCEPT ![a] = None]

\* Leg 2: take, loginFinish verifies the message against the state taken, and
\* issueSession inserts the session.
LoginFinish(r) ==
    LET m == req[r]
        entry == Evicted[m.account]
        verified == entry # None /\ entry.kind = "real" /\ m.leg = "ke3" /\ m.login = entry.login
    IN  /\ m.pc = "take"
        /\ pending' = Take(m.account)
        /\ IF verified
           THEN sessions' = [sessions EXCEPT ![m.account][m.login] = @ + 1] /\ Answer(r, "session")
           ELSE UNCHANGED sessions /\ Answer(r, "refused")
        /\ UNCHANGED <<now, cred, created, count, bucket, cleaner, client, faults, passed>>

StaleWindow(w) == w * Window < cleaner.now - Retention

\* DELETE FROM auth_rate_limits.
CleanWindows ==
    /\ cleaner.pc = "windows"
    /\ count' = [a \in Account |-> [s \in Scope |-> [w \in Windows |-> IF StaleWindow(w) THEN 0 ELSE count[a][s][w]]]]
    /\ cleaner' = [cleaner EXCEPT !.pc = "accounts"]
    /\ UNCHANGED <<now, cred, created, sessions, pending, bucket, req, client, faults, passed>>

Limited(a) == \E s \in Scope, w \in Windows : count[a][s][w] > 0
HasSession(a) == \E l \in Login : sessions[a][l] > 0
\* The NOT EXISTS guards of cleanupStaleAuthState.
Unused(a) == cred[a] = None /\ ~HasSession(a) /\ ~Limited(a)

\* DELETE FROM accounts: the guards, on the snapshot the statement starts with.
SnapshotAccounts ==
    /\ cleaner.pc = "accounts"
    /\ cleaner' = [cleaner EXCEPT !.pc = "delete", !.doomed =
         {a \in Account : created[a] # NoRow /\ created[a] < cleaner.now - Retention /\ Unused(a)}]
    /\ UNCHANGED <<now, tables, pending, bucket, req, client, faults, passed>>

\* Fault: the rate-limit rows do not refer to the account.
ReferencedForgetful(a) == cred[a] # None \/ HasSession(a)
\* Rows that refer to the account; the foreign keys have no ON DELETE.
Referenced(a) == cred[a] # None \/ Limited(a) \/ HasSession(a)

\* The same statement's deletes, with the foreign keys checked against the rows
\* there are by then: all of them or, if a row has come to refer to one, none; the
\* sweep's caller swallows that error.
CleanAccounts ==
    /\ cleaner.pc = "delete"
    /\ IF \E a \in cleaner.doomed : Referenced(a)
       THEN cleaner' = [NoSweep EXCEPT !.pc = "failed"] /\ UNCHANGED created
       ELSE /\ created' = [a \in Account |-> IF a \in cleaner.doomed THEN NoRow ELSE created[a]]
            /\ cleaner' = NoSweep
    /\ UNCHANGED <<now, cred, count, sessions, pending, bucket, req, client, faults, passed>>

\* The clock moves; no statement waits longer than the retention.
Tick ==
    /\ now < MaxTime
    /\ \A r \in Request : req[r].pc \in {"limit", "save"} => req[r].window * Window >= now + 1 - Retention
    /\ now' = now + 1
    /\ client' = [c \in Client |-> Loud(c)]
    /\ UNCHANGED <<tables, pending, bucket, req, cleaner, faults, passed>>

\* The process restarts: the two in-memory stores and every handler are gone.
Restart ==
    /\ faults < MaxFaults
    /\ faults' = faults + 1
    /\ pending' = [a \in Account |-> None]
    /\ bucket' = [count |-> 0, windowEnd |-> 0]
    /\ req' = [r \in Request |-> Free]
    /\ cleaner' = NoSweep
    /\ client' = [c \in Client |-> IF Waiting(c) THEN Over(c) ELSE client[c]]
    /\ UNCHANGED <<now, tables, passed>>

-----------------------------------------------------------------------------
ClientStep(c) ==
    \/ \E r \in Request, a \in Account, p \in Password :
         \/ StartRegister(c, r, a, p)
         \/ \E awaited \in BOOLEAN : StartLogin(c, r, a, p, awaited)
    \/ \E r \in Request : SecondLeg(c, r) \/ Complete(c, r)
    \/ Abandon(c)

Handle(r) ==
    \/ Arrive(r) \/ CheckAndIncrement(r) \/ SaveCredentialRecordIfAbsent(r)
    \/ GetCredentialRecord(r) \/ LoginStart(r) \/ LoginFinish(r)

Network(r) ==
    \/ \E a \in Account : \/ Stray(r, a, "register", "bad")
                          \/ \E leg \in {"bad", "badKe1"} : Stray(r, a, "login", leg)
    \/ \E copy \in Request : Duplicate(r, copy)

Next ==
    \/ \E c \in Client : ClientStep(c)
    \/ \E r \in Request : Handle(r) \/ Network(r)
    \/ CheckElsewhere \/ CleanWindows \/ SnapshotAccounts \/ CleanAccounts
    \/ Tick \/ Restart

Spec == Init /\ [][Next]_vars
-----------------------------------------------------------------------------
(* Properties                                                              *)

\* A login gives at most one session: pending state is consumed by the first
\* message that takes it, whichever copy, retry or other client's leg that is.
OneSessionPerLogin == \A a \in Account, l \in Login : sessions[a][l] <= 1

\* An awaited login with the right password is refused only for a reason: a
\* limit, an expired or lost state, or another message for the same account.
LoginCompletes ==
    \A c \in Client :
        client[c].pc = "refused" /\ client[c].quiet /\ client[c].buf = client[c].pw
            => client[c].pw # cred[client[c].account]

\* What the unlock view's comment says of the login it starts: it establishes an
\* authenticated session, unless offline or failed.  With the right password and
\* nothing in its way it is not refused.
UnlockLogsIn ==
    \A c \in Client :
        client[c].pc = "refused" /\ client[c].quiet => client[c].pw # cred[client[c].account]

\* No window lets more than the maximum through, however the increments, the edge
\* of the window and the sweep of old windows interleave.
AttemptsBounded == \A a \in Account, s \in Scope, w \in Windows : passed[a][s][w] <= LimitMax

\* A sweep, whose guards were evaluated before its deletes, takes the account from
\* nobody who has got past the limiter since: a registration finds its account when
\* it saves the record, and no credential, session or limiter row loses its account.
SweepSparesAttempts ==
    /\ \A r \in Request : req[r].pc = "save" => created[req[r].account] # NoRow
    /\ \A a \in Account : Referenced(a) => created[a] # NoRow

\* The state of a leg 1 finishes no login once its time is over, although the
\* handler saw it before it awaited the limiter.
FinishedInTime ==
    [][\A a \in Account, l \in Login : sessions'[a][l] > sessions[a][l] => now < pending[a].expiresAt]_vars
=============================================================================
