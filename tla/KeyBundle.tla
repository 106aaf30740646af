----------------------------- MODULE KeyBundle -----------------------------
(***************************************************************************)
(* One account's key bundle, from onboarding to publication: the tabs of   *)
(* one browser profile (web onboarding, unlock and extension-setup views,  *)
(* the account bundle in localStorage) and the server's /account/          *)
(* key-bundle routes with the transaction of publishKeyBundle.  Api stands *)
(* for other programs that hold a session of the account.  Registration    *)
(* and login are one step each here: LoginLegs has their legs.             *)
(***************************************************************************)
EXTENDS BundleCodec, FiniteSets

CONSTANTS
    Tab, Api, Password,
    Attempts,     \* the loop of publishKeyBundle (5)
    MaxVersion,   \* MAX_VERSION
    MaxSetups,    \* bounds the onboardings
    None

ASSUME BundleAssumption ==
    /\ Attempts \in Nat \ {0} /\ MaxVersion \in Nat \ {0} /\ MaxSetups \in Nat
    /\ Tab \cap Api = {}

Sender == Tab \cup Api
Version == 1 .. MaxVersion

\* The bytes of a bundle: the password it opens with, the keys it wraps (0: made by
\* another program) and what the codecs see of it.
Bytes == [pw : Password, keys : 0 .. MaxSetups, text : Text]
Stored == [version : Version, bytes : Bytes]

\* null is no value of the program's types.
ASSUME NoneAssumption == None \notin Stored /\ None \notin Bytes /\ None \notin Password

VARIABLES
    row,      \* key_bundles: None or [version, bytes]
    granted,  \* history: the <<version, bytes>> answered 204
    req,      \* sender -> its PUT in progress
    cred,     \* the password of the credential record
    local,    \* localStorage: the saved account bundle
    tab,      \* tab -> its page
    setups    \* key sets made so far

server == <<row, granted, req>>
vars == <<server, cred, local, tab, setups>>

Put == [pc : {"free", "select", "insert", "inserted", "update", "done"},
        version : Version, bytes : Bytes,
        attempt : 0 .. Attempts - 1,
        heard : BOOLEAN,   \* the sender still waits for the answer
        outcome : {"none", "ok", "conflict", "error"}]
Free == [pc |-> "free"]

Page == [view : {"closed", "form", "setup", "reveal", "unlock", "vault"},
         pw : Password \cup {None},      \* passwordRef
         bundle : Bytes \cup {None},     \* bundleRef, or the bundle the vault is open with
         token : BOOLEAN,                \* ctx.api has a session
         status : {"idle", "put", "wait", "verify", "published"},  \* "idle": errors and conflicts too
         mine : Bytes \cup {None}, attempted : 0 .. MaxVersion + 1]   \* of publish()
Closed == [view |-> "closed", pw |-> None, bundle |-> None, token |-> FALSE,
           status |-> "idle", mine |-> None, attempted |-> 0]
Publishing == {"put", "wait", "verify"}

\* publish() ended with a message.
Idle(t) == [tab[t] EXCEPT !.status = "idle", !.mine = None, !.attempted = 0]

TypeOK ==
    /\ row \in Stored \cup {None}
    /\ \A g \in granted : g[1] \in Version /\ g[2] \in Bytes
    /\ req \in [Sender -> Put \cup {Free}]
    /\ cred \in Password \cup {None}
    /\ local \in Bytes \cup {None}
    /\ tab \in [Tab -> Page]
    /\ setups \in 0 .. MaxSetups

Init ==
    /\ row = None /\ granted = {}
    /\ req = [s \in Sender |-> Free]
    /\ cred = None /\ local = None
    /\ tab = [t \in Tab |-> Closed]
    /\ setups = 0

-----------------------------------------------------------------------------
(* The server: PUT /account/key-bundle                                     *)

\* Fault: the column's bounds are left to the database.
AcceptedAnyVersion(v, b) ==
    /\ b.text.b64 \notin {"alphabet", "prefix"} /\ ServerDecodes(b.text)
    /\ ValidateAccountBundleBytes(b.text)
    /\ b.text.owner

\* The route's checks before publishKeyBundle; a refused request answers 400.
Accepted(v, b) ==
    /\ b.text.b64 \notin {"alphabet", "prefix"} /\ ServerDecodes(b.text)
    /\ v \in Version
    /\ ValidateAccountBundleBytes(b.text)
    /\ b.text.owner

Begin(s, v, b) ==
    req' = [req EXCEPT ![s] = [pc |-> "select", version |-> v, bytes |-> b, attempt |-> 0,
                               heard |-> s \in Tab, outcome |-> "none"]]

\* Fault: a conflict is not answered.
FinishQuietly(s, outcome) ==
    req' = [req EXCEPT ![s] = IF @.heard /\ outcome # "conflict" THEN [@ EXCEPT !.pc = "done", !.outcome = outcome] ELSE Free]

\* The answer of the route, or the error it throws.
Finish(s, outcome) ==
    req' = [req EXCEPT ![s] = IF @.heard THEN [@ EXCEPT !.pc = "done", !.outcome = outcome] ELSE Free]

Grant(s) == granted' = granted \cup {<<req[s].version, req[s].bytes>>}

\* Fault: SELECT without FOR UPDATE.
NoRowLock(s) == FALSE
\* SELECT ... FOR UPDATE found the row and its transaction is open.
HoldsRow(s) == req[s].pc = "update"
\* An INSERT whose transaction is open: a second one waits for its end.
HoldsKey(s) == req[s].pc = "inserted"

\* Fault: any newer version replaces.
Later(v) == v > row.version
\* attemptedVersion === existing.version + 1
Successor(v) == v = row.version + 1

\* BEGIN, SELECT ... FOR UPDATE, and what it decides.
SelectForUpdate(s) ==
    LET v == req[s].version
    IN  /\ req[s].pc = "select"
        /\ \A q \in Sender \ {s} : ~HoldsRow(q)
        /\ \/ row = None /\ v = 1
              /\ req' = [req EXCEPT ![s].pc = "insert"] /\ UNCHANGED granted
           \/ row = None /\ v # 1
              /\ Finish(s, "conflict") /\ UNCHANGED granted
           \/ row # None /\ row.version = v /\ row.bytes = req[s].bytes   \* idempotent
              /\ Finish(s, "ok") /\ Grant(s)
           \/ row # None /\ row.version = v /\ row.bytes # req[s].bytes
              /\ Finish(s, "conflict") /\ UNCHANGED granted
           \/ row # None /\ row.version # v /\ Successor(v)
              /\ req' = [req EXCEPT ![s].pc = "update"] /\ UNCHANGED granted
           \/ row # None /\ row.version # v /\ ~Successor(v)
              /\ Finish(s, "conflict") /\ UNCHANGED granted
        /\ UNCHANGED <<row, cred, local, tab, setups>>

\* Fault: the retry goes straight to the INSERT.
InsertAgain(s) ==
    /\ req[s].pc = "insert"
    /\ \A q \in Sender \ {s} : ~HoldsKey(q)
    /\ \/ row = None /\ req' = [req EXCEPT ![s].pc = "inserted"]
       \/ row # None /\ req[s].attempt + 1 < Attempts /\ req' = [req EXCEPT ![s].attempt = @ + 1]
       \/ row # None /\ req[s].attempt + 1 = Attempts /\ Finish(s, "error")
    /\ UNCHANGED <<row, granted, cred, local, tab, setups>>

\* INSERT: waits for an open one, then 23505 and another attempt if there is a row.
Insert(s) ==
    /\ req[s].pc = "insert"
    /\ \A q \in Sender \ {s} : ~HoldsKey(q)
    /\ \/ row = None /\ req' = [req EXCEPT ![s].pc = "inserted"]
       \/ row # None /\ req[s].attempt + 1 < Attempts
          /\ req' = [req EXCEPT ![s].pc = "select", ![s].attempt = @ + 1]
       \/ row # None /\ req[s].attempt + 1 = Attempts /\ Finish(s, "error")
    /\ UNCHANGED <<row, granted, cred, local, tab, setups>>

\* COMMIT of the INSERT or of the UPDATE.
Commit(s) ==
    /\ req[s].pc \in {"inserted", "update"}
    /\ row' = [version |-> req[s].version, bytes |-> req[s].bytes]
    /\ Finish(s, "ok") /\ Grant(s)
    /\ UNCHANGED <<cred, local, tab, setups>>

\* The connection breaks: the transaction is rolled back, or its COMMIT was done
\* and nobody learns of it.
Fail(s) ==
    /\ req[s].pc \notin {"free", "done"}
    /\ \/ UNCHANGED row
       \/ req[s].pc \in {"inserted", "update"} /\ row' = [version |-> req[s].version, bytes |-> req[s].bytes]
    /\ Finish(s, "error")
    /\ UNCHANGED <<granted, cred, local, tab, setups>>

\* Another program's PUT, any version and any text; nothing follows from its answer.
ApiPut(s, v, p, text) ==
    LET b == [pw |-> p, keys |-> 0, text |-> text]
    IN  /\ s \in Api
        /\ req[s].pc = "free"
        /\ Accepted(v, b)
        /\ Begin(s, v, b)
        /\ UNCHANGED <<row, granted, cred, local, tab, setups>>

-----------------------------------------------------------------------------
(* The tabs                                                                *)

\* saveAccountBundle replaces what was saved for the account.
SaveAccountBundle(b) == local' = b

\* The unlock view mounts and reads the saved bundle (loadAccountBundle).
UnlockView(t) == [tab[t] EXCEPT !.view = "unlock", !.bundle = local]

\* App: the first view is unlock when a bundle is saved, else onboarding.
Open(t) ==
    /\ tab[t].view = "closed"
    /\ tab' = [tab EXCEPT ![t] = IF local = None THEN [@ EXCEPT !.view = "form"] ELSE UnlockView(t)]
    /\ UNCHANGED <<server, cred, local, setups>>

\* The page is closed or reloaded: its memory is gone, requests on their way are not.
Close(t) ==
    /\ tab[t].view # "closed"
    /\ tab' = [tab EXCEPT ![t] = Closed]
    /\ req' = [req EXCEPT ![t] = IF @.pc \in {"free", "done"} THEN Free ELSE [@ EXCEPT !.heard = FALSE]]
    /\ UNCHANGED <<row, granted, cred, local, setups>>

\* handleFormSubmit up to and with auth.register: the first record stays, and nobody
\* is told of it.  The answer may be lost, and then the form is shown again.
Register(t, p) ==
    /\ tab[t].view = "form"
    /\ cred' = IF cred = None THEN p ELSE cred
    /\ \/ tab' = [tab EXCEPT ![t].view = "setup", ![t].pw = p]
       \/ UNCHANGED tab
    /\ UNCHANGED <<server, local, setups>>

\* createAccountSetup: new keys, wrapped under the password of this form.
CreateAccountSetup(t) ==
    /\ tab[t].view = "setup"
    /\ setups < MaxSetups
    /\ setups' = setups + 1
    /\ tab' = [tab EXCEPT ![t].view = "reveal",
                          ![t].bundle = [pw |-> tab[t].pw, keys |-> setups + 1, text |-> Built]]
    /\ UNCHANGED <<server, cred, local>>

\* handleConfirmSubmit with the right recovery key: saveAccountBundle, and on to the
\* vault, opened with the password of the form.
ConfirmRecovery(t) ==
    /\ tab[t].view = "reveal"
    /\ SaveAccountBundle(tab[t].bundle)
    /\ tab' = [tab EXCEPT ![t].view = "vault", ![t].pw = None]
    /\ UNCHANGED <<server, cred, setups>>

\* The unlock view with the right password, and the bundle it read when it mounted.
Unlock(t) ==
    /\ tab[t].view = "unlock"
    /\ tab' = [tab EXCEPT ![t].view = "vault"]
    /\ UNCHANGED <<server, cred, local, setups>>

\* The lock button, or the inactivity timer: the unlock view mounts again.
Lock(t) ==
    /\ tab[t].view = "vault"
    /\ tab' = [tab EXCEPT ![t] = UnlockView(t)]
    /\ UNCHANGED <<server, cred, local, setups>>

\* A login the devices or export view awaits, with the password of the open vault.
Login(t) ==
    /\ tab[t].view = "vault"
    /\ tab[t].bundle.pw = cred
    /\ tab' = [tab EXCEPT ![t].token = TRUE]
    /\ UNCHANGED <<server, cred, local, setups>>

\* The version GET /account/key-bundle answers, 0 for its 404.
Existing == IF row = None THEN 0 ELSE row.version

\* publish() up to its first getKeyBundle, which throws without a session; the
\* button is disabled while one is under way.  A view that is left and entered again
\* has a fresh status and may publish beside the first: it counts as another tab.
StartPublish(t) ==
    /\ tab[t].view = "vault"
    /\ tab[t].status \notin Publishing
    /\ tab' = [tab EXCEPT ![t] =
         IF tab[t].token
         THEN [@ EXCEPT !.status = "put", !.mine = tab[t].bundle, !.attempted = Existing + 1]
         ELSE Idle(t)]
    /\ UNCHANGED <<server, cred, local, setups>>

\* putKeyBundle; a 400 throws.
PutKeyBundle(t) ==
    /\ tab[t].status = "put"
    /\ req[t].pc = "free"
    /\ IF Accepted(tab[t].attempted, tab[t].mine)
       THEN /\ Begin(t, tab[t].attempted, tab[t].mine)
            /\ tab' = [tab EXCEPT ![t].status = "wait"]
       ELSE UNCHANGED req /\ tab' = [tab EXCEPT ![t] = Idle(t)]
    /\ UNCHANGED <<row, granted, cred, local, setups>>

\* The answer of the PUT.
Answered(t) ==
    /\ tab[t].status = "wait"
    /\ req[t].pc = "done"
    /\ req' = [req EXCEPT ![t] = Free]
    /\ tab' = [tab EXCEPT ![t] =
         IF req[t].outcome = "ok" THEN [@ EXCEPT !.status = "verify"] ELSE Idle(t)]
    /\ UNCHANGED <<row, granted, cred, local, setups>>

\* The second getKeyBundle, compared with what was sent.
Verify(t) ==
    /\ tab[t].status = "verify"
    /\ tab' = [tab EXCEPT ![t] =
         IF row # None /\ row.bytes = tab[t].mine /\ row.version = tab[t].attempted
         THEN [@ EXCEPT !.status = "published"] ELSE Idle(t)]
    /\ UNCHANGED <<server, cred, local, setups>>

\* A request of publish() fails on its way, or its answer does.
NetworkError(t) ==
    /\ tab[t].status \in Publishing
    /\ tab' = [tab EXCEPT ![t] = Idle(t)]
    /\ req' = [req EXCEPT ![t] = IF @.pc \in {"free", "done"} THEN Free ELSE [@ EXCEPT !.heard = FALSE]]
    /\ UNCHANGED <<row, granted, cred, local, setups>>

-----------------------------------------------------------------------------
Serve(s) == SelectForUpdate(s) \/ Insert(s) \/ Commit(s)
Publish(t) == PutKeyBundle(t) \/ Answered(t) \/ Verify(t)
Onboard(t) ==
    \/ \E p \in Password : Register(t, p)
    \/ CreateAccountSetup(t) \/ ConfirmRecovery(t)

Next ==
    \/ \E s \in Sender : Serve(s) \/ Fail(s)
    \/ \E s \in Api, v \in 0 .. MaxVersion + 1, p \in Password, text \in Text : ApiPut(s, v, p, text)
    \/ \E t \in Tab : \/ Open(t) \/ Close(t) \/ Onboard(t) \/ Unlock(t) \/ Lock(t) \/ Login(t)
                      \/ StartPublish(t) \/ Publish(t) \/ NetworkError(t)

Spec == Init /\ [][Next]_vars

\* The database queues the waiters of a lock and goes on with every statement, an open
\* page goes on with its await.
FairSpec == Spec /\ (\A s \in Sender : SF_vars(Serve(s))) /\ (\A t \in Tab : WF_vars(Publish(t)))
-----------------------------------------------------------------------------
(* Properties                                                              *)

\* No version of the bundle is acknowledged with two contents, whatever first
\* publications, replacements, replays and broken connections interleave.
OneBundlePerVersion == \A g, h \in granted : g[1] = h[1] => g[2] = h[2]

\* The loop of publishKeyBundle is long enough: a lost race for the first row leaves
\* a row behind, so the second attempt is the last.
RaceLostOnce == \A s \in Sender : req[s].pc # "free" => req[s].attempt <= 1

\* What the server stores the extension can parse: the two codecs, written apart,
\* agree on every text one change away from a built one.
StoredParses == row # None => ParseAccountBundle(Served(row.bytes.text))

\* The endpoint is the register it promises to be.
Promise == INSTANCE BundleRegister WITH reg <- row
ImplementsRegister == Promise!Spec

\* The publish button comes back: the row lock, the wait for another INSERT and the
\* retries always let a publication end.
PublishEnds == \A t \in Tab : (tab[t].status \in Publishing) ~> (tab[t].status \notin Publishing)

\* What the extension-setup view's header says of itself: it never overwrites a
\* conflicting remote bundle.
NeverOverwrites ==
    [][\A t \in Tab : (req[t].pc = "update" /\ row' # row) => row'.bytes = row.bytes]_vars
=============================================================================
