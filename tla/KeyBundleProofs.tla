-------------------------- MODULE KeyBundleProofs --------------------------
(***************************************************************************)
(* Proofs about KeyBundle for every set of tabs and other programs, every  *)
(* number of attempts and every largest version.                           *)
(***************************************************************************)
EXTENDS KeyBundle, TLAPS

\* What the views hold when they need it: a password to wrap keys under, a
\* bundle to show, to open or to publish.
PagesReady ==
    \A t \in Tab :
        /\ tab[t].view = "setup" => tab[t].pw \in Password
        /\ tab[t].view \in {"reveal", "unlock", "vault"} => tab[t].bundle \in Bytes
        /\ tab[t].view \in {"unlock", "vault"} => local \in Bytes
        /\ tab[t].status = "put" => tab[t].mine \in Bytes

\* A transaction that holds the row is about to write its successor.
UpdateFollows ==
    /\ \A s \in Sender : HoldsRow(s) => row # None /\ req[s].version = row.version + 1
    /\ \A s, q \in Sender : HoldsRow(s) /\ HoldsRow(q) => s = q

\* A transaction on its way to the first row writes version one; the one that
\* has inserted it is alone and nothing is committed.
FirstInsert ==
    /\ \A s \in Sender : req[s].pc \in {"insert", "inserted"} => req[s].version = 1
    /\ \A s \in Sender : HoldsKey(s) => row = None
    /\ \A s, q \in Sender : HoldsKey(s) /\ HoldsKey(q) => s = q

\* A retry means that the race for the first row was lost to a committed one.
RetryFindsRow ==
    \A s \in Sender : req[s].pc # "free" =>
        /\ req[s].attempt <= 1
        /\ req[s].attempt = 1 => row # None
        /\ req[s].pc \in {"insert", "inserted"} => req[s].attempt = 0

\* What is stored, or on its way, has passed validateAccountBundleBytes.
Validated ==
    /\ row # None => ValidateAccountBundleBytes(row.bytes.text)
    /\ \A s \in Sender : req[s].pc # "free" => ValidateAccountBundleBytes(req[s].bytes.text)

\* Everything acknowledged is at or below the stored version, and the
\* acknowledgement of the stored version is of the stored bytes.
GrantedStored ==
    \A g \in granted :
        /\ row # None /\ g[1] <= row.version
        /\ g[1] = row.version => g[2] = row.bytes

IInv == /\ TypeOK /\ PagesReady /\ UpdateFollows /\ FirstInsert /\ RetryFindsRow
        /\ Validated /\ GrantedStored /\ OneBundlePerVersion

-----------------------------------------------------------------------------
(* The codecs.                                                             *)

\* The texts the model sends are wire values.
LEMMA TextType == Text \subseteq Wire /\ Built \in Text
<1>1. Built \in Wire
    BY DEF Built, Wire, Field, B64, Length, MaxBytes
<1>2. \A x \in B64 : [Built EXCEPT !.b64 = x] \in Wire
    BY <1>1 DEF Wire
<1>3. \A n \in Length : [Built EXCEPT !.length = n] \in Wire
    BY <1>1 DEF Wire
<1>4. /\ [Built EXCEPT !.utf8 = FALSE] \in Wire /\ [Built EXCEPT !.strings = FALSE] \in Wire
      /\ [Built EXCEPT !.format = FALSE] \in Wire /\ [Built EXCEPT !.ids = FALSE] \in Wire
      /\ [Built EXCEPT !.owner = FALSE] \in Wire /\ [Built EXCEPT !.fixed = FALSE] \in Wire
    BY <1>1 DEF Wire
<1>5. /\ [Built EXCEPT !.json = "array"] \in Wire /\ [Built EXCEPT !.json = "syntax"] \in Wire
      /\ [Built EXCEPT !.keys = "missing"] \in Wire /\ [Built EXCEPT !.keys = "extra"] \in Wire
    BY <1>1 DEF Wire
<1>6. Built.kdf \in Field /\ Built.wrapper \in Field
    BY <1>1 DEF Wire
<1>7. \A n \in Length : [Built EXCEPT !.kdf.length = n] \in Wire
    BY <1>1, <1>6 DEF Wire, Field
<1>8. \A x \in B64 : [Built EXCEPT !.wrapper.b64 = x] \in Wire
    BY <1>1, <1>6 DEF Wire, Field
<1>9. Built \in Text
  <2>1. Built = [Built EXCEPT !.b64 = "padded"]
      BY DEF Built
  <2> QED BY <2>1 DEF Text, B64
<1>10. ASSUME NEW t \in Text PROVE t \in Wire
  <2>1. \/ \E x \in B64 : t = [Built EXCEPT !.b64 = x]
        \/ \E n \in Length : t = [Built EXCEPT !.length = n]
        \/ t \in {[Built EXCEPT !.utf8 = FALSE], [Built EXCEPT !.strings = FALSE],
                  [Built EXCEPT !.format = FALSE], [Built EXCEPT !.ids = FALSE],
                  [Built EXCEPT !.owner = FALSE], [Built EXCEPT !.fixed = FALSE],
                  [Built EXCEPT !.json = "array"], [Built EXCEPT !.json = "syntax"],
                  [Built EXCEPT !.keys = "missing"], [Built EXCEPT !.keys = "extra"]}
        \/ \E n \in Length : t = [Built EXCEPT !.kdf.length = n]
        \/ \E x \in B64 : t = [Built EXCEPT !.wrapper.b64 = x]
      BY Zenon DEF Text
  <2> QED BY <1>2, <1>3, <1>4, <1>5, <1>7, <1>8, <2>1, Zenon
<1> QED BY <1>9, <1>10

\* The two codecs agree, on every wire value: what validateAccountBundleBytes
\* of the server lets in, parseAccountBundle of the SDK reads back from what
\* GET serves, although one refuses and the other takes a text without padding.
THEOREM CodecsAgree ==
    ASSUME NEW t \in Wire, ValidateAccountBundleBytes(t)
    PROVE  ParseAccountBundle(Served(t))
<1>1. /\ Served(t).b64 = "padded" /\ Served(t).length = t.length /\ Served(t).utf8 = t.utf8
      /\ Served(t).json = t.json /\ Served(t).keys = t.keys /\ Served(t).strings = t.strings
      /\ Served(t).format = t.format /\ Served(t).ids = t.ids
      /\ Served(t).kdf = t.kdf /\ Served(t).wrapper = t.wrapper /\ Served(t).fixed = t.fixed
    BY DEF Served, Wire
<1>2. InRange(t.length) /\ FieldsValid(t) /\ t.fixed /\ t.utf8
    BY DEF ValidateAccountBundleBytes, Reproduced
<1>3. \A f \in {t.kdf, t.wrapper} : B64Pattern(f) /\ ClientDecodes(f) /\ InRange(f.length)
    BY DEF ValidateAccountBundleBytes, ServerDecodes, ClientDecodes
<1>4. B64Pattern(Served(t)) /\ ClientDecodes(Served(t))
    BY <1>1, <1>2 DEF B64Pattern, ClientDecodes, InRange, MaxBytes
<1> QED BY <1>1, <1>2, <1>3, <1>4 DEF ParseAccountBundle, FieldsValid

\* buildAccountBundle checks nothing of its fields.  What it makes of them, the server
\* accepts, at every version in range, exactly when the fields fit the codec's limits
\* and the account is the session's; and then, whoever's it is, the SDK parses it.
THEOREM BuiltAccepted ==
    ASSUME NEW v \in Version, NEW b, b.text \in Builds
    PROVE  /\ Accepted(v, b) <=> Fits(b.text) /\ b.text.owner
           /\ ParseAccountBundle(b.text) <=> Fits(b.text)
<1> DEFINE t == b.text
<1>1. /\ t \in Wire /\ t.b64 = "padded" /\ t.utf8 /\ t.json = "object" /\ t.keys = "exact"
      /\ t.strings /\ t.format /\ t.fixed /\ t.kdf.b64 = "padded" /\ t.wrapper.b64 = "padded"
      /\ t.length > 0 /\ (Fits(t) => InRange(t.length))
    BY DEF Builds
<1>2. t.length \in Nat /\ t.kdf.length \in Nat /\ t.wrapper.length \in Nat
    BY <1>1 DEF Wire, Field, Length, MaxBytes
<1> HIDE DEF t
<1>3. FieldsValid(t) <=> t.ids
    BY <1>1 DEF FieldsValid
<1>4. \A f \in {t.kdf, t.wrapper} : InRange(f.length) => B64Pattern(f) /\ ServerDecodes(f) /\ ClientDecodes(f)
    BY <1>1, <1>2 DEF B64Pattern, ServerDecodes, ClientDecodes, InRange, MaxBytes
<1>5. ValidateAccountBundleBytes(t) <=> Fits(t)
    BY <1>1, <1>3, <1>4 DEF ValidateAccountBundleBytes, Fits, Reproduced
<1>6. ParseAccountBundle(t) <=> Fits(t)
    BY <1>1, <1>2, <1>3, <1>4 DEF ParseAccountBundle, Fits, B64Pattern, ClientDecodes
<1>7. Accepted(v, b) <=> Fits(t) /\ t.owner
    BY <1>1, <1>2, <1>5 DEF Accepted, ServerDecodes, B64Pattern, t
<1> QED BY <1>6, <1>7 DEF t

-----------------------------------------------------------------------------
(* Type correctness.                                                       *)

TypeK == TypeOK /\ PagesReady

\* What a step may leave of a request: all but its place and its listener, or
\* its answer alone.
Kept(s) ==
    /\ req[s].pc # "free" /\ req'[s] \in Put
    /\ req'[s].version = req[s].version /\ req'[s].bytes = req[s].bytes
    /\ req'[s].attempt = req[s].attempt
Ended(s) == req'[s] = Free \/ (Kept(s) /\ req'[s].pc = "done")
OnlyRequest(s) ==
    /\ req' \in [Sender -> Put \cup {Free}]
    /\ \A q \in Sender \ {s} : req'[q] = req[q]

\* A request that is under way has all its fields.
LEMMA UnderWay ==
    ASSUME TypeOK, NEW s \in Sender, req[s].pc # "free"
    PROVE  /\ req[s] \in Put
           /\ req[s].version \in Version /\ req[s].bytes \in Bytes
           /\ req[s].attempt \in 0 .. Attempts - 1 /\ req[s].attempt \in Nat
           /\ req[s].heard \in BOOLEAN
<1>1. req[s] \in Put
    BY DEF TypeOK, Free
<1> QED BY <1>1, BundleAssumption DEF Put

\* The answer, or the error, of a request leaves it done or free.
LEMMA FinishType ==
    ASSUME TypeOK, NEW s \in Sender, req[s].pc # "free",
           NEW o \in {"ok", "conflict", "error"}, Finish(s, o)
    PROVE  OnlyRequest(s) /\ Ended(s)
<1> DEFINE x == [req[s] EXCEPT !.pc = "done", !.outcome = o]
<1>1. req[s] \in Put
    BY UnderWay
<1>2. /\ x \in Put /\ x.pc = "done" /\ x.version = req[s].version
      /\ x.bytes = req[s].bytes /\ x.attempt = req[s].attempt
    BY <1>1 DEF Put
<1>3. req' = [req EXCEPT ![s] = IF req[s].heard THEN x ELSE Free]
    BY DEF Finish
<1> HIDE DEF x
<1> QED BY <1>2, <1>3 DEF TypeOK, OnlyRequest, Ended, Kept

\* The sender gives up: the request goes on unheard.
LEMMA GiveUpType ==
    ASSUME TypeOK, NEW s \in Sender,
           req' = [req EXCEPT ![s] = IF @.pc \in {"free", "done"} THEN Free
                                     ELSE [@ EXCEPT !.heard = FALSE]]
    PROVE  OnlyRequest(s) /\ (Ended(s) \/ (Kept(s) /\ req'[s].pc = req[s].pc))
<1> DEFINE x == [req[s] EXCEPT !.heard = FALSE]
<1>1. req[s].pc # "free" => /\ x \in Put /\ x.pc = req[s].pc /\ x.version = req[s].version
                            /\ x.bytes = req[s].bytes /\ x.attempt = req[s].attempt
  <2>1. SUFFICES ASSUME req[s].pc # "free" PROVE req[s] \in Put
      BY DEF Put
  <2> QED BY <2>1, UnderWay
<1>2. req' = [req EXCEPT ![s] = IF req[s].pc \in {"free", "done"} THEN Free ELSE x]
    OBVIOUS
<1> HIDE DEF x
<1> QED BY <1>1, <1>2 DEF TypeOK, OnlyRequest, Ended, Kept

\* A new request.
LEMMA BeginType ==
    ASSUME TypeOK, NEW s \in Sender, NEW v \in Version, NEW b \in Bytes, Begin(s, v, b)
    PROVE  /\ OnlyRequest(s)
           /\ req'[s].pc = "select" /\ req'[s].attempt = 0 /\ req'[s].bytes = b
<1> DEFINE x == [pc |-> "select", version |-> v, bytes |-> b, attempt |-> 0,
                 heard |-> s \in Tab, outcome |-> "none"]
<1>1. x \in Put /\ x.pc = "select" /\ x.attempt = 0 /\ x.bytes = b
    BY BundleAssumption DEF Put
<1>2. req' = [req EXCEPT ![s] = x]
    BY DEF Begin
<1> HIDE DEF x
<1> QED BY <1>1, <1>2 DEF TypeOK, OnlyRequest, Ended, Kept

\* One statement further.
LEMMA MoveType ==
    ASSUME TypeOK, NEW s \in Sender, req[s].pc # "free",
           NEW p \in {"select", "insert", "inserted", "update"},
           req' = [req EXCEPT ![s].pc = p]
    PROVE  OnlyRequest(s) /\ Kept(s) /\ req'[s].pc = p
<1> DEFINE x == [req[s] EXCEPT !.pc = p]
<1>1. req[s] \in Put
    BY UnderWay
<1>2. x \in Put /\ x.pc = p /\ x.version = req[s].version /\ x.bytes = req[s].bytes
      /\ x.attempt = req[s].attempt
    BY <1>1 DEF Put
<1>3. req' = [req EXCEPT ![s] = x]
    OBVIOUS
<1> HIDE DEF x
<1> QED BY <1>2, <1>3 DEF TypeOK, OnlyRequest, Kept

\* Back to the SELECT for another attempt.
LEMMA RetryType ==
    ASSUME TypeOK, NEW s \in Sender, req[s].pc # "free", req[s].attempt + 1 < Attempts,
           req' = [req EXCEPT ![s].pc = "select", ![s].attempt = @ + 1]
    PROVE  /\ OnlyRequest(s) /\ req'[s] \in Put /\ req'[s].pc = "select"
           /\ req'[s].version = req[s].version /\ req'[s].bytes = req[s].bytes
           /\ req'[s].attempt = req[s].attempt + 1
<1> DEFINE x == [req[s] EXCEPT !.pc = "select", !.attempt = @ + 1]
<1>1. req[s] \in Put /\ req[s].attempt + 1 \in 0 .. Attempts - 1
    BY UnderWay, BundleAssumption
<1>2. x \in Put /\ x.pc = "select" /\ x.version = req[s].version /\ x.bytes = req[s].bytes
      /\ x.attempt = req[s].attempt + 1
    BY <1>1 DEF Put
<1>3. req' = [req EXCEPT ![s] = x]
    BY DEF TypeOK
<1> HIDE DEF x
<1> QED BY <1>2, <1>3 DEF TypeOK, OnlyRequest

\* What SELECT ... FOR UPDATE may do to the request.
LEMMA SelectMoves ==
    ASSUME TypeOK, NEW s \in Sender, SelectForUpdate(s)
    PROVE  /\ OnlyRequest(s)
           /\ \/ Ended(s) /\ UNCHANGED granted
              \/ Ended(s) /\ row # None /\ row.version = req[s].version
                   /\ row.bytes = req[s].bytes /\ Grant(s)
              \/ Kept(s) /\ req'[s].pc = "insert" /\ row = None /\ req[s].version = 1
                   /\ UNCHANGED granted
              \/ Kept(s) /\ req'[s].pc = "update" /\ row # None
                   /\ req[s].version = row.version + 1 /\ UNCHANGED granted
<1>1. req[s].pc = "select"
    BY DEF SelectForUpdate
<1>2. /\ Finish(s, "conflict") => OnlyRequest(s) /\ Ended(s)
      /\ Finish(s, "ok") => OnlyRequest(s) /\ Ended(s)
    BY <1>1, FinishType
<1>3. req' = [req EXCEPT ![s].pc = "insert"] => OnlyRequest(s) /\ Kept(s) /\ req'[s].pc = "insert"
    BY <1>1, MoveType
<1>4. req' = [req EXCEPT ![s].pc = "update"] => OnlyRequest(s) /\ Kept(s) /\ req'[s].pc = "update"
    BY <1>1, MoveType
<1> QED BY <1>2, <1>3, <1>4 DEF SelectForUpdate, Successor

\* What the INSERT may do to the request.
LEMMA InsertMoves ==
    ASSUME TypeOK, NEW s \in Sender, Insert(s)
    PROVE  /\ OnlyRequest(s)
           /\ \/ Ended(s)
              \/ Kept(s) /\ req'[s].pc = "inserted" /\ row = None
              \/ /\ row # None /\ req'[s] \in Put /\ req'[s].pc = "select"
                 /\ req'[s].version = req[s].version /\ req'[s].bytes = req[s].bytes
                 /\ req'[s].attempt = req[s].attempt + 1
<1>1. req[s].pc = "insert"
    BY DEF Insert
<1>2. Finish(s, "error") => OnlyRequest(s) /\ Ended(s)
    BY <1>1, FinishType
<1>3. req' = [req EXCEPT ![s].pc = "inserted"] => OnlyRequest(s) /\ Kept(s) /\ req'[s].pc = "inserted"
    BY <1>1, MoveType
<1> QED BY <1>1, <1>2, <1>3, RetryType DEF Insert

\* The request of a sender that is committed.
LEMMA CommitType ==
    ASSUME TypeOK, NEW s \in Sender, req[s].pc # "free"
    PROVE  /\ [version |-> req[s].version, bytes |-> req[s].bytes] \in Stored
           /\ [version |-> req[s].version, bytes |-> req[s].bytes] # None
BY UnderWay, NoneAssumption DEF Stored

\* Every tab has a page.
LEMMA TabType == ASSUME TypeOK, NEW t \in Tab PROVE tab[t] \in Page
BY DEF TypeOK

\* The pages the operations put back.
LEMMA PageType ==
    ASSUME TypeOK, NEW t \in Tab
    PROVE  /\ tab[t] \in Page /\ Closed \in Page /\ Idle(t) \in Page
           /\ Idle(t).view = tab[t].view /\ Idle(t).pw = tab[t].pw
           /\ Idle(t).bundle = tab[t].bundle /\ Idle(t).status = "idle"
           /\ UnlockView(t) \in Page /\ UnlockView(t).view = "unlock"
           /\ UnlockView(t).bundle = local /\ UnlockView(t).status = tab[t].status
           /\ UnlockView(t).mine = tab[t].mine
<1>1. tab[t] \in Page /\ local \in Bytes \cup {None} /\ 0 \in 0 .. MaxVersion + 1
    BY BundleAssumption DEF TypeOK
<1>2. Closed \in Page
    BY <1>1 DEF Closed, Page
<1>3. Idle(t) \in Page /\ Idle(t).status = "idle"
    BY <1>1 DEF Idle, Page
<1>4. Idle(t).view = tab[t].view /\ Idle(t).pw = tab[t].pw /\ Idle(t).bundle = tab[t].bundle
    BY <1>1 DEF Idle, Page
<1>5. UnlockView(t) \in Page /\ UnlockView(t).view = "unlock"
    BY <1>1 DEF UnlockView, Page
<1>6. UnlockView(t).bundle = local /\ UnlockView(t).status = tab[t].status
      /\ UnlockView(t).mine = tab[t].mine
    BY <1>1 DEF UnlockView, Page
<1> QED BY <1>1, <1>2, <1>3, <1>4, <1>5, <1>6

\* The initial state is well typed.
LEMMA InitType == Init => TypeK
BY BundleAssumption DEF Init, TypeK, TypeOK, PagesReady, Sender, Closed, Page, Free

\* A step leaves the state well typed and the views with what they need.
LEMMA TypeStep == TypeK /\ [Next]_vars => TypeK'
<1> SUFFICES ASSUME TypeOK, PagesReady, [Next]_vars PROVE TypeOK' /\ PagesReady'
    BY DEF TypeK
<1>1. CASE UNCHANGED vars
    BY <1>1 DEF TypeOK, PagesReady, vars, server
<1>2. ASSUME NEW s \in Sender, SelectForUpdate(s) \/ Insert(s)
      PROVE  TypeOK' /\ PagesReady'
  <2>1. OnlyRequest(s)
      BY <1>2, SelectMoves, InsertMoves
  <2>2. UNCHANGED <<row, cred, local, tab, setups>>
      BY <1>2 DEF SelectForUpdate, Insert
  <2>3. \A g \in granted' : g[1] \in Version /\ g[2] \in Bytes
    <3>1. CASE SelectForUpdate(s)
      <4>1. UNCHANGED granted \/ (req[s].pc # "free" /\ Grant(s))
          BY <3>1 DEF SelectForUpdate
      <4> QED BY <4>1, UnderWay DEF Grant, TypeOK
    <3>2. CASE Insert(s)
        BY <3>2 DEF Insert, TypeOK
    <3> QED BY <1>2, <3>1, <3>2
  <2> QED BY <2>1, <2>2, <2>3 DEF TypeOK, PagesReady, OnlyRequest
<1>3. ASSUME NEW s \in Sender, Commit(s) \/ Fail(s)
      PROVE  TypeOK' /\ PagesReady'
  <2>1. /\ req[s].pc # "free" /\ UNCHANGED <<cred, local, tab, setups>>
        /\ Finish(s, "ok") \/ Finish(s, "error")
        /\ UNCHANGED row \/ row' = [version |-> req[s].version, bytes |-> req[s].bytes]
        /\ UNCHANGED granted \/ Grant(s)
      BY <1>3 DEF Commit, Fail
  <2>2. OnlyRequest(s)
      BY <2>1, FinishType
  <2>3. row' \in Stored \cup {None}
      BY <2>1, CommitType DEF TypeOK
  <2>4. \A g \in granted' : g[1] \in Version /\ g[2] \in Bytes
      BY <2>1, UnderWay DEF Grant, TypeOK
  <2> QED BY <2>1, <2>2, <2>3, <2>4 DEF TypeOK, PagesReady, OnlyRequest
<1>4. ASSUME NEW s \in Api, NEW v \in 0 .. MaxVersion + 1, NEW p \in Password, NEW text \in Text,
             ApiPut(s, v, p, text)
      PROVE  TypeOK' /\ PagesReady'
  <2>1. s \in Sender /\ v \in Version /\ [pw |-> p, keys |-> 0, text |-> text] \in Bytes
      BY <1>4, BundleAssumption DEF ApiPut, Accepted, Sender, Bytes
  <2>2. OnlyRequest(s)
      BY <1>4, <2>1, BeginType DEF ApiPut
  <2> QED BY <1>4, <2>2 DEF ApiPut, TypeOK, PagesReady, OnlyRequest
<1>5. ASSUME NEW t \in Tab, Open(t) \/ Lock(t) \/ Unlock(t) \/ Login(t)
      PROVE  TypeOK' /\ PagesReady'
  <2> DEFINE form == [tab[t] EXCEPT !.view = "form"]
             vault == [tab[t] EXCEPT !.view = "vault"]
             open == [tab[t] EXCEPT !.token = TRUE]
  <2>1. /\ form \in Page /\ form.view = "form" /\ form.status = tab[t].status
        /\ form.mine = tab[t].mine
      BY TabType DEF Page
  <2>a. /\ vault \in Page /\ vault.view = "vault" /\ vault.status = tab[t].status
        /\ vault.mine = tab[t].mine /\ vault.bundle = tab[t].bundle
      BY TabType DEF Page
  <2>b. /\ open \in Page /\ open.view = tab[t].view /\ open.status = tab[t].status
        /\ open.mine = tab[t].mine /\ open.bundle = tab[t].bundle /\ open.pw = tab[t].pw
      BY TabType DEF Page
  <2>2. /\ UNCHANGED <<server, cred, local, setups>>
        /\ \/ tab' = [tab EXCEPT ![t] = form]
           \/ tab' = [tab EXCEPT ![t] = UnlockView(t)] /\ local \in Bytes
           \/ tab' = [tab EXCEPT ![t] = vault] /\ tab[t].view = "unlock"
           \/ tab' = [tab EXCEPT ![t] = open] /\ tab[t].view = "vault"
      BY <1>5 DEF Open, Lock, Unlock, Login, TypeOK, PagesReady
  <2> HIDE DEF form, vault, open
  <2>3. TypeOK'
      BY <2>1, <2>a, <2>b, <2>2, PageType DEF TypeOK, server
  <2>4. PagesReady'
      BY <2>1, <2>a, <2>b, <2>2, PageType DEF PagesReady, TypeOK
  <2> QED BY <2>3, <2>4
<1>6. ASSUME NEW t \in Tab, Close(t) \/ NetworkError(t)
      PROVE  TypeOK' /\ PagesReady'
  <2>1. t \in Sender
      BY DEF Sender
  <2>2. OnlyRequest(t)
      BY <1>6, <2>1, GiveUpType DEF Close, NetworkError
  <2>3. /\ UNCHANGED <<row, granted, cred, local, setups>>
        /\ tab' = [tab EXCEPT ![t] = Closed] \/ tab' = [tab EXCEPT ![t] = Idle(t)]
      BY <1>6 DEF Close, NetworkError
  <2>4. Closed.view = "closed" /\ Closed.status = "idle"
      BY DEF Closed
  <2> QED BY <2>2, <2>3, <2>4, PageType DEF TypeOK, PagesReady, OnlyRequest
<1>7. ASSUME NEW t \in Tab, NEW p \in Password, Register(t, p)
      PROVE  TypeOK' /\ PagesReady'
  <2> DEFINE x == [tab[t] EXCEPT !.view = "setup", !.pw = p]
  <2>1. /\ x \in Page /\ x.view = "setup" /\ x.pw = p /\ x.status = tab[t].status
        /\ x.mine = tab[t].mine
      BY TabType DEF Page
  <2>2. /\ UNCHANGED <<server, local, setups>> /\ cred' \in Password \cup {None}
        /\ tab' = [tab EXCEPT ![t] = x] \/ UNCHANGED tab
      BY <1>7 DEF Register, TypeOK
  <2> HIDE DEF x
  <2> QED BY <2>1, <2>2 DEF TypeOK, PagesReady, server
<1>8. ASSUME NEW t \in Tab, CreateAccountSetup(t)
      PROVE  TypeOK' /\ PagesReady'
  <2> DEFINE b == [pw |-> tab[t].pw, keys |-> setups + 1, text |-> Built]
             x == [tab[t] EXCEPT !.view = "reveal", !.bundle = b]
  <2>1. setups + 1 \in 0 .. MaxSetups
      BY <1>8, BundleAssumption DEF CreateAccountSetup, TypeOK
  <2>2. b \in Bytes
      BY <1>8, <2>1, TextType DEF CreateAccountSetup, PagesReady, Bytes
  <2>3. /\ UNCHANGED <<server, cred, local>> /\ setups' = setups + 1
        /\ tab' = [tab EXCEPT ![t] = x]
      BY <1>8 DEF CreateAccountSetup, TypeOK
  <2> HIDE DEF b
  <2>4. /\ x \in Page /\ x.view = "reveal" /\ x.bundle = b /\ x.status = tab[t].status
        /\ x.mine = tab[t].mine
      BY <2>2, TabType DEF Page
  <2> HIDE DEF x
  <2> QED BY <2>1, <2>2, <2>3, <2>4 DEF TypeOK, PagesReady, server
<1>9. ASSUME NEW t \in Tab, ConfirmRecovery(t)
      PROVE  TypeOK' /\ PagesReady'
  <2> DEFINE x == [tab[t] EXCEPT !.view = "vault", !.pw = None]
  <2>1. /\ x \in Page /\ x.view = "vault" /\ x.bundle = tab[t].bundle
        /\ x.status = tab[t].status /\ x.mine = tab[t].mine
      BY TabType DEF Page
  <2>2. tab[t].bundle \in Bytes
      BY <1>9 DEF ConfirmRecovery, PagesReady
  <2>3. /\ UNCHANGED <<server, cred, setups>> /\ local' = tab[t].bundle
        /\ tab' = [tab EXCEPT ![t] = x]
      BY <1>9 DEF ConfirmRecovery, SaveAccountBundle, TypeOK
  <2> HIDE DEF x
  <2> QED BY <2>1, <2>2, <2>3 DEF TypeOK, PagesReady, server
<1>10. ASSUME NEW t \in Tab, StartPublish(t) \/ Verify(t)
       PROVE  TypeOK' /\ PagesReady'
  <2> DEFINE x == [tab[t] EXCEPT !.status = "put", !.mine = tab[t].bundle, !.attempted = Existing + 1]
             y == [tab[t] EXCEPT !.status = "published"]
  <2>1. Existing + 1 \in 0 .. MaxVersion + 1
      BY BundleAssumption DEF Existing, TypeOK, Stored, Version
  <2>2. /\ x \in Page /\ x.view = tab[t].view /\ x.pw = tab[t].pw
        /\ x.bundle = tab[t].bundle /\ x.mine = tab[t].bundle
      BY <2>1, TabType DEF Page
  <2>3. /\ y \in Page /\ y.view = tab[t].view /\ y.pw = tab[t].pw
        /\ y.bundle = tab[t].bundle /\ y.status = "published"
      BY TabType DEF Page
  <2>4. /\ UNCHANGED <<server, cred, local, setups>>
        /\ \/ tab' = [tab EXCEPT ![t] = x] /\ tab[t].view = "vault"
           \/ tab' = [tab EXCEPT ![t] = y]
           \/ tab' = [tab EXCEPT ![t] = Idle(t)]
      BY <1>10 DEF StartPublish, Verify
  <2> HIDE DEF x, y
  <2> QED BY <2>2, <2>3, <2>4, PageType DEF TypeOK, PagesReady, server
<1>11. ASSUME NEW t \in Tab, PutKeyBundle(t) \/ Answered(t)
       PROVE  TypeOK' /\ PagesReady'
  <2> DEFINE x == [tab[t] EXCEPT !.status = "wait"]
             y == [tab[t] EXCEPT !.status = "verify"]
  <2>1. /\ x \in Page /\ x.view = tab[t].view /\ x.pw = tab[t].pw
        /\ x.bundle = tab[t].bundle /\ x.status = "wait"
        /\ y \in Page /\ y.view = tab[t].view /\ y.pw = tab[t].pw
        /\ y.bundle = tab[t].bundle /\ y.status = "verify"
      BY TabType DEF Page
  <2>2. t \in Sender
      BY DEF Sender
  <2>3. req' \in [Sender -> Put \cup {Free}]
    <3>1. CASE Answered(t)
        BY <3>1 DEF Answered, TypeOK
    <3>2. CASE PutKeyBundle(t) /\ Accepted(tab[t].attempted, tab[t].mine)
      <4>1. tab[t].attempted \in Version /\ tab[t].mine \in Bytes
          BY <3>2 DEF PutKeyBundle, Accepted, PagesReady
      <4> QED BY <2>2, <3>2, <4>1, BeginType DEF PutKeyBundle, OnlyRequest
    <3>3. CASE PutKeyBundle(t) /\ ~Accepted(tab[t].attempted, tab[t].mine)
        BY <3>3 DEF PutKeyBundle, TypeOK
    <3> QED BY <1>11, <3>1, <3>2, <3>3
  <2>4. /\ UNCHANGED <<row, granted, cred, local, setups>>
        /\ \/ tab' = [tab EXCEPT ![t] = x]
           \/ tab' = [tab EXCEPT ![t] = y]
           \/ tab' = [tab EXCEPT ![t] = Idle(t)]
      BY <1>11 DEF PutKeyBundle, Answered
  <2> HIDE DEF x, y
  <2> QED BY <2>1, <2>3, <2>4, PageType DEF TypeOK, PagesReady
<1> QED
    BY <1>1, <1>2, <1>3, <1>4, <1>5, <1>6, <1>7, <1>8, <1>9, <1>10, <1>11
       DEF Next, Serve, Publish, Onboard

\* Type correctness, for every instance.
THEOREM TypeCorrect == Spec => []TypeOK
<1>1. TypeK => TypeOK
    BY DEF TypeK
<1> QED BY <1>1, InitType, TypeStep, PTL DEF Spec

-----------------------------------------------------------------------------
(* The transaction of publishKeyBundle.                                    *)

Transactions == /\ UpdateFollows /\ FirstInsert /\ RetryFindsRow /\ Validated
                /\ GrantedStored /\ OneBundlePerVersion

\* A request that ends, or loses its listener, takes nothing with it.
LEMMA EndKeeps ==
    ASSUME TypeOK, Transactions, NEW s \in Sender, OnlyRequest(s), UNCHANGED <<row, granted>>,
           Ended(s) \/ (Kept(s) /\ req'[s].pc = req[s].pc)
    PROVE  Transactions'
<1>1. Free.pc = "free"
    BY DEF Free
<1>2. \A q \in Sender : /\ HoldsRow(q)' => HoldsRow(q)
                        /\ HoldsKey(q)' => HoldsKey(q)
                        /\ req'[q].pc \in {"insert", "inserted"} => req'[q].pc = req[q].pc
                        /\ req'[q].pc # "free" => /\ req[q].pc # "free"
                                                  /\ req'[q].version = req[q].version
                                                  /\ req'[q].bytes = req[q].bytes
                                                  /\ req'[q].attempt = req[q].attempt
    BY <1>1 DEF OnlyRequest, Ended, Kept, HoldsRow, HoldsKey
<1>3. UpdateFollows'
    BY <1>2 DEF Transactions, UpdateFollows, HoldsRow
<1>4. FirstInsert'
    BY <1>2 DEF Transactions, FirstInsert, HoldsKey
<1>5. RetryFindsRow'
    BY <1>2 DEF Transactions, RetryFindsRow
<1>6. Validated'
    BY <1>2 DEF Transactions, Validated
<1>7. GrantedStored' /\ OneBundlePerVersion'
    BY DEF Transactions, GrantedStored, OneBundlePerVersion
<1> QED BY <1>3, <1>4, <1>5, <1>6, <1>7 DEF Transactions

\* A new request has passed the route's checks.
LEMMA BeginKeeps ==
    ASSUME TypeOK, Transactions, NEW s \in Sender, NEW v \in Version, NEW b \in Bytes,
           Accepted(v, b), Begin(s, v, b), UNCHANGED <<row, granted>>
    PROVE  Transactions'
<1>1. /\ \A q \in Sender \ {s} : req'[q] = req[q]
      /\ req'[s].pc = "select" /\ req'[s].attempt = 0 /\ req'[s].bytes = b
    BY BeginType DEF OnlyRequest
<1>2. ValidateAccountBundleBytes(b.text)
    BY DEF Accepted
<1>3. UpdateFollows' /\ FirstInsert'
    BY <1>1 DEF Transactions, UpdateFollows, FirstInsert, HoldsRow, HoldsKey
<1>4. RetryFindsRow'
    BY <1>1 DEF Transactions, RetryFindsRow
<1>5. Validated'
    BY <1>1, <1>2 DEF Transactions, Validated
<1>6. GrantedStored' /\ OneBundlePerVersion'
    BY DEF Transactions, GrantedStored, OneBundlePerVersion
<1> QED BY <1>3, <1>4, <1>5, <1>6 DEF Transactions

\* SELECT ... FOR UPDATE: nobody else holds the row.
LEMMA SelectKeeps ==
    ASSUME TypeOK, Transactions, NEW s \in Sender, SelectForUpdate(s)
    PROVE  Transactions'
<1>1. /\ req[s].pc = "select" /\ UNCHANGED row /\ OnlyRequest(s)
      /\ \A q \in Sender \ {s} : ~HoldsRow(q)
    BY SelectMoves DEF SelectForUpdate
<1>2. CASE Ended(s) /\ UNCHANGED granted
    BY <1>1, <1>2, EndKeeps
<1>3. CASE /\ Ended(s) /\ row # None /\ row.version = req[s].version
           /\ row.bytes = req[s].bytes /\ Grant(s)
  <2>1. \A g \in granted' : g \in granted \/ (g[1] = row.version /\ g[2] = row.bytes)
      BY <1>3 DEF Grant
  <2>2. row.version \in Nat
      BY <1>3, BundleAssumption DEF TypeOK, Stored, Version
  <2>3. GrantedStored'
      BY <1>1, <1>3, <2>1, <2>2 DEF Transactions, GrantedStored
  <2>4. OneBundlePerVersion'
      BY <2>1 DEF Transactions, GrantedStored, OneBundlePerVersion
  <2>5. Free.pc = "free"
      BY DEF Free
  <2>6. \A q \in Sender \ {s} : req'[q] = req[q]
      BY <1>1 DEF OnlyRequest
  <2>7. UpdateFollows' /\ FirstInsert'
      BY <1>1, <1>3, <2>5, <2>6
         DEF Transactions, UpdateFollows, FirstInsert, HoldsRow, HoldsKey, Ended
  <2>8. RetryFindsRow' /\ Validated'
      BY <1>1, <1>3, <2>5, <2>6 DEF Transactions, RetryFindsRow, Validated, Ended, Kept
  <2> QED BY <2>3, <2>4, <2>7, <2>8 DEF Transactions
<1>4. CASE /\ Kept(s) /\ req'[s].pc \in {"insert", "update"} /\ UNCHANGED granted
           /\ req'[s].pc = "insert" => row = None /\ req[s].version = 1
           /\ req'[s].pc = "update" => row # None /\ req[s].version = row.version + 1
  <2>1. \A q \in Sender \ {s} : req'[q] = req[q]
      BY <1>1 DEF OnlyRequest
  <2>2. UpdateFollows'
      BY <1>1, <1>4, <2>1 DEF Transactions, UpdateFollows, HoldsRow, Kept
  <2>3. FirstInsert'
      BY <1>1, <1>4, <2>1 DEF Transactions, FirstInsert, HoldsKey, Kept
  <2>4. RetryFindsRow'
    <3>1. req[s].attempt \in Nat
        BY <1>1, UnderWay
    <3> QED BY <1>1, <1>4, <2>1, <3>1 DEF Transactions, RetryFindsRow, Kept
  <2>5. Validated' /\ GrantedStored' /\ OneBundlePerVersion'
      BY <1>1, <1>4, <2>1 DEF Transactions, Validated, GrantedStored, OneBundlePerVersion, Kept
  <2> QED BY <2>2, <2>3, <2>4, <2>5 DEF Transactions
<1> QED BY <1>2, <1>3, <1>4, SelectMoves

\* INSERT: the row is there and the attempt is repeated, or this request is
\* the one that inserts it.
LEMMA InsertKeeps ==
    ASSUME TypeOK, Transactions, NEW s \in Sender, Insert(s)
    PROVE  Transactions'
<1>1. /\ req[s].pc = "insert" /\ UNCHANGED <<row, granted>> /\ OnlyRequest(s)
      /\ \A q \in Sender \ {s} : ~HoldsKey(q)
    BY InsertMoves DEF Insert
<1>2. \A q \in Sender \ {s} : req'[q] = req[q]
    BY <1>1 DEF OnlyRequest
<1>3. CASE Ended(s)
    BY <1>1, <1>3, EndKeeps
<1>4. CASE Kept(s) /\ req'[s].pc = "inserted" /\ row = None
  <2>1. UpdateFollows' /\ FirstInsert'
      BY <1>1, <1>2, <1>4 DEF Transactions, UpdateFollows, FirstInsert, HoldsRow, HoldsKey, Kept
  <2>2. RetryFindsRow' /\ Validated'
      BY <1>1, <1>2, <1>4 DEF Transactions, RetryFindsRow, Validated, Kept
  <2> QED BY <1>1, <2>1, <2>2 DEF Transactions, GrantedStored, OneBundlePerVersion
<1>5. CASE /\ row # None /\ req'[s] \in Put /\ req'[s].pc = "select"
           /\ req'[s].version = req[s].version /\ req'[s].bytes = req[s].bytes
           /\ req'[s].attempt = req[s].attempt + 1
  <2>1. UpdateFollows' /\ FirstInsert'
      BY <1>1, <1>2, <1>5 DEF Transactions, UpdateFollows, FirstInsert, HoldsRow, HoldsKey
  <2>2. RetryFindsRow' /\ Validated'
      BY <1>1, <1>2, <1>5 DEF Transactions, RetryFindsRow, Validated
  <2> QED BY <1>1, <2>1, <2>2 DEF Transactions, GrantedStored, OneBundlePerVersion
<1> QED BY <1>3, <1>4, <1>5, InsertMoves

\* The version a COMMIT writes is one more than the stored one.
LEMMA CommitIsNext ==
    ASSUME TypeOK, Transactions, NEW s \in Sender, req[s].pc \in {"inserted", "update"}
    PROVE  /\ req[s].version = Existing + 1
           /\ row = None => req[s].pc = "inserted"
           /\ row # None => req[s].pc = "update" /\ row.version \in Nat /\ Existing = row.version
<1>1. CASE req[s].pc = "inserted"
    BY <1>1 DEF Transactions, FirstInsert, HoldsKey, Existing
<1>2. CASE req[s].pc = "update"
    BY <1>2, BundleAssumption DEF Transactions, UpdateFollows, HoldsRow, Existing, TypeOK, Stored, Version
<1> QED BY <1>1, <1>2

\* COMMIT of an INSERT or UPDATE, answered or not.
LEMMA CommitKeeps ==
    ASSUME TypeOK, Transactions, NEW s \in Sender, req[s].pc \in {"inserted", "update"},
           row' = [version |-> req[s].version, bytes |-> req[s].bytes],
           UNCHANGED granted \/ Grant(s), OnlyRequest(s), Ended(s)
    PROVE  Transactions'
<1>1. \A q \in Sender \ {s} : req'[q] = req[q] /\ req[q].pc \notin {"inserted", "update"}
    BY DEF OnlyRequest, Transactions, UpdateFollows, FirstInsert, HoldsRow, HoldsKey
<1>2. row' # None /\ row'.version = Existing + 1 /\ row'.bytes = req[s].bytes
    BY CommitIsNext, CommitType
<1>3. req'[s].pc \in {"free", "done"} /\ (req'[s].pc # "free" => Kept(s))
    BY DEF Ended, Free
<1>4. UpdateFollows' /\ FirstInsert'
    BY <1>1, <1>3 DEF Transactions, UpdateFollows, FirstInsert, HoldsRow, HoldsKey
<1>5. RetryFindsRow' /\ Validated'
    BY <1>1, <1>2, <1>3 DEF Transactions, RetryFindsRow, Validated, Kept
<1>6. \A g \in granted : g[1] \in Nat /\ g[1] < row'.version
  <2>1. CASE row = None
      BY <2>1 DEF Transactions, GrantedStored
  <2>2. CASE row # None
      BY <1>2, <2>2, CommitIsNext, BundleAssumption
         DEF Transactions, GrantedStored, TypeOK, Version
  <2> QED BY <2>1, <2>2
<1>7. \A g \in granted' : g \in granted \/ (g[1] = row'.version /\ g[2] = row'.bytes)
    BY DEF Grant
<1>8. row'.version \in Nat
    BY UnderWay, BundleAssumption DEF Version
<1>9. GrantedStored' /\ OneBundlePerVersion'
    BY <1>2, <1>6, <1>7, <1>8 DEF Transactions, GrantedStored, OneBundlePerVersion
<1> QED BY <1>4, <1>5, <1>9 DEF Transactions

\* The initial state satisfies the inductive invariant.
LEMMA InitIInv == Init => IInv
<1> SUFFICES ASSUME Init PROVE Transactions
    BY InitType DEF IInv, TypeK, Transactions
<1>1. \A s \in Sender : req[s].pc = "free"
    BY DEF Init, Free
<1> QED
    BY <1>1 DEF Init, Transactions, UpdateFollows, FirstInsert, RetryFindsRow, Validated,
       GrantedStored, OneBundlePerVersion, HoldsRow, HoldsKey

\* Every step preserves the inductive invariant.
LEMMA StepIInv == IInv /\ [Next]_vars => IInv'
<1> SUFFICES ASSUME IInv, [Next]_vars PROVE Transactions'
    BY TypeStep DEF IInv, TypeK, Transactions
<1>0. TypeOK /\ PagesReady /\ Transactions
    BY DEF IInv, Transactions
<1>1. CASE UNCHANGED server
    BY <1>0, <1>1 DEF server, Transactions, UpdateFollows, FirstInsert, RetryFindsRow, Validated,
       GrantedStored, OneBundlePerVersion, HoldsRow, HoldsKey
<1>2. ASSUME NEW s \in Sender, SelectForUpdate(s) \/ Insert(s) PROVE Transactions'
    BY <1>0, <1>2, SelectKeeps, InsertKeeps
<1>3. ASSUME NEW s \in Sender, Commit(s) PROVE Transactions'
  <2>1. OnlyRequest(s) /\ Ended(s)
      BY <1>0, <1>3, FinishType DEF Commit
  <2> QED BY <1>0, <1>3, <2>1, CommitKeeps DEF Commit
<1>4. ASSUME NEW s \in Sender, Fail(s) PROVE Transactions'
  <2>1. OnlyRequest(s) /\ Ended(s)
      BY <1>0, <1>4, FinishType DEF Fail
  <2>2. CASE UNCHANGED row
      BY <1>0, <1>4, <2>1, <2>2, EndKeeps DEF Fail
  <2>3. CASE ~UNCHANGED row
      BY <1>0, <1>4, <2>1, <2>3, CommitKeeps DEF Fail
  <2> QED BY <2>2, <2>3
<1>5. ASSUME NEW s \in Api, NEW v \in 0 .. MaxVersion + 1, NEW p \in Password, NEW text \in Text,
             ApiPut(s, v, p, text)
      PROVE  Transactions'
  <2> DEFINE b == [pw |-> p, keys |-> 0, text |-> text]
  <2>1. /\ s \in Sender /\ v \in Version /\ b \in Bytes
        /\ Accepted(v, b) /\ Begin(s, v, b) /\ UNCHANGED <<row, granted>>
      BY <1>5, BundleAssumption DEF ApiPut, Accepted, Sender, Bytes
  <2> HIDE DEF b
  <2> QED BY <1>0, <2>1, BeginKeeps
<1>6. ASSUME NEW t \in Tab, Close(t) \/ NetworkError(t) PROVE Transactions'
  <2>1. t \in Sender
      BY DEF Sender
  <2>2. OnlyRequest(t) /\ (Ended(t) \/ (Kept(t) /\ req'[t].pc = req[t].pc))
      BY <1>0, <1>6, <2>1, GiveUpType DEF Close, NetworkError
  <2> QED BY <1>0, <1>6, <2>1, <2>2, EndKeeps DEF Close, NetworkError
<1>7. ASSUME NEW t \in Tab, PutKeyBundle(t) PROVE Transactions'
  <2>1. t \in Sender
      BY DEF Sender
  <2>2. CASE Accepted(tab[t].attempted, tab[t].mine)
    <3>1. tab[t].attempted \in Version /\ tab[t].mine \in Bytes
        BY <1>0, <1>7, <2>2 DEF PutKeyBundle, Accepted, PagesReady
    <3> QED BY <1>0, <1>7, <2>1, <2>2, <3>1, BeginKeeps DEF PutKeyBundle
  <2>3. CASE ~Accepted(tab[t].attempted, tab[t].mine)
      BY <1>1, <1>7, <2>3 DEF PutKeyBundle, server
  <2> QED BY <2>2, <2>3
<1>8. ASSUME NEW t \in Tab, Answered(t) PROVE Transactions'
  <2>1. t \in Sender
      BY DEF Sender
  <2>2. OnlyRequest(t) /\ Ended(t)
      BY <1>0, <1>8, <2>1 DEF Answered, OnlyRequest, Ended, TypeOK
  <2> QED BY <1>0, <1>8, <2>1, <2>2, EndKeeps DEF Answered
<1>9. ASSUME NEW t \in Tab,
             \/ Open(t) \/ Onboard(t) \/ Unlock(t) \/ Lock(t) \/ Login(t)
             \/ StartPublish(t) \/ Verify(t)
      PROVE  Transactions'
  <2>1. UNCHANGED server
      BY <1>9 DEF Open, Onboard, Register, CreateAccountSetup, ConfirmRecovery, Unlock, Lock, Login,
         StartPublish, Verify
  <2> QED BY <1>1, <2>1
<1>10. CASE UNCHANGED vars
    BY <1>1, <1>10 DEF vars
<1> QED
    BY <1>2, <1>3, <1>4, <1>5, <1>6, <1>7, <1>8, <1>9, <1>10 DEF Next, Serve, Publish

\* The inductive invariant holds throughout.
LEMMA Inductive == Spec => []IInv
BY InitIInv, StepIInv, PTL DEF Spec

\* No version is acknowledged with two contents.
THEOREM OneBundle == Spec => []OneBundlePerVersion
<1>1. IInv => OneBundlePerVersion
    BY DEF IInv
<1> QED BY <1>1, Inductive, PTL

\* Two turns of publishKeyBundle's loop are enough, however many senders race.
THEOREM OneRetry == Spec => []RaceLostOnce
<1>1. IInv => RaceLostOnce
    BY DEF IInv, RetryFindsRow, RaceLostOnce
<1> QED BY <1>1, Inductive, PTL

\* What the server stores the extension can parse.
THEOREM StoredIsReadable == Spec => []StoredParses
<1>1. IInv => StoredParses
  <2> SUFFICES ASSUME IInv, row # None PROVE ParseAccountBundle(Served(row.bytes.text))
      BY DEF StoredParses
  <2>1. row.bytes.text \in Wire
      BY TextType DEF IInv, TypeOK, Stored, Bytes
  <2>2. ValidateAccountBundleBytes(row.bytes.text)
      BY DEF IInv, Validated
  <2> QED BY <2>1, <2>2, CodecsAgree
<1> QED BY <1>1, Inductive, PTL

\* The endpoint implements the register: the version counts the writes, and an
\* acknowledgement is of the bytes stored at that version.
THEOREM Refinement == Spec => ImplementsRegister
<1>1. Init => Promise!Init
    BY DEF Init, Promise!Init
<1>2. ASSUME IInv, [Next]_vars
      PROVE  [Promise!Next]_<<row, granted>>
  <2>0. TypeOK /\ Transactions /\ Promise!Versions = Existing
      BY <1>2 DEF IInv, Transactions, Promise!Versions, Existing
  <2>1. ASSUME NEW s \in Sender, req[s].pc \in {"inserted", "update"}, NEW told \in BOOLEAN,
               row' = [version |-> req[s].version, bytes |-> req[s].bytes],
               granted' = IF told THEN granted \cup {<<req[s].version, req[s].bytes>>} ELSE granted
        PROVE  Promise!Next
    <3>1. req[s].version = Promise!Versions + 1 /\ req[s].bytes \in Bytes
        BY <2>0, <2>1, CommitIsNext, UnderWay
    <3>2. Promise!Write(req[s].bytes, told)
        BY <2>1, <3>1 DEF Promise!Write
    <3> QED BY <3>1, <3>2 DEF Promise!Next
  <2>2. ASSUME NEW s \in Sender, Commit(s) PROVE Promise!Next
      BY <2>1, <2>2 DEF Commit, Grant
  <2>3. ASSUME NEW s \in Sender, Fail(s) PROVE Promise!Next \/ UNCHANGED <<row, granted>>
      BY <2>1, <2>3 DEF Fail
  <2>4. ASSUME NEW s \in Sender, SelectForUpdate(s)
        PROVE  Promise!Next \/ UNCHANGED <<row, granted>>
    <3>1. CASE UNCHANGED granted
        BY <2>4, <3>1 DEF SelectForUpdate
    <3>2. CASE ~UNCHANGED granted
      <4>1. row # None /\ row.version = req[s].version /\ row.bytes = req[s].bytes /\ Grant(s)
          BY <2>0, <2>4, <3>2, SelectMoves
      <4>2. Promise!Acknowledge
          BY <2>4, <4>1 DEF Promise!Acknowledge, Grant, SelectForUpdate
      <4> QED BY <4>2 DEF Promise!Next
    <3> QED BY <3>1, <3>2
  <2>5. CASE ~\E s \in Sender : Commit(s) \/ Fail(s) \/ SelectForUpdate(s)
      BY <1>2, <2>5 DEF Next, Serve, Publish, Onboard, vars, server, Insert, ApiPut, Open, Close, Register,
         CreateAccountSetup, ConfirmRecovery, Unlock, Lock, Login, StartPublish, PutKeyBundle,
         Answered, Verify, NetworkError
  <2> QED BY <2>2, <2>3, <2>4, <2>5
<1> QED BY <1>1, <1>2, Inductive, PTL DEF Spec, ImplementsRegister, Promise!Spec
=============================================================================
