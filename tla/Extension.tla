------------------------------ MODULE Extension ------------------------------
(***************************************************************************)
(* The browser extension: the background's policy (session state machine,  *)
(* fill capabilities, pending offer, the messages of popup and content     *)
(* scripts) over the vault manager (unlock, fresh check, token refresh,    *)
(* save, lock).  One action is the code of a message or of a continuation  *)
(* between two awaits.  Time is abstracted to what has run out: ses.idle   *)
(* (POPUP_INACTIVITY_LIMIT_MS), mgr.stale (FRESH_CHECK_INTERVAL_MS),       *)
(* mgr.low (REFRESH_MARGIN_MS); an expired capability is gone.  Documents  *)
(* are those of one tab, on any page of Origins; every account has one     *)
(* login item, recorded with ItemUrl.                                      *)
(***************************************************************************)
EXTENDS Integers, Origins

CONSTANTS
    Account, Document,
    Call,         \* popup messages handled at the same time
    MaxGen,       \* bounds the generations in which messages are handled
    MaxUnlocks,   \* bounds the crypto hosts made
    MaxGrants,    \* bounds the capabilities granted
    MaxOffers,    \* bounds the offers made
    MaxRevision,  \* bounds the item's revisions on the server
    None

ASSUME ExtensionAssumption == {MaxGen, MaxUnlocks, MaxGrants, MaxOffers, MaxRevision} \subseteq Nat

VARIABLES
    ses,         \* SessionStateMachine
    caps,        \* FillCapabilityStore
    offer,       \* #pendingOffer
    mgr,         \* #state of the vault manager
    refreshing,  \* #refreshInFlight: the call whose attempt it is
    hosts,       \* crypto hosts that hold keys
    call,        \* call -> where its handler is
    popup,       \* the popup: open, and the capability and item it shows
    srv,         \* the account's item on the server
    made,        \* counters
    fills        \* history: capability -> forms filled with it

policy == <<ses, caps, offer>>
manager == <<mgr, refreshing, hosts>>
world == <<popup, srv, made, fills>>
vars == <<policy, manager, call, world>>

Grant == 1 .. MaxGrants
Pending == [n : 1 .. MaxOffers, doc : Document, origin : Url, account : Account]
Unlocked == [sid : 1 .. MaxUnlocks, account : Account, rev : 0 .. MaxRevision, stale : BOOLEAN, low : BOOLEAN]
Idle == [op |-> "none", pc |-> "idle", sid |-> 0, account |-> None, gen |-> 0, offer |-> None,
         cap |-> 0, joins |-> None, cursor |-> 0, rev |-> 0]

ASSUME NoneAssumption == None \notin Call /\ None \notin Pending /\ None \notin Unlocked

TypeOK ==
    /\ ses \in [gen : Nat, active : BOOLEAN, idle : BOOLEAN]
    /\ caps \subseteq [id : Grant, gen : Nat, doc : Document]
    /\ offer \in Pending \cup {None}
    /\ mgr \in Unlocked \cup {None}
    /\ refreshing \in Call \cup {None}
    /\ hosts \subseteq 1 .. MaxUnlocks
    /\ call \in [Call -> [op : {"none", "unlock", "logout", "candidates", "show", "save", "fill"},
                          pc : {"idle", "login", "items", "logout", "refresh", "join", "devices",
                                "yes", "mutate", "tab", "sent"},
                          sid : 0 .. MaxUnlocks, account : Account \cup {None}, gen : Nat,
                          offer : Pending \cup {None}, cap : 0 .. MaxGrants, joins : Call \cup {None},
                          cursor : 0 .. MaxRevision, rev : 0 .. MaxRevision]]
    /\ popup \in [open : BOOLEAN, cap : 0 .. MaxGrants, account : Account \cup {None}]
    /\ srv \in [Account -> [rev : 0 .. MaxRevision, deleted : BOOLEAN]]
    /\ made \in [hosts : 0 .. MaxUnlocks, grants : 0 .. MaxGrants, offers : 0 .. MaxOffers]
    /\ fills \in [Grant -> Nat]

Init ==
    /\ ses = [gen |-> 1, active |-> FALSE, idle |-> FALSE]
    /\ caps = {} /\ offer = None
    /\ mgr = None /\ refreshing = None /\ hosts = {}
    /\ call = [k \in Call |-> Idle]
    /\ popup = [open |-> FALSE, cap |-> 0, account |-> None]
    /\ srv = [a \in Account |-> [rev |-> 0, deleted |-> FALSE]]
    /\ made = [hosts |-> 0, grants |-> 0, offers |-> 0]
    /\ fills = [g \in Grant |-> 0]

-----------------------------------------------------------------------------
(* The session and the locks                                               *)

\* session.lock(reason)
Locked(s) == [gen |-> s.gen + 1, active |-> FALSE, idle |-> FALSE]

\* ensureActive: only the session learns of a timeout.
EnsureActive == IF ses.active /\ ses.idle THEN Locked(ses) ELSE ses

\* The session when a trusted popup message is handled: noteTrustedPopupActivity.
Attended == [EnsureActive EXCEPT !.idle = FALSE]

\* markUnlocked, which leaves an active session as it is.
MarkUnlocked == IF ses.active THEN ses ELSE [ses EXCEPT !.active = TRUE]

\* #dispose of the manager.
Dispose ==
    /\ mgr' = None
    /\ refreshing' = None
    /\ hosts' = IF mgr = None THEN hosts ELSE hosts \ {mgr.sid}

\* lock, lockFromPopupClose, and onAuthFailure's lock after #dispose.
LockAll(s) ==
    /\ ses' = Locked(s)
    /\ caps' = {} /\ offer' = None
    /\ Dispose

\* A popup message that starts a call.
Heard(k) ==
    /\ popup.open
    /\ call[k].pc = "idle"
    /\ EnsureActive.gen <= MaxGen

-----------------------------------------------------------------------------
(* The fresh check: checkFresh and #maybeRefresh                           *)

Same(k) == mgr # None /\ mgr.sid = call[k].sid

\* Fault: every caller starts a refresh of its own.
CheckFreshAlone(k, c) ==
    LET at(pc) == call' = [call EXCEPT ![k] = [c EXCEPT !.pc = pc, !.sid = mgr.sid]]
    IN  \/ mgr = None /\ call' = [call EXCEPT ![k] = Idle] /\ UNCHANGED refreshing
        \/ mgr # None /\ ~mgr.stale /\ at("yes") /\ UNCHANGED refreshing
        \/ mgr # None /\ mgr.stale /\ mgr.low /\ at("refresh") /\ refreshing' = k
        \/ mgr # None /\ mgr.stale /\ ~mgr.low /\ at("devices") /\ UNCHANGED refreshing

\* Call k begins its check as record c: it passes at once within the interval, joins
\* a refresh under way, starts one, or goes on to listDevices.  A call whose check
\* fails is over.
CheckFresh(k, c) ==
    LET at(pc, r) == call' = [call EXCEPT ![k] = [c EXCEPT !.pc = pc, !.sid = mgr.sid, !.joins = r]]
    IN  \/ mgr = None /\ call' = [call EXCEPT ![k] = Idle] /\ UNCHANGED refreshing
        \/ mgr # None /\ ~mgr.stale /\ at("yes", None) /\ UNCHANGED refreshing
        \/ mgr # None /\ mgr.stale /\ refreshing # None /\ at("join", refreshing) /\ UNCHANGED refreshing
        \/ mgr # None /\ mgr.stale /\ refreshing = None /\ mgr.low /\ at("refresh", None) /\ refreshing' = k
        \/ mgr # None /\ mgr.stale /\ refreshing = None /\ ~mgr.low /\ at("devices", None) /\ UNCHANGED refreshing

Awaits(j, k) == j = k \/ (call[j].pc = "join" /\ call[j].joins = k)

\* Fault: goes on although the vault was locked meanwhile.
AfterRefreshAnyway(k) ==
    [j \in Call |-> IF Awaits(j, k) THEN [call[j] EXCEPT !.pc = "devices", !.joins = None] ELSE call[j]]
\* Call k's refresh is done, for it and for the calls that joined it; those whose
\* state is still the manager's go on.
AfterRefresh(k) ==
    [j \in Call |->
        IF Awaits(j, k)
        THEN IF Same(j) THEN [call[j] EXCEPT !.pc = "devices", !.joins = None] ELSE Idle
        ELSE call[j]]

\* api.refresh answers; or it fails or runs into its deadline: #handleAuthFailure.
Refreshed(k) ==
    LET over == refreshing' = IF refreshing = k THEN None ELSE refreshing
    IN  /\ call[k].pc = "refresh"
        /\ \/ /\ call' = AfterRefresh(k)
              /\ mgr' = IF Same(k) THEN [mgr EXCEPT !.low = FALSE] ELSE mgr
              /\ over /\ UNCHANGED <<policy, hosts>>
           \/ /\ call' = [j \in Call |-> IF Awaits(j, k) THEN Idle ELSE call[j]]
              /\ IF Same(k) THEN LockAll(ses) ELSE over /\ UNCHANGED <<policy, mgr, hosts>>
        /\ UNCHANGED world

\* listDevices answers or fails.
DevicesListed(k) ==
    /\ call[k].pc = "devices"
    /\ \/ /\ call' = [call EXCEPT ![k] = IF Same(k) THEN [@ EXCEPT !.pc = "yes"] ELSE Idle]
          /\ mgr' = IF Same(k) THEN [mgr EXCEPT !.stale = FALSE] ELSE mgr
          /\ UNCHANGED <<policy, refreshing, hosts>>
       \/ /\ call' = [call EXCEPT ![k] = Idle]
          /\ IF Same(k) THEN LockAll(ses) ELSE UNCHANGED <<policy, manager>>
    /\ UNCHANGED world

-----------------------------------------------------------------------------
(* Unlock, logout, lock                                                    *)

\* #unlock: a full lock only when unlocked, then #dispose of the manager's unlock.
Unlock(k, a) ==
    /\ Heard(k)
    /\ made.hosts < MaxUnlocks
    /\ Attended.active => Attended.gen < MaxGen
    /\ IF Attended.active THEN LockAll(Attended)
       ELSE ses' = Attended /\ Dispose /\ UNCHANGED <<caps, offer>>
    /\ made' = [made EXCEPT !.hosts = @ + 1]
    /\ call' = [call EXCEPT ![k] = [Idle EXCEPT !.op = "unlock", !.pc = "login", !.account = a,
                                                !.sid = made'.hosts]]
    /\ UNCHANGED <<popup, srv, fills>>

\* login, registerBearerSessionDevice and getKeyBundle: they throw, or the bundle is
\* missing or does not open, or a new host holds the keys.
LoggedIn(k) ==
    /\ call[k].pc = "login"
    /\ \/ /\ call' = [call EXCEPT ![k] = Idle]
          /\ Dispose \/ UNCHANGED manager
       \/ /\ call' = [call EXCEPT ![k].pc = "items"]
          /\ hosts' = hosts \cup {call[k].sid}
          /\ UNCHANGED <<mgr, refreshing>>
    /\ UNCHANGED <<policy, world>>

\* Fault: waits for a missing cursor, which the server never sends.
LastPageNoCursor(k) == srv[call[k].account].rev = 0
\* A 404 of a new vault, or an empty page.
LastPage(k) == srv[call[k].account].rev = call[k].cursor

\* One round of #loadAllItems, and after the last the new state: whatever state there
\* is by then is replaced, and markUnlocked follows.
LoadPage(k) ==
    LET item == srv[call[k].account]
    IN  /\ call[k].pc = "items"
        /\ \/ /\ ~LastPage(k)
              /\ call' = [call EXCEPT ![k].cursor = item.rev, ![k].rev = IF item.deleted THEN 0 ELSE item.rev]
              /\ UNCHANGED <<policy, manager>>
           \/ /\ LastPage(k)
              /\ mgr' = [sid |-> call[k].sid, account |-> call[k].account, rev |-> call[k].rev,
                         stale |-> FALSE, low |-> FALSE]
              /\ ses' = MarkUnlocked
              /\ call' = [call EXCEPT ![k] = Idle]
              /\ UNCHANGED <<caps, offer, refreshing, hosts>>
        /\ UNCHANGED world

\* listChanges throws: what is disposed of is the manager's state, not the new host.
LoadFails(k) ==
    /\ call[k].pc = "items"
    /\ Dispose
    /\ call' = [call EXCEPT ![k] = Idle]
    /\ UNCHANGED <<policy, world>>

\* #logout up to the answer of api.logout ...
Logout(k) ==
    /\ Heard(k)
    /\ ses' = Attended
    /\ call' = [call EXCEPT ![k] = [Idle EXCEPT !.op = "logout", !.pc = "logout"]]
    /\ UNCHANGED <<caps, offer, manager, world>>

\* ... and after it, whatever it was.
LoggedOut(k) ==
    /\ call[k].pc = "logout"
    /\ LockAll(ses)
    /\ call' = [call EXCEPT ![k] = Idle]
    /\ UNCHANGED world

\* The popup's lock message.
Lock ==
    /\ popup.open /\ ses.gen < MaxGen
    /\ LockAll(Attended)
    /\ UNCHANGED <<call, world>>

-----------------------------------------------------------------------------
(* Candidates, items, codes, save                                          *)

\* request-candidates; list-items and get-totp; save-item with valid input.
Ask(k, op) ==
    /\ Heard(k)
    /\ ses' = Attended
    /\ \/ /\ ~Attended.active \/ (op = "candidates" /\ offer = None)
          /\ UNCHANGED <<call, refreshing, made>>
       \/ /\ Attended.active /\ op # "candidates"
          /\ CheckFresh(k, [Idle EXCEPT !.op = op])
          /\ UNCHANGED made
       \/ /\ Attended.active /\ op = "candidates" /\ offer # None
          /\ made.grants < MaxGrants
          /\ made' = [made EXCEPT !.grants = @ + 1]
          /\ CheckFresh(k, [Idle EXCEPT !.op = op, !.offer = offer, !.cap = made'.grants])
    /\ UNCHANGED <<caps, offer, mgr, hosts, popup, srv, fills>>

\* A capability is bound to the session's generation and to the offer's document.
Capability(id, o) == [id |-> id, gen |-> ses.gen, doc |-> o.doc]

\* #grantCandidates, unless locked or another offer is pending by now.
GrantCandidates(k) ==
    LET o == call[k].offer
        id == call[k].cap
    IN  /\ call[k].op = "candidates" /\ call[k].pc = "yes"
        /\ IF ses.active /\ offer = o
           THEN /\ caps' = caps \cup {Capability(id, o)}
                /\ popup' = IF popup.open THEN [popup EXCEPT !.cap = id, !.account = o.account] ELSE popup
           ELSE UNCHANGED <<caps, popup>>
        /\ call' = [call EXCEPT ![k] = Idle]
        /\ UNCHANGED <<ses, offer, manager, srv, made, fills>>

\* The items or the code are shown, unless locked by now.
Show(k) ==
    /\ call[k].op = "show" /\ call[k].pc = "yes"
    /\ call' = [call EXCEPT ![k] = Idle]
    /\ UNCHANGED <<policy, manager, world>>

\* saveItem after its check: the base revision is the cached one, the item is sealed
\* and the mutation sent.
SendSave(k) ==
    /\ call[k].op = "save" /\ call[k].pc = "yes"
    /\ call' = [call EXCEPT ![k] = IF Same(k)
                                   THEN [@ EXCEPT !.pc = "mutate", !.account = mgr.account, !.rev = mgr.rev]
                                   ELSE Idle]
    /\ UNCHANGED <<policy, manager, world>>

\* The server applies the mutation or refuses it, and the answer comes or does not.
Saved(k) ==
    LET a == call[k].account
        applied == srv[a].rev = call[k].rev /\ srv[a].rev < MaxRevision
    IN  /\ call[k].pc = "mutate"
        /\ call' = [call EXCEPT ![k] = Idle]
        /\ \/ /\ applied
              /\ srv' = [srv EXCEPT ![a] = [rev |-> @.rev + 1, deleted |-> FALSE]]
              /\ \/ mgr' = IF Same(k) THEN [mgr EXCEPT !.rev = call[k].rev + 1] ELSE mgr
                 \/ UNCHANGED mgr   \* the answer is lost
              /\ UNCHANGED <<policy, refreshing, hosts>>
           \/ /\ UNCHANGED srv   \* 409, a network error, or 401
              /\ \/ UNCHANGED <<policy, manager>>
                 \/ Same(k) /\ LockAll(ses)
        /\ UNCHANGED <<popup, made, fills>>

-----------------------------------------------------------------------------
(* Fill                                                                    *)

\* candidatesFor has the account's item at all.
Candidates == mgr # None /\ mgr.rev > 0

\* The pending offer of a page; without a document id there is none.
Offered(d, p, n) ==
    IF p.identified THEN [n |-> n, doc |-> d, origin |-> ParseOrigin(p.url), account |-> mgr.account] ELSE None

\* The content script's offer of a focused form: ensureActive, then the sender, the
\* page it claims and the decision; a refused offer leaves the pending one.
Offer(d, p, request) ==
    /\ made.offers < MaxOffers
    /\ EnsureActive.gen <= MaxGen
    /\ ses' = EnsureActive
    /\ IF /\ TrustedContentSender(p) /\ EnsureActive.active
          /\ request.pageUrl = p.url
          /\ Candidates /\ DecideFill(request, p.url)
       THEN /\ made' = [made EXCEPT !.offers = @ + 1]
            /\ offer' = Offered(d, p, made'.offers)
       ELSE UNCHANGED <<made, offer>>
    /\ UNCHANGED <<caps, manager, call, popup, srv, fills>>

\* The cancel-offer of a page that goes away.
CancelOffer ==
    /\ EnsureActive.gen <= MaxGen
    /\ ses' = EnsureActive
    /\ offer' = None
    /\ UNCHANGED <<caps, manager, call, world>>

\* fill-selected up to getActiveTab.
FillSelected(k) ==
    /\ Heard(k)
    /\ popup.cap # 0
    /\ ses' = Attended
    /\ IF Attended.active /\ offer # None /\ offer.account = popup.account
       THEN call' = [call EXCEPT ![k] = [Idle EXCEPT !.op = "fill", !.pc = "tab", !.gen = Attended.gen,
                                                     !.offer = offer, !.cap = popup.cap]]
       ELSE UNCHANGED call
    /\ UNCHANGED <<caps, offer, manager, world>>

\* Fault: the capability stays.
Kept(id) == caps
\* consume deletes the capability whatever it finds.
Consumed(id) == {e \in caps : e.id # id}

\* The capability is there and bound to this generation and document.
Valid(id, o) == \E e \in caps : e.id = id /\ e.gen = ses.gen /\ e.doc = o.doc

\* getActiveTab answers, with the offer's tab and origin or not: a lock, another page
\* or a spent capability end the attempt, else fieldsFor begins its check.
ActiveTab(k, there) ==
    LET c == call[k]
    IN  /\ c.pc = "tab"
        /\ \/ /\ ~ses.active \/ ses.gen # c.gen
              /\ call' = [call EXCEPT ![k] = Idle]
              /\ UNCHANGED <<caps, refreshing>>
           \/ /\ ses.active /\ ses.gen = c.gen
              /\ ~there \/ ~Valid(c.cap, c.offer)
              /\ caps' = Consumed(c.cap)
              /\ call' = [call EXCEPT ![k] = Idle]
              /\ UNCHANGED refreshing
           \/ /\ ses.active /\ ses.gen = c.gen
              /\ there /\ Valid(c.cap, c.offer)
              /\ caps' = Consumed(c.cap)
              /\ CheckFresh(k, c)
        /\ UNCHANGED <<ses, offer, mgr, hosts, world>>

\* Fault: the generation is not looked at again.
UncheckedRelease(k) == Same(k)
\* The fields are those of the manager's state, in the generation of the click.
Released(k) == Same(k) /\ ses.gen = call[k].gen

\* fieldsFor is done: the fill message is sent to the offer's document.
SendFill(k) ==
    LET c == call[k]
        goes == /\ Released(k) /\ mgr.account = c.offer.account /\ mgr.rev > 0
                /\ MatchOrigin(ItemUrl, c.offer.origin)
    IN  /\ c.op = "fill" /\ c.pc = "yes"
        /\ call' = [call EXCEPT ![k] = IF goes THEN [@ EXCEPT !.pc = "sent"] ELSE Idle]
        /\ UNCHANGED <<policy, manager, world>>

\* sendToDocument is done: the document is gone, or the content script fills the form
\* if the page is still one it may fill.
FillSent(k, there, p) ==
    LET c == call[k]
    IN  /\ c.pc = "sent"
        /\ fills' = IF there /\ Assigns(p, c.offer.origin) THEN [fills EXCEPT ![c.cap] = @ + 1] ELSE fills
        /\ call' = [call EXCEPT ![k] = Idle]
        /\ IF ses.gen # c.gen THEN LockAll(ses)
           ELSE offer' = None /\ UNCHANGED <<ses, caps, manager>>
        /\ UNCHANGED <<popup, srv, made>>

-----------------------------------------------------------------------------
(* The surroundings                                                        *)

\* The popup opens (get-state, then request-candidates); closing it locks.
OpenPopup ==
    /\ ~popup.open
    /\ popup' = [popup EXCEPT !.open = TRUE]
    /\ ses' = Attended
    /\ UNCHANGED <<caps, offer, manager, call, srv, made, fills>>

ClosePopup ==
    /\ popup.open /\ ses.gen < MaxGen
    /\ popup' = [open |-> FALSE, cap |-> 0, account |-> None]
    /\ LockAll(ses)
    /\ UNCHANGED <<call, srv, made, fills>>

\* Something runs out.
TimePasses ==
    /\ \/ ses' = [ses EXCEPT !.idle = TRUE] /\ ses.active /\ ~ses.idle /\ UNCHANGED <<caps, mgr>>
       \/ /\ mgr # None
          /\ mgr' = [mgr EXCEPT !.stale = TRUE] \/ mgr' = [mgr EXCEPT !.stale = TRUE, !.low = TRUE]
          /\ UNCHANGED <<ses, caps>>
       \/ caps' \in SUBSET caps /\ UNCHANGED <<ses, mgr>>
    /\ UNCHANGED <<offer, refreshing, hosts, call, world>>

\* Another device makes or edits the item, or deletes it (its revisions in between
\* are left out).
OtherDevice(a, deleted) ==
    /\ srv[a].rev < MaxRevision
    /\ srv' = [srv EXCEPT ![a] = [rev |-> @.rev + 1, deleted |-> deleted]]
    /\ UNCHANGED <<policy, manager, call, popup, made, fills>>

\* The browser evicts the background script: nothing of it is kept, the counters of
\* what it made included.
Evict ==
    /\ ses' = [gen |-> 1, active |-> FALSE, idle |-> FALSE]
    /\ caps' = {} /\ offer' = None
    /\ mgr' = None /\ refreshing' = None /\ hosts' = {}
    /\ call' = [k \in Call |-> Idle]
    /\ popup' = [open |-> FALSE, cap |-> 0, account |-> None]
    /\ made' = [hosts |-> 0, grants |-> 0, offers |-> 0]
    /\ fills' = [g \in Grant |-> 0]
    /\ UNCHANGED srv

-----------------------------------------------------------------------------
Proceed(k) ==
    \/ Refreshed(k) \/ DevicesListed(k) \/ LoggedIn(k) \/ LoadPage(k) \/ LoggedOut(k)
    \/ GrantCandidates(k) \/ Show(k) \/ SendSave(k) \/ Saved(k)
    \/ (\E there \in BOOLEAN : ActiveTab(k, there)) \/ SendFill(k)
    \/ \E there \in BOOLEAN, p \in Page : FillSent(k, there, p)

Message(k) ==
    \/ \E a \in Account : Unlock(k, a)
    \/ Logout(k) \/ FillSelected(k)
    \/ \E op \in {"candidates", "show", "save"} : Ask(k, op)

Next ==
    \/ \E k \in Call : Message(k) \/ Proceed(k) \/ LoadFails(k)
    \/ \E d \in Document, p \in Page : Focused(p) /\ \E request \in Metadata(p) : Offer(d, p, request)
    \/ CancelOffer \/ Lock \/ OpenPopup \/ ClosePopup \/ TimePasses \/ Evict
    \/ \E a \in Account, deleted \in BOOLEAN : OtherDevice(a, deleted)

\* Every await comes to an end: the vault manager's requests have a deadline
\* (withDeadline), and the browser calls back for sendToDocument and getActiveTab,
\* which have none.  That a page of changes fails is not counted on.
Spec == Init /\ [][Next]_vars /\ \A k \in Call : WF_vars(Proceed(k))
-----------------------------------------------------------------------------
(* Properties                                                              *)

\* A fill message is sent only while unlocked, in the session in which its capability
\* was granted and chosen, and for a page of exactly the item's secure origin,
\* whatever locks, timeouts, unlocks and navigations come between the awaits of
\* fill-selected and whatever the offer's message says of the page.
FillInItsSession ==
    [][\A k \in Call : call[k].pc = "yes" /\ call'[k].pc = "sent" =>
          /\ ses.active /\ ses.gen = call[k].gen
          /\ call[k].offer.origin = UrlOf("https:", ItemUrl.host, "443")]_vars

\* A capability fills one form, although two clicks can be handled at the same time
\* and both wait for the active tab.
FillsOnce == \A g \in Grant : fills[g] <= 1

\* The token is rotated by one refresh at a time: the calls that find it about to
\* expire share the attempt, so none presents a token another has replaced.
OneRefresh ==
    \A j, k \in Call : call[j].pc = "refresh" /\ call[k].pc = "refresh" /\ call[j].sid = call[k].sid => j = k

\* No request is started for a session that was locked or replaced while the call
\* waited: what is sent after an await is sent for the state the manager still has.
NoRequestAfterLock ==
    [][\A k \in Call : call[k].pc # call'[k].pc /\ call'[k].pc \in {"refresh", "devices", "mutate"}
          => mgr # None /\ mgr.sid = call'[k].sid]_vars

\* Every message is answered: joined refreshes, pages of changes and locks on the way
\* leave no call waiting.
CallsEnd == \A k \in Call : call[k].pc # "idle" ~> call[k].pc = "idle"

\* What vault-manager.ts says of unlock, that a failed one never leaves a live host
\* session: every host that holds keys is the manager's or that of an unlock under way.
NoStrayHost ==
    \A h \in hosts : \/ mgr # None /\ mgr.sid = h
                     \/ \E k \in Call : call[k].op = "unlock" /\ call[k].sid = h
=============================================================================
