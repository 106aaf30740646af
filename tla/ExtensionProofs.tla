--------------------------- MODULE ExtensionProofs ---------------------------
(***************************************************************************)
(* Proofs about Extension, for any number of calls, accounts, documents,   *)
(* unlocks, grants and offers.                                             *)
(***************************************************************************)
EXTENDS Extension, TLAPS

-----------------------------------------------------------------------------
(* The inductive invariant                                                 *)

\* The records of call.
Handling == [op : {"none", "unlock", "logout", "candidates", "show", "save", "fill"},
             pc : {"idle", "login", "items", "logout", "refresh", "join", "devices",
                   "yes", "mutate", "tab", "sent"},
             sid : 0 .. MaxUnlocks, account : Account \cup {None}, gen : Nat,
             offer : Pending \cup {None}, cap : 0 .. MaxGrants, joins : Call \cup {None},
             cursor : 0 .. MaxRevision, rev : 0 .. MaxRevision]

\* What the call is at tells what it is for.
Sound(c) ==
    /\ c.pc = "idle" => c = Idle
    /\ c.pc \in {"login", "items"} <=> c.op = "unlock"
    /\ c.pc \in {"tab", "sent"} => c.op = "fill"
    /\ c.pc = "login" \/ c.pc = "items" \/ c.pc = "mutate" => c.account \in Account
    /\ c.op \in {"candidates", "fill"} => c.offer # None

Handled == \A k \in Call : Sound(call[k])

SecureOrigin == ParseOrigin(ItemUrl)

\* A fill belongs to a session that is not ahead of the present one, and if it is
\* the present one, that is unlocked; its offer is of a page of the item's origin.
Sessions ==
    /\ offer # None => offer.origin = SecureOrigin
    /\ \A k \in Call : call[k].op = "fill" =>
          /\ call[k].gen <= ses.gen
          /\ call[k].gen = ses.gen => ses.active
          /\ call[k].offer.origin = SecureOrigin

\* A fill that has consumed its capability.
Filling(c) == c.op = "fill" /\ c.pc # "tab"

\* A capability is in one place: about to be granted, in the store, consumed by the
\* one fill under way, or spent.
Tokens ==
    /\ \A k \in Call : call[k].op = "candidates" =>
          /\ call[k].cap \in 1 .. made.grants /\ fills[call[k].cap] = 0
          /\ \A e \in caps : e.id # call[k].cap
          /\ \A j \in Call : /\ call[j].op = "candidates" /\ call[j].cap = call[k].cap => j = k
                             /\ Filling(call[j]) => call[j].cap # call[k].cap
    /\ \A e \in caps : /\ e.id \in 1 .. made.grants /\ fills[e.id] = 0
                       /\ \A j \in Call : Filling(call[j]) => call[j].cap # e.id
    /\ \A k \in Call : Filling(call[k]) =>
          /\ call[k].cap \in 1 .. made.grants /\ fills[call[k].cap] = 0
          /\ \A j \in Call : Filling(call[j]) /\ call[j].cap = call[k].cap => j = k
    /\ \A g \in Grant : g > made.grants => fills[g] = 0

\* An unlock under way has an id nobody has used; a refresh of the manager's own
\* session is the one everybody joins.
Refreshes ==
    /\ \A k \in Call : call[k].op = "unlock" =>
          /\ call[k].sid \in 1 .. made.hosts
          /\ mgr # None => mgr.sid # call[k].sid
          /\ \A j \in Call : /\ call[j].op = "unlock" /\ call[j].sid = call[k].sid => j = k
                             /\ call[j].pc = "refresh" => call[j].sid # call[k].sid
    /\ mgr # None => mgr.sid <= made.hosts
    /\ \A k \in Call : call[k].pc = "refresh" =>
          /\ call[k].sid <= made.hosts
          /\ Same(k) => refreshing = k

IInv == TypeOK /\ Handled /\ Sessions /\ Tokens /\ FillsOnce /\ Refreshes /\ OneRefresh
-----------------------------------------------------------------------------
(* The session                                                             *)

Session == [gen : Nat, active : BOOLEAN, idle : BOOLEAN]

\* A session ends with its generation.
Forward(s, t) ==
    /\ t \in Session /\ t.gen >= s.gen
    /\ t.gen = s.gen /\ s.active => t.active

LEMMA LockedForward ==
    ASSUME NEW s \in Session
    PROVE  Forward(s, Locked(s)) /\ Locked(s).gen = s.gen + 1
BY DEF Locked, Session, Forward

LEMMA ForwardTrans ==
    ASSUME NEW s \in Session, NEW t \in Session, NEW u \in Session, Forward(s, t), Forward(t, u)
    PROVE  Forward(s, u)
BY DEF Session, Forward

LEMMA SessionSteps ==
    ASSUME TypeOK
    PROVE  /\ ses \in Session /\ Forward(ses, ses) /\ Forward(ses, Locked(ses))
           /\ Forward(ses, EnsureActive) /\ EnsureActive \in Session
           /\ Forward(ses, Attended) /\ Attended \in Session
           /\ Forward(ses, Locked(Attended))
           /\ Forward(ses, MarkUnlocked) /\ Forward(ses, [ses EXCEPT !.idle = TRUE])
<1>1. ses \in Session  BY DEF TypeOK, Session
<1>2. Forward(ses, ses) /\ Forward(ses, [ses EXCEPT !.idle = TRUE]) /\ Forward(ses, MarkUnlocked)
  <2>1. ses.gen \in Nat /\ ses.gen >= ses.gen  BY <1>1 DEF Session
  <2>2. \A b \in BOOLEAN : LET t == [ses EXCEPT !.idle = b] IN t \in Session /\ t.gen = ses.gen /\ t.active = ses.active
    BY <1>1 DEF Session
  <2>3. LET t == [ses EXCEPT !.active = TRUE] IN t \in Session /\ t.gen = ses.gen /\ t.active
    BY <1>1 DEF Session
  <2>4. Forward(ses, ses)  BY <1>1, <2>1 DEF Forward
  <2>5. Forward(ses, [ses EXCEPT !.idle = TRUE])  BY <2>1, <2>2 DEF Forward
  <2>6. Forward(ses, [ses EXCEPT !.active = TRUE])  BY <2>1, <2>3 DEF Forward
  <2> QED  BY <2>4, <2>5, <2>6 DEF MarkUnlocked
<1>3. Forward(ses, Locked(ses)) /\ Locked(ses) \in Session  BY <1>1, LockedForward DEF Forward
<1>4. EnsureActive \in Session /\ Forward(ses, EnsureActive)  BY <1>1, <1>2, <1>3 DEF EnsureActive
<1>5. Attended \in Session /\ Forward(ses, Attended)
  <2> DEFINE e == EnsureActive
  <2>1. e \in Session /\ Forward(ses, e)  BY <1>4
  <2> HIDE DEF e
  <2>2. Attended = [e EXCEPT !.idle = FALSE]  BY DEF Attended, e
  <2> QED  BY <2>1, <2>2 DEF Forward, Session
<1>6. Forward(ses, Locked(Attended))
  <2>1. Forward(Attended, Locked(Attended)) /\ Locked(Attended) \in Session
    BY <1>5, LockedForward DEF Forward
  <2> QED  BY <1>1, <1>5, <2>1, ForwardTrans
<1> QED  BY <1>1, <1>2, <1>3, <1>4, <1>5, <1>6

\* What disposing of the manager's state leaves.
LEMMA DisposeEffect ==
    ASSUME TypeOK, Dispose
    PROVE  mgr' = None /\ refreshing' = None /\ hosts' \subseteq 1 .. MaxUnlocks
BY DEF Dispose, TypeOK

LEMMA LockAllEffect ==
    ASSUME TypeOK, NEW s, Forward(ses, Locked(s)), LockAll(s)
    PROVE  /\ Forward(ses, ses') /\ caps' = {} /\ offer' = None
           /\ mgr' = None /\ refreshing' = None /\ hosts' \subseteq 1 .. MaxUnlocks
BY DisposeEffect DEF LockAll
-----------------------------------------------------------------------------
(* The calls                                                               *)

LEMMA IdleTyped ==
    /\ Idle \in Handling /\ Idle.pc = "idle" /\ Idle.op = "none" /\ Idle.sid = 0
    /\ Idle.offer = None /\ Idle.gen = 0 /\ Idle.cap = 0 /\ Sound(Idle)
<1>1. 0 \in 0 .. MaxUnlocks /\ 0 \in 0 .. MaxGrants /\ 0 \in 0 .. MaxRevision
  BY ExtensionAssumption
<1> QED  BY <1>1 DEF Idle, Handling, Sound

\* n claims nothing that c did not: the same capability, the same session, the same
\* unlock, the same refresh.
KeepsToken(c, n) ==
    /\ n.op = "candidates" => c.op = "candidates" /\ n.cap = c.cap
    /\ Filling(n) => Filling(c) /\ n.cap = c.cap
KeepsSession(c, n) == n.op = "fill" => c.op = "fill" /\ n.gen = c.gen /\ n.offer = c.offer
KeepsRefresh(c, n) ==
    /\ n.op = "unlock" => c.op = "unlock" /\ n.sid = c.sid
    /\ n.pc = "refresh" => c.pc = "refresh" /\ n.sid = c.sid
Milder(c, n) == KeepsToken(c, n) /\ KeepsSession(c, n) /\ KeepsRefresh(c, n)

LEMMA IdleMilder ==
    ASSUME NEW c
    PROVE  Milder(c, Idle)
BY IdleTyped DEF Milder, KeepsToken, KeepsSession, KeepsRefresh, Filling

\* Calls that claim less keep the sessions of the fills.
LEMMA SessionsStep ==
    ASSUME TypeOK, Sessions, Forward(ses, ses'),
           \A j \in Call : \/ KeepsSession(call[j], call'[j])
                           \/ /\ call'[j].gen = ses'.gen /\ ses'.active
                              /\ call'[j].offer # None /\ call'[j].offer = offer,
           offer' # None => offer'.origin = SecureOrigin
    PROVE  Sessions'
<1>1. \A j \in Call : call[j].gen \in Nat  BY DEF TypeOK
<1>2. ses.gen \in Nat /\ ses'.gen \in Nat  BY DEF TypeOK, Forward, Session
<1> SUFFICES ASSUME NEW k \in Call, call'[k].op = "fill"
             PROVE  /\ call'[k].gen <= ses'.gen
                    /\ call'[k].gen = ses'.gen => ses'.active
                    /\ call'[k].offer.origin = SecureOrigin
  BY DEF Sessions, SecureOrigin
<1>3. CASE KeepsSession(call[k], call'[k])
  <2>1. call[k].op = "fill" /\ call'[k].gen = call[k].gen /\ call'[k].offer = call[k].offer
    BY <1>3 DEF KeepsSession
  <2>2. /\ call[k].gen <= ses.gen /\ (call[k].gen = ses.gen => ses.active)
        /\ call[k].offer.origin = SecureOrigin
    BY <2>1 DEF Sessions
  <2> QED  BY <1>1, <1>2, <2>1, <2>2 DEF Forward
<1>4. CASE call'[k].gen = ses'.gen /\ ses'.active /\ call'[k].offer # None /\ call'[k].offer = offer
  BY <1>2, <1>4 DEF Sessions
<1> QED  BY <1>3, <1>4

\* Calls that claim less, and capabilities that go, fill nothing twice.
LEMMA TokensStep ==
    ASSUME TypeOK, Tokens, FillsOnce, \A j \in Call : KeepsToken(call[j], call'[j]),
           caps' \subseteq caps, fills' = fills, made'.grants = made.grants
    PROVE  Tokens' /\ FillsOnce'
<1>1. \A j \in Call : /\ call'[j].op = "candidates" => call[j].op = "candidates" /\ call'[j].cap = call[j].cap
                      /\ Filling(call'[j]) => Filling(call[j]) /\ call'[j].cap = call[j].cap
  BY DEF KeepsToken
<1>2. \A k \in Call : call'[k].op = "candidates" =>
          /\ call'[k].cap \in 1 .. made.grants /\ fills[call'[k].cap] = 0
          /\ \A e \in caps' : e.id # call'[k].cap
          /\ \A j \in Call : /\ call'[j].op = "candidates" /\ call'[j].cap = call'[k].cap => j = k
                             /\ Filling(call'[j]) => call'[j].cap # call'[k].cap
  BY <1>1 DEF Tokens
<1>3. \A e \in caps' : /\ e.id \in 1 .. made.grants /\ fills[e.id] = 0
                       /\ \A j \in Call : Filling(call'[j]) => call'[j].cap # e.id
  BY <1>1 DEF Tokens
<1>4. \A k \in Call : Filling(call'[k]) =>
          /\ call'[k].cap \in 1 .. made.grants /\ fills[call'[k].cap] = 0
          /\ \A j \in Call : Filling(call'[j]) /\ call'[j].cap = call'[k].cap => j = k
  BY <1>1 DEF Tokens
<1>5. Tokens'  BY <1>2, <1>3, <1>4 DEF Tokens, Filling
<1> QED  BY <1>5 DEF FillsOnce

\* Calls that claim less refresh nothing twice.
LEMMA RefreshesStep ==
    ASSUME TypeOK, Refreshes, OneRefresh, \A j \in Call : KeepsRefresh(call[j], call'[j]),
           mgr' = None \/ (mgr # None /\ mgr'.sid = mgr.sid),
           mgr' = None \/ \A j \in Call : call'[j].pc = "refresh" /\ refreshing = j => refreshing' = j,
           made'.hosts = made.hosts
    PROVE  Refreshes' /\ OneRefresh'
<1>1. \A j \in Call : /\ call'[j].op = "unlock" => call[j].op = "unlock" /\ call'[j].sid = call[j].sid
                      /\ call'[j].pc = "refresh" => call[j].pc = "refresh" /\ call'[j].sid = call[j].sid
  BY DEF KeepsRefresh
<1>2. OneRefresh'  BY <1>1 DEF OneRefresh
<1>3. \A k \in Call : call'[k].op = "unlock" =>
          /\ call'[k].sid \in 1 .. made.hosts
          /\ mgr' # None => mgr'.sid # call'[k].sid
          /\ \A j \in Call : /\ call'[j].op = "unlock" /\ call'[j].sid = call'[k].sid => j = k
                             /\ call'[j].pc = "refresh" => call'[j].sid # call'[k].sid
  BY <1>1 DEF Refreshes
<1>4. mgr' # None => mgr'.sid <= made.hosts  BY DEF Refreshes
<1>5. \A k \in Call : call'[k].pc = "refresh" =>
          /\ call'[k].sid <= made.hosts
          /\ mgr' # None /\ mgr'.sid = call'[k].sid => refreshing' = k
  BY <1>1 DEF Refreshes, Same
<1>6. Refreshes'  BY <1>3, <1>4, <1>5 DEF Refreshes, Same
<1> QED  BY <1>2, <1>6

\* A call whose check begins: it is over, or it is at the manager's session, and it
\* refreshes only if nobody does.
LEMMA CheckFreshEffect ==
    ASSUME TypeOK, NEW k \in Call, NEW c \in Handling, CheckFresh(k, c)
    PROVE  /\ call' \in [Call -> Handling]
           /\ \A j \in Call : j # k => call'[j] = call[j]
           /\ refreshing' \in Call \cup {None}
           /\ \/ call'[k] = Idle /\ refreshing' = refreshing
              \/ /\ mgr # None /\ call'[k].sid = mgr.sid
                 /\ call'[k].op = c.op /\ call'[k].cap = c.cap /\ call'[k].offer = c.offer
                 /\ call'[k].gen = c.gen /\ call'[k].account = c.account
                 /\ call'[k].pc \in {"yes", "join", "refresh", "devices"}
                 /\ IF call'[k].pc = "refresh" THEN refreshing = None /\ refreshing' = k ELSE refreshing' = refreshing
<1>1. call \in [Call -> Handling] /\ refreshing \in Call \cup {None}  BY DEF TypeOK, Handling
<1>2. mgr # None => mgr.sid \in 0 .. MaxUnlocks
  <2>1. mgr # None => mgr \in Unlocked  BY DEF TypeOK
  <2> QED  BY <2>1, ExtensionAssumption DEF Unlocked
<1>3. ASSUME NEW pc \in {"yes", "join", "refresh", "devices"}, NEW r \in Call \cup {None}, mgr # None,
             call' = [call EXCEPT ![k] = [c EXCEPT !.pc = pc, !.sid = mgr.sid, !.joins = r]]
      PROVE  /\ call' \in [Call -> Handling] /\ \A j \in Call : j # k => call'[j] = call[j]
             /\ call'[k].sid = mgr.sid /\ call'[k].pc = pc
             /\ call'[k].op = c.op /\ call'[k].cap = c.cap /\ call'[k].offer = c.offer
             /\ call'[k].gen = c.gen /\ call'[k].account = c.account
  <2> DEFINE n == [c EXCEPT !.pc = pc, !.sid = mgr.sid, !.joins = r]
  <2>1. /\ n \in Handling /\ n.sid = mgr.sid /\ n.pc = pc /\ n.op = c.op /\ n.cap = c.cap
        /\ n.offer = c.offer /\ n.gen = c.gen /\ n.account = c.account
    BY <1>2, <1>3 DEF Handling
  <2> HIDE DEF n
  <2>2. call' = [call EXCEPT ![k] = n]  BY <1>3 DEF n
  <2>3. call'[k] = n  BY <1>1, <2>2
  <2> QED  BY <1>1, <2>1, <2>2, <2>3
<1> DEFINE at(pc, r) == call' = [call EXCEPT ![k] = [c EXCEPT !.pc = pc, !.sid = mgr.sid, !.joins = r]]
<1>4. \/ mgr = None /\ call' = [call EXCEPT ![k] = Idle] /\ UNCHANGED refreshing
      \/ mgr # None /\ at("yes", None) /\ UNCHANGED refreshing
      \/ mgr # None /\ at("join", refreshing) /\ UNCHANGED refreshing
      \/ mgr # None /\ refreshing = None /\ at("refresh", None) /\ refreshing' = k
      \/ mgr # None /\ at("devices", None) /\ UNCHANGED refreshing
  BY DEF CheckFresh
<1>5. CASE mgr = None /\ call' = [call EXCEPT ![k] = Idle] /\ UNCHANGED refreshing
  BY <1>1, <1>5, IdleTyped
<1>6. CASE mgr # None /\ at("yes", None) /\ UNCHANGED refreshing  BY <1>1, <1>3, <1>6
<1>7. CASE mgr # None /\ at("join", refreshing) /\ UNCHANGED refreshing  BY <1>1, <1>3, <1>7
<1>8. CASE mgr # None /\ refreshing = None /\ at("refresh", None) /\ refreshing' = k  BY <1>1, <1>3, <1>8
<1>9. CASE mgr # None /\ at("devices", None) /\ UNCHANGED refreshing  BY <1>1, <1>3, <1>9
<1> QED  BY <1>4, <1>5, <1>6, <1>7, <1>8, <1>9

\* A refresh that begins is the only one of its session.
LEMMA CheckedRefreshes ==
    ASSUME TypeOK, Refreshes, OneRefresh, NEW k \in Call, NEW c \in Handling, c.op # "unlock",
           CheckFresh(k, c), mgr' = mgr, made'.hosts = made.hosts
    PROVE  Refreshes' /\ OneRefresh'
<1>1. /\ \A j \in Call : j # k => call'[j] = call[j]
      /\ \/ call'[k] = Idle /\ refreshing' = refreshing
         \/ /\ mgr # None /\ call'[k].sid = mgr.sid /\ call'[k].op = c.op
            /\ IF call'[k].pc = "refresh" THEN refreshing = None /\ refreshing' = k ELSE refreshing' = refreshing
  BY CheckFreshEffect
<1>2. call'[k].op # "unlock"  BY <1>1, IdleTyped
<1>3. CASE call'[k].pc # "refresh"
  <2>1. refreshing' = refreshing  BY <1>1, <1>3
  <2>2. \A j \in Call : /\ call'[j].op = "unlock" => call'[j] = call[j]
                        /\ call'[j].pc = "refresh" => call'[j] = call[j]
    BY <1>1, <1>2, <1>3
  <2>3. OneRefresh'  BY <2>2 DEF OneRefresh
  <2>4. Refreshes'  BY <2>1, <2>2 DEF Refreshes, Same
  <2> QED  BY <2>3, <2>4
<1>4. CASE call'[k].pc = "refresh"
  <2>1. mgr # None /\ call'[k].sid = mgr.sid /\ refreshing = None /\ refreshing' = k  BY <1>1, <1>4, IdleTyped
  <2>2. \A j \in Call : call[j].pc = "refresh" => call[j].sid # mgr.sid
    BY <2>1, NoneAssumption DEF Refreshes, Same
  <2>3. \A j \in Call : j # k => call'[j] = call[j]  BY <1>1
  <2>4. OneRefresh'
    <3> SUFFICES ASSUME NEW i \in Call, NEW j \in Call, call'[i].pc = "refresh", call'[j].pc = "refresh",
                        call'[i].sid = call'[j].sid
                 PROVE  i = j
      BY DEF OneRefresh
    <3> QED  BY <2>1, <2>2, <2>3 DEF OneRefresh
  <2>5. \A i \in Call : call'[i].op = "unlock" =>
          /\ call'[i].sid \in 1 .. made.hosts
          /\ mgr # None => mgr.sid # call'[i].sid
          /\ \A j \in Call : /\ call'[j].op = "unlock" /\ call'[j].sid = call'[i].sid => j = i
                             /\ call'[j].pc = "refresh" => call'[j].sid # call'[i].sid
    <3> SUFFICES ASSUME NEW i \in Call, call'[i].op = "unlock"
                 PROVE  /\ call'[i].sid \in 1 .. made.hosts
                        /\ mgr.sid # call'[i].sid
                        /\ \A j \in Call : /\ call'[j].op = "unlock" /\ call'[j].sid = call'[i].sid => j = i
                                           /\ call'[j].pc = "refresh" => call'[j].sid # call'[i].sid
      OBVIOUS
    <3>1. i # k /\ call'[i] = call[i]  BY <1>2, <2>3
    <3>2. call[i].sid \in 1 .. made.hosts /\ mgr.sid # call[i].sid  BY <2>1, <3>1 DEF Refreshes
    <3>3. \A j \in Call : j # k => /\ call'[j].op = "unlock" /\ call'[j].sid = call'[i].sid => j = i
                                   /\ call'[j].pc = "refresh" => call'[j].sid # call'[i].sid
      BY <2>3, <3>1 DEF Refreshes
    <3> QED  BY <1>2, <2>1, <3>1, <3>2, <3>3
  <2>6. \A i \in Call : call'[i].pc = "refresh" =>
          /\ call'[i].sid <= made.hosts
          /\ mgr # None /\ mgr.sid = call'[i].sid => refreshing' = i
    BY <2>1, <2>2, <2>3 DEF Refreshes
  <2>7. mgr # None => mgr.sid <= made.hosts  BY DEF Refreshes
  <2>8. Refreshes'  BY <2>5, <2>6, <2>7 DEF Refreshes, Same
  <2> QED  BY <2>4, <2>8
<1> QED  BY <1>3, <1>4

\* A step that only takes away keeps the invariant.
LEMMA Mild ==
    ASSUME IInv, TypeOK', Handled', Forward(ses, ses'), \A j \in Call : Milder(call[j], call'[j]),
           caps' \subseteq caps, offer' \in {offer, None}, fills' = fills,
           made'.grants = made.grants, made'.hosts = made.hosts,
           mgr' = None \/ (mgr # None /\ mgr'.sid = mgr.sid),
           mgr' = None \/ \A j \in Call : call'[j].pc = "refresh" /\ refreshing = j => refreshing' = j
    PROVE  IInv'
<1>1. TypeOK /\ Sessions /\ Tokens /\ FillsOnce /\ Refreshes /\ OneRefresh  BY DEF IInv
<1>2. offer' # None => offer'.origin = SecureOrigin  BY <1>1 DEF Sessions
<1>3. Sessions'  BY <1>1, <1>2, SessionsStep DEF Milder
<1>4. Tokens' /\ FillsOnce'  BY <1>1, TokensStep DEF Milder
<1>5. Refreshes' /\ OneRefresh'  BY <1>1, RefreshesStep DEF Milder
<1> QED  BY <1>3, <1>4, <1>5 DEF IInv
-----------------------------------------------------------------------------
(* The steps that only take away                                           *)

LEMMA MilderSelf ==
    ASSUME NEW c
    PROVE  Milder(c, c)
BY DEF Milder, KeepsToken, KeepsSession, KeepsRefresh

\* One call goes from where it is to n.
LEMMA OneCall ==
    ASSUME IInv, NEW k \in Call, NEW n \in Handling, Sound(n), call' = [call EXCEPT ![k] = n]
    PROVE  /\ call' \in [Call -> Handling] /\ Handled'
           /\ call'[k] = n /\ \A j \in Call : j # k => call'[j] = call[j]
           /\ Milder(call[k], n) => \A j \in Call : Milder(call[j], call'[j])
<1>1. call \in [Call -> Handling]  BY DEF IInv, TypeOK, Handling
<1>2. call' \in [Call -> Handling] /\ call'[k] = n /\ \A j \in Call : j # k => call'[j] = call[j]
  BY <1>1
<1>3. \A j \in Call : Sound(call'[j])  BY <1>2 DEF IInv, Handled
<1>4. Handled'  BY <1>3 DEF Handled, Sound
<1>5. Milder(call[k], n) => \A j \in Call : Milder(call[j], call'[j])  BY <1>2, MilderSelf
<1> QED  BY <1>2, <1>4, <1>5

\* What a call that changes nothing of its claims becomes.
LEMMA EndedCall ==
    ASSUME IInv, NEW k \in Call, call' = [call EXCEPT ![k] = Idle]
    PROVE  /\ call' \in [Call -> Handling] /\ Handled' /\ \A j \in Call : Milder(call[j], call'[j])
           /\ call'[k] = Idle /\ \A j \in Call : j # k => call'[j] = call[j]
BY OneCall, IdleTyped, IdleMilder

LEMMA SameCalls ==
    ASSUME IInv, call' = call
    PROVE  call' \in [Call -> Handling] /\ Handled' /\ \A j \in Call : Milder(call[j], call'[j])
<1>1. call \in [Call -> Handling]  BY DEF IInv, TypeOK, Handling
<1>2. Handled'  BY DEF IInv, Handled, Sound
<1> QED  BY <1>1, <1>2, MilderSelf

\* The types of the rest.
Rest(s, c, o, m, r, h) ==
    /\ s \in Session /\ c \subseteq [id : Grant, gen : Nat, doc : Document]
    /\ o \in Pending \cup {None} /\ m \in Unlocked \cup {None} /\ r \in Call \cup {None}
    /\ h \subseteq 1 .. MaxUnlocks
World(p, s, m, f) ==
    /\ p \in [open : BOOLEAN, cap : 0 .. MaxGrants, account : Account \cup {None}]
    /\ s \in [Account -> [rev : 0 .. MaxRevision, deleted : BOOLEAN]]
    /\ m \in [hosts : 0 .. MaxUnlocks, grants : 0 .. MaxGrants, offers : 0 .. MaxOffers]
    /\ f \in [Grant -> Nat]

LEMMA Types ==
    /\ TypeOK <=> /\ Rest(ses, caps, offer, mgr, refreshing, hosts) /\ World(popup, srv, made, fills)
                  /\ call \in [Call -> Handling]
    /\ TypeOK' <=> /\ Rest(ses', caps', offer', mgr', refreshing', hosts') /\ World(popup', srv', made', fills')
                   /\ call' \in [Call -> Handling]
BY DEF TypeOK, Rest, World, Handling, Session

LEMMA MildStep ==
    ASSUME IInv, call' \in [Call -> Handling], Handled', \A j \in Call : Milder(call[j], call'[j]),
           Forward(ses, ses'), caps' \subseteq caps, offer' \in {offer, None},
           mgr' = None \/ (mgr # None /\ mgr' \in Unlocked /\ mgr'.sid = mgr.sid),
           refreshing' \in Call \cup {None},
           mgr' = None \/ \A j \in Call : call'[j].pc = "refresh" /\ refreshing = j => refreshing' = j,
           hosts' \subseteq 1 .. MaxUnlocks, World(popup', srv', made', fills'),
           made' = made, fills' = fills
    PROVE  IInv'
<1>1. Rest(ses, caps, offer, mgr, refreshing, hosts)  BY Types DEF IInv
<1>2. Rest(ses', caps', offer', mgr', refreshing', hosts')  BY <1>1 DEF Rest, Forward
<1>3. TypeOK'  BY <1>2, Types
<1> QED  BY <1>3, Mild

\* A lock on the way is such a step.
LEMMA LockStep ==
    ASSUME IInv, call' \in [Call -> Handling], Handled', \A j \in Call : Milder(call[j], call'[j]),
           NEW s, Forward(ses, Locked(s)), LockAll(s),
           World(popup', srv', made', fills'), made' = made, fills' = fills
    PROVE  IInv'
<1>1. TypeOK  BY DEF IInv
<1>2. /\ Forward(ses, ses') /\ caps' = {} /\ offer' = None /\ mgr' = None /\ refreshing' = None
      /\ hosts' \subseteq 1 .. MaxUnlocks
  BY <1>1, LockAllEffect
<1> QED  BY <1>2, MildStep

\* The parts of the present state that the steps keep.
LEMMA Present ==
    ASSUME IInv
    PROVE  /\ Rest(ses, caps, offer, mgr, refreshing, hosts) /\ World(popup, srv, made, fills)
           /\ call \in [Call -> Handling] /\ TypeOK
BY Types DEF IInv

\* A call that goes on after its check began claims what it claimed.
LEMMA Advanced ==
    ASSUME NEW c \in Handling, Sound(c), c.pc \in {"refresh", "join", "devices", "yes"},
           NEW n \in Handling, n.op = c.op, n.cap = c.cap, n.gen = c.gen, n.offer = c.offer,
           \/ n.pc \in {"devices", "yes"}
           \/ n.pc = "mutate" /\ n.account \in Account
           \/ n.pc = "sent" /\ n.op = "fill"
    PROVE  Sound(n) /\ Milder(c, n)
<1>1. c.op # "unlock" /\ c.pc # "tab"  BY DEF Sound
<1>2. Milder(c, n)  BY <1>1 DEF Milder, KeepsToken, KeepsSession, KeepsRefresh, Filling
<1>3. Sound(n)  BY <1>1 DEF Sound
<1> QED  BY <1>2, <1>3

\* Calls that go on together.
LEMMA ManyCalls ==
    ASSUME IInv, NEW n, \A j \in Call : n[j] \in Handling /\ Sound(n[j]) /\ Milder(call[j], n[j]),
           call' = [j \in Call |-> n[j]]
    PROVE  call' \in [Call -> Handling] /\ Handled' /\ \A j \in Call : Milder(call[j], call'[j])
<1>1. call' \in [Call -> Handling] /\ \A j \in Call : call'[j] = n[j]  OBVIOUS
<1>2. \A j \in Call : Sound(call'[j])  BY <1>1
<1>3. Handled'  BY <1>2 DEF Handled, Sound
<1> QED  BY <1>1, <1>3

LEMMA AfterRefreshEffect ==
    ASSUME IInv, NEW k \in Call, call[k].pc = "refresh", call' = AfterRefresh(k)
    PROVE  /\ call' \in [Call -> Handling] /\ Handled' /\ \A j \in Call : Milder(call[j], call'[j])
           /\ call'[k].pc # "refresh"
<1> DEFINE d(j) == [call[j] EXCEPT !.pc = "devices", !.joins = None]
           n == [j \in Call |-> IF Awaits(j, k) THEN IF Same(j) THEN d(j) ELSE Idle ELSE call[j]]
<1>1. call \in [Call -> Handling] /\ \A j \in Call : Sound(call[j])  BY Present DEF IInv, Handled
<1>2. ASSUME NEW j \in Call, Awaits(j, k)
      PROVE  d(j) \in Handling /\ d(j).pc = "devices" /\ Sound(d(j)) /\ Milder(call[j], d(j))
  <2>1. call[j].pc \in {"refresh", "join"}  BY <1>2 DEF Awaits
  <2>2. call[j] \in Handling /\ Sound(call[j])  BY <1>1
  <2>3. /\ d(j) \in Handling /\ d(j).pc = "devices" /\ d(j).op = call[j].op /\ d(j).cap = call[j].cap
        /\ d(j).gen = call[j].gen /\ d(j).offer = call[j].offer
    BY <2>2 DEF Handling
  <2> HIDE DEF d
  <2> QED  BY <2>1, <2>2, <2>3, Advanced
<1> HIDE DEF d
<1>3. \A j \in Call : n[j] \in Handling /\ Sound(n[j]) /\ Milder(call[j], n[j])
  BY <1>1, <1>2, IdleTyped, IdleMilder, MilderSelf
<1>4. n[k].pc # "refresh"  BY <1>2, IdleTyped DEF Awaits
<1>5. call' = n  BY DEF AfterRefresh, n, d
<1> HIDE DEF n
<1>6. n = [j \in Call |-> n[j]]  BY DEF n
<1> QED  BY <1>3, <1>4, <1>5, <1>6, ManyCalls

\* The manager's state keeps its session whatever else of it changes.
LEMMA SameSession ==
    ASSUME IInv, mgr # None
    PROVE  /\ mgr \in Unlocked /\ mgr.sid \in 1 .. MaxUnlocks /\ mgr.account \in Account /\ mgr.rev \in 0 .. MaxRevision
           /\ \A b \in BOOLEAN : /\ [mgr EXCEPT !.low = b] \in Unlocked /\ [mgr EXCEPT !.low = b].sid = mgr.sid
                                 /\ [mgr EXCEPT !.stale = b] \in Unlocked /\ [mgr EXCEPT !.stale = b].sid = mgr.sid
           /\ LET m == [mgr EXCEPT !.stale = TRUE, !.low = TRUE] IN m \in Unlocked /\ m.sid = mgr.sid
           /\ \A r \in 0 .. MaxRevision : /\ [mgr EXCEPT !.rev = r] \in Unlocked
                                          /\ [mgr EXCEPT !.rev = r].sid = mgr.sid
<1>1. mgr \in Unlocked  BY Present DEF Rest
<1> QED  BY <1>1 DEF Unlocked

LEMMA RefreshedStep ==
    ASSUME IInv, NEW k \in Call, Refreshed(k)
    PROVE  IInv'
<1>1. /\ Rest(ses, caps, offer, mgr, refreshing, hosts) /\ World(popup, srv, made, fills) /\ TypeOK
      /\ call \in [Call -> Handling] /\ Forward(ses, ses) /\ Forward(ses, Locked(ses))
  BY Present, SessionSteps
<1>2. call[k].pc = "refresh" /\ World(popup', srv', made', fills') /\ made' = made /\ fills' = fills
  BY <1>1 DEF Refreshed, world
<1> DEFINE over == refreshing' = IF refreshing = k THEN None ELSE refreshing
<1>3. CASE /\ call' = AfterRefresh(k)
           /\ mgr' = IF Same(k) THEN [mgr EXCEPT !.low = FALSE] ELSE mgr
           /\ over /\ UNCHANGED <<policy, hosts>>
  <2>1. /\ call' \in [Call -> Handling] /\ Handled' /\ \A j \in Call : Milder(call[j], call'[j])
        /\ call'[k].pc # "refresh"
    BY <1>2, <1>3, AfterRefreshEffect
  <2>2. mgr' = None \/ (mgr # None /\ mgr' \in Unlocked /\ mgr'.sid = mgr.sid)
    BY <1>3, SameSession DEF Same
  <2>3. /\ refreshing' \in Call \cup {None} /\ hosts' \subseteq 1 .. MaxUnlocks
        /\ \A j \in Call : call'[j].pc = "refresh" /\ refreshing = j => refreshing' = j
    BY <1>1, <1>3, <2>1 DEF Rest
  <2>4. ses' = ses /\ caps' = caps /\ offer' = offer  BY <1>3 DEF policy
  <2> QED  BY <1>1, <1>2, <2>1, <2>2, <2>3, <2>4, MildStep
<1>4. CASE /\ call' = [j \in Call |-> IF Awaits(j, k) THEN Idle ELSE call[j]]
           /\ IF Same(k) THEN LockAll(ses) ELSE over /\ UNCHANGED <<policy, mgr, hosts>>
  <2> DEFINE n == [j \in Call |-> IF Awaits(j, k) THEN Idle ELSE call[j]]
  <2>1. \A j \in Call : n[j] \in Handling /\ Sound(n[j]) /\ Milder(call[j], n[j])
    BY <1>1, IdleTyped, IdleMilder, MilderSelf DEF IInv, Handled
  <2>2. n[k] = Idle /\ n = [j \in Call |-> n[j]]  BY DEF Awaits
  <2>3. call' = n  BY <1>4
  <2> HIDE DEF n
  <2>4. /\ call' \in [Call -> Handling] /\ Handled' /\ \A j \in Call : Milder(call[j], call'[j])
        /\ call'[k].pc # "refresh"
    BY <2>1, <2>2, <2>3, ManyCalls, IdleTyped
  <2>5. CASE Same(k)  BY <1>1, <1>2, <1>4, <2>4, <2>5, LockStep
  <2>6. CASE ~Same(k)
    <3>1. over /\ UNCHANGED <<policy, mgr, hosts>>  BY <1>4, <2>6
    <3>2. /\ refreshing' \in Call \cup {None} /\ hosts' \subseteq 1 .. MaxUnlocks
          /\ \A j \in Call : call'[j].pc = "refresh" /\ refreshing = j => refreshing' = j
      BY <1>1, <2>4, <3>1 DEF Rest
    <3>3. ses' = ses /\ caps' = caps /\ offer' = offer /\ mgr' = mgr  BY <3>1 DEF policy
    <3> QED  BY <1>1, <1>2, <2>4, <3>2, <3>3, SameSession, MildStep
  <2> QED  BY <2>5, <2>6
<1> QED  BY <1>3, <1>4 DEF Refreshed

\* The manager keeps its state.
LEMMA QuietStep ==
    ASSUME IInv, call' \in [Call -> Handling], Handled', \A j \in Call : Milder(call[j], call'[j]),
           Forward(ses, ses'), caps' \subseteq caps, offer' \in {offer, None},
           UNCHANGED manager, World(popup', srv', made', fills'), made' = made, fills' = fills
    PROVE  IInv'
<1>1. Rest(ses, caps, offer, mgr, refreshing, hosts)  BY Present
<1>2. mgr' = mgr /\ refreshing' = refreshing /\ hosts' = hosts  BY DEF manager
<1> QED  BY <1>1, <1>2, SameSession, MildStep DEF Rest

\* The manager's state is disposed of.
LEMMA DisposeStep ==
    ASSUME IInv, call' \in [Call -> Handling], Handled', \A j \in Call : Milder(call[j], call'[j]),
           Forward(ses, ses'), caps' \subseteq caps, offer' \in {offer, None},
           Dispose, World(popup', srv', made', fills'), made' = made, fills' = fills
    PROVE  IInv'
<1>1. TypeOK  BY Present
<1> QED  BY <1>1, DisposeEffect, MildStep

LEMMA DevicesListedStep ==
    ASSUME IInv, NEW k \in Call, DevicesListed(k)
    PROVE  IInv'
<1>1. /\ Rest(ses, caps, offer, mgr, refreshing, hosts) /\ World(popup, srv, made, fills) /\ TypeOK
      /\ call \in [Call -> Handling] /\ Forward(ses, ses) /\ Forward(ses, Locked(ses))
  BY Present, SessionSteps
<1>2. call[k].pc = "devices" /\ World(popup', srv', made', fills') /\ made' = made /\ fills' = fills
  BY <1>1 DEF DevicesListed, world
<1>3. CASE /\ call' = [call EXCEPT ![k] = IF Same(k) THEN [@ EXCEPT !.pc = "yes"] ELSE Idle]
           /\ mgr' = IF Same(k) THEN [mgr EXCEPT !.stale = FALSE] ELSE mgr
           /\ UNCHANGED <<policy, refreshing, hosts>>
  <2> DEFINE y == [call[k] EXCEPT !.pc = "yes"]
  <2>1. call[k] \in Handling /\ Sound(call[k])  BY <1>1 DEF IInv, Handled
  <2>2. /\ y \in Handling /\ y.pc = "yes" /\ y.op = call[k].op /\ y.cap = call[k].cap
        /\ y.gen = call[k].gen /\ y.offer = call[k].offer
    BY <2>1 DEF Handling
  <2>3. call' = [call EXCEPT ![k] = IF Same(k) THEN y ELSE Idle]  BY <1>1, <1>3
  <2> HIDE DEF y
  <2>4. Sound(y) /\ Milder(call[k], y)  BY <1>2, <2>1, <2>2, Advanced
  <2>5. call' \in [Call -> Handling] /\ Handled' /\ \A j \in Call : Milder(call[j], call'[j])
    <3>1. CASE Same(k)  BY <2>2, <2>3, <2>4, <3>1, OneCall
    <3>2. CASE ~Same(k)  BY <2>3, <3>2, EndedCall
    <3> QED  BY <3>1, <3>2
  <2>6. mgr' = None \/ (mgr # None /\ mgr' \in Unlocked /\ mgr'.sid = mgr.sid)
    BY <1>3, SameSession DEF Same
  <2>7. ses' = ses /\ caps' = caps /\ offer' = offer /\ refreshing' = refreshing /\ hosts' = hosts
    BY <1>3 DEF policy
  <2> QED  BY <1>1, <1>2, <2>5, <2>6, <2>7, MildStep DEF Rest
<1>4. CASE /\ call' = [call EXCEPT ![k] = Idle]
           /\ IF Same(k) THEN LockAll(ses) ELSE UNCHANGED <<policy, manager>>
  <2>1. call' \in [Call -> Handling] /\ Handled' /\ \A j \in Call : Milder(call[j], call'[j])
    BY <1>4, EndedCall
  <2>2. CASE Same(k)  BY <1>1, <1>2, <1>4, <2>1, <2>2, LockStep
  <2>3. CASE ~Same(k)
    <3>1. UNCHANGED manager /\ ses' = ses /\ caps' = caps /\ offer' = offer  BY <1>4, <2>3 DEF policy
    <3> QED  BY <1>1, <1>2, <2>1, <3>1, QuietStep
  <2> QED  BY <2>2, <2>3
<1> QED  BY <1>3, <1>4 DEF DevicesListed

LEMMA LoggedInStep ==
    ASSUME IInv, NEW k \in Call, LoggedIn(k)
    PROVE  IInv'
<1>1. /\ Rest(ses, caps, offer, mgr, refreshing, hosts) /\ World(popup, srv, made, fills) /\ TypeOK
      /\ call \in [Call -> Handling] /\ Forward(ses, ses)
  BY Present, SessionSteps
<1>2. /\ call[k].pc = "login" /\ World(popup', srv', made', fills') /\ made' = made /\ fills' = fills
      /\ ses' = ses /\ caps' = caps /\ offer' = offer
  BY <1>1 DEF LoggedIn, world, policy
<1>3. call[k] \in Handling /\ Sound(call[k]) /\ call[k].op = "unlock"  BY <1>1, <1>2 DEF IInv, Handled, Sound
<1>4. CASE call' = [call EXCEPT ![k] = Idle] /\ (Dispose \/ UNCHANGED manager)
  <2>1. call' \in [Call -> Handling] /\ Handled' /\ \A j \in Call : Milder(call[j], call'[j])
    BY <1>4, EndedCall
  <2> QED  BY <1>1, <1>2, <1>4, <2>1, DisposeStep, QuietStep
<1>5. CASE /\ call' = [call EXCEPT ![k].pc = "items"]
           /\ hosts' = hosts \cup {call[k].sid} /\ UNCHANGED <<mgr, refreshing>>
  <2> DEFINE n == [call[k] EXCEPT !.pc = "items"]
  <2>1. /\ n \in Handling /\ n.pc = "items" /\ n.op = "unlock" /\ n.sid = call[k].sid
        /\ n.account = call[k].account /\ n.offer = call[k].offer
    BY <1>3 DEF Handling
  <2>2. call' = [call EXCEPT ![k] = n]  BY <1>1, <1>5
  <2> HIDE DEF n
  <2>3. Sound(n)  BY <1>2, <1>3, <2>1 DEF Sound
  <2>4. Milder(call[k], n)  BY <1>3, <2>1 DEF Milder, KeepsToken, KeepsSession, KeepsRefresh, Filling
  <2>5. call' \in [Call -> Handling] /\ Handled' /\ \A j \in Call : Milder(call[j], call'[j])
    BY <2>1, <2>2, <2>3, <2>4, OneCall
  <2>6. call[k].sid \in 1 .. MaxUnlocks
    <3>1. call[k].sid \in 1 .. made.hosts  BY <1>3 DEF IInv, Refreshes
    <3>2. made.hosts \in 0 .. MaxUnlocks  BY <1>1 DEF World
    <3>3. MaxUnlocks \in Nat  BY ExtensionAssumption
    <3> QED  BY <3>1, <3>2, <3>3
  <2>7. hosts' \subseteq 1 .. MaxUnlocks /\ mgr' = mgr /\ refreshing' = refreshing  BY <1>1, <1>5, <2>6 DEF Rest
  <2> QED  BY <1>1, <1>2, <2>5, <2>7, SameSession, MildStep DEF Rest
<1> QED  BY <1>4, <1>5 DEF LoggedIn

LEMMA EndsStep ==
    ASSUME IInv, NEW k \in Call, LoadFails(k) \/ LoggedOut(k) \/ Show(k)
    PROVE  IInv'
<1>1. World(popup, srv, made, fills) /\ TypeOK /\ Forward(ses, ses) /\ Forward(ses, Locked(ses))
  BY Present, SessionSteps
<1>2. call' \in [Call -> Handling] /\ Handled' /\ \A j \in Call : Milder(call[j], call'[j])
  BY EndedCall DEF LoadFails, LoggedOut, Show
<1>3. World(popup', srv', made', fills') /\ made' = made /\ fills' = fills
  BY <1>1 DEF LoadFails, LoggedOut, Show, world
<1>4. CASE LoadFails(k)
  <2>1. Dispose /\ ses' = ses /\ caps' = caps /\ offer' = offer  BY <1>4 DEF LoadFails, policy
  <2> QED  BY <1>1, <1>2, <1>3, <2>1, DisposeStep
<1>5. CASE LoggedOut(k)
  <2>1. LockAll(ses)  BY <1>5 DEF LoggedOut
  <2> QED  BY <1>1, <1>2, <1>3, <2>1, LockStep
<1>6. CASE Show(k)
  <2>1. UNCHANGED manager /\ ses' = ses /\ caps' = caps /\ offer' = offer  BY <1>6 DEF Show, policy
  <2> QED  BY <1>1, <1>2, <1>3, <2>1, QuietStep
<1> QED  BY <1>4, <1>5, <1>6

LEMMA LogoutStep ==
    ASSUME IInv, NEW k \in Call, Logout(k)
    PROVE  IInv'
<1>1. World(popup, srv, made, fills) /\ TypeOK /\ Forward(ses, Attended)
  BY Present, SessionSteps
<1>2. /\ ses' = Attended /\ caps' = caps /\ offer' = offer /\ UNCHANGED manager
      /\ World(popup', srv', made', fills') /\ made' = made /\ fills' = fills
  BY <1>1 DEF Logout, world
<1> DEFINE n == [Idle EXCEPT !.op = "logout", !.pc = "logout"]
<1>3. /\ n \in Handling /\ n.op = "logout" /\ n.pc = "logout"
  <2> DEFINE i == Idle
  <2>1. i \in Handling  BY IdleTyped
  <2> HIDE DEF i
  <2>2. LET m == [i EXCEPT !.op = "logout", !.pc = "logout"] IN m \in Handling /\ m.op = "logout" /\ m.pc = "logout"
    BY <2>1 DEF Handling
  <2> QED  BY <2>2 DEF i
<1>4. call' = [call EXCEPT ![k] = n]  BY DEF Logout
<1> HIDE DEF n
<1>5. Sound(n) /\ Milder(call[k], n)  BY <1>3 DEF Sound, Milder, KeepsToken, KeepsSession, KeepsRefresh, Filling
<1>6. call' \in [Call -> Handling] /\ Handled' /\ \A j \in Call : Milder(call[j], call'[j])
  BY <1>3, <1>4, <1>5, OneCall
<1> QED  BY <1>1, <1>2, <1>6, QuietStep

LEMMA PopupStep ==
    ASSUME IInv, Lock \/ CancelOffer \/ OpenPopup \/ ClosePopup
    PROVE  IInv'
<1>1. /\ World(popup, srv, made, fills) /\ TypeOK /\ Forward(ses, EnsureActive)
      /\ Forward(ses, Attended) /\ Forward(ses, Locked(ses)) /\ Forward(ses, Locked(Attended))
  BY Present, SessionSteps
<1>2. call' \in [Call -> Handling] /\ Handled' /\ \A j \in Call : Milder(call[j], call'[j])
  BY SameCalls DEF Lock, CancelOffer, OpenPopup, ClosePopup
<1>3. srv' = srv /\ made' = made /\ fills' = fills
  BY DEF Lock, CancelOffer, OpenPopup, ClosePopup, world
<1>4. CASE Lock
  <2>1. LockAll(Attended) /\ popup' = popup  BY <1>4 DEF Lock, world
  <2> QED  BY <1>1, <1>2, <1>3, <2>1, LockStep
<1>5. CASE CancelOffer
  <2>1. ses' = EnsureActive /\ caps' = caps /\ offer' = None /\ UNCHANGED manager /\ popup' = popup
    BY <1>5 DEF CancelOffer, world
  <2> QED  BY <1>1, <1>2, <1>3, <2>1, QuietStep
<1>6. CASE OpenPopup
  <2>1. ses' = Attended /\ caps' = caps /\ offer' = offer /\ UNCHANGED manager
    BY <1>6 DEF OpenPopup
  <2>2. World(popup', srv', made', fills')  BY <1>1, <1>3, <1>6 DEF OpenPopup, World
  <2> QED  BY <1>1, <1>2, <1>3, <2>1, <2>2, QuietStep
<1>7. CASE ClosePopup
  <2>1. LockAll(ses)  BY <1>7 DEF ClosePopup
  <2>2. World(popup', srv', made', fills')  BY <1>1, <1>3, <1>7, ExtensionAssumption DEF ClosePopup, World
  <2> QED  BY <1>1, <1>2, <1>3, <2>1, <2>2, LockStep
<1> QED  BY <1>4, <1>5, <1>6, <1>7

LEMMA SurroundingsStep ==
    ASSUME IInv, TimePasses \/ \E a \in Account, deleted \in BOOLEAN : OtherDevice(a, deleted)
    PROVE  IInv'
<1>1. /\ Rest(ses, caps, offer, mgr, refreshing, hosts) /\ World(popup, srv, made, fills) /\ TypeOK
      /\ Forward(ses, ses) /\ Forward(ses, [ses EXCEPT !.idle = TRUE])
  BY Present, SessionSteps
<1>2. CASE TimePasses
  <2>1. /\ call' = call /\ World(popup', srv', made', fills') /\ made' = made /\ fills' = fills
        /\ offer' = offer /\ refreshing' = refreshing /\ hosts' = hosts
    BY <1>1, <1>2 DEF TimePasses, world
  <2>2. call' \in [Call -> Handling] /\ Handled' /\ \A j \in Call : Milder(call[j], call'[j])
    BY <2>1, SameCalls
  <2>3. Forward(ses, ses')  BY <1>1, <1>2 DEF TimePasses
  <2>4. caps' \subseteq caps  BY <1>2 DEF TimePasses
  <2>5. mgr' = None \/ (mgr # None /\ mgr' \in Unlocked /\ mgr'.sid = mgr.sid)
    <3>1. \/ mgr' = mgr
          \/ mgr # None /\ mgr' = [mgr EXCEPT !.stale = TRUE]
          \/ mgr # None /\ mgr' = [mgr EXCEPT !.stale = TRUE, !.low = TRUE]
      BY <1>2 DEF TimePasses
    <3>2. mgr # None => [mgr EXCEPT !.stale = TRUE] \in Unlocked /\ [mgr EXCEPT !.stale = TRUE].sid = mgr.sid
      BY SameSession
    <3>3. mgr # None => /\ [mgr EXCEPT !.stale = TRUE, !.low = TRUE] \in Unlocked
                        /\ [mgr EXCEPT !.stale = TRUE, !.low = TRUE].sid = mgr.sid
      BY SameSession
    <3>4. CASE mgr' = mgr  BY <3>4, SameSession
    <3>5. CASE mgr # None /\ mgr' = [mgr EXCEPT !.stale = TRUE]  BY <3>2, <3>5
    <3>6. CASE mgr # None /\ mgr' = [mgr EXCEPT !.stale = TRUE, !.low = TRUE]  BY <3>3, <3>6
    <3> QED  BY <3>1, <3>4, <3>5, <3>6
  <2> QED  BY <1>1, <2>1, <2>2, <2>3, <2>4, <2>5, MildStep DEF Rest
<1>3. ASSUME NEW a \in Account, NEW deleted \in BOOLEAN, OtherDevice(a, deleted)  PROVE IInv'
  <2>1. /\ call' = call /\ made' = made /\ fills' = fills /\ popup' = popup
        /\ UNCHANGED manager /\ ses' = ses /\ caps' = caps /\ offer' = offer
    BY <1>3 DEF OtherDevice, policy
  <2>2. call' \in [Call -> Handling] /\ Handled' /\ \A j \in Call : Milder(call[j], call'[j])
    BY <2>1, SameCalls
  <2>3. srv' \in [Account -> [rev : 0 .. MaxRevision, deleted : BOOLEAN]]
    <3>1. srv[a].rev \in 0 .. MaxRevision /\ MaxRevision \in Nat  BY <1>1, ExtensionAssumption DEF World
    <3>2. srv[a].rev + 1 \in 0 .. MaxRevision  BY <1>3, <3>1 DEF OtherDevice
    <3> QED  BY <1>1, <1>3, <3>2 DEF OtherDevice, World
  <2>4. World(popup', srv', made', fills')  BY <1>1, <2>1, <2>3 DEF World
  <2> QED  BY <1>1, <2>1, <2>2, <2>4, QuietStep
<1> QED  BY <1>2, <1>3

LEMMA SendStep ==
    ASSUME IInv, NEW k \in Call, SendSave(k) \/ SendFill(k)
    PROVE  IInv'
<1>1. /\ World(popup, srv, made, fills) /\ TypeOK /\ call \in [Call -> Handling] /\ Forward(ses, ses)
  BY Present, SessionSteps
<1>2. /\ call[k].pc = "yes" /\ call[k] \in Handling /\ Sound(call[k]) /\ UNCHANGED manager
      /\ ses' = ses /\ caps' = caps /\ offer' = offer
      /\ World(popup', srv', made', fills') /\ made' = made /\ fills' = fills
  BY <1>1 DEF SendSave, SendFill, policy, world, IInv, Handled
<1>3. call' \in [Call -> Handling] /\ Handled' /\ \A j \in Call : Milder(call[j], call'[j])
  <2>1. CASE call' = [call EXCEPT ![k] = Idle]  BY <2>1, EndedCall
  <2>2. CASE SendSave(k) /\ Same(k)
    <3> DEFINE n == [call[k] EXCEPT !.pc = "mutate", !.account = mgr.account, !.rev = mgr.rev]
    <3>1. mgr.account \in Account /\ mgr.rev \in 0 .. MaxRevision  BY <2>2, SameSession DEF Same
    <3>2. /\ n \in Handling /\ n.pc = "mutate" /\ n.account \in Account /\ n.op = call[k].op
          /\ n.cap = call[k].cap /\ n.gen = call[k].gen /\ n.offer = call[k].offer
      BY <1>2, <3>1 DEF Handling
    <3>3. call' = [call EXCEPT ![k] = n]  BY <2>2 DEF SendSave
    <3> HIDE DEF n
    <3>4. Sound(n) /\ Milder(call[k], n)  BY <1>2, <3>2, Advanced
    <3> QED  BY <3>2, <3>3, <3>4, OneCall
  <2>3. CASE SendFill(k) /\ call' = [call EXCEPT ![k] = [call[k] EXCEPT !.pc = "sent"]]
    <3> DEFINE n == [call[k] EXCEPT !.pc = "sent"]
    <3>1. call[k].op = "fill"  BY <2>3 DEF SendFill
    <3>2. /\ n \in Handling /\ n.pc = "sent" /\ n.op = call[k].op
          /\ n.cap = call[k].cap /\ n.gen = call[k].gen /\ n.offer = call[k].offer
      BY <1>2 DEF Handling
    <3>3. call' = [call EXCEPT ![k] = n]  BY <2>3
    <3> HIDE DEF n
    <3>4. Sound(n) /\ Milder(call[k], n)  BY <1>2, <3>1, <3>2, Advanced
    <3> QED  BY <3>2, <3>3, <3>4, OneCall
  <2>4. SendSave(k) => Same(k) \/ call' = [call EXCEPT ![k] = Idle]  BY DEF SendSave
  <2>5. SendFill(k) => \/ call' = [call EXCEPT ![k] = [call[k] EXCEPT !.pc = "sent"]]
                       \/ call' = [call EXCEPT ![k] = Idle]
    BY <1>1 DEF SendFill
  <2> QED  BY <2>1, <2>2, <2>3, <2>4, <2>5
<1> QED  BY <1>1, <1>2, <1>3, QuietStep

LEMMA SavedStep ==
    ASSUME IInv, NEW k \in Call, Saved(k)
    PROVE  IInv'
<1>1. /\ Rest(ses, caps, offer, mgr, refreshing, hosts) /\ World(popup, srv, made, fills) /\ TypeOK
      /\ call \in [Call -> Handling] /\ Forward(ses, ses) /\ Forward(ses, Locked(ses))
  BY Present, SessionSteps
<1> DEFINE a == call[k].account
           applied == srv[a].rev = call[k].rev /\ srv[a].rev < MaxRevision
<1>2. /\ call[k].pc = "mutate" /\ call' = [call EXCEPT ![k] = Idle]
      /\ popup' = popup /\ made' = made /\ fills' = fills
  BY DEF Saved
<1>3. call' \in [Call -> Handling] /\ Handled' /\ \A j \in Call : Milder(call[j], call'[j])
  BY <1>2, EndedCall
<1>4. a \in Account  BY <1>2 DEF IInv, Handled, Sound
<1>5. CASE /\ applied
           /\ srv' = [srv EXCEPT ![a] = [rev |-> @.rev + 1, deleted |-> FALSE]]
           /\ \/ mgr' = IF Same(k) THEN [mgr EXCEPT !.rev = call[k].rev + 1] ELSE mgr
              \/ UNCHANGED mgr
           /\ UNCHANGED <<policy, refreshing, hosts>>
  <2>1. srv[a].rev + 1 \in 0 .. MaxRevision /\ call[k].rev + 1 = srv[a].rev + 1
    <3>1. srv[a].rev \in 0 .. MaxRevision /\ MaxRevision \in Nat  BY <1>1, <1>4, ExtensionAssumption DEF World
    <3> QED  BY <1>5, <3>1
  <2>2. srv' \in [Account -> [rev : 0 .. MaxRevision, deleted : BOOLEAN]]  BY <1>1, <1>4, <1>5, <2>1 DEF World
  <2>3. World(popup', srv', made', fills')  BY <1>1, <1>2, <2>2 DEF World
  <2>4. mgr' = None \/ (mgr # None /\ mgr' \in Unlocked /\ mgr'.sid = mgr.sid)
    <3>1. CASE mgr' = mgr  BY <3>1, SameSession
    <3>2. CASE Same(k) /\ mgr' = [mgr EXCEPT !.rev = call[k].rev + 1]
      <4>1. mgr # None /\ call[k].rev + 1 \in 0 .. MaxRevision  BY <2>1, <3>2 DEF Same
      <4> QED  BY <3>2, <4>1, SameSession
    <3> QED  BY <1>5, <3>1, <3>2
  <2>5. ses' = ses /\ caps' = caps /\ offer' = offer /\ refreshing' = refreshing /\ hosts' = hosts
    BY <1>5 DEF policy
  <2> QED  BY <1>1, <1>2, <1>3, <2>3, <2>4, <2>5, MildStep DEF Rest
<1>6. CASE UNCHANGED srv /\ (UNCHANGED <<policy, manager>> \/ (Same(k) /\ LockAll(ses)))
  <2>1. World(popup', srv', made', fills')  BY <1>1, <1>2, <1>6
  <2>2. CASE UNCHANGED <<policy, manager>>
    <3>1. UNCHANGED manager /\ ses' = ses /\ caps' = caps /\ offer' = offer  BY <2>2 DEF policy
    <3> QED  BY <1>1, <1>2, <1>3, <2>1, <3>1, QuietStep
  <2>3. CASE LockAll(ses)  BY <1>1, <1>2, <1>3, <2>1, <2>3, LockStep
  <2> QED  BY <1>6, <2>2, <2>3
<1> QED  BY <1>5, <1>6 DEF Saved
-----------------------------------------------------------------------------
(* The steps that claim something                                          *)

\* fill-selected: the fill is of the present session and of the pending offer.
LEMMA FillSelectedStep ==
    ASSUME IInv, NEW k \in Call, FillSelected(k)
    PROVE  IInv'
<1>1. /\ Rest(ses, caps, offer, mgr, refreshing, hosts) /\ World(popup, srv, made, fills) /\ TypeOK
      /\ call \in [Call -> Handling] /\ Forward(ses, Attended) /\ Attended \in Session
  BY Present, SessionSteps
<1>2. /\ ses' = Attended /\ caps' = caps /\ offer' = offer /\ UNCHANGED manager
      /\ World(popup', srv', made', fills') /\ made' = made /\ fills' = fills
  BY <1>1 DEF FillSelected, world
<1>3. CASE UNCHANGED call
  <2>1. call' \in [Call -> Handling] /\ Handled' /\ \A j \in Call : Milder(call[j], call'[j])
    BY <1>3, SameCalls
  <2> QED  BY <1>1, <1>2, <2>1, QuietStep
<1> DEFINE g == Attended.gen
           i == Idle
           n == [i EXCEPT !.op = "fill", !.pc = "tab", !.gen = g, !.offer = offer, !.cap = popup.cap]
<1>4. CASE Attended.active /\ offer # None /\ call' = [call EXCEPT ![k] = n]
  <2>1. g \in Nat /\ popup.cap \in 0 .. MaxGrants /\ offer \in Pending \cup {None} /\ i \in Handling
    BY <1>1, IdleTyped DEF Rest, World, Session
  <2> HIDE DEF g, i
  <2>2. n \in Handling /\ n.op = "fill" /\ n.pc = "tab" /\ n.gen = g /\ n.offer = offer
    BY <2>1 DEF Handling
  <2> HIDE DEF n
  <2>3. Sound(n)  BY <1>4, <2>2 DEF Sound
  <2>4. KeepsToken(call[k], n) /\ KeepsRefresh(call[k], n)  BY <2>2 DEF KeepsToken, KeepsRefresh, Filling
  <2>5. /\ call' \in [Call -> Handling] /\ Handled'
        /\ call'[k] = n /\ \A j \in Call : j # k => call'[j] = call[j]
    BY <1>4, <2>2, <2>3, OneCall
  <2>6. \A j \in Call : KeepsToken(call[j], call'[j]) /\ KeepsRefresh(call[j], call'[j])
    BY <2>4, <2>5, MilderSelf DEF Milder
  <2>7. \A j \in Call : \/ KeepsSession(call[j], call'[j])
                        \/ /\ call'[j].gen = ses'.gen /\ ses'.active
                           /\ call'[j].offer # None /\ call'[j].offer = offer
    <3> SUFFICES ASSUME NEW j \in Call
                 PROVE  \/ KeepsSession(call[j], call'[j])
                        \/ /\ call'[j].gen = ses'.gen /\ ses'.active
                           /\ call'[j].offer # None /\ call'[j].offer = offer
      OBVIOUS
    <3>1. CASE j = k  BY <1>2, <1>4, <2>2, <2>5, <3>1 DEF g
    <3>2. CASE j # k  BY <2>5, <3>2, MilderSelf DEF Milder
    <3> QED  BY <3>1, <3>2
  <2>8. TypeOK /\ Sessions /\ Tokens /\ FillsOnce /\ Refreshes /\ OneRefresh  BY DEF IInv
  <2>9. Rest(ses', caps', offer', mgr', refreshing', hosts')  BY <1>1, <1>2 DEF Rest, manager
  <2>10. TypeOK'  BY <1>2, <2>5, <2>9, Types
  <2>11. Sessions'
    <3>1. offer' # None => offer'.origin = SecureOrigin  BY <1>2, <2>8 DEF Sessions
    <3>2. Forward(ses, ses')  BY <1>1, <1>2
    <3> QED  BY <2>7, <2>8, <3>1, <3>2, SessionsStep
  <2>12. Tokens' /\ FillsOnce'  BY <1>2, <2>6, <2>8, TokensStep
  <2>13. Refreshes' /\ OneRefresh'
    <3>1. mgr' = mgr /\ refreshing' = refreshing  BY <1>2 DEF manager
    <3> QED  BY <1>2, <2>6, <2>8, <3>1, RefreshesStep
  <2> QED  BY <2>5, <2>10, <2>11, <2>12, <2>13 DEF IInv
<1>5. \/ UNCHANGED call
      \/ Attended.active /\ offer # None /\ call' = [call EXCEPT ![k] = n]
  BY DEF FillSelected
<1> QED  BY <1>3, <1>4, <1>5

\* The item's origin, written out.
LEMMA SecureUrl == SecureOrigin = UrlOf("https:", ItemUrl.host, "443") /\ SecureOrigin \in Url
<1>1. ItemUrl = [scheme |-> "https:", host |-> "site", port |-> ""]  BY DEF ItemUrl, UrlOf
<1>2. DefaultPort["https:"] = "443"  BY DEF DefaultPort
<1>3. SecureOrigin = [scheme |-> "https:", host |-> "site", port |-> "443"]
  <2>1. ItemUrl.scheme = "https:" /\ ItemUrl.port = ""  BY <1>1
  <2>2. SecureOrigin = [ItemUrl EXCEPT !.port = "443"]  BY <1>2, <2>1 DEF SecureOrigin, ParseOrigin
  <2> QED  BY <1>1, <2>2
<1> QED  BY <1>1, <1>3 DEF UrlOf, Url

\* The content script's offer: decideFill has compared the page with the item.
LEMMA OfferStep ==
    ASSUME IInv, NEW d \in Document, NEW p \in Page, NEW request, Offer(d, p, request)
    PROVE  IInv'
<1>1. /\ Rest(ses, caps, offer, mgr, refreshing, hosts) /\ World(popup, srv, made, fills) /\ TypeOK
      /\ call \in [Call -> Handling] /\ Forward(ses, EnsureActive) /\ EnsureActive \in Session
  BY Present, SessionSteps
<1>2. /\ ses' = EnsureActive /\ caps' = caps /\ UNCHANGED manager /\ call' = call
      /\ popup' = popup /\ srv' = srv /\ fills' = fills
  BY DEF Offer
<1>3. call' \in [Call -> Handling] /\ Handled' /\ \A j \in Call : Milder(call[j], call'[j])
  BY <1>2, SameCalls
<1>4. CASE UNCHANGED <<made, offer>>  BY <1>1, <1>2, <1>3, <1>4, QuietStep
<1>5. CASE /\ Candidates /\ DecideFill(request, p.url) /\ made.offers < MaxOffers
           /\ made' = [made EXCEPT !.offers = @ + 1]
           /\ offer' = Offered(d, p, made'.offers)
  <2>1. /\ made' \in [hosts : 0 .. MaxUnlocks, grants : 0 .. MaxGrants, offers : 0 .. MaxOffers]
        /\ made'.hosts = made.hosts /\ made'.grants = made.grants /\ made'.offers \in 1 .. MaxOffers
    <3>1. made \in [hosts : 0 .. MaxUnlocks, grants : 0 .. MaxGrants, offers : 0 .. MaxOffers]  BY <1>1 DEF World
    <3>2. made.offers \in 0 .. MaxOffers /\ MaxOffers \in Nat  BY <3>1, ExtensionAssumption
    <3>3. made.offers + 1 \in 1 .. MaxOffers /\ made.offers + 1 \in 0 .. MaxOffers  BY <1>5, <3>2
    <3> QED  BY <1>5, <3>1, <3>3
  <2>2. ParseOrigin(p.url) = SecureOrigin  BY <1>5 DEF DecideFill, MatchOrigin, SecureOrigin
  <2>3. mgr.account \in Account  BY <1>5, SameSession DEF Candidates
  <2>4. offer' \in Pending \cup {None} /\ (offer' # None => offer'.origin = SecureOrigin)
    <3> DEFINE o == [n |-> made'.offers, doc |-> d, origin |-> SecureOrigin, account |-> mgr.account]
    <3>1. o \in Pending /\ o.origin = SecureOrigin  BY <2>1, <2>3, SecureUrl DEF Pending
    <3>2. offer' \in {o, None}  BY <1>5, <2>2 DEF Offered
    <3> QED  BY <3>1, <3>2
  <2>5. TypeOK /\ Sessions /\ Tokens /\ FillsOnce /\ Refreshes /\ OneRefresh  BY DEF IInv
  <2>6. Rest(ses', caps', offer', mgr', refreshing', hosts')  BY <1>1, <1>2, <2>4 DEF Rest, manager
  <2>7. World(popup', srv', made', fills')  BY <1>1, <1>2, <2>1 DEF World
  <2>8. TypeOK'  BY <1>3, <2>6, <2>7, Types
  <2>9. \A j \in Call : /\ KeepsToken(call[j], call'[j]) /\ KeepsRefresh(call[j], call'[j])
                        /\ KeepsSession(call[j], call'[j])
    BY <1>3 DEF Milder
  <2>10. Forward(ses, ses')  BY <1>1, <1>2
  <2>11. Sessions'  BY <2>4, <2>5, <2>9, <2>10, SessionsStep
  <2>12. Tokens' /\ FillsOnce'  BY <1>2, <2>1, <2>5, <2>9, TokensStep
  <2>13. mgr' = mgr /\ refreshing' = refreshing  BY <1>2 DEF manager
  <2>14. Refreshes' /\ OneRefresh'  BY <2>1, <2>5, <2>9, <2>13, RefreshesStep
  <2> QED  BY <1>3, <2>8, <2>11, <2>12, <2>14 DEF IInv
<1> QED  BY <1>4, <1>5 DEF Offer

\* unlock: a session of its own, that nobody refreshes yet.
LEMMA UnlockStep ==
    ASSUME IInv, NEW k \in Call, NEW a \in Account, Unlock(k, a)
    PROVE  IInv'
<1>1. /\ Rest(ses, caps, offer, mgr, refreshing, hosts) /\ World(popup, srv, made, fills) /\ TypeOK
      /\ call \in [Call -> Handling] /\ Forward(ses, Attended) /\ Forward(ses, Locked(Attended))
  BY Present, SessionSteps
<1>2. /\ Forward(ses, ses') /\ caps' \subseteq caps /\ offer' \in {offer, None}
      /\ mgr' = None /\ refreshing' = None /\ hosts' \subseteq 1 .. MaxUnlocks
  <2>1. CASE Attended.active
    <3>1. LockAll(Attended)  BY <2>1 DEF Unlock
    <3> QED  BY <1>1, <3>1, LockAllEffect
  <2>2. CASE ~Attended.active
    <3>1. ses' = Attended /\ Dispose /\ caps' = caps /\ offer' = offer  BY <2>2 DEF Unlock
    <3> QED  BY <1>1, <3>1, DisposeEffect
  <2> QED  BY <2>1, <2>2
<1> DEFINE h == made.hosts + 1
           i == Idle
           n == [i EXCEPT !.op = "unlock", !.pc = "login", !.account = a, !.sid = h]
<1>3. /\ h \in 1 .. MaxUnlocks /\ h \in 0 .. MaxUnlocks /\ made.hosts \in Nat
      /\ made' \in [hosts : 0 .. MaxUnlocks, grants : 0 .. MaxGrants, offers : 0 .. MaxOffers]
      /\ made'.hosts = h /\ made'.grants = made.grants
  <2>1. made \in [hosts : 0 .. MaxUnlocks, grants : 0 .. MaxGrants, offers : 0 .. MaxOffers]  BY <1>1 DEF World
  <2>2. made.hosts \in 0 .. MaxUnlocks /\ MaxUnlocks \in Nat /\ made.hosts < MaxUnlocks
    BY <2>1, ExtensionAssumption DEF Unlock
  <2>3. h \in 1 .. MaxUnlocks /\ h \in 0 .. MaxUnlocks /\ made.hosts \in Nat  BY <2>2
  <2>4. made' = [made EXCEPT !.hosts = h]  BY DEF Unlock
  <2> HIDE DEF h
  <2> QED  BY <2>1, <2>3, <2>4
<1>4. call' = [call EXCEPT ![k] = n]  BY <1>3 DEF Unlock
<1>5. h = made.hosts + 1  OBVIOUS
<1>6. i \in Handling /\ i.offer = None  BY IdleTyped
<1> HIDE DEF h, i
<1>7. n \in Handling /\ n.op = "unlock" /\ n.pc = "login" /\ n.account = a /\ n.sid = h
  BY <1>3, <1>6 DEF Handling
<1> HIDE DEF n
<1>8. Sound(n)  BY <1>7 DEF Sound
<1>9. /\ call' \in [Call -> Handling] /\ Handled'
      /\ call'[k] = n /\ \A j \in Call : j # k => call'[j] = call[j]
  BY <1>4, <1>7, <1>8, OneCall
<1>10. \A j \in Call : KeepsToken(call[j], call'[j]) /\ KeepsSession(call[j], call'[j])
  <2> SUFFICES ASSUME NEW j \in Call  PROVE KeepsToken(call[j], call'[j]) /\ KeepsSession(call[j], call'[j])
    OBVIOUS
  <2>1. CASE j = k  BY <1>7, <1>9, <2>1 DEF KeepsToken, KeepsSession, Filling
  <2>2. CASE j # k  BY <1>9, <2>2, MilderSelf DEF Milder
  <2> QED  BY <2>1, <2>2
<1>11. TypeOK /\ Sessions /\ Tokens /\ FillsOnce /\ Refreshes /\ OneRefresh  BY DEF IInv
<1>12. /\ Rest(ses', caps', offer', mgr', refreshing', hosts') /\ World(popup', srv', made', fills')
       /\ fills' = fills
  <2>1. popup' = popup /\ srv' = srv /\ fills' = fills  BY DEF Unlock
  <2> QED  BY <1>1, <1>2, <1>3, <2>1 DEF Rest, World, Forward
<1>13. TypeOK'  BY <1>9, <1>12, Types
<1>14. Sessions'
  <2>1. offer' # None => offer'.origin = SecureOrigin  BY <1>2, <1>11 DEF Sessions
  <2> QED  BY <1>2, <1>10, <1>11, <2>1, SessionsStep
<1>15. Tokens' /\ FillsOnce'  BY <1>2, <1>3, <1>10, <1>11, <1>12, TokensStep
<1>16. \A j \in Call : /\ call'[j].op = "unlock" => j = k \/ (call[j].op = "unlock" /\ call'[j] = call[j])
                       /\ call'[j].pc = "refresh" => call[j].pc = "refresh" /\ call'[j] = call[j]
  BY <1>7, <1>9
<1>17. \A j \in Call : /\ call[j].op = "unlock" => call[j].sid \in 1 .. made.hosts
                       /\ call[j].pc = "refresh" => call[j].sid \in Nat /\ call[j].sid <= made.hosts
  BY <1>1, <1>11 DEF Refreshes, Handling
<1>18. \A j \in Call : /\ call[j].op = "unlock" => call[j].sid \in 1 .. h /\ call[j].sid # h
                       /\ call[j].pc = "refresh" => call[j].sid <= h /\ call[j].sid # h
  BY <1>3, <1>5, <1>17
<1>19. h \in 1 .. h  BY <1>3, <1>5
<1>20. OneRefresh'  BY <1>11, <1>16 DEF OneRefresh
<1>21. \A i1 \in Call : call'[i1].op = "unlock" =>
          /\ call'[i1].sid \in 1 .. h
          /\ \A j \in Call : /\ call'[j].op = "unlock" /\ call'[j].sid = call'[i1].sid => j = i1
                             /\ call'[j].pc = "refresh" => call'[j].sid # call'[i1].sid
  <2> SUFFICES ASSUME NEW i1 \in Call, call'[i1].op = "unlock"
               PROVE  /\ call'[i1].sid \in 1 .. h
                      /\ \A j \in Call : /\ call'[j].op = "unlock" /\ call'[j].sid = call'[i1].sid => j = i1
                                         /\ call'[j].pc = "refresh" => call'[j].sid # call'[i1].sid
    OBVIOUS
  <2>1. CASE i1 = k  BY <1>7, <1>9, <1>16, <1>18, <1>19, <2>1
  <2>2. CASE i1 # k
    <3>1. call'[i1] = call[i1] /\ call[i1].op = "unlock"  BY <1>16, <2>2
    <3>2. call[i1].sid \in 1 .. h /\ call[i1].sid # h  BY <1>18, <3>1
    <3>3. \A j \in Call : j # k => /\ call'[j].op = "unlock" /\ call'[j].sid = call[i1].sid => j = i1
                                   /\ call'[j].pc = "refresh" => call'[j].sid # call[i1].sid
      BY <1>9, <1>11, <3>1 DEF Refreshes
    <3> QED  BY <1>7, <1>9, <3>1, <3>2, <3>3
  <2> QED  BY <2>1, <2>2
<1>22. \A j \in Call : call'[j].pc = "refresh" => call'[j].sid <= h  BY <1>16, <1>18
<1>23. Refreshes'  BY <1>2, <1>3, <1>21, <1>22 DEF Refreshes, Same
<1> QED  BY <1>9, <1>13, <1>14, <1>15, <1>20, <1>23 DEF IInv

\* The last page of changes: the manager's session becomes the unlock's.
LEMMA LoadPageStep ==
    ASSUME IInv, NEW k \in Call, LoadPage(k)
    PROVE  IInv'
<1>1. /\ Rest(ses, caps, offer, mgr, refreshing, hosts) /\ World(popup, srv, made, fills) /\ TypeOK
      /\ call \in [Call -> Handling] /\ Forward(ses, ses) /\ Forward(ses, MarkUnlocked)
  BY Present, SessionSteps
<1>2. /\ call[k].pc = "items" /\ World(popup', srv', made', fills') /\ made' = made /\ fills' = fills
  BY <1>1 DEF LoadPage, world
<1>3. call[k] \in Handling /\ Sound(call[k]) /\ call[k].op = "unlock" /\ call[k].account \in Account
  BY <1>1, <1>2 DEF IInv, Handled, Sound
<1> DEFINE item == srv[call[k].account]
           r == IF item.deleted THEN 0 ELSE item.rev
<1>4. CASE /\ call' = [call EXCEPT ![k].cursor = item.rev, ![k].rev = r]
           /\ UNCHANGED <<policy, manager>>
  <2> DEFINE n == [call[k] EXCEPT !.cursor = item.rev, !.rev = r]
  <2>1. item.rev \in 0 .. MaxRevision /\ r \in 0 .. MaxRevision  BY <1>1, <1>3, ExtensionAssumption DEF World
  <2>2. call' = [call EXCEPT ![k] = n]  BY <1>1, <1>4
  <2> HIDE DEF r, item
  <2>3. /\ n \in Handling /\ n.pc = "items" /\ n.op = "unlock" /\ n.sid = call[k].sid
        /\ n.account = call[k].account
    BY <1>2, <1>3, <2>1 DEF Handling
  <2> HIDE DEF n
  <2>4. Sound(n)  BY <1>3, <2>3 DEF Sound
  <2>5. Milder(call[k], n)  BY <1>3, <2>3 DEF Milder, KeepsToken, KeepsSession, KeepsRefresh, Filling
  <2>6. call' \in [Call -> Handling] /\ Handled' /\ \A j \in Call : Milder(call[j], call'[j])
    BY <2>2, <2>3, <2>4, <2>5, OneCall
  <2>7. UNCHANGED manager /\ ses' = ses /\ caps' = caps /\ offer' = offer  BY <1>4 DEF policy
  <2> QED  BY <1>1, <1>2, <2>6, <2>7, QuietStep
<1>5. CASE /\ mgr' = [sid |-> call[k].sid, account |-> call[k].account, rev |-> call[k].rev,
                      stale |-> FALSE, low |-> FALSE]
           /\ ses' = MarkUnlocked
           /\ call' = [call EXCEPT ![k] = Idle]
           /\ UNCHANGED <<caps, offer, refreshing, hosts>>
  <2>1. /\ call' \in [Call -> Handling] /\ Handled' /\ \A j \in Call : Milder(call[j], call'[j])
        /\ call'[k] = Idle /\ \A j \in Call : j # k => call'[j] = call[j]
    BY <1>5, EndedCall
  <2>2. TypeOK /\ Sessions /\ Tokens /\ FillsOnce /\ Refreshes /\ OneRefresh  BY DEF IInv
  <2>3. call[k].sid \in 1 .. made.hosts  BY <1>3, <2>2 DEF Refreshes
  <2>4. call[k].sid \in 1 .. MaxUnlocks /\ call[k].sid <= made.hosts /\ made.hosts \in Nat
    <3>1. made.hosts \in 0 .. MaxUnlocks /\ MaxUnlocks \in Nat  BY <1>1, ExtensionAssumption DEF World
    <3> QED  BY <2>3, <3>1
  <2>5. mgr' \in Unlocked /\ mgr'.sid = call[k].sid /\ mgr' # None
    <3>1. call[k].rev \in 0 .. MaxRevision  BY <1>3 DEF Handling
    <3>2. mgr' \in Unlocked /\ mgr'.sid = call[k].sid  BY <1>3, <1>5, <2>4, <3>1 DEF Unlocked
    <3> QED  BY <3>2, NoneAssumption
  <2>6. Rest(ses', caps', offer', mgr', refreshing', hosts')  BY <1>1, <1>5, <2>5 DEF Rest, Forward
  <2>7. TypeOK'  BY <1>2, <2>1, <2>6, Types
  <2>8. \A j \in Call : KeepsToken(call[j], call'[j]) /\ KeepsSession(call[j], call'[j])
    BY <2>1 DEF Milder
  <2>9. Sessions'
    <3>1. offer' # None => offer'.origin = SecureOrigin  BY <1>5, <2>2 DEF Sessions
    <3>2. Forward(ses, ses')  BY <1>1, <1>5
    <3> QED  BY <2>2, <2>8, <3>1, <3>2, SessionsStep
  <2>10. Tokens' /\ FillsOnce'
    <3>1. caps' \subseteq caps  BY <1>5
    <3> QED  BY <1>2, <2>2, <2>8, <3>1, TokensStep
  <2>11. \A j \in Call : /\ call'[j].op = "unlock" => j # k /\ call'[j] = call[j]
                         /\ call'[j].pc = "refresh" => j # k /\ call'[j] = call[j]
    BY <2>1, IdleTyped
  <2>12. OneRefresh'  BY <2>2, <2>11 DEF OneRefresh
  <2>13. \A i \in Call : call'[i].op = "unlock" =>
          /\ call'[i].sid \in 1 .. made.hosts /\ call[k].sid # call'[i].sid
          /\ \A j \in Call : /\ call'[j].op = "unlock" /\ call'[j].sid = call'[i].sid => j = i
                             /\ call'[j].pc = "refresh" => call'[j].sid # call'[i].sid
    BY <1>3, <2>2, <2>11 DEF Refreshes
  <2>14. \A i \in Call : call'[i].pc = "refresh" => call'[i].sid <= made.hosts /\ call[k].sid # call'[i].sid
    BY <1>3, <2>2, <2>11 DEF Refreshes
  <2>15. Refreshes'  BY <1>2, <2>4, <2>5, <2>13, <2>14 DEF Refreshes, Same
  <2> QED  BY <2>1, <2>7, <2>9, <2>10, <2>12, <2>15 DEF IInv
<1> QED  BY <1>4, <1>5 DEF LoadPage

\* request-candidates draws a capability that has not been given out.
LEMMA DrawnToken ==
    ASSUME TypeOK, Tokens, FillsOnce, NEW k \in Call, call[k] = Idle,
           \A j \in Call : j # k => call'[j] = call[j],
           call'[k].op = "candidates", call'[k].cap = made.grants + 1, made.grants + 1 \in Grant,
           caps' = caps, fills' = fills, made'.grants = made.grants + 1
    PROVE  Tokens' /\ FillsOnce'
<1> DEFINE g == made.grants + 1
<1>1. made.grants \in Nat /\ g \in 1 .. g /\ g > made.grants
  <2>1. made.grants \in 0 .. MaxGrants /\ MaxGrants \in Nat  BY ExtensionAssumption DEF TypeOK
  <2> QED  BY <2>1
<1>2. \A x \in 1 .. made.grants : x \in 1 .. g /\ x # g  BY <1>1
<1>3. \A x \in Grant : x > g => x > made.grants  BY <1>1 DEF Grant
<1>4. call'[k].op = "candidates" /\ call'[k].cap = g /\ made'.grants = g /\ g \in Grant  OBVIOUS
<1> HIDE DEF g
<1>5. \A j \in Call : /\ call'[j].op = "candidates" => j = k \/ (call[j].op = "candidates" /\ call'[j] = call[j])
                      /\ Filling(call'[j]) => j # k /\ Filling(call[j]) /\ call'[j] = call[j]
  BY <1>4 DEF Filling
<1>6. fills[g] = 0  BY <1>1, <1>4 DEF Tokens
<1>7. \A j \in Call : /\ Filling(call'[j]) => call'[j].cap # g
                      /\ call[j].op = "candidates" => call[j].cap # g
  BY <1>2, <1>5 DEF Tokens
<1>8. \A e \in caps : e.id # g  BY <1>2 DEF Tokens
<1>9. \A i \in Call : call'[i].op = "candidates" =>
          /\ call'[i].cap \in 1 .. g /\ fills[call'[i].cap] = 0
          /\ \A e \in caps : e.id # call'[i].cap
          /\ \A j \in Call : /\ call'[j].op = "candidates" /\ call'[j].cap = call'[i].cap => j = i
                             /\ Filling(call'[j]) => call'[j].cap # call'[i].cap
  <2> SUFFICES ASSUME NEW i \in Call, call'[i].op = "candidates"
               PROVE  /\ call'[i].cap \in 1 .. g /\ fills[call'[i].cap] = 0
                      /\ \A e \in caps : e.id # call'[i].cap
                      /\ \A j \in Call : /\ call'[j].op = "candidates" /\ call'[j].cap = call'[i].cap => j = i
                                         /\ Filling(call'[j]) => call'[j].cap # call'[i].cap
    OBVIOUS
  <2>1. CASE i = k  BY <1>1, <1>4, <1>5, <1>6, <1>7, <1>8, <2>1
  <2>2. CASE i # k
    <3>1. call[i].op = "candidates" /\ call'[i] = call[i]  BY <1>5, <2>2
    <3>2. call[i].cap \in 1 .. g /\ call[i].cap # g /\ fills[call[i].cap] = 0 /\ \A e \in caps : e.id # call[i].cap
      BY <1>2, <3>1 DEF Tokens
    <3>3. \A j \in Call : j # k => /\ call'[j].op = "candidates" /\ call'[j].cap = call[i].cap => j = i
                                   /\ Filling(call'[j]) => call'[j].cap # call[i].cap
      BY <1>5, <3>1 DEF Tokens
    <3> QED  BY <1>4, <1>5, <3>1, <3>2, <3>3
  <2> QED  BY <2>1, <2>2
<1>10. \A e \in caps : /\ e.id \in 1 .. g /\ fills[e.id] = 0
                       /\ \A j \in Call : Filling(call'[j]) => call'[j].cap # e.id
  BY <1>2, <1>5 DEF Tokens
<1>11. \A i \in Call : Filling(call'[i]) =>
          /\ call'[i].cap \in 1 .. g /\ fills[call'[i].cap] = 0
          /\ \A j \in Call : Filling(call'[j]) /\ call'[j].cap = call'[i].cap => j = i
  BY <1>2, <1>5 DEF Tokens
<1>12. \A x \in Grant : x > g => fills[x] = 0  BY <1>3 DEF Tokens
<1>13. Tokens'  BY <1>4, <1>9, <1>10, <1>11, <1>12 DEF Tokens, Filling
<1> QED  BY <1>13 DEF FillsOnce

\* #grantCandidates moves it to the store.
LEMMA GrantedToken ==
    ASSUME TypeOK, Tokens, FillsOnce, NEW k \in Call, call[k].op = "candidates", call'[k] = Idle,
           \A j \in Call : j # k => call'[j] = call[j],
           NEW e0, e0.id = call[k].cap, caps' = caps \cup {e0},
           fills' = fills, made'.grants = made.grants
    PROVE  Tokens' /\ FillsOnce'
<1>1. \A j \in Call : /\ call'[j].op = "candidates" => j # k /\ call'[j] = call[j]
                      /\ Filling(call'[j]) => j # k /\ call'[j] = call[j]
  BY IdleTyped DEF Filling
<1>2. \A i \in Call : call'[i].op = "candidates" =>
          /\ call'[i].cap \in 1 .. made.grants /\ fills[call'[i].cap] = 0
          /\ \A e \in caps' : e.id # call'[i].cap
          /\ \A j \in Call : /\ call'[j].op = "candidates" /\ call'[j].cap = call'[i].cap => j = i
                             /\ Filling(call'[j]) => call'[j].cap # call'[i].cap
  BY <1>1 DEF Tokens
<1>3. \A e \in caps' : /\ e.id \in 1 .. made.grants /\ fills[e.id] = 0
                       /\ \A j \in Call : Filling(call'[j]) => call'[j].cap # e.id
  BY <1>1 DEF Tokens
<1>4. \A i \in Call : Filling(call'[i]) =>
          /\ call'[i].cap \in 1 .. made.grants /\ fills[call'[i].cap] = 0
          /\ \A j \in Call : Filling(call'[j]) /\ call'[j].cap = call'[i].cap => j = i
  BY <1>1 DEF Tokens
<1>5. Tokens'  BY <1>2, <1>3, <1>4 DEF Tokens, Filling
<1> QED  BY <1>5 DEF FillsOnce

\* consume moves it from the store to the fill.
LEMMA ConsumedToken ==
    ASSUME TypeOK, Tokens, FillsOnce, NEW k \in Call, call[k].op = "fill", call[k].pc = "tab",
           \A j \in Call : j # k => call'[j] = call[j],
           call'[k].op = "fill", call'[k].cap = call[k].cap, Valid(call[k].cap, call[k].offer),
           caps' = Consumed(call[k].cap), fills' = fills, made'.grants = made.grants
    PROVE  Tokens' /\ FillsOnce'
<1> DEFINE g == call[k].cap
<1>1. PICK e0 \in caps : e0.id = g  BY DEF Valid
<1>2. caps' \subseteq caps /\ \A e \in caps' : e.id # g  BY DEF Consumed
<1>3. \A j \in Call : /\ call'[j].op = "candidates" => j # k /\ call'[j] = call[j]
                      /\ Filling(call'[j]) => j = k \/ call'[j] = call[j]
  OBVIOUS
<1>4. /\ g \in 1 .. made.grants /\ fills[g] = 0
      /\ \A j \in Call : /\ Filling(call[j]) => call[j].cap # g
                         /\ call[j].op = "candidates" => call[j].cap # g
  BY <1>1 DEF Tokens
<1>5. call'[k].cap = g  OBVIOUS
<1> HIDE DEF g
<1>6. \A i \in Call : call'[i].op = "candidates" =>
          /\ call'[i].cap \in 1 .. made.grants /\ fills[call'[i].cap] = 0
          /\ \A e \in caps' : e.id # call'[i].cap
          /\ \A j \in Call : /\ call'[j].op = "candidates" /\ call'[j].cap = call'[i].cap => j = i
                             /\ Filling(call'[j]) => call'[j].cap # call'[i].cap
  BY <1>2, <1>3, <1>4, <1>5 DEF Tokens
<1>7. \A e \in caps' : /\ e.id \in 1 .. made.grants /\ fills[e.id] = 0
                       /\ \A j \in Call : Filling(call'[j]) => call'[j].cap # e.id
  BY <1>2, <1>3, <1>5 DEF Tokens
<1>8. \A i \in Call : Filling(call'[i]) =>
          /\ call'[i].cap \in 1 .. made.grants /\ fills[call'[i].cap] = 0
          /\ \A j \in Call : Filling(call'[j]) /\ call'[j].cap = call'[i].cap => j = i
  BY <1>3, <1>4, <1>5 DEF Tokens
<1>9. Tokens'  BY <1>6, <1>7, <1>8 DEF Tokens, Filling
<1> QED  BY <1>9 DEF FillsOnce

\* The content script spends it.
LEMMA SpentToken ==
    ASSUME TypeOK, Tokens, FillsOnce, NEW k \in Call, Filling(call[k]), call'[k] = Idle,
           \A j \in Call : j # k => call'[j] = call[j], caps' \subseteq caps,
           fills' \in {fills, [fills EXCEPT ![call[k].cap] = @ + 1]}, made'.grants = made.grants
    PROVE  Tokens' /\ FillsOnce'
<1> DEFINE g == call[k].cap
<1>1. g \in 1 .. made.grants /\ fills[g] = 0  BY DEF Tokens
<1>2. g \in Grant /\ made.grants \in Nat /\ g <= made.grants
  <2>1. made.grants \in 0 .. MaxGrants /\ MaxGrants \in Nat  BY ExtensionAssumption DEF TypeOK
  <2> QED  BY <1>1, <2>1 DEF Grant
<1>3. fills' \in {fills, [fills EXCEPT ![g] = @ + 1]}  OBVIOUS
<1>4. \A j \in Call : /\ call'[j].op = "candidates" => j # k /\ call'[j] = call[j]
                      /\ Filling(call'[j]) => j # k /\ call'[j] = call[j]
  BY IdleTyped DEF Filling
<1>5. /\ \A j \in Call : /\ Filling(call'[j]) => call'[j].cap # g
                         /\ call'[j].op = "candidates" => call'[j].cap # g
      /\ \A e \in caps' : e.id # g
  BY <1>4 DEF Tokens
<1> HIDE DEF g
<1>6. \A x : x # g => fills'[x] = fills[x]
  <2>1. fills \in [Grant -> Nat]  BY DEF TypeOK
  <2>2. \A x : x # g => [fills EXCEPT ![g] = @ + 1][x] = fills[x]
    OBVIOUS
  <2> QED  BY <1>3, <2>2
<1>7. fills'[g] <= 1
  <2>1. fills \in [Grant -> Nat]  BY DEF TypeOK
  <2>2. [fills EXCEPT ![g] = @ + 1][g] = 1  BY <1>1, <1>2, <2>1
  <2> QED  BY <1>1, <1>3, <2>2
<1>8. \A i \in Call : call'[i].op = "candidates" =>
          /\ call'[i].cap \in 1 .. made.grants /\ fills'[call'[i].cap] = 0
          /\ \A e \in caps' : e.id # call'[i].cap
          /\ \A j \in Call : /\ call'[j].op = "candidates" /\ call'[j].cap = call'[i].cap => j = i
                             /\ Filling(call'[j]) => call'[j].cap # call'[i].cap
  BY <1>4, <1>5, <1>6 DEF Tokens
<1>9. \A e \in caps' : /\ e.id \in 1 .. made.grants /\ fills'[e.id] = 0
                       /\ \A j \in Call : Filling(call'[j]) => call'[j].cap # e.id
  BY <1>4, <1>5, <1>6 DEF Tokens
<1>10. \A i \in Call : Filling(call'[i]) =>
          /\ call'[i].cap \in 1 .. made.grants /\ fills'[call'[i].cap] = 0
          /\ \A j \in Call : Filling(call'[j]) /\ call'[j].cap = call'[i].cap => j = i
  BY <1>4, <1>5, <1>6 DEF Tokens
<1>11. \A x \in Grant : x > made.grants => x # g  BY <1>2 DEF Grant
<1>12. \A x \in Grant : x > made.grants => fills'[x] = 0  BY <1>6, <1>11 DEF Tokens
<1>13. Tokens'  BY <1>8, <1>9, <1>10, <1>12 DEF Tokens, Filling
<1>14. FillsOnce'  BY <1>6, <1>7 DEF FillsOnce
<1> QED  BY <1>13, <1>14

LEMMA GrantCandidatesStep ==
    ASSUME IInv, NEW k \in Call, GrantCandidates(k)
    PROVE  IInv'
<1>1. /\ Rest(ses, caps, offer, mgr, refreshing, hosts) /\ World(popup, srv, made, fills) /\ TypeOK
      /\ call \in [Call -> Handling] /\ Forward(ses, ses)
  BY Present, SessionSteps
<1> DEFINE o == call[k].offer
           id == call[k].cap
<1>2. /\ call[k].op = "candidates" /\ call' = [call EXCEPT ![k] = Idle]
      /\ ses' = ses /\ offer' = offer /\ UNCHANGED manager /\ srv' = srv /\ made' = made /\ fills' = fills
  BY DEF GrantCandidates
<1>3. /\ call' \in [Call -> Handling] /\ Handled' /\ \A j \in Call : Milder(call[j], call'[j])
      /\ call'[k] = Idle /\ \A j \in Call : j # k => call'[j] = call[j]
  BY <1>2, EndedCall
<1>4. o \in Pending /\ o # None /\ id \in 1 .. made.grants
  <2>1. o # None  BY <1>2 DEF IInv, Handled, Sound
  <2>2. o \in Pending \cup {None}  BY <1>1 DEF Handling
  <2>3. id \in 1 .. made.grants  BY <1>2 DEF IInv, Tokens
  <2> QED  BY <2>1, <2>2, <2>3
<1>5. CASE UNCHANGED <<caps, popup>>  BY <1>1, <1>2, <1>3, <1>5, QuietStep
<1>6. CASE /\ caps' = caps \cup {Capability(id, o)}
           /\ popup' = IF popup.open THEN [popup EXCEPT !.cap = id, !.account = o.account] ELSE popup
  <2>1. id \in Grant /\ id \in 0 .. MaxGrants
    <3>1. made.grants \in 0 .. MaxGrants /\ MaxGrants \in Nat  BY <1>1, ExtensionAssumption DEF World
    <3> QED  BY <1>4, <3>1 DEF Grant
  <2>2. o.doc \in Document /\ o.account \in Account  BY <1>4 DEF Pending
  <2>3. World(popup', srv', made', fills')  BY <1>1, <1>2, <1>6, <2>1, <2>2 DEF World
  <2>4. Capability(id, o) \in [id : Grant, gen : Nat, doc : Document] /\ Capability(id, o).id = id
    BY <1>1, <2>1, <2>2 DEF Capability, Rest, Session
  <2>5. Rest(ses', caps', offer', mgr', refreshing', hosts')  BY <1>1, <1>2, <1>6, <2>4 DEF Rest, manager
  <2>6. TypeOK'  BY <1>3, <2>3, <2>5, Types
  <2>7. TypeOK /\ Sessions /\ Tokens /\ FillsOnce /\ Refreshes /\ OneRefresh  BY DEF IInv
  <2>8. \A j \in Call : KeepsSession(call[j], call'[j]) /\ KeepsRefresh(call[j], call'[j])
    BY <1>3 DEF Milder
  <2>9. Sessions'
    <3>1. offer' # None => offer'.origin = SecureOrigin  BY <1>2, <2>7 DEF Sessions
    <3>2. Forward(ses, ses')  BY <1>1, <1>2
    <3> QED  BY <2>7, <2>8, <3>1, <3>2, SessionsStep
  <2>10. Tokens' /\ FillsOnce'  BY <1>2, <1>3, <1>6, <2>4, <2>7, GrantedToken
  <2>11. mgr' = mgr /\ refreshing' = refreshing  BY <1>2 DEF manager
  <2>12. Refreshes' /\ OneRefresh'  BY <1>2, <2>7, <2>8, <2>11, RefreshesStep
  <2> QED  BY <1>3, <2>6, <2>9, <2>10, <2>12 DEF IInv
<1> QED  BY <1>5, <1>6 DEF GrantCandidates

\* A check that begins for a call that is idle, or at its tab.
LEMMA CheckedStep ==
    ASSUME IInv, NEW k \in Call, NEW c \in Handling, c.op \in {"candidates", "show", "save", "fill"},
           c.op \in {"candidates", "fill"} => c.offer # None, CheckFresh(k, c),
           c.op = "fill" => c.gen = call[k].gen /\ c.offer = call[k].offer /\ call[k].op = "fill",
           ses' \in Session, Forward(ses, ses'), offer' = offer,
           caps' \subseteq caps, mgr' = mgr, hosts' = hosts, World(popup', srv', made', fills'),
           made'.hosts = made.hosts, Tokens' /\ FillsOnce'
    PROVE  IInv'
<1>1. Rest(ses, caps, offer, mgr, refreshing, hosts) /\ TypeOK /\ call \in [Call -> Handling]  BY Present
<1>2. /\ call' \in [Call -> Handling]
      /\ \A j \in Call : j # k => call'[j] = call[j]
      /\ refreshing' \in Call \cup {None}
      /\ \/ call'[k] = Idle
         \/ /\ call'[k].op = c.op /\ call'[k].offer = c.offer /\ call'[k].gen = c.gen
            /\ call'[k].pc \in {"yes", "join", "refresh", "devices"}
  BY <1>1, CheckFreshEffect
<1>3. Sound(call'[k])
  <2>1. CASE call'[k] = Idle  BY <2>1, IdleTyped
  <2>2. CASE /\ call'[k].op = c.op /\ call'[k].offer = c.offer
             /\ call'[k].pc \in {"yes", "join", "refresh", "devices"}
    BY <2>2 DEF Sound
  <2> QED  BY <1>2, <2>1, <2>2
<1>4. \A j \in Call : Sound(call'[j])  BY <1>2, <1>3 DEF IInv, Handled
<1>5. Handled'  BY <1>4 DEF Handled, Sound
<1>6. Rest(ses', caps', offer', mgr', refreshing', hosts')  BY <1>1, <1>2 DEF Rest
<1>7. TypeOK'  BY <1>2, <1>6, Types
<1>8. KeepsSession(call[k], call'[k])  BY <1>2, IdleTyped DEF KeepsSession
<1>9. \A j \in Call : KeepsSession(call[j], call'[j])  BY <1>2, <1>8, MilderSelf DEF Milder
<1>10. TypeOK /\ Sessions /\ Refreshes /\ OneRefresh  BY DEF IInv
<1>11. offer' # None => offer'.origin = SecureOrigin  BY <1>10 DEF Sessions
<1>12. Sessions'  BY <1>9, <1>10, <1>11, SessionsStep
<1>13. Refreshes' /\ OneRefresh'  BY <1>10, CheckedRefreshes
<1> QED  BY <1>5, <1>7, <1>12, <1>13 DEF IInv

\* request-candidates, list-items, get-totp and save-item.
LEMMA AskStep ==
    ASSUME IInv, NEW k \in Call, NEW op \in {"candidates", "show", "save"}, Ask(k, op)
    PROVE  IInv'
<1>1. /\ Rest(ses, caps, offer, mgr, refreshing, hosts) /\ World(popup, srv, made, fills) /\ TypeOK
      /\ call \in [Call -> Handling] /\ Forward(ses, Attended) /\ Attended \in Session
  BY Present, SessionSteps
<1>2. /\ ses' = Attended /\ caps' = caps /\ offer' = offer /\ mgr' = mgr /\ hosts' = hosts
      /\ popup' = popup /\ srv' = srv /\ fills' = fills /\ call[k].pc = "idle"
  BY DEF Ask, Heard
<1>3. call[k] = Idle /\ TypeOK /\ Tokens /\ FillsOnce  BY <1>2 DEF IInv, Handled, Sound
<1> DEFINE i == Idle
           s == [i EXCEPT !.op = op]
           g == made.grants + 1
           c == [i EXCEPT !.op = op, !.offer = offer, !.cap = g]
<1>4. i \in Handling  BY IdleTyped
<1>5. CASE UNCHANGED <<call, refreshing, made>>
  <2>1. call' \in [Call -> Handling] /\ Handled' /\ \A j \in Call : Milder(call[j], call'[j])
    BY <1>5, SameCalls
  <2>2. UNCHANGED manager  BY <1>2, <1>5 DEF manager
  <2> QED  BY <1>1, <1>2, <1>5, <2>1, <2>2, QuietStep
<1>6. CASE op # "candidates" /\ CheckFresh(k, s) /\ UNCHANGED made
  <2> HIDE DEF i
  <2>1. s \in Handling /\ s.op = op  BY <1>4 DEF Handling
  <2> HIDE DEF s
  <2>2. /\ \A j \in Call : j # k => call'[j] = call[j]
        /\ call'[k] = Idle \/ call'[k].op = op
    BY <1>1, <1>6, <2>1, CheckFreshEffect
  <2>3. KeepsToken(call[k], call'[k])  BY <1>6, <2>2, IdleTyped DEF KeepsToken, Filling
  <2>4. \A j \in Call : KeepsToken(call[j], call'[j])  BY <2>2, <2>3, MilderSelf DEF Milder
  <2>5. Tokens' /\ FillsOnce'  BY <1>2, <1>3, <1>6, <2>4, TokensStep
  <2>6. op \in {"show", "save"} /\ World(popup', srv', made', fills')  BY <1>1, <1>2, <1>6
  <2> QED  BY <1>1, <1>2, <1>6, <2>1, <2>5, <2>6, CheckedStep
<1>7. CASE /\ op = "candidates" /\ offer # None /\ made.grants < MaxGrants
           /\ made' = [made EXCEPT !.grants = g] /\ CheckFresh(k, c)
  <2>1. /\ g \in Grant /\ g \in 0 .. MaxGrants
        /\ made' \in [hosts : 0 .. MaxUnlocks, grants : 0 .. MaxGrants, offers : 0 .. MaxOffers]
        /\ made'.grants = g /\ made'.hosts = made.hosts
    <3>1. made \in [hosts : 0 .. MaxUnlocks, grants : 0 .. MaxGrants, offers : 0 .. MaxOffers]  BY <1>1 DEF World
    <3>2. made.grants \in 0 .. MaxGrants /\ MaxGrants \in Nat  BY <3>1, ExtensionAssumption
    <3>3. g \in Grant /\ g \in 0 .. MaxGrants  BY <1>7, <3>2 DEF Grant
    <3> HIDE DEF g
    <3> QED  BY <1>7, <3>1, <3>3
  <2>2. g = made.grants + 1 /\ offer \in Pending \cup {None}  BY <1>1 DEF Rest
  <2> HIDE DEF g, i
  <2>3. c \in Handling /\ c.op = op /\ c.offer = offer /\ c.cap = g  BY <1>4, <2>1, <2>2 DEF Handling
  <2> HIDE DEF c
  <2>4. /\ \A j \in Call : j # k => call'[j] = call[j]
        /\ call'[k] = Idle \/ (call'[k].op = op /\ call'[k].cap = g)
    BY <1>1, <1>7, <2>3, CheckFreshEffect
  <2>5. Tokens' /\ FillsOnce'
    <3>1. CASE call'[k] = Idle
      <4>1. \A j \in Call : call'[j] = call[j]  BY <1>3, <2>4, <3>1
      <4>2. made.grants \in 0 .. MaxGrants /\ MaxGrants \in Nat  BY <1>1, ExtensionAssumption DEF World
      <4>3. \A x \in 1 .. made.grants : x \in 1 .. g  BY <2>2, <4>2
      <4>4. \A x \in Grant : x > g => x > made.grants  BY <2>2, <4>2 DEF Grant
      <4>5. Tokens'  BY <1>2, <1>3, <2>1, <4>1, <4>3, <4>4 DEF Tokens, Filling
      <4> QED  BY <1>2, <1>3, <4>5 DEF FillsOnce
    <3>2. CASE call'[k].op = op /\ call'[k].cap = g
      <4>1. call'[k].op = "candidates"  BY <1>7, <3>2
      <4> QED  BY <1>2, <1>3, <2>1, <2>2, <2>4, <3>2, <4>1, DrawnToken
    <3> QED  BY <2>4, <3>1, <3>2
  <2>6. World(popup', srv', made', fills')  BY <1>1, <1>2, <2>1 DEF World
  <2> QED  BY <1>1, <1>2, <1>7, <2>1, <2>3, <2>5, <2>6, CheckedStep
<1>8. \/ UNCHANGED <<call, refreshing, made>>
      \/ op # "candidates" /\ CheckFresh(k, s) /\ UNCHANGED made
      \/ /\ op = "candidates" /\ offer # None /\ made.grants < MaxGrants
         /\ made' = [made EXCEPT !.grants = g] /\ CheckFresh(k, c)
  <2>1. \/ UNCHANGED <<call, refreshing, made>>
        \/ op # "candidates" /\ CheckFresh(k, [Idle EXCEPT !.op = op]) /\ UNCHANGED made
        \/ /\ op = "candidates" /\ offer # None /\ made.grants < MaxGrants
           /\ made' = [made EXCEPT !.grants = made.grants + 1]
           /\ CheckFresh(k, [Idle EXCEPT !.op = op, !.offer = offer, !.cap = made'.grants])
    BY DEF Ask
  <2>2. made' = [made EXCEPT !.grants = made.grants + 1] => made'.grants = made.grants + 1
    <3>1. made \in [hosts : 0 .. MaxUnlocks, grants : 0 .. MaxGrants, offers : 0 .. MaxOffers]  BY <1>1 DEF World
    <3> QED  BY <3>1
  <2> QED  BY <2>1, <2>2
<1> QED  BY <1>5, <1>6, <1>7, <1>8

\* getActiveTab answers.
LEMMA ActiveTabStep ==
    ASSUME IInv, NEW k \in Call, NEW there, ActiveTab(k, there)
    PROVE  IInv'
<1>1. /\ Rest(ses, caps, offer, mgr, refreshing, hosts) /\ World(popup, srv, made, fills) /\ TypeOK
      /\ call \in [Call -> Handling] /\ Forward(ses, ses) /\ ses \in Session
  BY Present, SessionSteps
<1>2. /\ call[k].pc = "tab" /\ ses' = ses /\ offer' = offer /\ mgr' = mgr /\ hosts' = hosts
      /\ popup' = popup /\ srv' = srv /\ made' = made /\ fills' = fills
  BY DEF ActiveTab, world
<1>3. call[k] \in Handling /\ call[k].op = "fill" /\ call[k].offer # None
  BY <1>1, <1>2 DEF IInv, Handled, Sound
<1>4. CASE /\ caps' = caps \/ caps' = Consumed(call[k].cap)
           /\ call' = [call EXCEPT ![k] = Idle] /\ UNCHANGED refreshing
  <2>1. call' \in [Call -> Handling] /\ Handled' /\ \A j \in Call : Milder(call[j], call'[j])
    BY <1>4, EndedCall
  <2>2. UNCHANGED manager /\ caps' \subseteq caps  BY <1>2, <1>4 DEF manager, Consumed
  <2> QED  BY <1>1, <1>2, <2>1, <2>2, QuietStep
<1>5. CASE /\ Valid(call[k].cap, call[k].offer) /\ caps' = Consumed(call[k].cap)
           /\ CheckFresh(k, call[k])
  <2>1. /\ \A j \in Call : j # k => call'[j] = call[j]
        /\ call'[k] = Idle \/ (call'[k].op = "fill" /\ call'[k].cap = call[k].cap)
    BY <1>1, <1>3, <1>5, CheckFreshEffect
  <2>2. TypeOK /\ Tokens /\ FillsOnce  BY DEF IInv
  <2>3. caps' \subseteq caps  BY <1>5 DEF Consumed
  <2>4. Tokens' /\ FillsOnce'
    <3>1. CASE call'[k] = Idle
      <4>1. \A j \in Call : KeepsToken(call[j], call'[j])  BY <2>1, <3>1, MilderSelf, IdleMilder DEF Milder
      <4> QED  BY <1>2, <2>2, <2>3, <4>1, TokensStep
    <3>2. CASE call'[k].op = "fill" /\ call'[k].cap = call[k].cap
      BY <1>2, <1>3, <1>5, <2>1, <2>2, <3>2, ConsumedToken
    <3> QED  BY <2>1, <3>1, <3>2
  <2> QED  BY <1>1, <1>2, <1>3, <1>5, <2>3, <2>4, CheckedStep
<1> QED  BY <1>4, <1>5 DEF ActiveTab

\* sendToDocument is done.
LEMMA FillSentStep ==
    ASSUME IInv, NEW k \in Call, NEW there, NEW p, FillSent(k, there, p)
    PROVE  IInv'
<1>1. /\ Rest(ses, caps, offer, mgr, refreshing, hosts) /\ World(popup, srv, made, fills) /\ TypeOK
      /\ call \in [Call -> Handling] /\ Forward(ses, ses) /\ Forward(ses, Locked(ses))
  BY Present, SessionSteps
<1>2. /\ call[k].pc = "sent" /\ call' = [call EXCEPT ![k] = Idle]
      /\ popup' = popup /\ srv' = srv /\ made' = made
      /\ fills' \in {fills, [fills EXCEPT ![call[k].cap] = @ + 1]}
  BY DEF FillSent
<1>3. /\ call' \in [Call -> Handling] /\ Handled' /\ \A j \in Call : Milder(call[j], call'[j])
      /\ call'[k] = Idle /\ \A j \in Call : j # k => call'[j] = call[j]
  BY <1>2, EndedCall
<1>4. Filling(call[k])  BY <1>2 DEF IInv, Handled, Sound, Filling
<1>5. /\ Forward(ses, ses') /\ caps' \subseteq caps /\ offer' = None
      /\ \/ mgr' = None /\ refreshing' = None /\ hosts' \subseteq 1 .. MaxUnlocks
         \/ UNCHANGED manager
  <2>1. CASE ses.gen # call[k].gen
    <3>1. LockAll(ses)  BY <2>1 DEF FillSent
    <3> QED  BY <1>1, <3>1, LockAllEffect
  <2>2. CASE ses.gen = call[k].gen
    <3>1. offer' = None /\ ses' = ses /\ caps' = caps /\ UNCHANGED manager  BY <2>2 DEF FillSent
    <3> QED  BY <1>1, <3>1
  <2> QED  BY <2>1, <2>2
<1>6. TypeOK /\ Sessions /\ Tokens /\ FillsOnce /\ Refreshes /\ OneRefresh  BY DEF IInv
<1>7. fills' \in [Grant -> Nat]
  <2>1. fills \in [Grant -> Nat]  BY <1>1 DEF World
  <2>2. CASE fills' = fills  BY <2>1, <2>2
  <2>3. CASE fills' = [fills EXCEPT ![call[k].cap] = @ + 1]
    <3>1. \A x \in Grant : fills[x] + 1 \in Nat  BY <2>1
    <3> QED  BY <2>1, <2>3, <3>1
  <2> QED  BY <1>2, <2>2, <2>3
<1>8. World(popup', srv', made', fills')  BY <1>1, <1>2, <1>7 DEF World
<1>9. Rest(ses', caps', offer', mgr', refreshing', hosts')  BY <1>1, <1>5 DEF Rest, Forward, manager
<1>10. TypeOK'  BY <1>3, <1>8, <1>9, Types
<1>11. \A j \in Call : KeepsSession(call[j], call'[j]) /\ KeepsRefresh(call[j], call'[j])  BY <1>3 DEF Milder
<1>12. Sessions'  BY <1>5, <1>6, <1>11, SessionsStep
<1>13. Tokens' /\ FillsOnce'  BY <1>2, <1>3, <1>4, <1>5, <1>6, SpentToken
<1>14. mgr' = None \/ (mgr # None /\ mgr' = mgr /\ refreshing' = refreshing)  BY <1>5 DEF manager
<1>15. Refreshes' /\ OneRefresh'  BY <1>2, <1>6, <1>11, <1>14, RefreshesStep
<1> QED  BY <1>3, <1>10, <1>12, <1>13, <1>15 DEF IInv

\* An evicted background begins anew, and so does the first one.
Empty(s, cs, o, m, r, h, cl, p, md, f) ==
    /\ s = [gen |-> 1, active |-> FALSE, idle |-> FALSE]
    /\ cs = {} /\ o = None /\ m = None /\ r = None /\ h = {}
    /\ cl = [k \in Call |-> Idle]
    /\ p = [open |-> FALSE, cap |-> 0, account |-> None]
    /\ md = [hosts |-> 0, grants |-> 0, offers |-> 0]
    /\ f = [g \in Grant |-> 0]

LEMMA EmptyHolds ==
    ASSUME Empty(ses, caps, offer, mgr, refreshing, hosts, call, popup, made, fills),
           srv \in [Account -> [rev : 0 .. MaxRevision, deleted : BOOLEAN]]
    PROVE  IInv
<1>1. \A k \in Call : call[k] = Idle  BY DEF Empty
<1>2. TypeOK
  <2>1. 0 \in 0 .. MaxGrants /\ 0 \in 0 .. MaxUnlocks /\ 0 \in 0 .. MaxOffers  BY ExtensionAssumption
  <2>2. call \in [Call -> Handling]  BY IdleTyped DEF Empty
  <2>3. Rest(ses, caps, offer, mgr, refreshing, hosts)  BY DEF Empty, Rest, Session
  <2>4. World(popup, srv, made, fills)  BY <2>1 DEF Empty, World
  <2> QED  BY <2>2, <2>3, <2>4, Types
<1>3. Handled  BY <1>1, IdleTyped DEF Handled
<1>4. \A k \in Call : call[k].op = "none" /\ call[k].pc = "idle"  BY <1>1, IdleTyped
<1>5. caps = {} /\ offer = None /\ mgr = None /\ \A g \in Grant : fills[g] = 0  BY DEF Empty
<1>6. Sessions /\ Tokens /\ FillsOnce /\ Refreshes /\ OneRefresh
  BY <1>4, <1>5 DEF Sessions, Tokens, FillsOnce, Refreshes, OneRefresh, Filling
<1> QED  BY <1>2, <1>3, <1>6 DEF IInv

LEMMA EvictStep ==
    ASSUME IInv, Evict
    PROVE  IInv'
<1>1. /\ Empty(ses', caps', offer', mgr', refreshing', hosts', call', popup', made', fills')
      /\ srv' \in [Account -> [rev : 0 .. MaxRevision, deleted : BOOLEAN]]
  BY Present DEF Evict, Empty, World
<1>2. \A k \in Call : call'[k] = Idle  BY <1>1 DEF Empty
<1>3. TypeOK'
  <2>1. 0 \in 0 .. MaxGrants /\ 0 \in 0 .. MaxUnlocks /\ 0 \in 0 .. MaxOffers  BY ExtensionAssumption
  <2>2. call' \in [Call -> Handling]  BY <1>1, IdleTyped DEF Empty
  <2>3. Rest(ses', caps', offer', mgr', refreshing', hosts')  BY <1>1 DEF Empty, Rest, Session
  <2>4. World(popup', srv', made', fills')  BY <1>1, <2>1 DEF Empty, World
  <2> QED  BY <2>2, <2>3, <2>4, Types
<1>4. \A k \in Call : Sound(call'[k])  BY <1>2, IdleTyped
<1>5. Handled'  BY <1>4 DEF Handled, Sound
<1>6. \A k \in Call : call'[k].op = "none" /\ call'[k].pc = "idle"  BY <1>2, IdleTyped
<1>7. caps' = {} /\ offer' = None /\ mgr' = None /\ \A g \in Grant : fills'[g] = 0  BY <1>1 DEF Empty
<1>8. Sessions' /\ Tokens' /\ FillsOnce' /\ Refreshes' /\ OneRefresh'
  BY <1>6, <1>7 DEF Sessions, Tokens, FillsOnce, Refreshes, OneRefresh, Filling
<1> QED  BY <1>3, <1>5, <1>8 DEF IInv
-----------------------------------------------------------------------------
(* The theorems                                                            *)

LEMMA InitHolds ==
    ASSUME Init
    PROVE  IInv
<1>1. srv \in [Account -> [rev : 0 .. MaxRevision, deleted : BOOLEAN]]  BY ExtensionAssumption DEF Init
<1> QED  BY <1>1, EmptyHolds DEF Init, Empty

LEMMA NextKeeps ==
    ASSUME IInv, [Next]_vars
    PROVE  IInv'
<1>1. ASSUME NEW k \in Call, Message(k)  PROVE IInv'
  BY <1>1, UnlockStep, LogoutStep, FillSelectedStep, AskStep DEF Message
<1>2. ASSUME NEW k \in Call, Proceed(k)  PROVE IInv'
  BY <1>2, RefreshedStep, DevicesListedStep, LoggedInStep, LoadPageStep, EndsStep, GrantCandidatesStep,
     SendStep, SavedStep, ActiveTabStep, FillSentStep
  DEF Proceed
<1>3. ASSUME NEW k \in Call, LoadFails(k)  PROVE IInv'  BY <1>3, EndsStep
<1>4. ASSUME NEW d \in Document, NEW p \in Page, NEW request, Offer(d, p, request)  PROVE IInv'
  BY <1>4, OfferStep
<1>5. CASE CancelOffer \/ Lock \/ OpenPopup \/ ClosePopup  BY <1>5, PopupStep
<1>6. CASE TimePasses \/ \E a \in Account, deleted \in BOOLEAN : OtherDevice(a, deleted)
  BY <1>6, SurroundingsStep
<1>7. CASE Evict  BY <1>7, EvictStep
<1>8. CASE UNCHANGED vars
  <2>1. call' \in [Call -> Handling] /\ Handled' /\ \A j \in Call : Milder(call[j], call'[j])
    BY <1>8, SameCalls DEF vars
  <2>2. Forward(ses, ses) /\ World(popup, srv, made, fills)  BY Present, SessionSteps
  <2>3. /\ UNCHANGED manager /\ ses' = ses /\ caps' = caps /\ offer' = offer
        /\ popup' = popup /\ srv' = srv /\ made' = made /\ fills' = fills
    BY <1>8 DEF vars, policy, world
  <2> QED  BY <2>1, <2>2, <2>3, QuietStep
<1> QED  BY <1>1, <1>2, <1>3, <1>4, <1>5, <1>6, <1>7, <1>8 DEF Next

LEMMA IInvHolds == Spec => []IInv
<1>1. Init => IInv  BY InitHolds
<1>2. IInv /\ [Next]_vars => IInv'  BY NextKeeps
<1> QED  BY <1>1, <1>2, PTL DEF Spec

\* Every variable keeps its type: the generations, the capabilities in the store, the
\* manager's state, the handlers under way.
THEOREM TypeCorrect == Spec => []TypeOK
<1>1. IInv => TypeOK  BY DEF IInv
<1> QED  BY <1>1, IInvHolds, PTL

\* One capability fills at most one form, for any number of fill-selected messages
\* handled at the same time: consume (fill-capability store) deletes before it looks.
THEOREM FillsOnceHolds == Spec => []FillsOnce
<1>1. IInv => FillsOnce  BY DEF IInv
<1> QED  BY <1>1, IInvHolds, PTL

\* #maybeRefresh rotates the token of a session by one attempt at a time, whatever
\* calls join it and whatever locks and unlocks come meanwhile.
THEOREM RefreshesOnce == Spec => []OneRefresh
<1>1. IInv => OneRefresh  BY DEF IInv
<1> QED  BY <1>1, IInvHolds, PTL

\* What a call that was at c may be at next, unless it sends a fill.
Goes(c, n) ==
    \/ n.pc = c.pc
    \/ n.pc \notin {"refresh", "devices", "mutate", "sent"}
    \/ n.pc # "sent" /\ mgr # None /\ mgr.sid = n.sid

LEMMA OneGoes ==
    ASSUME IInv, NEW k \in Call, NEW n, call' = [call EXCEPT ![k] = n], Goes(call[k], n)
    PROVE  \A j \in Call : Goes(call[j], call'[j])
<1>1. call \in [Call -> Handling]  BY Present
<1>2. call'[k] = n /\ \A j \in Call : j # k => call'[j] = call[j]  BY <1>1
<1> QED  BY <1>2 DEF Goes

LEMMA EndGoes ==
    ASSUME IInv, NEW k \in Call, call' = [call EXCEPT ![k] = Idle]
    PROVE  \A j \in Call : Goes(call[j], call'[j])
BY OneGoes, IdleTyped DEF Goes

LEMMA CheckGoes ==
    ASSUME IInv, NEW k \in Call, NEW c \in Handling, CheckFresh(k, c)
    PROVE  \A j \in Call : Goes(call[j], call'[j])
<1>1. /\ \A j \in Call : j # k => call'[j] = call[j]
      /\ \/ call'[k] = Idle
         \/ /\ mgr # None /\ call'[k].sid = mgr.sid
            /\ call'[k].pc \in {"yes", "join", "refresh", "devices"}
  BY Present, CheckFreshEffect
<1> QED  BY <1>1, IdleTyped DEF Goes

LEMMA RefreshedGoes ==
    ASSUME IInv, NEW k \in Call, Refreshed(k)
    PROVE  \A j \in Call : Goes(call[j], call'[j])
<1>1. call \in [Call -> Handling]  BY Present
<1> SUFFICES ASSUME NEW j \in Call  PROVE Goes(call[j], call'[j])
  OBVIOUS
<1> DEFINE d == [call[j] EXCEPT !.pc = "devices", !.joins = None]
<1>2. d.pc = "devices" /\ d.sid = call[j].sid  BY <1>1 DEF Handling
<1>3. call'[j] \in {Idle, call[j]} \/ (Same(j) /\ call'[j] = d)  BY DEF Refreshed, AfterRefresh
<1> HIDE DEF d
<1> QED  BY <1>2, <1>3, IdleTyped DEF Goes, Same

LEMMA NextGoes ==
    ASSUME IInv, [Next]_vars, ~\E k \in Call : SendFill(k)
    PROVE  \A j \in Call : Goes(call[j], call'[j])
<1>1. call \in [Call -> Handling]  BY Present
<1>2. ASSUME NEW k \in Call, Message(k)  PROVE \A j \in Call : Goes(call[j], call'[j])
  <2> DEFINE i == Idle
  <2>1. i \in Handling  BY IdleTyped
  <2>2. ASSUME NEW op \in {"candidates", "show", "save"}, Ask(k, op)
        PROVE  \A j \in Call : Goes(call[j], call'[j])
    <3> DEFINE g == made'.grants
               s == [i EXCEPT !.op = op]
               c == [i EXCEPT !.op = op, !.offer = offer, !.cap = g]
    <3>1. \/ call' = call
          \/ CheckFresh(k, s)
          \/ /\ made.grants < MaxGrants /\ made' = [made EXCEPT !.grants = @ + 1] /\ CheckFresh(k, c)
      BY <2>2 DEF Ask
    <3> HIDE DEF i
    <3>2. s \in Handling  BY <2>1 DEF Handling
    <3>3. CASE made.grants < MaxGrants /\ made' = [made EXCEPT !.grants = @ + 1] /\ CheckFresh(k, c)
      <4>1. made \in [hosts : 0 .. MaxUnlocks, grants : 0 .. MaxGrants, offers : 0 .. MaxOffers]
        BY Present DEF World
      <4>2. made.grants \in 0 .. MaxGrants /\ MaxGrants \in Nat  BY <4>1, ExtensionAssumption
      <4>3. g \in 0 .. MaxGrants  BY <3>3, <4>1, <4>2
      <4>4. offer \in Pending \cup {None}  BY Present DEF Rest
      <4> HIDE DEF g
      <4>5. c \in Handling  BY <2>1, <4>3, <4>4 DEF Handling
      <4> HIDE DEF c
      <4> QED  BY <3>3, <4>5, CheckGoes
    <3> HIDE DEF s, c
    <3>4. CASE call' = call  BY <3>4 DEF Goes
    <3> QED  BY <3>1, <3>2, <3>3, <3>4, CheckGoes
  <2>3. ASSUME NEW n, call' = [call EXCEPT ![k] = n], n.pc \in {"login", "logout", "tab"}
        PROVE  \A j \in Call : Goes(call[j], call'[j])
    BY <2>3, OneGoes DEF Goes
  <2>4. ASSUME NEW a \in Account, Unlock(k, a)  PROVE \A j \in Call : Goes(call[j], call'[j])
    <3> DEFINE n == [i EXCEPT !.op = "unlock", !.pc = "login", !.account = a, !.sid = made'.hosts]
    <3>1. call' = [call EXCEPT ![k] = n]  BY <2>4 DEF Unlock
    <3> HIDE DEF i
    <3>2. n.pc = "login"  BY <2>1 DEF Handling
    <3> HIDE DEF n
    <3> QED  BY <2>3, <3>1, <3>2
  <2>5. CASE Logout(k)
    <3> DEFINE n == [i EXCEPT !.op = "logout", !.pc = "logout"]
    <3>1. call' = [call EXCEPT ![k] = n]  BY <2>5 DEF Logout
    <3> HIDE DEF i
    <3>2. n.pc = "logout"  BY <2>1 DEF Handling
    <3> HIDE DEF n
    <3> QED  BY <2>3, <3>1, <3>2
  <2>6. CASE FillSelected(k)
    <3> DEFINE n == [i EXCEPT !.op = "fill", !.pc = "tab", !.gen = Attended.gen, !.offer = offer, !.cap = popup.cap]
    <3>1. call' = call \/ call' = [call EXCEPT ![k] = n]  BY <2>6 DEF FillSelected
    <3> HIDE DEF i
    <3>2. n.pc = "tab"  BY <2>1 DEF Handling
    <3> HIDE DEF n
    <3>3. CASE call' = call  BY <3>3 DEF Goes
    <3> QED  BY <2>3, <3>1, <3>2, <3>3
  <2> QED  BY <1>2, <2>2, <2>4, <2>5, <2>6 DEF Message
<1>3. ASSUME NEW k \in Call, Proceed(k)  PROVE \A j \in Call : Goes(call[j], call'[j])
  <2>1. call[k] \in Handling  BY <1>1
  <2>2. CASE Refreshed(k)  BY <2>2, RefreshedGoes
  <2>3. CASE DevicesListed(k)
    <3> DEFINE n == [call[k] EXCEPT !.pc = "yes"]
    <3>1. n.pc = "yes"  BY <2>1 DEF Handling
    <3>2. call' = [call EXCEPT ![k] = n] \/ call' = [call EXCEPT ![k] = Idle]  BY <1>1, <2>3 DEF DevicesListed
    <3> HIDE DEF n
    <3>3. Goes(call[k], n)  BY <3>1 DEF Goes
    <3> QED  BY <3>2, <3>3, OneGoes, EndGoes
  <2>4. CASE LoggedIn(k)
    <3> DEFINE n == [call[k] EXCEPT !.pc = "items"]
    <3>1. n.pc = "items"  BY <2>1 DEF Handling
    <3>2. call' = [call EXCEPT ![k] = n] \/ call' = [call EXCEPT ![k] = Idle]  BY <1>1, <2>4 DEF LoggedIn
    <3> HIDE DEF n
    <3>3. Goes(call[k], n)  BY <3>1 DEF Goes
    <3> QED  BY <3>2, <3>3, OneGoes, EndGoes
  <2>5. CASE LoadPage(k)
    <3> DEFINE item == srv[call[k].account]
               n == [call[k] EXCEPT !.cursor = item.rev, !.rev = IF item.deleted THEN 0 ELSE item.rev]
    <3>1. n.pc = call[k].pc  BY <2>1 DEF Handling
    <3>2. call' = [call EXCEPT ![k] = n] \/ call' = [call EXCEPT ![k] = Idle]  BY <1>1, <2>5 DEF LoadPage
    <3> HIDE DEF n
    <3>3. Goes(call[k], n)  BY <3>1 DEF Goes
    <3> QED  BY <3>2, <3>3, OneGoes, EndGoes
  <2>6. CASE SendSave(k)
    <3> DEFINE n == [call[k] EXCEPT !.pc = "mutate", !.account = mgr.account, !.rev = mgr.rev]
    <3>1. n.pc = "mutate" /\ n.sid = call[k].sid  BY <2>1 DEF Handling
    <3>2. (Same(k) /\ call' = [call EXCEPT ![k] = n]) \/ call' = [call EXCEPT ![k] = Idle]
      BY <1>1, <2>6 DEF SendSave
    <3> HIDE DEF n
    <3>3. Same(k) => Goes(call[k], n)  BY <3>1 DEF Goes, Same
    <3> QED  BY <3>2, <3>3, OneGoes, EndGoes
  <2>7. ASSUME NEW there \in BOOLEAN, ActiveTab(k, there)  PROVE \A j \in Call : Goes(call[j], call'[j])
    <3>1. call' = [call EXCEPT ![k] = Idle] \/ CheckFresh(k, call[k])  BY <2>7 DEF ActiveTab
    <3> QED  BY <2>1, <3>1, EndGoes, CheckGoes
  <2>8. ASSUME \/ LoggedOut(k) \/ GrantCandidates(k) \/ Show(k) \/ Saved(k)
               \/ \E there \in BOOLEAN, p \in Page : FillSent(k, there, p)
        PROVE  \A j \in Call : Goes(call[j], call'[j])
    <3>1. call' = [call EXCEPT ![k] = Idle]  BY <2>8 DEF LoggedOut, GrantCandidates, Show, Saved, FillSent
    <3> QED  BY <3>1, EndGoes
  <2> QED  BY <1>3, <2>2, <2>3, <2>4, <2>5, <2>6, <2>7, <2>8 DEF Proceed
<1>4. ASSUME NEW k \in Call, LoadFails(k)  PROVE \A j \in Call : Goes(call[j], call'[j])
  BY <1>4, EndGoes DEF LoadFails
<1>5. CASE Evict
  <2>1. \A j \in Call : call'[j] = Idle  BY <1>5 DEF Evict
  <2> QED  BY <2>1, IdleTyped DEF Goes
<1>6. CASE call' = call  BY <1>6 DEF Goes
<1>7. \/ \E k \in Call : Message(k) \/ Proceed(k) \/ LoadFails(k)
      \/ Evict
      \/ call' = call
  BY DEF Next, Offer, CancelOffer, Lock, OpenPopup, ClosePopup, TimePasses, OtherDevice, vars
<1> QED  BY <1>2, <1>3, <1>4, <1>5, <1>6, <1>7

\* No request of the vault manager (api.refresh, listDevices, mutate) starts after an
\* await for a session that was locked or replaced meanwhile.
THEOREM NoLateRequest == Spec => NoRequestAfterLock
<1> DEFINE A == \A k \in Call : call[k].pc # call'[k].pc /\ call'[k].pc \in {"refresh", "devices", "mutate"}
                   => mgr # None /\ mgr.sid = call'[k].sid
<1>1. IInv /\ [Next]_vars => A
  <2> SUFFICES ASSUME IInv, [Next]_vars  PROVE A
    OBVIOUS
  <2>1. CASE ~\E k \in Call : SendFill(k)
    <3>1. \A j \in Call : Goes(call[j], call'[j])  BY <2>1, NextGoes
    <3> QED  BY <3>1 DEF Goes
  <2>2. ASSUME NEW k \in Call, SendFill(k)  PROVE A
    <3> DEFINE n == [call[k] EXCEPT !.pc = "sent"]
    <3>1. call \in [Call -> Handling] /\ call[k] \in Handling  BY Present
    <3>2. n.pc = "sent"  BY <3>1 DEF Handling
    <3>3. call' = [call EXCEPT ![k] = n] \/ call' = [call EXCEPT ![k] = Idle]  BY <2>2, <3>1 DEF SendFill
    <3> HIDE DEF n
    <3>4. \A j \in Call : call'[j] \in {call[j], n, Idle}  BY <3>1, <3>3
    <3> QED  BY <3>2, <3>4, IdleTyped
  <2> QED  BY <2>1, <2>2
<1>2. Spec => []IInv /\ [][Next]_vars  BY IInvHolds, PTL DEF Spec
<1> HIDE DEF A
<1>3. Spec => [][A]_vars  BY <1>1, <1>2, PTL
<1> QED  BY <1>3 DEF NoRequestAfterLock, A

\* fill-selected sends the fields only while unlocked, in the generation of the click,
\* for a page of exactly the item's secure origin (background.ts, fieldsFor).
THEOREM FillsInSession == Spec => FillInItsSession
<1> DEFINE A == \A k \in Call : call[k].pc = "yes" /\ call'[k].pc = "sent" =>
                   /\ ses.active /\ ses.gen = call[k].gen
                   /\ call[k].offer.origin = UrlOf("https:", ItemUrl.host, "443")
<1>1. IInv /\ [Next]_vars => A
  <2> SUFFICES ASSUME IInv, [Next]_vars  PROVE A
    OBVIOUS
  <2>1. CASE ~\E k \in Call : SendFill(k)
    <3>1. \A j \in Call : Goes(call[j], call'[j])  BY <2>1, NextGoes
    <3> QED  BY <3>1 DEF Goes
  <2>2. ASSUME NEW k \in Call, SendFill(k)  PROVE A
    <3> SUFFICES ASSUME NEW j \in Call, call[j].pc = "yes", call'[j].pc = "sent"
                 PROVE  /\ ses.active /\ ses.gen = call[j].gen
                        /\ call[j].offer.origin = UrlOf("https:", ItemUrl.host, "443")
      OBVIOUS
    <3>1. call \in [Call -> Handling] /\ call[k].op = "fill"  BY <2>2, Present DEF SendFill
    <3>2. j = k  BY <2>2, <3>1 DEF SendFill
    <3>3. ses.gen = call[k].gen
      <4>1. CASE Released(k)  BY <4>1 DEF Released
      <4>2. CASE ~Released(k)
        <5>1. call' = [call EXCEPT ![k] = Idle]  BY <2>2, <4>2 DEF SendFill
        <5>2. call'[k].pc = "idle"  BY <3>1, <5>1, IdleTyped
        <5> QED  BY <3>2, <5>2
      <4> QED  BY <4>1, <4>2
    <3>4. ses.active /\ call[k].offer.origin = SecureOrigin  BY <3>1, <3>3 DEF IInv, Sessions
    <3> QED  BY <3>2, <3>3, <3>4, SecureUrl
  <2> QED  BY <2>1, <2>2
<1>2. Spec => []IInv /\ [][Next]_vars  BY IInvHolds, PTL DEF Spec
<1> HIDE DEF A
<1>3. Spec => [][A]_vars  BY <1>1, <1>2, PTL
<1> QED  BY <1>3 DEF FillInItsSession, A

-----------------------------------------------------------------------------
(* Where a login goes                                                      *)

\* A URL of any host and port with a scheme a page may have, or none that parses.
WebUrl(u) ==
    \/ u = Unparseable
    \/ u.scheme \in {"http:", "https:"} /\ u = UrlOf(u.scheme, u.host, u.port)

\* Top frame, and both the page and where its form goes are of the item's origin.
ItemPage(p) ==
    /\ p.frame = "top"
    /\ \A u \in {p.url, p.action} : Secure(u) /\ ParseOrigin(u) = SecureOrigin

\* parseOrigin keeps scheme and host, and what it returns has a port.
LEMMA Parsed ==
    ASSUME NEW u, WebUrl(u), u # Unparseable
    PROVE  /\ WebUrl(ParseOrigin(u)) /\ ParseOrigin(u) # Unparseable
           /\ ParseOrigin(u).scheme = u.scheme /\ ParseOrigin(u).host = u.host
           /\ ParseOrigin(ParseOrigin(u)) = ParseOrigin(u)
<1>1. u.scheme \in {"http:", "https:"} /\ u = UrlOf(u.scheme, u.host, u.port)
  BY DEF WebUrl
<1> DEFINE port == IF u.port = "" THEN DefaultPort[u.scheme] ELSE u.port
           v == UrlOf(u.scheme, u.host, port)
<1>2. port # ""
  <2>1. DefaultPort["http:"] = "80" /\ DefaultPort["https:"] = "443"
    BY DEF DefaultPort
  <2> QED BY <1>1, <2>1
<1>3. ParseOrigin(u) = v
  <2>1. ParseOrigin(u) = [UrlOf(u.scheme, u.host, u.port) EXCEPT !.port = port]
    BY <1>1 DEF ParseOrigin
  <2> HIDE DEF port
  <2> QED BY <2>1 DEF UrlOf
<1> HIDE DEF port
<1>4. v.scheme = u.scheme /\ v.host = u.host /\ v.port = port
  BY DEF UrlOf
<1>5. v # Unparseable
  BY <1>1, <1>4 DEF Unparseable, UrlOf
<1>6. WebUrl(v)
  BY <1>1, <1>4 DEF WebUrl
<1>7. ParseOrigin(v) = v
  <2>1. ParseOrigin(v) = [v EXCEPT !.port = port]
    BY <1>2, <1>4 DEF ParseOrigin
  <2> QED BY <2>1 DEF UrlOf
<1> HIDE DEF v
<1> QED BY <1>3, <1>4, <1>5, <1>6, <1>7

\* What matches an https origin is of its scheme too: exact matching never takes an
\* http page for an https item.
LEMMA MatchesSecure ==
    ASSUME NEW u, WebUrl(u), NEW v, WebUrl(v), MatchOrigin(u, v), Secure(u) \/ Secure(v)
    PROVE  Secure(u) /\ Secure(v) /\ ParseOrigin(u) = ParseOrigin(v) /\ u.host = v.host
<1>1. u # Unparseable /\ v # Unparseable /\ ParseOrigin(u) = ParseOrigin(v)
  BY DEF MatchOrigin
<1>2. u.scheme = v.scheme /\ u.host = v.host
  BY <1>1, Parsed
<1> QED BY <1>1, <1>2 DEF Secure

\* decideFill offers a login only to a top frame whose sender, claimed page and form
\* action, if it has one, are all of the item's secure origin, whatever URLs they are.
THEOREM DecidedFill ==
    ASSUME NEW sender, WebUrl(sender),
           NEW request, WebUrl(request.pageUrl), request.formAction = Absent \/ WebUrl(request.formAction),
           DecideFill(request, sender)
    PROVE  /\ request.isTopFrame
           /\ \A u \in {sender, request.pageUrl, request.formAction} \ {Absent} :
                Secure(u) /\ ParseOrigin(u) = SecureOrigin /\ u.host = ItemUrl.host
<1>1. /\ MatchOrigin(ItemUrl, sender) /\ MatchOrigin(sender, request.pageUrl)
      /\ request.isTopFrame /\ Secure(request.pageUrl)
      /\ request.formAction # Absent => MatchOrigin(request.pageUrl, request.formAction)
  BY DEF DecideFill
<1>2. WebUrl(ItemUrl)
  BY DEF WebUrl, ItemUrl, UrlOf
<1>3. /\ Secure(sender) /\ ParseOrigin(sender) = ParseOrigin(request.pageUrl)
      /\ sender.host = request.pageUrl.host
  BY <1>1, MatchesSecure
<1>4. ParseOrigin(sender) = SecureOrigin /\ sender.host = ItemUrl.host
  BY <1>1, <1>2, <1>3, MatchesSecure DEF SecureOrigin
<1>5. request.formAction # Absent =>
        /\ Secure(request.formAction) /\ ParseOrigin(request.formAction) = ParseOrigin(request.pageUrl)
        /\ request.formAction.host = request.pageUrl.host
  BY <1>1, MatchesSecure
<1> QED BY <1>1, <1>3, <1>4, <1>5

\* The content script's last look lets a fill through only on a page of the origin the
\* offer was made for.
LEMMA AssignedPage ==
    ASSUME NEW p, WebUrl(p.url), WebUrl(p.action), Assigns(p, SecureOrigin)
    PROVE  ItemPage(p)
<1>1. WebUrl(ItemUrl) /\ ItemUrl # Unparseable
  BY DEF WebUrl, ItemUrl, UrlOf, Unparseable
<1>2. WebUrl(SecureOrigin) /\ ParseOrigin(SecureOrigin) = SecureOrigin
  BY <1>1, Parsed DEF SecureOrigin
<1>3. p.frame = "top" /\ Secure(p.url) /\ MatchOrigin(SecureOrigin, p.url) /\ MatchOrigin(p.action, p.url)
  BY DEF Assigns
<1>4. ParseOrigin(p.url) = SecureOrigin
  BY <1>2, <1>3, MatchesSecure
<1>5. Secure(p.action) /\ ParseOrigin(p.action) = ParseOrigin(p.url)
  BY <1>3, MatchesSecure
<1> QED BY <1>3, <1>4, <1>5 DEF ItemPage

\* The pages of the model have such URLs.
LEMMA PageUrls == ASSUME NEW p \in Page PROVE WebUrl(p.url) /\ WebUrl(p.action)
<1>1. \A u \in Url : WebUrl(u)
  <2>1. ASSUME NEW scheme \in {"http:", "https:"}, NEW host, NEW port
        PROVE  WebUrl(UrlOf(scheme, host, port))
    BY DEF WebUrl, UrlOf
  <2>2. WebUrl(Unparseable)
    BY DEF WebUrl
  <2> QED BY <2>1, <2>2 DEF Url, ItemUrl
<1>2. ItemUrl \in Url
  BY DEF Url
<1>3. p.url \in Url /\ p.action \in Url
  BY <1>2 DEF Page, Login
<1> QED BY <1>1, <1>3

\* Whatever the document became between the offer and the arrival of the fill, a form is
\* filled only in a top frame of the item's origin, and only if it submits there
\* (content.ts looks again before it assigns).
THEOREM FillsOnItemPage ==
    Spec => [][\A k \in Call, there \in BOOLEAN, p \in Page :
                 FillSent(k, there, p) /\ fills' # fills => there /\ ItemPage(p)]_vars
<1> DEFINE A == \A k \in Call, there \in BOOLEAN, p \in Page :
                  FillSent(k, there, p) /\ fills' # fills => there /\ ItemPage(p)
<1>1. IInv => A
  <2> SUFFICES ASSUME IInv, NEW k \in Call, NEW there \in BOOLEAN, NEW p \in Page,
                      FillSent(k, there, p), fills' # fills
               PROVE  there /\ ItemPage(p)
    OBVIOUS
  <2>1. call[k].pc = "sent" /\ there /\ Assigns(p, call[k].offer.origin)
    BY DEF FillSent
  <2>2. call[k].op = "fill"
    BY <2>1 DEF IInv, Handled, Sound
  <2>3. call[k].offer.origin = SecureOrigin
    BY <2>2 DEF IInv, Sessions
  <2> QED BY <2>1, <2>3, PageUrls, AssignedPage
<1>2. Spec => []IInv  BY IInvHolds, PTL
<1> HIDE DEF A
<1>3. Spec => [][A]_vars  BY <1>1, <1>2, PTL
<1> QED  BY <1>3 DEF A
=============================================================================
