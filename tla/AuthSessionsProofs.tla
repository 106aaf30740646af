------------------------- MODULE AuthSessionsProofs -------------------------
(***************************************************************************)
(* Proofs about AuthSessions for every set of sessions, devices and        *)
(* requests: rotation, binding and the revocation of a device.             *)
(***************************************************************************)
EXTENDS AuthSessions, FiniteSetTheorems, TLAPS

\* A request under way carries an issued token, and the device it is about
\* where its route needs one.
Started ==
    \A r \in Request : request[r].pc # "idle" =>
        /\ request[r].token \in Session /\ sessions[request[r].token].state # "none"
        /\ request[r].op \in Op
        /\ request[r].pc = "legacy-public-key" => request[r].op = "legacy-public-key"
        /\ request[r].pc = "bind" =>
             request[r].op = "legacy-public-key" /\ request[r].device \in DeviceId
        /\ (request[r].op = "revoke" /\ request[r].pc = "authenticate")
             \/ request[r].pc \in {"revoke", "revoking", "sweep"} => request[r].device \in DeviceId

\* No two transactions hold one row of sessions, and the row a transaction
\* holds is as its checks found it.
Held ==
    /\ \A r, q \in Request : \A s \in Session :
         HoldsSession(r, s) /\ HoldsSession(q, s) => r = q
    /\ \A r \in Request : At(r, "rotated") => sessions[request[r].token].state = "live"
    /\ \A r \in Request : At(r, "enroll") =>
         sessions[request[r].token].state = "live" /\ sessions[request[r].token].device = None

\* A session that was rotated is dead, and has one successor.
Rotated ==
    \A s \in Session :
        /\ successors[s] # {} => sessions[s].state = "revoked"
        /\ \A m, n \in successors[s] : m = n

\* Devices come from the table, a session that is not issued has none, and the
\* one a legacy enrollment is about to bind is nobody's yet.
Bindings ==
    /\ \A s \in Session : sessions[s].state = "none" => sessions[s].device = None
    /\ \A s \in Session : sessions[s].device # None => devices[sessions[s].device] # "none"
    /\ \A r \in Request : At(r, "bind") =>
         /\ devices[request[r].device] # "none"
         /\ \A s \in Session : sessions[s].device # request[r].device
         /\ \A q \in Request : At(q, "bind") /\ request[q].device = request[r].device => q = r

\* A device has one live session.
OneLive ==
    \A s, u \in Session :
        /\ sessions[s].state = "live" /\ sessions[u].state = "live"
        /\ sessions[s].device # None /\ sessions[s].device = sessions[u].device
        => s = u

\* A session has acted for no device but its own.
ActedForOwn == \A s \in Session : \A d \in acted[s] : sessions[s].device = d

IInv == TypeOK /\ Started /\ Held /\ Rotated /\ Bindings /\ OneLive

-----------------------------------------------------------------------------
(* What the steps do to a request and to a row of sessions.                *)

Place == {"idle", "authenticate", "rotating", "rotated", "bind", "enroll", "revoking", "sweep"}
             \cup Routes

\* A step of request r.
Act(r) ==
    \/ \E op \in Op, s \in Session, d \in DeviceId \cup {None} : Receive(r, op, s, d)
    \/ Handle(r)
    \/ Abort(r)

\* Only request r moves; of what it carries all is kept but its place.
OnlyRequest(r) ==
    request' \in [Request -> Handler] /\ \A q \in Request \ {r} : request'[q] = request[q]
Carries(r) ==
    /\ request'[r].op = request[r].op /\ request'[r].token = request[r].token
    /\ request'[r].device = request[r].device

\* A handler goes on to its next statement.
LEMMA GotoType ==
    ASSUME TypeOK, NEW r \in Request, NEW p \in Place, Goto(r, p)
    PROVE  OnlyRequest(r) /\ Carries(r) /\ request'[r].pc = p
<1> DEFINE x == [request[r] EXCEPT !.pc = p]
<1>1. request[r] \in Handler
    BY DEF TypeOK
<1>2. x \in Handler /\ x.pc = p /\ x.op = request[r].op /\ x.token = request[r].token
      /\ x.device = request[r].device
    BY <1>1 DEF Handler, Place
<1>3. request' = [request EXCEPT ![r] = x]
    BY DEF Goto
<1> HIDE DEF x
<1> QED BY <1>2, <1>3 DEF TypeOK, OnlyRequest, Carries

\* A handler goes on with a device.
LEMMA GotoDeviceType ==
    ASSUME TypeOK, NEW r \in Request, NEW p \in Place, NEW d \in DeviceId,
           request' = [request EXCEPT ![r].pc = p, ![r].device = d]
    PROVE  /\ OnlyRequest(r) /\ request'[r].pc = p /\ request'[r].device = d
           /\ request'[r].op = request[r].op /\ request'[r].token = request[r].token
<1> DEFINE x == [request[r] EXCEPT !.pc = p, !.device = d]
<1>1. request[r] \in Handler
    BY DEF TypeOK
<1>2. x \in Handler /\ x.pc = p /\ x.op = request[r].op /\ x.token = request[r].token
      /\ x.device = d
    BY <1>1 DEF Handler, Place
<1>3. request' = [request EXCEPT ![r] = x]
    BY DEF TypeOK
<1> HIDE DEF x
<1> QED BY <1>2, <1>3 DEF TypeOK, OnlyRequest

\* The sweep keeps the rows it found.
LEMMA GotoSweepType ==
    ASSUME TypeOK, NEW r \in Request, NEW T \in SUBSET Session,
           request' = [request EXCEPT ![r].pc = "sweep", ![r].targets = T]
    PROVE  OnlyRequest(r) /\ Carries(r) /\ request'[r].pc = "sweep"
<1> DEFINE x == [request[r] EXCEPT !.pc = "sweep", !.targets = T]
<1>1. request[r] \in Handler
    BY DEF TypeOK
<1>2. x \in Handler /\ x.pc = "sweep" /\ x.op = request[r].op /\ x.token = request[r].token
      /\ x.device = request[r].device
    BY <1>1 DEF Handler
<1>3. request' = [request EXCEPT ![r] = x]
    BY DEF TypeOK
<1> HIDE DEF x
<1> QED BY <1>2, <1>3 DEF TypeOK, OnlyRequest, Carries

\* The answer ends the handler.
LEMMA ReplyType ==
    ASSUME TypeOK, NEW r \in Request, Reply(r)
    PROVE  OnlyRequest(r) /\ request'[r].pc = "idle"
<1>1. Idle \in Handler /\ Idle.pc = "idle"
    BY DEF Idle, Handler, Routes
<1> QED BY <1>1 DEF Reply, TypeOK, OnlyRequest

\* A request that arrives.
LEMMA ReceiveType ==
    ASSUME TypeOK, NEW r \in Request, NEW op \in Op, NEW s \in Session,
           NEW d \in DeviceId \cup {None}, Receive(r, op, s, d)
    PROVE  /\ OnlyRequest(r) /\ request'[r].pc = "authenticate" /\ request'[r].op = op
           /\ request'[r].token = s /\ request'[r].device = d
           /\ op = "revoke" => d \in DeviceId
<1> DEFINE x == [Idle EXCEPT !.pc = "authenticate", !.op = op, !.token = s, !.device = d]
<1>1. x \in Handler /\ x.pc = "authenticate" /\ x.op = op /\ x.token = s /\ x.device = d
    BY OpAssumption DEF Idle, Handler, Routes
<1>2. request' = [request EXCEPT ![r] = x]
    BY DEF Receive
<1> HIDE DEF x
<1> QED BY <1>1, <1>2 DEF TypeOK, OnlyRequest, Receive

\* A row of sessions.
LEMMA RowType ==
    ASSUME TypeOK, NEW s \in Session
    PROVE  /\ sessions[s] \in Row /\ sessions[s].state \in {"none", "live", "revoked"}
           /\ sessions[s].device \in DeviceId \cup {None} /\ sessions[s].expired \in BOOLEAN
BY DEF TypeOK, Row

\* The state, the age or the device of one row changes.
LEMMA RowUpdates ==
    ASSUME TypeOK, NEW s \in Session
    PROVE  /\ \A x \in {"none", "live", "revoked"} :
                /\ [sessions[s] EXCEPT !.state = x] \in Row
                /\ [sessions[s] EXCEPT !.state = x].state = x
                /\ [sessions[s] EXCEPT !.state = x].device = sessions[s].device
           /\ /\ [sessions[s] EXCEPT !.expired = TRUE] \in Row
              /\ [sessions[s] EXCEPT !.expired = TRUE].state = sessions[s].state
              /\ [sessions[s] EXCEPT !.expired = TRUE].device = sessions[s].device
           /\ \A d \in DeviceId :
                /\ [sessions[s] EXCEPT !.device = d] \in Row
                /\ [sessions[s] EXCEPT !.device = d].state = sessions[s].state
                /\ [sessions[s] EXCEPT !.device = d].device = d
<1>1. sessions[s] \in Row
    BY RowType
<1> QED BY <1>1 DEF Row

\* Sessions end, none that another transaction holds, and keep their devices.
Ends(r) ==
    /\ sessions' \in [Session -> Row]
    /\ \A s \in Session :
         /\ sessions'[s].device = sessions[s].device
         /\ \/ sessions'[s].state = sessions[s].state
            \/ /\ sessions'[s].state = "revoked" /\ sessions[s].state # "none"
               /\ SessionFree(r, s)

\* Session s gets device d.
Binds(s, d) ==
    /\ sessions' \in [Session -> Row]
    /\ sessions'[s].state = sessions[s].state /\ sessions'[s].device = d
    /\ \A u \in Session \ {s} : sessions'[u] = sessions[u]

\* Session s is replaced by session n.
Rotates(s, n) ==
    /\ sessions' \in [Session -> Row] /\ n # s
    /\ sessions[n].state = "none" /\ sessions'[n].state = "live"
    /\ sessions'[n].device = sessions[s].device
    /\ sessions'[s].state = "revoked" /\ sessions'[s].device = sessions[s].device
    /\ \A u \in Session \ {s, n} : sessions'[u] = sessions[u]
    /\ successors' \in [Session -> SUBSET Session]
    /\ successors'[s] = successors[s] \cup {n}
    /\ \A u \in Session \ {s} : successors'[u] = successors[u]
    /\ acted' \in [Session -> SUBSET DeviceId] /\ acted'[n] = acted[s]
    /\ \A u \in Session \ {n} : acted'[u] = acted[u]

\* A login issues a session, or one runs out.
Issues ==
    /\ sessions' \in [Session -> Row]
    /\ \A s \in Session :
         /\ sessions'[s].device = sessions[s].device
         /\ \/ sessions'[s].state = sessions[s].state
            \/ sessions[s].state = "none" /\ sessions'[s].state = "live"

\* issueSession and the passing of time.
LEMMA IssueEffect ==
    ASSUME TypeOK, NEW s \in Session, IssueSession(s) \/ Expire(s)
    PROVE  Issues /\ UNCHANGED <<devices, request, successors, acted>>
<1>1. CASE IssueSession(s)
  <2> DEFINE x == [sessions[s] EXCEPT !.state = "live"]
  <2>1. sessions' = [sessions EXCEPT ![s] = x] /\ sessions[s].state = "none"
      BY <1>1 DEF IssueSession
  <2>2. x \in Row /\ x.state = "live" /\ x.device = sessions[s].device
      BY RowUpdates
  <2> HIDE DEF x
  <2> QED BY <1>1, <2>1, <2>2 DEF IssueSession, Issues, TypeOK
<1>2. CASE Expire(s)
  <2> DEFINE x == [sessions[s] EXCEPT !.expired = TRUE]
  <2>1. sessions' = [sessions EXCEPT ![s] = x]
      BY <1>2 DEF Expire
  <2>2. x \in Row /\ x.state = sessions[s].state /\ x.device = sessions[s].device
      BY RowUpdates
  <2> HIDE DEF x
  <2> QED BY <1>2, <2>1, <2>2 DEF Expire, Issues, TypeOK
<1> QED BY <1>1, <1>2

\* The logout.
LEMMA LogoutEffect ==
    ASSUME TypeOK, Started, NEW r \in Request, RevokeSession(r)
    PROVE  Ends(r)
<1> DEFINE s == request[r].token
           x == [sessions[s] EXCEPT !.state = "revoked"]
<1>1. s \in Session /\ sessions[s].state # "none"
    BY DEF RevokeSession, At, Started
<1>2. sessions' = [sessions EXCEPT ![s] = x] /\ SessionFree(r, s)
    BY DEF RevokeSession
<1>3. x \in Row /\ x.state = "revoked" /\ x.device = sessions[s].device
    BY <1>1, RowUpdates
<1> HIDE DEF x, s
<1> QED BY <1>1, <1>2, <1>3 DEF Ends, TypeOK

\* The commit of a device's revocation.
LEMMA RevokeEffect ==
    ASSUME TypeOK, Started, Bindings, NEW r \in Request, RevokeCommit(r)
    PROVE  Ends(r)
<1> DEFINE d == request[r].device
           Hit(s) == s \in request[r].targets /\ sessions[s].device = d
<1>1. d \in DeviceId /\ (\A s \in request[r].targets : SessionFree(r, s))
    BY DEF RevokeCommit, At, Started
<1>2. sessions' = [s \in Session |->
          IF Hit(s) THEN [sessions[s] EXCEPT !.state = "revoked"] ELSE sessions[s]]
    BY DEF RevokeCommit
<1>3. \A s \in Session : Hit(s) => sessions[s].state # "none" /\ SessionFree(r, s)
    BY <1>1, NoneAssumption DEF Bindings
<1> HIDE DEF Hit
<1> QED BY <1>2, <1>3, RowUpdates, RowType DEF Ends, TypeOK

\* The commit of a rotation.
LEMMA RotateEffect ==
    ASSUME TypeOK, Started, Held, NEW r \in Request, RotateCommit(r)
    PROVE  \E n \in Session : Rotates(request[r].token, n) /\ UNCHANGED devices /\ Reply(r)
<1> DEFINE s == request[r].token
<1>1. s \in Session /\ sessions[s].state = "live"
    BY DEF RotateCommit, At, Started, Held
<1>2. PICK n \in Session :
        /\ sessions[n].state = "none"
        /\ sessions' = [sessions EXCEPT ![s].state = "revoked",
             ![n] = [state |-> "live", expired |-> FALSE,
                     device |-> sessions[s].device, issuedVia |-> "refresh"]]
        /\ successors' = [successors EXCEPT ![s] = @ \cup {n}]
        /\ acted' = [acted EXCEPT ![n] = acted[s]]
        /\ UNCHANGED devices /\ Reply(r)
    BY DEF RotateCommit
<1> DEFINE x == [sessions[s] EXCEPT !.state = "revoked"]
           y == [state |-> "live", expired |-> FALSE,
                 device |-> sessions[s].device, issuedVia |-> "refresh"]
<1>3. n # s
    BY <1>1, <1>2
<1>4. sessions' = [[sessions EXCEPT ![s] = x] EXCEPT ![n] = y]
    BY <1>1, <1>2 DEF TypeOK
<1>5. x \in Row /\ x.state = "revoked" /\ x.device = sessions[s].device
    BY <1>1, RowUpdates
<1>6. y \in Row /\ y.state = "live" /\ y.device = sessions[s].device
    BY <1>1, RowType DEF Row
<1> HIDE DEF s, x, y
<1>7. /\ sessions' \in [Session -> Row] /\ sessions'[n] = y /\ sessions'[s] = x
      /\ \A u \in Session \ {s, n} : sessions'[u] = sessions[u]
    BY <1>1, <1>3, <1>4, <1>5, <1>6 DEF TypeOK
<1>8. /\ successors' \in [Session -> SUBSET Session]
      /\ successors'[s] = successors[s] \cup {n}
      /\ \A u \in Session \ {s} : successors'[u] = successors[u]
    BY <1>1, <1>2 DEF TypeOK
<1>9. /\ acted' \in [Session -> SUBSET DeviceId] /\ acted'[n] = acted[s]
      /\ \A u \in Session \ {n} : acted'[u] = acted[u]
    BY <1>1, <1>2 DEF TypeOK
<1>10. Rotates(s, n)
    BY <1>2, <1>3, <1>5, <1>6, <1>7, <1>8, <1>9 DEF Rotates
<1> QED BY <1>2, <1>10 DEF s

\* The UPDATE of a session's device, by either enrollment.
LEMMA BindEffect ==
    ASSUME TypeOK, NEW s \in Session, NEW d \in DeviceId,
           sessions' = [sessions EXCEPT ![s].device = d],
           acted' = [acted EXCEPT ![s] = @ \cup {d}]
    PROVE  /\ Binds(s, d)
           /\ acted' \in [Session -> SUBSET DeviceId] /\ acted'[s] = acted[s] \cup {d}
           /\ \A u \in Session \ {s} : acted'[u] = acted[u]
<1> DEFINE x == [sessions[s] EXCEPT !.device = d]
<1>1. sessions' = [sessions EXCEPT ![s] = x]
    OBVIOUS
<1>2. x \in Row /\ x.state = sessions[s].state /\ x.device = d
    BY RowUpdates
<1> HIDE DEF x
<1> QED BY <1>1, <1>2 DEF Binds, TypeOK

-----------------------------------------------------------------------------
(* The parts of the invariant, one after the other.                        *)

\* A step is one of a login, of time or of one request.
LEMMA Steps ==
    ASSUME [Next]_vars
    PROVE  \/ UNCHANGED vars
           \/ \E s \in Session : IssueSession(s) \/ Expire(s)
           \/ \E r \in Request : Act(r)
BY DEF Next, Act

\* How a request moves, whatever the tables do.
LEMMA RequestMoves ==
    ASSUME TypeOK, Started, NEW r \in Request, Act(r)
    PROVE  /\ OnlyRequest(r)
           /\ \/ request'[r].pc = "idle"
              \/ /\ Carries(r) /\ request[r].pc # "idle"
                 /\ request'[r].pc \in {"rotated", "enroll", "revoking", "sweep"}
                 /\ request'[r].pc \in {"revoking", "sweep"} =>
                      request[r].pc \in {"revoke", "revoking"}
              \/ Carries(r) /\ request[r].pc = "authenticate" /\ request'[r].pc = request[r].op
              \/ /\ request'[r].pc = "rotating" /\ request[r].pc = "refresh"
                 /\ request'[r].op = request[r].op /\ request'[r].token = request[r].token
              \/ /\ request'[r].pc = "bind" /\ request[r].pc = "legacy-public-key"
                 /\ request'[r].op = request[r].op /\ request'[r].token = request[r].token
                 /\ request'[r].device \in DeviceId
              \/ /\ request'[r].pc = "authenticate" /\ request'[r].op \in Op
                 /\ request'[r].token \in Session /\ sessions[request'[r].token].state # "none"
                 /\ request'[r].op = "revoke" => request'[r].device \in DeviceId
<1> DEFINE Goal ==
      /\ OnlyRequest(r)
      /\ \/ request'[r].pc = "idle"
         \/ /\ Carries(r) /\ request[r].pc # "idle"
            /\ request'[r].pc \in {"rotated", "enroll", "revoking", "sweep"}
            /\ request'[r].pc \in {"revoking", "sweep"} => request[r].pc \in {"revoke", "revoking"}
         \/ Carries(r) /\ request[r].pc = "authenticate" /\ request'[r].pc = request[r].op
         \/ /\ request'[r].pc = "rotating" /\ request[r].pc = "refresh"
            /\ request'[r].op = request[r].op /\ request'[r].token = request[r].token
         \/ /\ request'[r].pc = "bind" /\ request[r].pc = "legacy-public-key"
            /\ request'[r].op = request[r].op /\ request'[r].token = request[r].token
            /\ request'[r].device \in DeviceId
         \/ /\ request'[r].pc = "authenticate" /\ request'[r].op \in Op
            /\ request'[r].token \in Session /\ sessions[request'[r].token].state # "none"
            /\ request'[r].op = "revoke" => request'[r].device \in DeviceId
<1> USE DEF At
<1>1. ASSUME Reply(r) PROVE Goal
    BY <1>1, ReplyType
<1>2. ASSUME NEW op \in Op, NEW s \in Session, NEW d \in DeviceId \cup {None}, Receive(r, op, s, d)
      PROVE  Goal
  <2>1. sessions[s].state # "none"
      BY <1>2 DEF Receive
  <2> QED BY <1>2, <2>1, ReceiveType
<1>3. ASSUME Authenticate(r), ~Reply(r) PROVE Goal
  <2>1. request[r].op \in Place
      BY DEF TypeOK, Handler, Place
  <2> QED BY <1>3, <2>1, GotoType DEF Authenticate
<1>4. ASSUME RotateBegin(r), ~Reply(r) PROVE Goal
  <2>1. request[r].pc = "refresh" /\ request[r].token \in Session
      BY <1>4 DEF RotateBegin, Started
  <2>2. sessions[request[r].token].device \in DeviceId
      BY <1>4, <2>1, RowType DEF RotateBegin
  <2>3. "rotating" \in Place
      BY DEF Place
  <2> QED BY <1>4, <2>1, <2>2, <2>3, GotoDeviceType DEF RotateBegin
<1>5. ASSUME RotateUpdate(r) \/ EnrollLock(r) \/ RevokeUpdate(r), ~Reply(r) PROVE Goal
  <2>1. {"rotated", "enroll", "revoking"} \subseteq Place
      BY DEF Place
  <2>2. \/ Goto(r, "rotated") /\ request[r].pc # "idle"
        \/ Goto(r, "enroll") /\ request[r].pc # "idle"
        \/ Goto(r, "revoking") /\ request[r].pc = "revoke"
      BY <1>5 DEF RotateUpdate, EnrollLock, RevokeUpdate
  <2> QED BY <2>1, <2>2, GotoType
<1>6. ASSUME CreateDevice(r) PROVE Goal
  <2>1. "bind" \in Place
      BY DEF Place
  <2>2. PICK d \in DeviceId : request' = [request EXCEPT ![r].pc = "bind", ![r].device = d]
      BY <1>6 DEF CreateDevice
  <2>3. /\ OnlyRequest(r) /\ request'[r].pc = "bind" /\ request'[r].device = d
        /\ request'[r].op = request[r].op /\ request'[r].token = request[r].token
      BY <2>1, <2>2, GotoDeviceType
  <2> QED BY <1>6, <2>3 DEF CreateDevice
<1>7. ASSUME RevokeSweep(r) PROVE Goal
  <2> DEFINE T == {s \in Session : sessions[s].state = "live" /\ sessions[s].device = request[r].device}
  <2>1. T \in SUBSET Session
      OBVIOUS
  <2>2. request' = [request EXCEPT ![r].pc = "sweep", ![r].targets = T] /\ request[r].pc = "revoking"
      BY <1>7 DEF RevokeSweep
  <2> HIDE DEF T
  <2> QED BY <2>1, <2>2, GotoSweepType
<1>8. ASSUME \/ RotateCommit(r) \/ RevokeSession(r) \/ BindSessionToDevice(r)
             \/ EnrollCommit(r) \/ RevokeCommit(r) \/ Abort(r)
      PROVE  Goal
  <2>1. Reply(r)
      BY <1>8 DEF RotateCommit, RevokeSession, BindSessionToDevice, EnrollCommit, RevokeCommit, Abort
  <2> QED BY <1>1, <2>1
<1> QED BY <1>1, <1>2, <1>3, <1>4, <1>5, <1>6, <1>7, <1>8 DEF Act, Handle

\* What a step of request r does to the tables.
LEMMA TableMoves ==
    ASSUME TypeOK, Started, Held, Bindings, NEW r \in Request, Act(r)
    PROVE  \/ UNCHANGED <<sessions, devices, successors, acted>>
           \/ /\ Ends(r) /\ request'[r].pc = "idle" /\ UNCHANGED <<successors, acted>>
              /\ devices' \in [DeviceId -> {"none", "live", "revoked"}]
              /\ \A d \in DeviceId : devices[d] # "none" => devices'[d] # "none"
           \/ /\ At(r, "rotated") /\ UNCHANGED devices /\ request'[r].pc = "idle"
              /\ \E n \in Session : Rotates(request[r].token, n)
           \/ /\ At(r, "legacy-public-key") /\ UNCHANGED <<sessions, successors, acted>>
              /\ request'[r].pc = "bind" /\ request'[r].device \in DeviceId
              /\ devices[request'[r].device] = "none"
              /\ devices' = [devices EXCEPT ![request'[r].device] = "live"]
           \/ /\ At(r, "bind") /\ UNCHANGED <<devices, successors>> /\ request'[r].pc = "idle"
              /\ SessionFree(r, request[r].token)
              /\ Binds(request[r].token, request[r].device)
              /\ acted' \in [Session -> SUBSET DeviceId]
           \/ /\ At(r, "enroll") /\ UNCHANGED successors /\ request'[r].pc = "idle"
              /\ \E d \in DeviceId :
                   /\ devices[d] = "none" /\ devices' = [devices EXCEPT ![d] = "live"]
                   /\ Binds(request[r].token, d)
                   /\ acted' \in [Session -> SUBSET DeviceId]
                   /\ acted'[request[r].token] = acted[request[r].token] \cup {d}
                   /\ \A u \in Session \ {request[r].token} : acted'[u] = acted[u]
<1>1. CASE ~(\/ RotateCommit(r) \/ RevokeSession(r) \/ BindSessionToDevice(r) \/ CreateDevice(r)
             \/ EnrollCommit(r) \/ RevokeCommit(r))
    BY <1>1 DEF Act, Handle, Receive, Authenticate, RotateBegin, RotateUpdate, EnrollLock,
       RevokeUpdate, RevokeSweep, Abort
<1>2. CASE RotateCommit(r)
    BY <1>2, RotateEffect, ReplyType DEF RotateCommit
<1>3. CASE RevokeSession(r)
    BY <1>3, LogoutEffect, ReplyType DEF RevokeSession, TypeOK
<1>4. CASE RevokeCommit(r)
  <2>1. Ends(r) /\ request'[r].pc = "idle" /\ UNCHANGED <<successors, acted>>
      BY <1>4, RevokeEffect, ReplyType DEF RevokeCommit
  <2>2. devices' = [devices EXCEPT ![request[r].device] = "revoked"]
      BY <1>4 DEF RevokeCommit
  <2> QED BY <2>1, <2>2 DEF TypeOK
<1>5. CASE CreateDevice(r)
  <2>1. "bind" \in Place
      BY DEF Place
  <2>2. PICK d \in DeviceId :
          /\ request' = [request EXCEPT ![r].pc = "bind", ![r].device = d]
          /\ devices[d] = "none" /\ devices' = [devices EXCEPT ![d] = "live"]
      BY <1>5 DEF CreateDevice
  <2>3. request'[r].pc = "bind" /\ request'[r].device = d
      BY <2>1, <2>2, GotoDeviceType
  <2> QED BY <1>5, <2>2, <2>3 DEF CreateDevice
<1>6. CASE BindSessionToDevice(r)
  <2>1. request[r].token \in Session /\ request[r].device \in DeviceId
      BY <1>6 DEF BindSessionToDevice, At, Started
  <2> QED BY <1>6, <2>1, BindEffect, ReplyType DEF BindSessionToDevice
<1>7. CASE EnrollCommit(r)
  <2>1. request[r].token \in Session
      BY <1>7 DEF EnrollCommit, At, Started
  <2>2. request'[r].pc = "idle"
      BY <1>7, ReplyType DEF EnrollCommit
  <2>3. PICK d \in DeviceId :
          /\ devices[d] = "none" /\ devices' = [devices EXCEPT ![d] = "live"]
          /\ sessions' = [sessions EXCEPT ![request[r].token].device = d]
          /\ acted' = [acted EXCEPT ![request[r].token] = @ \cup {d}]
      BY <1>7 DEF EnrollCommit
  <2>4. /\ Binds(request[r].token, d)
        /\ acted' \in [Session -> SUBSET DeviceId]
        /\ acted'[request[r].token] = acted[request[r].token] \cup {d}
        /\ \A u \in Session \ {request[r].token} : acted'[u] = acted[u]
      BY <2>1, <2>3, BindEffect
  <2> QED BY <1>7, <2>2, <2>3, <2>4 DEF EnrollCommit
<1> QED BY <1>1, <1>2, <1>3, <1>4, <1>5, <1>6, <1>7

\* A step leaves the state well typed.
LEMMA TypeStep == TypeOK /\ Started /\ Held /\ Bindings /\ [Next]_vars => TypeOK'
<1> SUFFICES ASSUME TypeOK, Started, Held, Bindings, [Next]_vars PROVE TypeOK'
    OBVIOUS
<1>1. CASE UNCHANGED vars
    BY <1>1 DEF vars, TypeOK
<1>2. ASSUME NEW s \in Session, IssueSession(s) \/ Expire(s) PROVE TypeOK'
    BY <1>2, IssueEffect DEF TypeOK, Issues
<1>3. ASSUME NEW r \in Request, Act(r) PROVE TypeOK'
    BY <1>3, RequestMoves, TableMoves DEF TypeOK, OnlyRequest, Ends, Rotates, Binds
<1> QED BY <1>1, <1>2, <1>3, Steps

\* An issued session is never forgotten, and an ended one stays ended.
LEMMA SessionsStay ==
    ASSUME TypeOK, Started, Held, Bindings, [Next]_vars, NEW s \in Session
    PROVE  /\ sessions[s].state # "none" => sessions'[s].state # "none"
           /\ sessions[s].state = "revoked" => sessions'[s].state = "revoked"
<1>1. CASE UNCHANGED vars
    BY <1>1 DEF vars
<1>2. ASSUME NEW u \in Session, IssueSession(u) \/ Expire(u)
      PROVE  /\ sessions[s].state # "none" => sessions'[s].state # "none"
             /\ sessions[s].state = "revoked" => sessions'[s].state = "revoked"
    BY <1>2, IssueEffect DEF Issues
<1>3. ASSUME NEW r \in Request, Act(r)
      PROVE  /\ sessions[s].state # "none" => sessions'[s].state # "none"
             /\ sessions[s].state = "revoked" => sessions'[s].state = "revoked"
    BY <1>3, TableMoves DEF Ends, Rotates, Binds
<1> QED BY <1>1, <1>2, <1>3, Steps

\* Requests carry what their routes need.
LEMMA StartedStep ==
    TypeOK /\ Started /\ Held /\ Bindings /\ [Next]_vars => Started'
<1> SUFFICES ASSUME TypeOK, Started, Held, Bindings, [Next]_vars,
                    NEW q \in Request, request'[q].pc # "idle"
             PROVE  /\ request'[q].token \in Session /\ sessions'[request'[q].token].state # "none"
                    /\ request'[q].op \in Op
                    /\ request'[q].pc = "legacy-public-key" => request'[q].op = "legacy-public-key"
                    /\ request'[q].pc = "bind" =>
                         request'[q].op = "legacy-public-key" /\ request'[q].device \in DeviceId
                    /\ (request'[q].op = "revoke" /\ request'[q].pc = "authenticate")
                         \/ request'[q].pc \in {"revoke", "revoking", "sweep"}
                         => request'[q].device \in DeviceId
    BY DEF Started
<1>1. ASSUME request'[q] = request[q]
      PROVE  /\ request'[q].token \in Session /\ sessions'[request'[q].token].state # "none"
             /\ request'[q].op \in Op
             /\ request'[q].pc = "legacy-public-key" => request'[q].op = "legacy-public-key"
             /\ request'[q].pc = "bind" =>
                  request'[q].op = "legacy-public-key" /\ request'[q].device \in DeviceId
             /\ (request'[q].op = "revoke" /\ request'[q].pc = "authenticate")
                  \/ request'[q].pc \in {"revoke", "revoking", "sweep"}
                  => request'[q].device \in DeviceId
    BY <1>1, SessionsStay DEF Started
<1>2. CASE Act(q)
  <2>1. CASE /\ request[q].pc # "idle"
             /\ request'[q].op = request[q].op /\ request'[q].token = request[q].token
    <3>1. /\ request[q].token \in Session /\ sessions[request[q].token].state # "none"
          /\ request[q].op \in Op
        BY <2>1 DEF Started
    <3>2. sessions'[request[q].token].state # "none"
        BY <3>1, SessionsStay
    <3>3. \/ request'[q].pc \in {"rotated", "enroll", "rotating"}
          \/ /\ request'[q].pc \in {"revoking", "sweep"} /\ request[q].pc \in {"revoke", "revoking"}
             /\ request'[q].device = request[q].device
          \/ /\ request'[q].pc = request[q].op /\ request[q].pc = "authenticate"
             /\ request'[q].device = request[q].device
          \/ /\ request'[q].pc = "bind" /\ request[q].pc = "legacy-public-key"
             /\ request'[q].device \in DeviceId
          \/ request'[q].pc = "authenticate" /\ (request'[q].op = "revoke" => request'[q].device \in DeviceId)
        BY <1>2, RequestMoves DEF Carries
    <3>4. request[q].op \in Routes
        BY <3>1, OpAssumption
    <3> QED BY <2>1, <3>1, <3>2, <3>3, <3>4 DEF Started, Routes
  <2>2. CASE /\ request'[q].pc = "authenticate" /\ request'[q].op \in Op
             /\ request'[q].token \in Session /\ sessions[request'[q].token].state # "none"
             /\ request'[q].op = "revoke" => request'[q].device \in DeviceId
      BY <2>2, SessionsStay
  <2> QED BY <1>2, <2>1, <2>2, RequestMoves DEF Carries
<1>3. ASSUME NEW r \in Request, Act(r), r # q PROVE request'[q] = request[q]
    BY <1>3, RequestMoves DEF OnlyRequest
<1>4. ASSUME UNCHANGED vars \/ \E s \in Session : IssueSession(s) \/ Expire(s)
      PROVE  request'[q] = request[q]
    BY <1>4, IssueEffect DEF vars
<1> QED BY <1>1, <1>2, <1>3, <1>4, Steps

\* A row lock keeps the row as the check under it found it.
LEMMA HeldStep ==
    TypeOK /\ Started /\ Held /\ Bindings /\ [Next]_vars => Held'
<1> SUFFICES ASSUME TypeOK, Started, Held, Bindings, [Next]_vars PROVE Held'
    OBVIOUS
<1> DEFINE P(q) == LET s == request[q].token
                   IN  /\ At(q, "rotated") => sessions[s].state = "live"
                       /\ At(q, "enroll") => sessions[s].state = "live" /\ sessions[s].device = None
           X(p, q) == \A s \in Session : HoldsSession(p, s) /\ HoldsSession(q, s) => p = q
<1>0. SUFFICES \A p \in Request : P(p)' /\ \A q \in Request : X(p, q)'
    BY DEF Held, At
<1>a. \A p \in Request : P(p) /\ \A q \in Request : X(p, q)
    BY DEF Held, At
<1>1. CASE UNCHANGED vars \/ \E s \in Session : IssueSession(s) \/ Expire(s)
  <2>0. UNCHANGED request
      BY <1>1, IssueEffect DEF vars
  <2>1. \A q \in Request : At(q, "rotated") \/ At(q, "enroll") =>
          /\ request[q].token \in Session
          /\ sessions'[request[q].token].state = sessions[request[q].token].state
          /\ sessions'[request[q].token].device = sessions[request[q].token].device
    <3> SUFFICES ASSUME NEW q \in Request, At(q, "rotated") \/ At(q, "enroll")
                 PROVE  /\ request[q].token \in Session
                        /\ sessions'[request[q].token].state = sessions[request[q].token].state
                        /\ sessions'[request[q].token].device = sessions[request[q].token].device
        OBVIOUS
    <3>1. request[q].token \in Session /\ sessions[request[q].token].state = "live"
        BY <1>a DEF At, Started
    <3>2. CASE UNCHANGED vars
        BY <3>1, <3>2 DEF vars
    <3>3. CASE \E s \in Session : IssueSession(s) \/ Expire(s)
        BY <3>1, <3>3, IssueEffect DEF Issues
    <3> QED BY <1>1, <3>1, <3>2, <3>3
  <2> QED BY <2>0, <1>a, <2>1 DEF At, HoldsSession
<1>2. ASSUME NEW r \in Request, Act(r)
      PROVE  \A p \in Request : P(p)' /\ \A q \in Request : X(p, q)'
  <2>1. \A q \in Request \ {r} : request'[q] = request[q]
      BY <1>2, RequestMoves DEF OnlyRequest
  <2>2. ASSUME NEW q \in Request \ {r}, At(q, "rotated") \/ At(q, "enroll")
        PROVE  /\ sessions'[request[q].token].state = sessions[request[q].token].state
               /\ sessions'[request[q].token].device = sessions[request[q].token].device
    <3>1. request[q].token \in Session /\ sessions[request[q].token].state = "live"
        BY <1>a, <2>2 DEF At, Started
    <3>2. HoldsSession(q, request[q].token) /\ ~SessionFree(r, request[q].token)
        BY <2>2 DEF HoldsSession, SessionFree, At
    <3>3. At(r, "rotated") \/ At(r, "enroll") => request[r].token # request[q].token
        BY <1>a, <3>1, <3>2 DEF HoldsSession, At
    <3> QED BY <1>2, <3>1, <3>2, <3>3, TableMoves DEF Ends, Rotates, Binds
  <2>3. \A q \in Request \ {r} : P(q)'
      BY <1>a, <2>1, <2>2 DEF At
  <2>4. CASE At(r, "rotated")' \/ At(r, "enroll")'
    <3>1. UNCHANGED sessions
        BY <1>2, <2>4, TableMoves DEF At
    <3>2. RotateUpdate(r) \/ EnrollLock(r)
      <4>1. "idle" \notin {"rotated", "enroll"} /\ request[r].op \in Routes
          BY DEF TypeOK, Handler
      <4>2. ~Reply(r)
          BY <2>4, ReplyType DEF At
      <4>3. "authenticate" \notin {"rotated", "enroll"}
          OBVIOUS
      <4>4. \A p \in Place : Goto(r, p) => request'[r].pc = p
          BY GotoType
      <4>5. ~Authenticate(r)
        <5>1. Authenticate(r) => Goto(r, request[r].op)
            BY <4>2 DEF Authenticate
        <5>2. request[r].op \in Place /\ request[r].op \notin {"rotated", "enroll"}
            BY <4>1 DEF Place, Routes
        <5> QED BY <2>4, <4>4, <5>1, <5>2 DEF At
      <4>6. ~RevokeUpdate(r)
          BY <2>4, <4>2, <4>4 DEF RevokeUpdate, At, Place
      <4>7. ~\E op \in Op, s \in Session, d \in DeviceId \cup {None} : Receive(r, op, s, d)
          BY <2>4, ReceiveType DEF At
      <4>8. request'[r].pc \notin {"rotating", "bind", "sweep"}
          BY <2>4 DEF At
      <4>9. ~RevokeSweep(r)
          BY <4>8 DEF RevokeSweep, TypeOK, Handler
      <4>10. ~RotateBegin(r) /\ ~CreateDevice(r)
          BY <4>2, <4>8 DEF RotateBegin, CreateDevice, TypeOK, Handler
      <4> QED BY <1>2, <4>2, <4>5, <4>6, <4>7, <4>9, <4>10
             DEF Act, Handle, RotateCommit, RevokeSession, BindSessionToDevice, EnrollCommit,
                 RevokeCommit, Abort
    <3>3. SessionFree(r, request[r].token) /\ request'[r].token = request[r].token
      <4>1. {"rotated", "enroll"} \subseteq Place /\ ~Reply(r)
          BY <2>4, ReplyType DEF Place, At
      <4> QED BY <3>2, <4>1, GotoType DEF RotateUpdate, EnrollLock, Carries
    <3>4. P(r)'
      <4>1. {"rotated", "enroll"} \subseteq Place /\ ~Reply(r)
          BY <2>4, ReplyType DEF Place, At
      <4>2. CASE RotateUpdate(r)
        <5>1. Goto(r, "rotated") /\ sessions[request[r].token].state = "live"
            BY <4>1, <4>2 DEF RotateUpdate
        <5>2. request'[r].pc = "rotated"
            BY <4>1, <5>1, GotoType
        <5> QED BY <3>1, <3>3, <5>1, <5>2 DEF At
      <4>3. CASE EnrollLock(r)
        <5>1. sessions[request[r].token].state = "live" /\ sessions[request[r].token].device = None
            BY <4>1, <4>3 DEF EnrollLock
        <5> QED BY <3>1, <3>3, <5>1 DEF At
      <4> QED BY <3>2, <4>2, <4>3
    <3>5. \A q \in Request \ {r} : \A s \in Session : HoldsSession(q, s)' => s # request'[r].token
        BY <2>1, <3>3 DEF SessionFree, HoldsSession
    <3> QED BY <1>a, <2>1, <2>3, <3>4, <3>5 DEF HoldsSession
  <2>5. CASE ~(At(r, "rotated")' \/ At(r, "enroll")')
      BY <1>a, <2>1, <2>3, <2>5 DEF At, HoldsSession
  <2> QED BY <2>4, <2>5
<1> QED BY <1>1, <1>2, Steps

\* Only a live session is rotated, and that ends it.
LEMMA RotatedStep ==
    TypeOK /\ Started /\ Held /\ Bindings /\ Rotated /\ [Next]_vars => Rotated'
<1> SUFFICES ASSUME TypeOK, Started, Held, Bindings, Rotated, [Next]_vars PROVE Rotated'
    OBVIOUS
<1>1. CASE UNCHANGED successors
    BY <1>1, SessionsStay DEF Rotated
<1>2. ASSUME NEW r \in Request, Act(r), ~UNCHANGED successors PROVE Rotated'
  <2> DEFINE s == request[r].token
  <2>1. At(r, "rotated") /\ \E n \in Session : Rotates(s, n)
      BY <1>2, TableMoves
  <2>2. PICK n \in Session : Rotates(s, n)
      BY <2>1
  <2>3. s \in Session /\ sessions[s].state = "live"
      BY <2>1 DEF At, Started, Held
  <2>4. successors[s] = {}
      BY <2>3 DEF Rotated
  <2>5. successors'[s] = {n} /\ sessions'[s].state = "revoked"
        /\ \A u \in Session \ {s} : successors'[u] = successors[u]
      BY <2>2, <2>4 DEF Rotates
  <2> HIDE DEF s
  <2>6. \A u \in Session : sessions[u].state = "revoked" => sessions'[u].state = "revoked"
      BY SessionsStay
  <2> QED BY <2>3, <2>5, <2>6 DEF Rotated
<1>3. CASE UNCHANGED vars \/ \E s \in Session : IssueSession(s) \/ Expire(s)
    BY <1>1, <1>3, IssueEffect DEF vars
<1> QED BY <1>1, <1>2, <1>3, Steps

\* A device that is bound is a new one, or goes on to the successor.
LEMMA BindingsStep ==
    TypeOK /\ Started /\ Held /\ Bindings /\ OneLive /\ [Next]_vars => Bindings' /\ OneLive'
<1> SUFFICES ASSUME TypeOK, Started, Held, Bindings, OneLive, [Next]_vars
             PROVE  Bindings' /\ OneLive'
    OBVIOUS
<1> DEFINE B1 == \A s \in Session : sessions[s].state = "none" => sessions[s].device = None
           B2 == \A s \in Session : sessions[s].device # None => devices[sessions[s].device] # "none"
           B3(r) == At(r, "bind") =>
                      /\ devices[request[r].device] # "none"
                      /\ \A s \in Session : sessions[s].device # request[r].device
                      /\ \A q \in Request : At(q, "bind") /\ request[q].device = request[r].device
                           => q = r
<1>a. B1 /\ B2 /\ \A r \in Request : B3(r)
    BY DEF Bindings
<1>b. SUFFICES B1' /\ B2' /\ (\A r \in Request : B3(r)') /\ OneLive'
    BY DEF Bindings
<1>c. \A s \in Session : sessions[s].device \in DeviceId \cup {None}
    BY RowType
<1>d. \A r \in Request : At(r, "bind") => request[r].device \in DeviceId /\ request[r].device # None
    BY NoneAssumption DEF Started, At
<1>1. CASE UNCHANGED vars
    BY <1>1, <1>a DEF vars, OneLive, At
<1>2. CASE \E s \in Session : IssueSession(s) \/ Expire(s)
  <2>1. Issues /\ UNCHANGED <<devices, request>>
      BY <1>2, IssueEffect
  <2>2. OneLive'
      BY <1>a, <2>1 DEF Issues, OneLive
  <2> QED BY <1>a, <2>1, <2>2 DEF Issues, At
<1>3. ASSUME NEW r \in Request, Act(r)
      PROVE  B1' /\ B2' /\ (\A q \in Request : B3(q)') /\ OneLive'
  <2>1. \A q \in Request \ {r} : request'[q] = request[q]
      BY <1>3, RequestMoves DEF OnlyRequest
  <2>2. ASSUME request'[r].pc # "bind", \A q \in Request \ {r} : At(q, "bind") =>
                 /\ devices'[request[q].device] # "none"
                 /\ \A s \in Session : sessions'[s].device # request[q].device
        PROVE  \A q \in Request : B3(q)'
      BY <1>a, <2>1, <2>2 DEF At
  <2>3. CASE UNCHANGED <<sessions, devices>>
    <3>1. B1' /\ B2' /\ OneLive'
        BY <1>a, <2>3 DEF OneLive
    <3>2. request'[r].pc # "bind"
      <4>1. ~CreateDevice(r)
          BY <2>3 DEF CreateDevice, TypeOK
      <4>2. CASE Reply(r)
          BY <4>2, ReplyType
      <4>3. CASE ~Reply(r)
        <5>1. \A p \in Place : Goto(r, p) => request'[r].pc = p
            BY GotoType
        <5>2. {"rotated", "enroll", "revoking"} \subseteq Place
            BY DEF Place
        <5>3. request[r].op \in Place /\ request[r].op # "bind"
            BY DEF TypeOK, Handler, Place, Routes
        <5>4. CASE Authenticate(r) \/ RotateUpdate(r) \/ EnrollLock(r) \/ RevokeUpdate(r)
            BY <4>3, <5>1, <5>2, <5>3, <5>4 DEF Authenticate, RotateUpdate, EnrollLock, RevokeUpdate
        <5>5. CASE \E op \in Op, s \in Session, d \in DeviceId \cup {None} : Receive(r, op, s, d)
            BY <5>5, ReceiveType
        <5>6. CASE RotateBegin(r) \/ RevokeSweep(r)
            BY <4>3, <5>6 DEF RotateBegin, RevokeSweep, TypeOK, Handler
        <5> QED BY <1>3, <4>1, <4>3, <5>4, <5>5, <5>6
               DEF Act, Handle, RotateCommit, RevokeSession, BindSessionToDevice, EnrollCommit,
                   RevokeCommit, Abort
      <4> QED BY <4>2, <4>3
    <3> QED BY <1>a, <2>2, <2>3, <3>1, <3>2
  <2>4. CASE /\ Ends(r) /\ request'[r].pc = "idle"
             /\ \A d \in DeviceId : devices[d] # "none" => devices'[d] # "none"
    <3>1. B1' /\ B2' /\ OneLive'
        BY <1>a, <1>c, <2>4 DEF Ends, OneLive
    <3> QED BY <1>a, <1>d, <2>2, <2>4, <3>1 DEF Ends
  <2>5. CASE /\ At(r, "rotated") /\ UNCHANGED devices /\ request'[r].pc = "idle"
             /\ \E n \in Session : Rotates(request[r].token, n)
    <3> DEFINE s == request[r].token
    <3>1. PICK n \in Session : Rotates(s, n)
        BY <2>5
    <3>2. s \in Session /\ sessions[s].state = "live"
        BY <2>5 DEF At, Started, Held
    <3> HIDE DEF s
    <3>3. B1' /\ B2'
        BY <1>a, <2>5, <3>1, <3>2 DEF Rotates
    <3>4. OneLive'
        BY <3>1, <3>2 DEF Rotates, OneLive
    <3>5. \A d : (\A u \in Session : sessions[u].device # d) => \A u \in Session : sessions'[u].device # d
        BY <3>1, <3>2 DEF Rotates
    <3> QED BY <1>a, <2>2, <2>5, <3>3, <3>4, <3>5
  <2>6. CASE /\ At(r, "legacy-public-key") /\ UNCHANGED sessions
             /\ request'[r].pc = "bind" /\ request'[r].device \in DeviceId
             /\ devices[request'[r].device] = "none"
             /\ devices' = [devices EXCEPT ![request'[r].device] = "live"]
    <3> DEFINE d == request'[r].device
    <3>1. /\ d \in DeviceId /\ devices[d] = "none" /\ devices'[d] = "live"
          /\ \A e \in DeviceId : devices[e] # "none" => devices'[e] # "none" /\ e # d
        BY <2>6 DEF TypeOK
    <3>2. B1' /\ B2' /\ OneLive'
        BY <1>a, <1>c, <2>6, <3>1 DEF OneLive
    <3>3. \A s \in Session : sessions'[s].device # d
        BY <1>a, <1>c, <2>6, <3>1, NoneAssumption
    <3>4. \A q \in Request \ {r} : At(q, "bind") =>
            request[q].device \in DeviceId /\ request[q].device # d
            /\ devices'[request[q].device] # "none"
        BY <1>a, <1>d, <3>1
    <3>5. B3(r)'
        BY <2>1, <3>1, <3>3, <3>4 DEF At
    <3>6. ASSUME NEW q \in Request \ {r} PROVE B3(q)'
      <4>1. SUFFICES ASSUME At(q, "bind")
                     PROVE  /\ devices'[request[q].device] # "none"
                            /\ \A s \in Session : sessions'[s].device # request[q].device
                            /\ \A p \in Request : At(p, "bind")' /\ request'[p].device = request[q].device
                                 => p = q
          BY <2>1 DEF At
      <4>2. \A p \in Request : At(p, "bind")' /\ request'[p].device = request[q].device => p = q
          BY <1>a, <2>1, <3>4, <4>1 DEF At
      <4> QED BY <1>a, <2>6, <3>4, <4>1, <4>2
    <3> QED BY <3>2, <3>5, <3>6
  <2>7. CASE /\ At(r, "bind") /\ UNCHANGED devices /\ request'[r].pc = "idle"
             /\ Binds(request[r].token, request[r].device)
    <3> DEFINE s == request[r].token
               d == request[r].device
    <3>1. s \in Session /\ sessions[s].state # "none" /\ Binds(s, d)
        BY <2>7 DEF At, Started
    <3>2. /\ d \in DeviceId /\ devices[d] # "none"
          /\ \A u \in Session : sessions[u].device # d
          /\ \A q \in Request \ {r} : At(q, "bind") => request[q].device # d
        BY <1>a, <1>d, <2>7
    <3> HIDE DEF s, d
    <3>3. B1' /\ B2'
        BY <1>a, <2>7, <3>1, <3>2 DEF Binds
    <3>4. OneLive'
        BY <3>1, <3>2 DEF Binds, OneLive
    <3>5. \A q \in Request \ {r} : At(q, "bind") =>
            /\ devices'[request[q].device] # "none"
            /\ \A u \in Session : sessions'[u].device # request[q].device
        BY <1>a, <2>7, <3>1, <3>2 DEF Binds
    <3> QED BY <2>2, <2>7, <3>3, <3>4, <3>5
  <2>8. CASE /\ At(r, "enroll") /\ request'[r].pc = "idle"
             /\ \E d \in DeviceId :
                  /\ devices[d] = "none" /\ devices' = [devices EXCEPT ![d] = "live"]
                  /\ Binds(request[r].token, d)
    <3> DEFINE s == request[r].token
    <3>1. s \in Session /\ sessions[s].state = "live"
        BY <2>8 DEF At, Started, Held
    <3>2. PICK d \in DeviceId : /\ devices[d] = "none" /\ devices' = [devices EXCEPT ![d] = "live"]
                                /\ Binds(s, d)
        BY <2>8
    <3>3. /\ devices'[d] = "live"
          /\ \A e \in DeviceId : devices[e] # "none" => devices'[e] # "none" /\ e # d
          /\ \A u \in Session : sessions[u].device # d
        BY <1>a, <1>c, <3>2, NoneAssumption DEF TypeOK
    <3> HIDE DEF s
    <3>4. B1' /\ B2'
        BY <1>a, <1>c, <3>1, <3>2, <3>3 DEF Binds
    <3>5. OneLive'
        BY <3>1, <3>2, <3>3 DEF Binds, OneLive
    <3>6. \A q \in Request \ {r} : At(q, "bind") =>
            /\ devices'[request[q].device] # "none"
            /\ \A u \in Session : sessions'[u].device # request[q].device
        BY <1>a, <1>d, <3>1, <3>2, <3>3 DEF Binds
    <3> QED BY <2>2, <2>8, <3>4, <3>5, <3>6
  <2> QED BY <1>3, <2>3, <2>4, <2>5, <2>6, <2>7, <2>8, TableMoves
<1> QED BY <1>1, <1>2, <1>3, Steps

-----------------------------------------------------------------------------
(* The theorems.                                                           *)

\* The initial state satisfies the inductive invariant.
LEMMA InitIInv == Init => IInv
<1> SUFFICES ASSUME Init PROVE IInv
    OBVIOUS
<1>1. Idle \in Handler /\ Idle.pc = "idle" /\ NoRow \in Row /\ NoRow.state = "none" /\ NoRow.device = None
    BY DEF Idle, Handler, Routes, NoRow, Row
<1>2. TypeOK
    BY <1>1 DEF Init, TypeOK
<1>3. Started /\ Held /\ Rotated
    BY <1>1 DEF Init, Started, Held, Rotated, At, HoldsSession
<1>4. Bindings /\ OneLive
    BY <1>1 DEF Init, Bindings, OneLive, At
<1> QED BY <1>2, <1>3, <1>4 DEF IInv

\* Every step preserves the inductive invariant.
LEMMA StepIInv == IInv /\ [Next]_vars => IInv'
BY TypeStep, StartedStep, HeldStep, RotatedStep, BindingsStep DEF IInv

\* The inductive invariant holds throughout.
LEMMA Inductive == Spec => []IInv
BY InitIInv, StepIInv, PTL DEF Spec

\* Type correctness, for every instance.
THEOREM TypeCorrect == Spec => []TypeOK
<1>1. IInv => TypeOK
    BY DEF IInv
<1> QED BY <1>1, Inductive, PTL

\* A set without two different members has at most one.
LEMMA AtMostOne ==
    ASSUME NEW S, \A x, y \in S : x = y
    PROVE  Cardinality(S) <= 1
<1>1. CASE S = {}
    BY <1>1, FS_EmptySet
<1>2. CASE S # {}
  <2>1. PICK x : x \in S
      BY <1>2
  <2>2. S = {x}
      BY <2>1
  <2> QED BY <2>2, FS_Singleton
<1> QED BY <1>1, <1>2

\* However many refreshes race, a session has one successor.
THEOREM SingleSuccessor == Spec => []OneSuccessor
<1>1. IInv => OneSuccessor
    BY AtMostOne DEF IInv, Rotated, OneSuccessor
<1> QED BY <1>1, Inductive, PTL

\* Refreshes, enrollments and rebindings never leave a device two sessions.
THEOREM SingleLiveSession == Spec => []OneLiveSessionPerDevice
<1>1. IInv => OneLiveSessionPerDevice
  <2> SUFFICES ASSUME IInv, NEW d \in DeviceId
               PROVE  Cardinality({s \in Session : /\ sessions[s].state = "live"
                                                   /\ sessions[s].device = d}) <= 1
      BY DEF OneLiveSessionPerDevice
  <2> DEFINE S == {s \in Session : sessions[s].state = "live" /\ sessions[s].device = d}
  <2>1. \A x, y \in S : x = y
      BY NoneAssumption DEF IInv, OneLive
  <2> HIDE DEF S
  <2>2. Cardinality(S) <= 1
      BY <2>1, AtMostOne
  <2> QED BY <2>2 DEF S
<1> QED BY <1>1, Inductive, PTL

\* Without the legacy enrollment, a request never binds a session that may
\* have a device.
LEMMA NeverRebound ==
    ASSUME "legacy-public-key" \notin Op, IInv, [Next]_vars, NEW s \in Session
    PROVE  /\ sessions[s].device # None => sessions'[s].device = sessions[s].device
           /\ ActedForOwn => \A d \in acted'[s] : sessions'[s].device = d
<1> USE DEF IInv
<1>1. CASE UNCHANGED vars
    BY <1>1 DEF vars, ActedForOwn
<1>2. CASE \E u \in Session : IssueSession(u) \/ Expire(u)
    BY <1>2, IssueEffect DEF Issues, ActedForOwn
<1>3. ASSUME NEW r \in Request, Act(r)
      PROVE  /\ sessions[s].device # None => sessions'[s].device = sessions[s].device
             /\ ActedForOwn => \A d \in acted'[s] : sessions'[s].device = d
  <2>1. ~At(r, "legacy-public-key") /\ ~At(r, "bind")
      BY DEF At, Started
  <2>2. CASE UNCHANGED <<sessions, acted>>
      BY <2>2 DEF ActedForOwn
  <2>3. CASE Ends(r) /\ UNCHANGED acted
      BY <2>3 DEF Ends, ActedForOwn
  <2>4. CASE At(r, "rotated") /\ \E n \in Session : Rotates(request[r].token, n)
    <3>1. request[r].token \in Session
        BY <2>4 DEF At, Started
    <3>2. PICK n \in Session : Rotates(request[r].token, n)
        BY <2>4
    <3>3. sessions[n].device = None
        BY <3>2 DEF Rotates, Bindings
    <3> QED BY <3>1, <3>2, <3>3 DEF Rotates, ActedForOwn
  <2>5. CASE /\ At(r, "enroll")
             /\ \E d \in DeviceId :
                  /\ Binds(request[r].token, d)
                  /\ acted'[request[r].token] = acted[request[r].token] \cup {d}
                  /\ \A u \in Session \ {request[r].token} : acted'[u] = acted[u]
    <3> DEFINE u == request[r].token
    <3>1. u \in Session /\ sessions[u].device = None
        BY <2>5 DEF At, Started, Held
    <3>2. ActedForOwn => acted[u] = {}
        BY <3>1, NoneAssumption DEF ActedForOwn, TypeOK
    <3>3. PICK d \in DeviceId : /\ Binds(u, d) /\ acted'[u] = acted[u] \cup {d}
                                /\ \A w \in Session \ {u} : acted'[w] = acted[w]
        BY <2>5
    <3> HIDE DEF u
    <3> QED BY <3>1, <3>2, <3>3 DEF Binds, ActedForOwn
  <2> QED BY <1>3, <2>1, <2>2, <2>3, <2>4, <2>5, TableMoves
<1> QED BY <1>1, <1>2, <1>3, Steps

\* Once bound, a session stays bound to its device, as long as no client uses
\* the legacy enrollment (devices/routes.mjs binds whatever session it has).
THEOREM BindingIsFinal ==
    ASSUME "legacy-public-key" \notin Op
    PROVE  Spec => BoundForGood
<1> DEFINE A == \A s \in Session : sessions[s].device # None => sessions'[s].device = sessions[s].device
<1>1. ASSUME IInv, [Next]_vars PROVE [A]_vars
    BY <1>1, NeverRebound
<1> QED BY <1>1, Inductive, PTL DEF Spec, BoundForGood

\* A revoked device has lost its access, as long as no client uses the legacy
\* enrollment: no session it acted through, nor a successor of one, resolves,
\* however the revocation races with refreshes and enrollments.
THEOREM RevocationIsFinal ==
    ASSUME "legacy-public-key" \notin Op
    PROVE  Spec => []RevokedDeviceLosesAccess
<1>1. Init => ActedForOwn
    BY DEF Init, ActedForOwn
<1>2. IInv /\ ActedForOwn /\ [Next]_vars => ActedForOwn'
    BY NeverRebound DEF ActedForOwn
<1>3. IInv /\ ActedForOwn => RevokedDeviceLosesAccess
  <2> SUFFICES ASSUME IInv, ActedForOwn, NEW s \in Session, NEW d \in acted[s], devices[d] = "revoked"
               PROVE  ~Resolves(s)
      BY DEF RevokedDeviceLosesAccess
  <2>1. sessions[s].device = d /\ d # None
      BY NoneAssumption DEF ActedForOwn, IInv, TypeOK
  <2> QED BY <2>1 DEF Resolves
<1> QED BY <1>1, <1>2, <1>3, Inductive, PTL DEF Spec
=============================================================================
