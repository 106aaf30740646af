----------------------------- MODULE AuthSessions -----------------------------
(***************************************************************************)
(* Bearer sessions and devices of one account: apps/backend/src/auth/      *)
(* sessions.mjs, the refresh and logout routes, and apps/backend/src/      *)
(* devices.  Each request first resolves its token (requireSession), then  *)
(* runs its handler; one action is one SQL statement or the statements of  *)
(* a transaction that no other request can tell apart.  PostgreSQL runs at *)
(* READ COMMITTED: a statement sees what was committed when it began, and  *)
(* an UPDATE that waited for a row looks at that row again.                *)
(***************************************************************************)
EXTENDS Integers, FiniteSets

CONSTANTS
    Session,   \* session ids; bounds the logins and refreshes
    DeviceId,  \* bounds the enrollments
    Request,   \* concurrent requests
    Op,        \* the routes clients call
    None

Routes == {"refresh", "logout", "legacy-public-key", "bearer-session-v1", "revoke"}

ASSUME OpAssumption == Op \subseteq Routes
ASSUME NoneAssumption == None \notin Session /\ None \notin DeviceId

VARIABLES
    sessions,    \* the table sessions
    devices,     \* the table devices
    request,     \* request -> where its handler is
    successors,  \* history: session -> the sessions it was rotated into
    acted        \* history: session -> devices it or its predecessors acted for

vars == <<sessions, devices, request, successors, acted>>

Row == [state : {"none", "live", "revoked"}, expired : BOOLEAN,
        device : DeviceId \cup {None}, issuedVia : {"opaque-login", "refresh"}]
NoRow == [state |-> "none", expired |-> FALSE, device |-> None, issuedVia |-> "opaque-login"]

Handler == [pc : {"idle", "authenticate", "rotating", "rotated", "bind", "enroll", "revoking", "sweep"} \cup Routes,
            op : Routes, token : Session \cup {None},
            device : DeviceId \cup {None},  \* device revoked, created or joined
            targets : SUBSET Session]       \* rows the sweep found
Idle == [pc |-> "idle", op |-> "logout", token |-> None, device |-> None, targets |-> {}]

TypeOK ==
    /\ sessions \in [Session -> Row]
    /\ devices \in [DeviceId -> {"none", "live", "revoked"}]
    /\ request \in [Request -> Handler]
    /\ successors \in [Session -> SUBSET Session]
    /\ acted \in [Session -> SUBSET DeviceId]

Init ==
    /\ sessions = [s \in Session |-> NoRow]
    /\ devices = [d \in DeviceId |-> "none"]
    /\ request = [r \in Request |-> Idle]
    /\ successors = [s \in Session |-> {}]
    /\ acted = [s \in Session |-> {}]

-----------------------------------------------------------------------------
\* Fault: does not look at the device.
ResolvesWithoutDevice(s) == sessions[s].state = "live" /\ ~sessions[s].expired

\* resolveSession: the session, and the device it is bound to, are live.
Resolves(s) ==
    /\ sessions[s].state = "live"
    /\ ~sessions[s].expired
    /\ sessions[s].device # None => devices[sessions[s].device] # "revoked"

\* Row locks, held to the end of the transaction.
HoldsSession(r, s) == request[r].pc \in {"rotated", "enroll"} /\ request[r].token = s
SessionFree(r, s) == \A q \in Request \ {r} : ~HoldsSession(q, s)
HoldsDevice(r, d) == request[r].pc \in {"revoking", "sweep"} /\ request[r].device = d
DeviceFree(r, d) == \A q \in Request \ {r} : ~HoldsDevice(q, d)

At(r, pc) == request[r].pc = pc
Goto(r, pc) == request' = [request EXCEPT ![r].pc = pc]
Reply(r) == request' = [request EXCEPT ![r] = Idle]

\* issueSession, at the end of an OPAQUE login.
IssueSession(s) ==
    /\ sessions[s].state = "none"
    /\ sessions' = [sessions EXCEPT ![s].state = "live"]
    /\ UNCHANGED <<devices, request, successors, acted>>

\* expires_at passes; of a revoked session nobody asks.
Expire(s) ==
    /\ sessions[s].state = "live"
    /\ ~sessions[s].expired
    /\ sessions' = [sessions EXCEPT ![s].expired = TRUE]
    /\ UNCHANGED <<devices, request, successors, acted>>

\* A request with an issued token; a revoke names a device of the account.
Receive(r, op, s, d) ==
    /\ At(r, "idle")
    /\ sessions[s].state # "none"
    /\ IF op = "revoke" THEN d # None /\ devices[d] # "none" ELSE d = None
    /\ request' = [request EXCEPT ![r] =
         [Idle EXCEPT !.pc = "authenticate", !.op = op, !.token = s, !.device = d]]
    /\ UNCHANGED <<sessions, devices, successors, acted>>

\* requireSession, and the refresh route's own check of the binding.
Authenticate(r) ==
    LET s == request[r].token
    IN  /\ At(r, "authenticate")
        /\ IF Resolves(s) /\ (request[r].op = "refresh" => sessions[s].device # None)
           THEN Goto(r, request[r].op)
           ELSE Reply(r)
        /\ UNCHANGED <<sessions, devices, successors, acted>>

-----------------------------------------------------------------------------
(* rotateSession                                                           *)

\* BEGIN, and the rows the UPDATE's snapshot joins: the session and its device,
\* whose row it does not lock.
RotateBegin(r) ==
    LET s == request[r].token
    IN  /\ At(r, "refresh")
        /\ IF Resolves(s) /\ sessions[s].device # None
           THEN request' = [request EXCEPT ![r].pc = "rotating", ![r].device = sessions[s].device]
           ELSE Reply(r)
        /\ UNCHANGED <<sessions, devices, successors, acted>>

\* Fault: trusts the snapshot.
RotateUpdateUnchecked(r) ==
    /\ At(r, "rotating")
    /\ SessionFree(r, request[r].token)
    /\ Goto(r, "rotated")
    /\ UNCHANGED <<sessions, devices, successors, acted>>

\* UPDATE ... RETURNING looks at the session again once its row is free.
RotateUpdate(r) ==
    LET row == sessions[request[r].token]
    IN  /\ At(r, "rotating")
        /\ SessionFree(r, request[r].token)
        /\ IF row.state = "live" /\ row.device = request[r].device
           THEN Goto(r, "rotated")
           ELSE Reply(r)
        /\ UNCHANGED <<sessions, devices, successors, acted>>

\* Fault: the parent stays live.
RotateCommitKeepsParent(r) ==
    LET s == request[r].token
    IN  \E n \in Session :
            /\ At(r, "rotated")
            /\ sessions[n].state = "none"
            /\ sessions' = [sessions EXCEPT ![n] =
                 [state |-> "live", expired |-> FALSE,
                  device |-> sessions[s].device, issuedVia |-> "refresh"]]
            /\ successors' = [successors EXCEPT ![s] = @ \cup {n}]
            /\ acted' = [acted EXCEPT ![n] = acted[s]]
            /\ Reply(r)
            /\ UNCHANGED devices

\* Fault: also locks the row of the device, in the opposite order to a revoke.
RotateCommitLocksDevice(r) ==
    LET s == request[r].token
    IN  \E n \in Session :
            /\ At(r, "rotated")
            /\ DeviceFree(r, request[r].device)
            /\ sessions[n].state = "none"
            /\ sessions' = [sessions EXCEPT ![s].state = "revoked",
                 ![n] = [state |-> "live", expired |-> FALSE,
                         device |-> sessions[s].device, issuedVia |-> "refresh"]]
            /\ successors' = [successors EXCEPT ![s] = @ \cup {n}]
            /\ acted' = [acted EXCEPT ![n] = acted[s]]
            /\ Reply(r)
            /\ UNCHANGED devices

\* INSERT of the successor and COMMIT.
RotateCommit(r) ==
    LET s == request[r].token
    IN  \E n \in Session :
            /\ At(r, "rotated")
            /\ sessions[n].state = "none"
            /\ sessions' = [sessions EXCEPT ![s].state = "revoked",
                 ![n] = [state |-> "live", expired |-> FALSE,
                         device |-> sessions[s].device, issuedVia |-> "refresh"]]
            /\ successors' = [successors EXCEPT ![s] = @ \cup {n}]
            /\ acted' = [acted EXCEPT ![n] = acted[s]]
            /\ Reply(r)
            /\ UNCHANGED devices

\* revokeSession, of the logout route.
RevokeSession(r) ==
    /\ At(r, "logout")
    /\ SessionFree(r, request[r].token)
    /\ sessions' = [sessions EXCEPT ![request[r].token].state = "revoked"]
    /\ Reply(r)
    /\ UNCHANGED <<devices, successors, acted>>

-----------------------------------------------------------------------------
(* Enrollment.                                                             *)

\* createDevice, committed on its own.
CreateDevice(r) ==
    \E d \in DeviceId :
        /\ At(r, "legacy-public-key")
        /\ devices[d] = "none"
        /\ devices' = [devices EXCEPT ![d] = "live"]
        /\ request' = [request EXCEPT ![r].pc = "bind", ![r].device = d]
        /\ UNCHANGED <<sessions, successors, acted>>

\* bindSessionToDevice, whatever the session is by now.
BindSessionToDevice(r) ==
    LET s == request[r].token
    IN  /\ At(r, "bind")
        /\ SessionFree(r, s)
        /\ sessions' = [sessions EXCEPT ![s].device = request[r].device]
        /\ acted' = [acted EXCEPT ![s] = @ \cup {request[r].device}]
        /\ Reply(r)
        /\ UNCHANGED <<devices, successors>>

\* Fault: SELECT without FOR UPDATE, so nobody waits for the row.
EnrollRead(r) ==
    LET row == sessions[request[r].token]
    IN  /\ At(r, "bearer-session-v1")
        /\ IF /\ row.state = "live" /\ ~row.expired
              /\ row.device = None
              /\ row.issuedVia = "opaque-login"
           THEN Goto(r, "enroll")
           ELSE Reply(r)
        /\ UNCHANGED <<sessions, devices, successors, acted>>

\* enrollBearerSessionDevice: SELECT ... FOR UPDATE and the checks.
EnrollLock(r) ==
    LET row == sessions[request[r].token]
    IN  /\ At(r, "bearer-session-v1")
        /\ SessionFree(r, request[r].token)
        /\ IF /\ row.state = "live" /\ ~row.expired
              /\ row.device = None
              /\ row.issuedVia = "opaque-login"
           THEN Goto(r, "enroll")
           ELSE Reply(r)
        /\ UNCHANGED <<sessions, devices, successors, acted>>

\* INSERT of the device, UPDATE of the session, COMMIT.
EnrollCommit(r) ==
    LET s == request[r].token
    IN  \E d \in DeviceId :
            /\ At(r, "enroll")
            /\ devices[d] = "none"
            /\ devices' = [devices EXCEPT ![d] = "live"]
            /\ sessions' = [sessions EXCEPT ![s].device = d]
            /\ acted' = [acted EXCEPT ![s] = @ \cup {d}]
            /\ Reply(r)
            /\ UNCHANGED successors

-----------------------------------------------------------------------------
(* revokeDevice                                                            *)

RevokeUpdate(r) ==
    /\ At(r, "revoke")
    /\ DeviceFree(r, request[r].device)
    /\ IF devices[request[r].device] = "live" THEN Goto(r, "revoking") ELSE Reply(r)
    /\ UNCHANGED <<sessions, devices, successors, acted>>

\* The sweep of the sessions begins: the rows its snapshot shows.
RevokeSweep(r) ==
    /\ At(r, "revoking")
    /\ request' = [request EXCEPT ![r].pc = "sweep", ![r].targets =
         {s \in Session : sessions[s].state = "live" /\ sessions[s].device = request[r].device}]
    /\ UNCHANGED <<sessions, devices, successors, acted>>

\* Each row is looked at again once it is free; COMMIT.
RevokeCommit(r) ==
    LET d == request[r].device
    IN  /\ At(r, "sweep")
        /\ \A s \in request[r].targets : SessionFree(r, s)
        /\ devices' = [devices EXCEPT ![d] = "revoked"]
        /\ sessions' = [s \in Session |->
             IF s \in request[r].targets /\ sessions[s].device = d
             THEN [sessions[s] EXCEPT !.state = "revoked"] ELSE sessions[s]]
        /\ Reply(r)
        /\ UNCHANGED <<successors, acted>>

\* The connection or the process dies: an open transaction rolls back, and
\* what a statement committed on its own stays.
Abort(r) ==
    /\ ~At(r, "idle")
    /\ Reply(r)
    /\ UNCHANGED <<sessions, devices, successors, acted>>

-----------------------------------------------------------------------------
Handle(r) ==
    \/ Authenticate(r)
    \/ RotateBegin(r) \/ RotateUpdate(r) \/ RotateCommit(r)
    \/ RevokeSession(r)
    \/ CreateDevice(r) \/ BindSessionToDevice(r)
    \/ EnrollLock(r) \/ EnrollCommit(r)
    \/ RevokeUpdate(r) \/ RevokeSweep(r) \/ RevokeCommit(r)

Next ==
    \/ \E s \in Session : IssueSession(s) \/ Expire(s)
    \/ \E r \in Request : \/ \E op \in Op, s \in Session, d \in DeviceId \cup {None} :
                                Receive(r, op, s, d)
                          \/ Handle(r)
                          \/ Abort(r)

Spec == Init /\ [][Next]_vars

\* Statements run to their end, and PostgreSQL grants a row lock to those who
\* wait for it in turn.
FairSpec == Spec /\ \A r \in Request : SF_vars(Handle(r))

-----------------------------------------------------------------------------
(* Properties.                                                             *)

\* However many refreshes race, a session has one successor (rotateSession's
\* UPDATE ... WHERE revoked_at IS NULL).
OneSuccessor == \A s \in Session : Cardinality(successors[s]) <= 1

\* Refreshes, enrollments and rebindings never leave a device two sessions.
OneLiveSessionPerDevice ==
    \A d \in DeviceId :
        Cardinality({s \in Session : sessions[s].state = "live" /\ sessions[s].device = d}) <= 1

\* A revoked device has lost its access: no session it ever acted through,
\* nor a successor of one, resolves.
RevokedDeviceLosesAccess ==
    \A s \in Session : (\E d \in acted[s] : devices[d] = "revoked") => ~Resolves(s)

\* Once bound, a session stays bound to its device.
BoundForGood ==
    [][\A s \in Session : sessions[s].device # None => sessions'[s].device = sessions[s].device]_vars

\* No request waits for ever on the row locks of others, as long as ids last.
RequestsEnd ==
    \A r \in Request : ~At(r, "idle") ~>
        \/ At(r, "idle")
        \/ \A s \in Session : sessions[s].state # "none"
        \/ \A d \in DeviceId : devices[d] # "none"
=============================================================================
