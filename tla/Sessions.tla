------------------------------- MODULE Sessions -------------------------------
(***************************************************************************)
(* Accounts, devices and sessions of server/internal/identity, and the      *)
(* credentials the Agent keeps (agentsync).  One account.                   *)
(*                                                                          *)
(* The server runs requests concurrently in READ COMMITTED transactions:    *)
(* a SELECT ... FOR UPDATE waits for the row's lock, and an UPDATE with a    *)
(* WHERE clause works on the rows that matched when the statement started,  *)
(* waits for those another transaction has locked and never sees a row      *)
(* inserted meanwhile.  So a rotation is two steps (lock and read, write    *)
(* and commit), a revocation of many rows is two steps (start, finish),     *)
(* and an operation that reads before it opens its transaction is two.      *)
(*                                                                          *)
(* A token is the number of its session: refresh_hash is unique, and an     *)
(* access token names the session it was issued with.  The Agent stores     *)
(* both of one session in one transaction.                                  *)
(***************************************************************************)
EXTENDS Integers, Sequences

CONSTANTS
    Agent,          \* devices that run the Agent of this repository
    Phone,          \* devices of other clients
    Request,        \* slots for requests the server is serving
    MaxSessions,    \* bound: rows of sessions
    MaxEvents,      \* bound: revocations users ask for, expiries, events
    NoDevice,       \* an idle slot's device
    NoCall          \* an Agent awaiting no reply

Device == Agent \cup Phone

ASSUME SessionsAssumption ==
    /\ Agent \cap Phone = {}
    /\ NoDevice \notin Device
    /\ NoCall \notin Request
    /\ MaxSessions \in Nat
    /\ MaxEvents \in Nat

VARIABLES
    account,    \* users is not empty
    device,     \* devices.status, "absent" before the first registration
    session,    \* sessions, in the order of insertion
    request,    \* what each request slot is doing
    agent,      \* settings of each Agent and the reply it waits for
    events,     \* how many of the bounded events have happened
    epoch,      \* auxiliary: how often the device was reactivated
    excused     \* auxiliary: Agents that have lost a refresh reply or whose
                \* sessions were ended on purpose since they last enrolled

vars == <<account, device, session, request, agent, events, epoch, excused>>

SessionId == 1 .. MaxSessions

Row == [device : Device, family : SessionId, revoked : BOOLEAN,
        expired : BOOLEAN, epoch : Nat]

\* The registration ops remember the device status their transaction read.
registering == {"registerAbsent", "registerActive", "registerInactive"}

Op == {"idle", "refresh", "rotate", "revokeFamily", "deregister", "login",
       "admitted", "passwordChecked", "password", "reply"} \cup registering

\* A request in progress: the device and session it concerns, and the rows its
\* running UPDATE has matched.
Req == [op : Op, device : Device \cup {NoDevice}, sid : 0 .. MaxSessions,
        seen : SUBSET SessionId]

Idle == [op |-> "idle", device |-> NoDevice, sid |-> 0, seen |-> {}]

Issued == 1 .. Len(session)

-----------------------------------------------------------------------------
(***************************************************************************)
(* What the requests read.                                                  *)
(***************************************************************************)

\* UserRepository.HasAnyUsersTx.
HasAnyUsers == account

\* UserRepository.GetByAccount: the one account.
GetByAccount == account

\* VerifyPassword: the client knows the current password.  A wrong one is
\* refused and changes nothing.
CredentialsValid == GetByAccount

\* DeviceRepository.GetByID finds active devices only.
GetByID(d) == device[d] = "active"

\* DeviceRepository.GetByPeerIDTx finds it in any state.
GetByPeerIDTx(d) ==
    CASE device[d] = "absent" -> "registerAbsent"
      [] device[d] = "active" -> "registerActive"
      [] OTHER -> "registerInactive"

\* revoked_at IS NULL.
Live(s) == ~session[s].revoked

\* The row may still be exchanged: neither revoked nor past expires_at.
Usable(s) == Live(s) /\ ~session[s].expired

\* Service.Authenticate, for an access token within its lifetime.  Accounts
\* are never deactivated at this commit.
Authenticate(s) == Usable(s) /\ GetByID(session[s].device)

\* requireAuth admits a request of some client of the account.
SomeCaller == \E s \in Issued : Authenticate(s)

LiveFamily(f) == {s \in Issued : session[s].family = f /\ Live(s)}

\* The rows a transaction has locked with SELECT ... FOR UPDATE.
Holds(q, s) == request[q].op \in {"rotate", "revokeFamily"} /\ request[q].sid = s

\* Request r would have to wait for one of the rows S.
Blocked(r, S) == \E q \in Request \ {r} : \E s \in S : Holds(q, s)

\* A deregistration has updated the device's row and not committed.
DeviceLocked(d) == \E q \in Request : request[q].op = "deregister" /\ request[q].device = d

-----------------------------------------------------------------------------
(***************************************************************************)
(* What they write.                                                         *)
(***************************************************************************)
Room == Len(session) < MaxSessions

\* UserRepository.CreateTx.
CreateUser == account' = TRUE

\* Variant: the device waits for an approval nothing gives.
CreateDevicePending(d) == device' = [device EXCEPT ![d] = "pending"]

\* DeviceRepository.CreateTx.
CreateDevice(d) == device' = [device EXCEPT ![d] = "active"]

\* DeviceRepository.ReactivateTx touches the device only.
ReactivateDevice(d) ==
    /\ ~DeviceLocked(d)
    /\ device' = [device EXCEPT ![d] = "active"]
    /\ epoch' = [epoch EXCEPT ![d] = @ + 1]

\* SessionRepository.CreateTx and Create: a new session starts a family.
CreateSession(d, e) ==
    session' = Append(session,
        [device |-> d, family |-> Len(session) + 1, revoked |-> FALSE,
         expired |-> FALSE, epoch |-> e])

\* revoked_at = COALESCE(revoked_at, NOW()) for a set of rows.
Revoke(S) ==
    [s \in Issued |-> [session[s] EXCEPT !.revoked = @ \/ s \in S]]

Begin(r, o, d, s, S) ==
    request' = [request EXCEPT ![r] = [op |-> o, device |-> d, sid |-> s, seen |-> S]]

\* The handler answers 200 or 201 with the tokens of session s, or an error
\* (s = 0).  Nobody reads the reply to a request that was given up.
Answer(r, s) ==
    request' = [request EXCEPT ![r] =
        IF \E a \in Agent : agent[a].call = r
        THEN [op |-> "reply", device |-> request[r].device, sid |-> s, seen |-> {}]
        ELSE Idle]

Free(r) == request[r] = Idle

\* A bounded event.
Event == events < MaxEvents /\ events' = events + 1

-----------------------------------------------------------------------------
(***************************************************************************)
(* Bootstrap, login and enrolment.                                          *)
(***************************************************************************)

\* Bootstrap creates account, device and session in one transaction under
\* one advisory lock, so it is one step.
Bootstrap(d) ==
    /\ ~HasAnyUsers
    /\ Room
    /\ CreateUser
    /\ CreateDevice(d)
    /\ CreateSession(d, epoch[d])
    /\ UNCHANGED <<request, agent, events, epoch, excused>>

\* Login reads the account and the device ...
Login(r, d) ==
    /\ Free(r)
    /\ CredentialsValid
    /\ GetByID(d)
    /\ Begin(r, "login", d, 0, {})
    /\ UNCHANGED <<account, device, session, agent, events, epoch, excused>>

\* ... and inserts the session afterwards, outside any transaction.
LoginCreate(r) ==
    /\ request[r].op = "login"
    /\ Room
    /\ CreateSession(request[r].device, epoch[request[r].device])
    /\ Answer(r, Len(session) + 1)
    /\ UNCHANGED <<account, device, agent, events, epoch, excused>>

\* An Agent waits for the reply to its POST with Client.mu held.
AgentCalls(d, r, isRefresh) ==
    /\ agent[d].call = NoCall
    /\ agent' = [agent EXCEPT ![d].call = r, ![d].refreshing = isRefresh]

\* The handler RegisterDevice passes the request on for the caller's account.
Admit(r, d) ==
    /\ Begin(r, "admitted", d, 0, {})
    /\ UNCHANGED <<account, device, session, events, epoch, excused>>

\* EnrollDevice verifies the credentials, then registers the device.
EnrollDevice(r, d) ==
    /\ Free(r)
    /\ CredentialsValid
    /\ Admit(r, d)

\* Another client enrols.
PhoneEnroll(r, d) == EnrollDevice(r, d) /\ UNCHANGED agent

\* Client.Enroll.
Enroll(r, d) == EnrollDevice(r, d) /\ AgentCalls(d, r, FALSE)

\* Client.Provision, after the Agent's own heartbeat has failed, with the
\* bearer token of another client of the account.
Provision(r, d) ==
    /\ Free(r)
    /\ SomeCaller
    /\ AgentCalls(d, r, FALSE)
    /\ Admit(r, d)

\* RegisterDevice takes the peer id's advisory lock and reads the device.
RegisterRead(r) ==
    LET d == request[r].device IN
    /\ request[r].op = "admitted"
    /\ \A q \in Request : request[q].device = d => request[q].op \notin registering
    /\ Begin(r, GetByPeerIDTx(d), d, 0, {})
    /\ UNCHANGED <<account, device, session, agent, events, epoch, excused>>

\* It creates the device, reactivates it or leaves it alone, according to
\* what it read, and inserts a session.
RegisterDevice(r) ==
    LET d == request[r].device IN
    /\ Room
    /\ \/ request[r].op = "registerAbsent" /\ CreateDevice(d) /\ UNCHANGED epoch
       \/ request[r].op = "registerInactive" /\ ReactivateDevice(d)
       \/ request[r].op = "registerActive" /\ UNCHANGED <<device, epoch>>
    /\ CreateSession(d, epoch'[d])
    /\ Answer(r, Len(session) + 1)
    /\ UNCHANGED <<account, agent, events, excused>>

-----------------------------------------------------------------------------
(***************************************************************************)
(* Refresh.                                                                 *)
(***************************************************************************)

\* Client.refresh, after some request of the Agent was answered 401: the
\* access token expired, or the answer is older than the last refresh.
AgentRefresh(r, d) ==
    /\ Free(r)
    /\ agent[d].sid # 0
    /\ AgentCalls(d, r, TRUE)
    /\ Begin(r, "refresh", d, agent[d].sid, {})
    /\ UNCHANGED <<account, device, session, events, epoch, excused>>

\* Another client presents a token it was issued.
PhoneRefresh(r, s) ==
    /\ Free(r)
    /\ session[s].device \in Phone
    /\ Begin(r, "refresh", session[s].device, s, {})
    /\ UNCHANGED <<account, device, session, agent, events, epoch, excused>>

\* Variant: the row is read without FOR UPDATE.
RotateReadUnlocked(r) ==
    LET s == request[r].sid IN
    /\ request[r].op = "refresh"
    /\ Usable(s)
    /\ Begin(r, "rotate", request[r].device, s, {})
    /\ UNCHANGED <<account, device, session, agent, events, epoch, excused>>

\* Variant: revoked_at is not tested.
RotateReadRevoked(r) ==
    LET s == request[r].sid IN
    /\ request[r].op = "refresh"
    /\ ~Blocked(r, {s})
    /\ ~session[s].expired
    /\ Begin(r, "rotate", request[r].device, s, {})
    /\ UNCHANGED <<account, device, session, agent, events, epoch, excused>>

\* RotateRefreshAtomically locks the row and finds it usable.
RotateRead(r) ==
    LET s == request[r].sid IN
    /\ request[r].op = "refresh"
    /\ ~Blocked(r, {s})
    /\ Usable(s)
    /\ Begin(r, "rotate", request[r].device, s, {})
    /\ UNCHANGED <<account, device, session, agent, events, epoch, excused>>

\* It revokes the row and inserts the next session of the family.
RotateRefreshAtomically(r) ==
    LET s == request[r].sid IN
    /\ request[r].op = "rotate"
    /\ Room
    /\ session' = Append(Revoke({s}), [session[s] EXCEPT !.expired = FALSE, !.revoked = FALSE])
    /\ Answer(r, Len(session) + 1)
    /\ UNCHANGED <<account, device, agent, events, epoch, excused>>

\* Variant: every session of the device is revoked instead of the family.
DetectReplayByDevice(r) ==
    LET s == request[r].sid IN
    /\ request[r].op = "refresh"
    /\ ~Blocked(r, {s})
    /\ ~Usable(s)
    /\ Begin(r, "revokeFamily", request[r].device, s,
             {t \in Issued : session[t].device = session[s].device /\ Live(t)})
    /\ UNCHANGED <<account, device, session, agent, events, epoch, excused>>

\* The row is revoked or expired: the family's revocation starts.
DetectReplay(r) ==
    LET s == request[r].sid IN
    /\ request[r].op = "refresh"
    /\ ~Blocked(r, {s})
    /\ ~Usable(s)
    /\ Begin(r, "revokeFamily", request[r].device, s, LiveFamily(session[s].family))
    /\ UNCHANGED <<account, device, session, agent, events, epoch, excused>>

RevokeFamily(r) ==
    /\ request[r].op = "revokeFamily"
    /\ ~Blocked(r, request[r].seen)
    /\ session' = Revoke(request[r].seen)
    /\ Answer(r, 0)
    /\ UNCHANGED <<account, device, agent, events, epoch, excused>>

\* A transaction fails or its context ends: it is rolled back and its
\* handler answers with an error.
Abort(r) ==
    /\ request[r].op \notin {"idle", "reply"}
    /\ Answer(r, 0)
    /\ UNCHANGED <<account, device, session, agent, events, epoch, excused>>

-----------------------------------------------------------------------------
(***************************************************************************)
(* Revocations a user asks for.                                             *)
(***************************************************************************)
Excuse(S) == excused' = [d \in Agent |-> excused[d] \/ d \in S]

\* DeregisterDevice updates the device's row, then its sessions.
DeregisterStart(r, d) ==
    /\ Free(r)
    /\ SomeCaller
    /\ GetByID(d)
    /\ ~DeviceLocked(d)
    /\ Event
    /\ Begin(r, "deregister", d, 0, {s \in Issued : session[s].device = d})
    /\ UNCHANGED <<account, device, session, agent, epoch, excused>>

DeregisterDevice(r) ==
    /\ request[r].op = "deregister"
    /\ ~Blocked(r, request[r].seen)
    /\ device' = [device EXCEPT ![request[r].device] = "deregistered"]
    /\ session' = Revoke(request[r].seen)
    /\ Excuse({request[r].device})
    /\ request' = [request EXCEPT ![r] = Idle]
    /\ UNCHANGED <<account, agent, events, epoch>>

\* ChangePassword verifies the current password first ...
ChangePasswordCheck(r, s) ==
    /\ Free(r)
    /\ Authenticate(s)
    /\ Event
    /\ Begin(r, "passwordChecked", session[s].device, s, {})
    /\ UNCHANGED <<account, device, session, agent, epoch, excused>>

\* ... then updates the account's row and starts to revoke every other session.
ChangePasswordStart(r) ==
    /\ request[r].op = "passwordChecked"
    /\ \A q \in Request : request[q].op # "password"
    /\ Begin(r, "password", request[r].device, request[r].sid, Issued \ {request[r].sid})
    /\ UNCHANGED <<account, device, session, agent, events, epoch, excused>>

ChangePassword(r) ==
    /\ request[r].op = "password"
    /\ ~Blocked(r, request[r].seen)
    /\ session' = Revoke(request[r].seen)
    /\ Excuse(Agent)
    /\ request' = [request EXCEPT ![r] = Idle]
    /\ UNCHANGED <<account, device, agent, events, epoch>>

\* Logout revokes the caller's own session; it waits for the row's lock, and
\* a row revoked meanwhile is left alone.
Logout(s) ==
    /\ Authenticate(s)
    /\ \A q \in Request : ~Holds(q, s)
    /\ session' = Revoke({s})
    /\ Excuse({session[s].device})
    /\ Event
    /\ UNCHANGED <<account, device, request, agent, epoch>>

-----------------------------------------------------------------------------
(***************************************************************************)
(* The Agent's side of a call, and time.                                    *)
(***************************************************************************)

\* The reply to d's call has arrived and names session s (0: an error).
Reply(d, s) ==
    /\ agent[d].call # NoCall
    /\ request[agent[d].call].op = "reply"
    /\ request[agent[d].call].sid = s

\* Both tokens are stored in one transaction; on an error nothing is.
Store(d, s) ==
    /\ agent' = [agent EXCEPT ![d] =
           [sid |-> IF s = 0 THEN @.sid ELSE s, call |-> NoCall, refreshing |-> FALSE]]
    /\ request' = [request EXCEPT ![agent[d].call] = Idle]
    /\ UNCHANGED <<account, device, session, events, epoch>>

\* Provision and Enroll end: persistAuth.  The grant may have been revoked
\* while the reply was under way.
AgentEnrolled(d, s) ==
    /\ Reply(d, s)
    /\ ~agent[d].refreshing
    /\ Store(d, s)
    /\ excused' = [excused EXCEPT ![d] = IF s = 0 THEN @ ELSE ~Usable(s)]

\* refresh ends.
AgentRefreshed(d, s) ==
    /\ Reply(d, s)
    /\ agent[d].refreshing
    /\ Store(d, s)
    /\ UNCHANGED excused

\* The HTTP client's timeout, or a crash of the Agent: the server goes on.
\* What it does to an enrolment nobody waits for costs the Agent nothing.
AgentGivesUp(d) ==
    LET r == agent[d].call IN
    /\ r # NoCall
    /\ Event
    /\ agent' = [agent EXCEPT ![d].call = NoCall, ![d].refreshing = FALSE]
    /\ request' = IF request[r].op = "reply" THEN [request EXCEPT ![r] = Idle] ELSE request
    /\ excused' = [excused EXCEPT ![d] = @ \/ agent[d].refreshing]
    /\ UNCHANGED <<account, device, session, epoch>>

\* refreshTokenTTL ends.
SessionExpires(s) ==
    /\ Live(s)
    /\ ~session[s].expired
    /\ \A q \in Request : ~Holds(q, s)
    /\ session' = [session EXCEPT ![s].expired = TRUE]
    /\ Excuse({session[s].device})
    /\ Event
    /\ UNCHANGED <<account, device, request, agent, epoch>>

-----------------------------------------------------------------------------
Init ==
    /\ account = FALSE
    /\ device = [d \in Device |-> "absent"]
    /\ session = <<>>
    /\ request = [r \in Request |-> Idle]
    /\ agent = [d \in Agent |-> [sid |-> 0, call |-> NoCall, refreshing |-> FALSE]]
    /\ events = 0
    /\ epoch = [d \in Device |-> 0]
    /\ excused = [d \in Agent |-> FALSE]

ServerStep(r) ==
    \/ LoginCreate(r)
    \/ RegisterRead(r) \/ RegisterDevice(r)
    \/ RotateRead(r) \/ RotateRefreshAtomically(r)
    \/ DetectReplay(r) \/ RevokeFamily(r)
    \/ DeregisterDevice(r)
    \/ ChangePasswordStart(r) \/ ChangePassword(r)
    \/ Abort(r)

Arrival(r) ==
    \/ \E d \in Phone : Login(r, d) \/ PhoneEnroll(r, d)
    \/ \E d \in Device : DeregisterStart(r, d)
    \/ \E d \in Agent : Enroll(r, d) \/ Provision(r, d) \/ AgentRefresh(r, d)
    \/ \E s \in Issued : PhoneRefresh(r, s) \/ ChangePasswordCheck(r, s)

Next ==
    \/ \E d \in Phone : Bootstrap(d)
    \/ \E r \in Request : Arrival(r) \/ ServerStep(r)
    \/ \E s \in Issued : Logout(s) \/ SessionExpires(s)
    \/ \E d \in Agent : AgentGivesUp(d) \/ \E s \in 0 .. MaxSessions : AgentEnrolled(d, s) \/ AgentRefreshed(d, s)

Spec == Init /\ [][Next]_vars

-----------------------------------------------------------------------------
(***************************************************************************)
(* Properties.                                                              *)
(***************************************************************************)

\* Type invariant of the tables, the requests in progress and the Agents'
\* settings.
TypeOK ==
    /\ account \in BOOLEAN
    /\ device \in [Device -> {"absent", "active", "deregistered"}]
    /\ session \in Seq(Row)
    /\ Len(session) <= MaxSessions
    /\ request \in [Request -> Req]
    /\ agent \in [Agent -> [sid : 0 .. MaxSessions, call : Request \cup {NoCall}, refreshing : BOOLEAN]]
    /\ events \in 0 .. MaxEvents
    /\ epoch \in [Device -> Nat]
    /\ excused \in [Agent -> BOOLEAN]

\* A family has at most one session that is not revoked: however requests
\* with the same refresh token overlap, "exactly one caller succeeds"
\* (RotateRefreshAtomically).
OneLivePerFamily ==
    \A s, t \in Issued :
        (Live(s) /\ Live(t) /\ session[s].family = session[t].family) => s = t

\* A family all of whose sessions are revoked never gets a session again: no
\* interleaving of rotation with logout, deregistration, password change or
\* replay detection revives it.
DeadFamilyStaysDead ==
    [][\A f \in Issued : LiveFamily(f) = {} => LiveFamily(f)' = {}]_vars

\* An Agent that waits for nothing holds a refresh token the server accepts,
\* unless it lost the reply to a refresh or its sessions were ended on
\* purpose since it enrolled: duplicates of its own late requests, and the
\* families of its earlier enrolments, never lock it out (Client.refresh).
LockoutHasCause ==
    \A d \in Agent :
        (agent[d].sid # 0 /\ agent[d].call = NoCall /\ ~excused[d])
            => Usable(agent[d].sid)

\* ReactivateTx's comment: "Existing sessions remain revoked".  A live
\* session of an active device was issued since its last reactivation.
ReactivationStartsAfresh ==
    \A s \in Issued :
        (Live(s) /\ GetByID(session[s].device)) => session[s].epoch = epoch[session[s].device]
=============================================================================
