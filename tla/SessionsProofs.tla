---------------------------- MODULE SessionsProofs ----------------------------
(***************************************************************************)
(* Proofs about Sessions for every set of devices and request slots and     *)
(* every bound.                                                             *)
(***************************************************************************)
EXTENDS Sessions, TLAPS

(***************************************************************************)
(* The inductive invariant, in three layers: what a request in progress     *)
(* refers to, what the row locks protect, and what an Agent may count on.   *)
(***************************************************************************)

\* The ops of an exchange of a refresh token.
exchanging == {"refresh", "rotate", "revokeFamily"}

\* The device, the session and the rows of a request exist.
RequestOK(r) ==
    /\ request[r].seen \subseteq Issued
    /\ request[r].op # "idle" => request[r].device \in Device
    /\ request[r].op \in exchanging \cup {"passwordChecked", "password"} => request[r].sid \in Issued
    /\ request[r].op = "reply" => request[r].sid \in 0 .. Len(session)

References ==
    /\ \A r \in Request : RequestOK(r)
    /\ \A d \in Agent : agent[d].sid \in 0 .. Len(session)

\* A row is locked by one transaction, and a rotation's row stays usable.
Locks ==
    /\ \A q, r \in Request : \A s \in Issued : Holds(q, s) /\ Holds(r, s) => q = r
    /\ \A r \in Request : request[r].op = "rotate" => Usable(request[r].sid)

\* A family is numbered by its first session.
FamiliesInOrder == \A s \in Issued : session[s].family \in 1 .. s

Inv == TypeOK /\ References /\ Locks /\ FamiliesInOrder /\ OneLivePerFamily

\* The request Agent d waits for serves it and is of the kind d asked for.
CallOK(d) ==
    LET r == agent[d].call IN
    r # NoCall =>
        /\ request[r].device = d
        /\ request[r].op \in IF agent[d].refreshing THEN exchanging \cup {"reply"}
                             ELSE registering \cup {"admitted", "reply"}
        /\ request[r].op \in exchanging => request[r].sid = agent[d].sid
        /\ agent[d].refreshing => agent[d].sid # 0

Calls ==
    /\ \A d \in Agent : CallOK(d)
    /\ \A d, e \in Agent : agent[d].call = agent[e].call /\ agent[d].call # NoCall => d = e

\* Sessions, families, exchanges, revocations under way and grants stay
\* within one device, and a family's revocation within the family.
Ownership ==
    /\ \A s, t \in Issued : session[s].family = session[t].family => session[s].device = session[t].device
    /\ \A r \in Request :
          /\ request[r].op \in exchanging => session[request[r].sid].device = request[r].device
          /\ request[r].op = "reply" /\ request[r].sid # 0
                => session[request[r].sid].device = request[r].device
          /\ request[r].op = "revokeFamily"
                => \A t \in request[r].seen : session[t].family = session[request[r].sid].family
          /\ request[r].op = "deregister"
                => \A t \in request[r].seen : session[t].device = request[r].device
    /\ \A d \in Agent : agent[d].sid # 0 => session[agent[d].sid].device = d

\* The answer to d's call has come and grants a session.
Granted(d) ==
    /\ agent[d].call # NoCall
    /\ request[agent[d].call].op = "reply"
    /\ request[agent[d].call].sid # 0

Grant(d) == request[agent[d].call].sid

\* Request r exchanges a token of family f.
Exchanges(r, f) == request[r].op \in exchanging /\ session[request[r].sid].family = f

\* The family an enrolment grants is known to no other request.
GrantIsFresh ==
    \A d \in Agent : Granted(d) /\ ~agent[d].refreshing
        => \A r \in Request : ~Exchanges(r, session[Grant(d)].family)

\* Agent d holds a usable token or is about to get the next of its family,
\* and nobody but its own call exchanges a token of that family.
Healthy(d) ==
    /\ IF Granted(d) /\ agent[d].refreshing
       THEN Usable(Grant(d)) /\ session[Grant(d)].family = session[agent[d].sid].family
       ELSE Usable(agent[d].sid)
    /\ \A r \in Request : Exchanges(r, session[agent[d].sid].family) =>
          /\ r = agent[d].call
          /\ request[r].op # "revokeFamily"
          /\ request[r].sid = agent[d].sid

AgentsHealthy == \A d \in Agent : agent[d].sid # 0 /\ ~excused[d] => Healthy(d)

AgentInv == Inv /\ Calls /\ Ownership /\ GrantIsFresh /\ AgentsHealthy

-----------------------------------------------------------------------------
(***************************************************************************)
(* What the writes do to the table of sessions.                             *)
(***************************************************************************)

\* An insertion leaves the rows alone and adds one at the end.
LEMMA AppendRow ==
    ASSUME NEW T \in Seq(Row), NEW row \in Row
    PROVE  /\ Append(T, row) \in Seq(Row)
           /\ Len(Append(T, row)) = Len(T) + 1
           /\ \A s \in 1 .. Len(T) : Append(T, row)[s] = T[s]
           /\ Append(T, row)[Len(T) + 1] = row
  OBVIOUS

\* A row of the table has every column.
LEMMA RowColumns ==
    ASSUME TypeOK, NEW s \in Issued
    PROVE  /\ session[s] \in Row
           /\ session[s].device \in Device
           /\ session[s].family \in SessionId
           /\ session[s].revoked \in BOOLEAN
           /\ session[s].expired \in BOOLEAN
           /\ session[s].epoch \in Nat
  <1>1. session[s] \in Row
    BY DEF TypeOK, Issued
  <1> QED
    BY <1>1 DEF Row

\* A revocation changes the column revoked of the rows it names.
LEMMA RevokeRows ==
    ASSUME TypeOK, NEW S
    PROVE  /\ Revoke(S) \in Seq(Row)
           /\ Len(Revoke(S)) = Len(session)
           /\ \A s \in Issued :
                 /\ Revoke(S)[s].device = session[s].device
                 /\ Revoke(S)[s].family = session[s].family
                 /\ Revoke(S)[s].expired = session[s].expired
                 /\ Revoke(S)[s].epoch = session[s].epoch
                 /\ Revoke(S)[s].revoked <=> session[s].revoked \/ s \in S
  <1>1. ASSUME NEW s \in Issued
        PROVE  /\ Revoke(S)[s] \in Row
               /\ Revoke(S)[s].device = session[s].device
               /\ Revoke(S)[s].family = session[s].family
               /\ Revoke(S)[s].expired = session[s].expired
               /\ Revoke(S)[s].epoch = session[s].epoch
               /\ Revoke(S)[s].revoked <=> session[s].revoked \/ s \in S
    <2> DEFINE b == session[s].revoked \/ s \in S
    <2>1. Revoke(S)[s] = [session[s] EXCEPT !.revoked = b]
      BY DEF Revoke
    <2>2. b \in BOOLEAN
      OBVIOUS
    <2>3. session[s] \in Row
      BY RowColumns
    <2> HIDE DEF b
    <2>4. /\ Revoke(S)[s] \in Row
          /\ Revoke(S)[s].device = session[s].device
          /\ Revoke(S)[s].family = session[s].family
          /\ Revoke(S)[s].expired = session[s].expired
          /\ Revoke(S)[s].epoch = session[s].epoch
          /\ Revoke(S)[s].revoked = b
      BY <2>1, <2>2, <2>3 DEF Row
    <2> QED
      BY <2>4 DEF b
  <1>2. Len(session) \in Nat
    BY DEF TypeOK
  <1>3. Revoke(S) \in [1 .. Len(session) -> Row]
    BY <1>1 DEF Revoke, Issued
  <1>4. Revoke(S) \in Seq(Row) /\ Len(Revoke(S)) = Len(session)
    BY <1>2, <1>3
  <1> QED
    BY <1>1, <1>4

-----------------------------------------------------------------------------
(***************************************************************************)
(* What a step does to the requests.                                        *)
(***************************************************************************)

\* The answer of request r settles it: its slot is idle, or it holds the reply.
LEMMA AnswerSettles ==
    ASSUME TypeOK, NEW r \in Request, request[r].op # "idle", RequestOK(r),
           NEW s \in 0 .. MaxSessions, Answer(r, s)
    PROVE  /\ request' \in [Request -> Req]
           /\ \A q \in Request \ {r} : request'[q] = request[q]
           /\ \/ /\ request'[r] = Idle
                 /\ \A a \in Agent : agent[a].call # r
              \/ /\ request'[r] = [op |-> "reply", device |-> request[r].device, sid |-> s, seen |-> {}]
                 /\ \E a \in Agent : agent[a].call = r
           /\ request[r].device \in Device
  <1> DEFINE reply == [op |-> "reply", device |-> request[r].device, sid |-> s, seen |-> {}]
  <1>1. request[r].device \in Device
    BY DEF RequestOK
  <1>2. Idle \in Req /\ reply \in Req
    BY <1>1, SessionsAssumption DEF Idle, Req, Op
  <1>3. CASE \E a \in Agent : agent[a].call = r
    <2>1. request' = [request EXCEPT ![r] = reply]
      BY <1>3 DEF Answer
    <2> QED
      BY <1>1, <1>2, <1>3, <2>1 DEF TypeOK
  <1>4. CASE ~ \E a \in Agent : agent[a].call = r
    <2>1. request' = [request EXCEPT ![r] = Idle]
      BY <1>4 DEF Answer
    <2> QED
      BY <1>1, <1>2, <1>4, <2>1 DEF TypeOK
  <1> QED
    BY <1>3, <1>4

\* Request q is where it was, or over: nothing but its reply is left of it.
Settled(q) ==
    \/ request'[q] = request[q]
    \/ request'[q] = Idle
    \/ /\ request'[q].op = "reply"
       /\ request'[q].device \in Device
       /\ request'[q].sid \in 0 .. Len(session')
       /\ request'[q].seen = {}

\* A step that writes sessions and settles requests keeps what the requests
\* refer to, and the locks if the rows of the rotations stay usable.
LEMMA WriteKeepsRequests ==
    ASSUME Inv, session' \in Seq(Row), Len(session) <= Len(session'),
           \A q \in Request : Settled(q),
           \A q \in Request : request'[q].op = "rotate" /\ request'[q] = request[q] => Usable(request[q].sid)'
    PROVE  /\ \A q \in Request : RequestOK(q)'
           /\ Locks'
  <1>0. Len(session) \in Nat /\ Len(session') \in Nat /\ Issued \subseteq Issued'
    BY DEF Inv, TypeOK, Issued
  <1>1. ASSUME NEW q \in Request
        PROVE  RequestOK(q)'
    <2>1. RequestOK(q)
      BY DEF Inv, References
    <2>2. CASE request'[q] = request[q]
      BY <2>1, <2>2, <1>0 DEF RequestOK
    <2>3. CASE request'[q] = Idle
      BY <2>3 DEF RequestOK, Idle, exchanging
    <2>4. CASE request'[q].op = "reply" /\ request'[q].device \in Device
               /\ request'[q].sid \in 0 .. Len(session') /\ request'[q].seen = {}
      BY <2>4 DEF RequestOK, exchanging
    <2> QED
      BY <2>2, <2>3, <2>4 DEF Settled
  <1>2. ASSUME NEW q \in Request, NEW s, Holds(q, s)'
        PROVE  Holds(q, s) /\ request'[q] = request[q]
    BY <1>2 DEF Holds, Settled, Idle
  <1>3. ASSUME NEW q \in Request, NEW s, Holds(q, s)
        PROVE  s \in Issued
    BY <1>3 DEF Holds, Inv, References, RequestOK, exchanging
  <1>4. \A q, r \in Request : \A s \in Issued' : Holds(q, s)' /\ Holds(r, s)' => q = r
    BY <1>2, <1>3 DEF Inv, Locks
  <1>5. ASSUME NEW q \in Request, request'[q].op = "rotate"
        PROVE  Usable(request[q].sid)' /\ request'[q] = request[q]
    BY <1>5 DEF Settled, Idle
  <1>6. \A q \in Request : (request[q].op = "rotate" => Usable(request[q].sid))'
    BY <1>5
  <1> QED
    BY <1>1, <1>4, <1>6 DEF Locks

\* A step that rewrites one request and no session.  The request refers to
\* what exists, and holds a row only if no other request does.
LEMMA ReadKeepsInv ==
    ASSUME Inv, session' = session, NEW r \in Request, NEW q \in Req,
           request' = [request EXCEPT ![r] = q],
           q.seen \subseteq Issued,
           q.op # "idle" => q.device \in Device,
           q.op \in exchanging \cup {"passwordChecked", "password"} => q.sid \in Issued,
           q.op = "reply" => q.sid \in 0 .. Len(session),
           q.op \in {"rotate", "revokeFamily"} => ~Blocked(r, {q.sid}),
           q.op = "rotate" => Usable(q.sid)
    PROVE  /\ request' \in [Request -> Req]
           /\ \A p \in Request : RequestOK(p)'
           /\ Locks' /\ FamiliesInOrder' /\ OneLivePerFamily'
  <1>1. request' \in [Request -> Req]
    BY DEF Inv, TypeOK
  <1>2. request'[r] = q /\ \A p \in Request \ {r} : request'[p] = request[p]
    BY DEF Inv, TypeOK
  <1>3. Issued' = Issued
    BY DEF Issued
  <1>4. ASSUME NEW p \in Request
        PROVE  RequestOK(p)'
    <2>1. CASE p = r
      BY <1>2, <1>3, <2>1 DEF RequestOK
    <2>2. CASE p # r
      BY <1>2, <1>3, <2>2 DEF RequestOK, Inv, References
    <2> QED
      BY <2>1, <2>2
  <1>6. ASSUME NEW a \in Request, NEW b \in Request, NEW s \in Issued,
               Holds(a, s)', Holds(b, s)'
        PROVE  a = b
    <2>1. CASE a = r /\ b # r
      BY <1>2, <1>6, <2>1 DEF Holds, Blocked
    <2>2. CASE b = r /\ a # r
      BY <1>2, <1>6, <2>2 DEF Holds, Blocked
    <2>3. CASE a # r /\ b # r
      BY <1>2, <1>6, <2>3 DEF Holds, Inv, Locks
    <2> QED
      BY <2>1, <2>2, <2>3
  <1>7. \A p \in Request : (request[p].op = "rotate" => Usable(request[p].sid))'
    BY <1>2 DEF Inv, Locks, Usable, Live
  <1>8. Locks'
    BY <1>3, <1>6, <1>7 DEF Locks
  <1>9. FamiliesInOrder' /\ OneLivePerFamily'
    BY <1>3 DEF Inv, FamiliesInOrder, OneLivePerFamily, Live
  <1> QED
    BY <1>1, <1>4, <1>8, <1>9

\* A step that inserts the first session of a new family.
LEMMA CreateKeepsInv ==
    ASSUME Inv, Room, NEW d \in Device, NEW e \in Nat, CreateSession(d, e),
           request' \in [Request -> Req], \A q \in Request : Settled(q)
    PROVE  /\ session' \in Seq(Row)
           /\ Len(session') = Len(session) + 1
           /\ Len(session') <= MaxSessions
           /\ \A s \in Issued : session'[s] = session[s]
           /\ session'[Len(session')].device = d
           /\ session'[Len(session')].family = Len(session')
           /\ Usable(Len(session))'
           /\ \A q \in Request : RequestOK(q)'
           /\ Locks' /\ FamiliesInOrder' /\ OneLivePerFamily'
  <1> DEFINE n == Len(session) + 1
             row == [device |-> d, family |-> n, revoked |-> FALSE, expired |-> FALSE, epoch |-> e]
  <1>1. n \in SessionId /\ Len(session) \in Nat /\ Issued = 1 .. n - 1
    BY SessionsAssumption DEF Inv, TypeOK, Room, SessionId, Issued
  <1>2. row \in Row
    BY <1>1 DEF Row
  <1>3. row.device = d /\ row.family = n /\ row.revoked = FALSE /\ row.expired = FALSE
    OBVIOUS
  <1>4. session' = Append(session, row)
    BY DEF CreateSession
  <1> HIDE DEF row
  <1>5. /\ session' \in Seq(Row) /\ Len(session') = n
        /\ \A s \in Issued : session'[s] = session[s]
        /\ session'[n] = row
        /\ Issued' = Issued \cup {n}
    BY <1>1, <1>2, <1>4, AppendRow DEF Inv, TypeOK, Issued
  <1>6. n <= MaxSessions
    BY <1>1, SessionsAssumption DEF SessionId
  <1>7. ~session'[n].revoked /\ ~session'[n].expired
    BY <1>3, <1>5
  <1>8. \A s \in Issued : Live(s)' = Live(s) /\ Usable(s)' = Usable(s)
    BY <1>5 DEF Live, Usable
  <1>9. FamiliesInOrder'
    <2>1. session'[n].family = n /\ n \in 1 .. n
      BY <1>1, <1>3, <1>5
    <2> QED
      BY <1>5, <2>1 DEF Inv, FamiliesInOrder
  <1>10. OneLivePerFamily'
    <2>1. ASSUME NEW s \in Issued
          PROVE  session'[s].family # session'[n].family
      <3>1. session[s].family \in 1 .. s /\ s \in 1 .. n - 1
        BY <1>1 DEF Inv, FamiliesInOrder
      <3> QED
        BY <1>1, <1>3, <1>5, <3>1
    <2>2. ASSUME NEW s \in Issued, NEW t \in Issued, Live(s)', Live(t)',
                 session'[s].family = session'[t].family
          PROVE  s = t
      BY <1>5, <1>8, <2>2 DEF Inv, OneLivePerFamily
    <2> QED
      BY <1>5, <2>1, <2>2 DEF OneLivePerFamily
  <1>11. \A q \in Request : request'[q].op = "rotate" /\ request'[q] = request[q]
            => Usable(request[q].sid)'
    <2> SUFFICES ASSUME NEW q \in Request, request'[q].op = "rotate", request'[q] = request[q]
                 PROVE  Usable(request[q].sid)'
      OBVIOUS
    <2>1. request[q].sid \in Issued /\ Usable(request[q].sid)
      BY DEF Inv, Locks, References, RequestOK, exchanging
    <2> QED
      BY <1>5, <2>1 DEF Usable, Live
  <1>12. (\A q \in Request : RequestOK(q)') /\ Locks'
    <2>1. Len(session) <= Len(session')
      BY <1>1, <1>5
    <2> QED
      BY <1>5, <1>11, <2>1, WriteKeepsRequests
  <1>13. Usable(Len(session))'
    BY <1>5, <1>7 DEF Usable, Live
  <1> QED
    BY <1>3, <1>5, <1>6, <1>9, <1>10, <1>12, <1>13

\* A step that revokes rows no rotation has locked.
LEMMA RevokeKeepsInv ==
    ASSUME Inv, NEW S \in SUBSET Issued, session' = Revoke(S),
           request' \in [Request -> Req], \A q \in Request : Settled(q),
           \A q \in Request : request'[q].op = "rotate" /\ request'[q] = request[q]
                => request[q].sid \notin S
    PROVE  /\ session' \in Seq(Row)
           /\ Len(session') = Len(session)
           /\ \A q \in Request : RequestOK(q)'
           /\ Locks' /\ FamiliesInOrder' /\ OneLivePerFamily'
  <1>1. /\ session' \in Seq(Row) /\ Len(session') = Len(session)
        /\ \A s \in Issued :
              /\ session'[s].family = session[s].family
              /\ session'[s].expired = session[s].expired
              /\ session'[s].revoked <=> session[s].revoked \/ s \in S
    BY RevokeRows DEF Inv
  <1>2. Issued' = Issued /\ Len(session) \in Nat
    BY <1>1 DEF Issued, Inv, TypeOK
  <1>3. FamiliesInOrder' /\ OneLivePerFamily'
    BY <1>1, <1>2 DEF Inv, FamiliesInOrder, OneLivePerFamily, Live
  <1>4. \A q \in Request : request'[q].op = "rotate" /\ request'[q] = request[q]
            => Usable(request[q].sid)'
    <2> SUFFICES ASSUME NEW q \in Request, request'[q].op = "rotate", request'[q] = request[q]
                 PROVE  Usable(request[q].sid)'
      OBVIOUS
    <2>1. request[q].sid \in Issued /\ Usable(request[q].sid) /\ request[q].sid \notin S
      BY DEF Inv, Locks, References, RequestOK, exchanging
    <2> QED
      BY <1>1, <2>1 DEF Usable, Live
  <1>5. (\A q \in Request : RequestOK(q)') /\ Locks'
    <2>1. Len(session) <= Len(session')
      BY <1>1, <1>2
    <2> QED
      BY <1>1, <1>4, <2>1, WriteKeepsRequests
  <1> QED
    BY <1>1, <1>3, <1>5

\* A rotation revokes its row and adds a usable one of the same family and
\* device.
LEMMA RotateRows ==
    ASSUME Inv, NEW r \in Request, RotateRefreshAtomically(r)
    PROVE  /\ session' \in Seq(Row)
           /\ Len(session') = Len(session) + 1
           /\ Len(session') <= MaxSessions
           /\ request[r].sid \in Issued
           /\ \A t \in Issued :
                 /\ session'[t].device = session[t].device
                 /\ session'[t].family = session[t].family
                 /\ session'[t].expired = session[t].expired
                 /\ session'[t].revoked <=> session[t].revoked \/ t = request[r].sid
           /\ session'[Len(session')].device = session[request[r].sid].device
           /\ session'[Len(session')].family = session[request[r].sid].family
           /\ Usable(Len(session))'
  <1> DEFINE s == request[r].sid
             row == [session[s] EXCEPT !.expired = FALSE, !.revoked = FALSE]
             n == Len(session) + 1
             R == Revoke({s})
  <1>1. s \in Issued
    BY DEF RotateRefreshAtomically, Inv, References, RequestOK, exchanging
  <1>2. session[s] \in Row
    BY <1>1, RowColumns DEF Inv
  <1>3. /\ row \in Row /\ row.device = session[s].device /\ row.family = session[s].family
        /\ row.revoked = FALSE /\ row.expired = FALSE
    BY <1>2 DEF Row
  <1>4. session' = Append(R, row)
    BY DEF RotateRefreshAtomically
  <1>5. /\ R \in Seq(Row) /\ Len(R) = Len(session)
        /\ \A t \in Issued :
              /\ R[t].device = session[t].device
              /\ R[t].family = session[t].family
              /\ R[t].expired = session[t].expired
              /\ R[t].revoked <=> session[t].revoked \/ t \in {s}
    BY RevokeRows DEF Inv
  <1> HIDE DEF row, R, s
  <1>6. /\ session' \in Seq(Row) /\ Len(session') = n /\ session'[n] = row
        /\ \A t \in Issued : session'[t] = R[t]
    BY <1>3, <1>4, <1>5, AppendRow DEF Issued
  <1>7. n <= MaxSessions
    BY SessionsAssumption DEF RotateRefreshAtomically, Room, Inv, TypeOK
  <1>8. ~session'[n].revoked /\ ~session'[n].expired
    BY <1>3, <1>6
  <1>9. Usable(Len(session))'
    BY <1>6, <1>8 DEF Usable, Live
  <1> QED
    BY <1>1, <1>3, <1>5, <1>6, <1>7, <1>9 DEF s

\* So a rotation keeps the invariant of the table and the requests.
LEMMA RotateKeepsInv ==
    ASSUME Inv, NEW r \in Request, RotateRefreshAtomically(r)
    PROVE  /\ request' \in [Request -> Req]
           /\ \A q \in Request : RequestOK(q)'
           /\ Locks' /\ FamiliesInOrder' /\ OneLivePerFamily'
  <1> DEFINE s == request[r].sid
             n == Len(session) + 1
  <1>1. /\ session' \in Seq(Row) /\ Len(session') = n /\ n <= MaxSessions /\ s \in Issued
        /\ \A t \in Issued :
              /\ session'[t].family = session[t].family
              /\ session'[t].expired = session[t].expired
              /\ session'[t].revoked <=> session[t].revoked \/ t = s
        /\ session'[n].family = session[s].family
    BY RotateRows
  <1>2. Len(session) \in Nat /\ n \in 0 .. MaxSessions /\ Issued' = Issued \cup {n} /\ Issued = 1 .. n - 1
    BY <1>1, SessionsAssumption DEF Inv, TypeOK, Issued
  <1>3. /\ request' \in [Request -> Req]
        /\ \A q \in Request \ {r} : request'[q] = request[q]
        /\ \/ request'[r] = Idle
           \/ request'[r] = [op |-> "reply", device |-> request[r].device, sid |-> n, seen |-> {}]
        /\ request[r].device \in Device
    <2>1. Answer(r, n) /\ request[r].op # "idle" /\ RequestOK(r) /\ TypeOK
      BY DEF RotateRefreshAtomically, Inv, References
    <2> HIDE DEF n
    <2> QED
      BY <1>2, <2>1, AnswerSettles
  <1>4. \A q \in Request : Settled(q)
    <2>1. n \in 0 .. Len(session')
      BY <1>1, <1>2
    <2> QED
      BY <1>3, <2>1 DEF Settled
  <1>5. request[r].op = "rotate"
    BY DEF RotateRefreshAtomically
  <1>6. \A q \in Request : request'[q].op = "rotate" /\ request'[q] = request[q]
            => Usable(request[q].sid)'
    <2> SUFFICES ASSUME NEW q \in Request, request'[q].op = "rotate", request'[q] = request[q]
                 PROVE  Usable(request[q].sid)'
      OBVIOUS
    <2>1. q # r
      BY <1>3 DEF Idle
    <2>2. request[q].sid \in Issued /\ Usable(request[q].sid)
      BY DEF Inv, Locks, References, RequestOK, exchanging
    <2>3. request[q].sid # s
      BY <1>1, <1>5, <2>1 DEF Inv, Locks, Holds
    <2> QED
      BY <1>1, <2>2, <2>3 DEF Usable, Live
  <1>7. (\A q \in Request : RequestOK(q)') /\ Locks'
    <2>1. Len(session) <= Len(session')
      BY <1>1, <1>2
    <2> QED
      BY <1>1, <1>4, <1>6, <2>1, WriteKeepsRequests
  <1>8. FamiliesInOrder'
    <2>1. session[s].family \in 1 .. s /\ s \in 1 .. n - 1
      BY <1>1, <1>2 DEF Inv, FamiliesInOrder
    <2>2. session'[n].family \in 1 .. n
      BY <1>1, <1>2, <2>1
    <2>3. \A t \in Issued : session'[t].family \in 1 .. t
      BY <1>1 DEF Inv, FamiliesInOrder
    <2> QED
      BY <1>2, <2>2, <2>3 DEF FamiliesInOrder
  <1>9. OneLivePerFamily'
    <2>1. Live(s)
      BY <1>5 DEF Inv, Locks, Usable
    <2>2. ASSUME NEW t \in Issued, Live(t)', session[t].family = session[s].family
          PROVE  FALSE
      <3>1. Live(t) /\ t # s
        BY <1>1, <2>2 DEF Live
      <3> QED
        BY <1>1, <2>1, <2>2, <3>1 DEF Inv, OneLivePerFamily
    <2>3. ASSUME NEW t \in Issued, NEW u \in Issued, Live(t)', Live(u)',
                 session'[t].family = session'[u].family
          PROVE  t = u
      <3>1. Live(t) /\ Live(u)
        BY <1>1, <2>3 DEF Live
      <3> QED
        BY <1>1, <2>3, <3>1 DEF Inv, OneLivePerFamily
    <2>4. ASSUME NEW t \in Issued', NEW u \in Issued', Live(t)', Live(u)',
                 session'[t].family = session'[u].family
          PROVE  t = u
      BY <1>1, <1>2, <2>2, <2>3, <2>4
    <2> QED
      BY <2>4 DEF OneLivePerFamily
  <1> QED
    BY <1>3, <1>7, <1>8, <1>9

\* The end of a session's lifetime changes the column expired of its row.
LEMMA ExpireRows ==
    ASSUME TypeOK, NEW s \in Issued, session' = [session EXCEPT ![s].expired = TRUE]
    PROVE  /\ session' \in Seq(Row)
           /\ Len(session') = Len(session)
           /\ \A t \in Issued :
                 /\ session'[t].device = session[t].device
                 /\ session'[t].family = session[t].family
                 /\ session'[t].revoked = session[t].revoked
                 /\ t # s => session'[t] = session[t]
  <1> DEFINE row == [session[s] EXCEPT !.expired = TRUE]
  <1>1. session[s] \in Row /\ session \in Seq(Row)
    BY RowColumns DEF TypeOK
  <1>2. /\ row \in Row /\ row.device = session[s].device /\ row.family = session[s].family
        /\ row.revoked = session[s].revoked
    BY <1>1 DEF Row
  <1>3. session' = [session EXCEPT ![s] = row]
    OBVIOUS
  <1> HIDE DEF row
  <1>4. /\ session' \in Seq(Row) /\ Len(session') = Len(session)
        /\ session'[s] = row /\ \A t \in Issued \ {s} : session'[t] = session[t]
    <2>1. Len(session) \in Nat /\ session \in [1 .. Len(session) -> Row]
      BY <1>1
    <2>2. session' \in [1 .. Len(session) -> Row]
      BY <1>2, <1>3, <2>1
    <2> QED
      BY <1>3, <2>1, <2>2 DEF Issued
  <1> QED
    BY <1>2, <1>4

-----------------------------------------------------------------------------
(***************************************************************************)
(* Every action keeps the invariant.                                        *)
(***************************************************************************)

\* The table and the requests part of the invariant after a step.
Kept ==
    /\ session' \in Seq(Row) /\ Len(session') <= MaxSessions /\ Len(session) <= Len(session')
    /\ request' \in [Request -> Req]
    /\ \A q \in Request : RequestOK(q)'
    /\ Locks' /\ FamiliesInOrder' /\ OneLivePerFamily'

\* The lengths and rows the provers need in every action.
LEMMA Basics ==
    ASSUME Inv
    PROVE  /\ Len(session) \in 0 .. MaxSessions
           /\ Issued \subseteq SessionId
           /\ Issued = 1 .. Len(session)
           /\ session \in Seq(Row)
           /\ \A r \in Request : request[r] \in Req /\ RequestOK(r)
           /\ \A d \in Device : epoch[d] \in Nat
  BY SessionsAssumption DEF Inv, TypeOK, Issued, SessionId, References

\* The start of a transaction.
LEMMA BeginKeeps ==
    ASSUME Inv, session' = session, NEW r \in Request, NEW o \in Op \ {"idle", "reply"},
           NEW d \in Device, NEW s \in 0 .. Len(session), NEW S, S \subseteq Issued,
           Begin(r, o, d, s, S),
           o \in exchanging \cup {"passwordChecked", "password"} => s \in Issued,
           o \in {"rotate", "revokeFamily"} => ~Blocked(r, {s}),
           o = "rotate" => Usable(s)
    PROVE  /\ Kept
           /\ request'[r] = [op |-> o, device |-> d, sid |-> s, seen |-> S]
           /\ \A q \in Request \ {r} : request'[q] = request[q]
  <1> DEFINE q == [op |-> o, device |-> d, sid |-> s, seen |-> S]
  <1>1. Len(session) \in 0 .. MaxSessions /\ Issued \subseteq SessionId /\ session \in Seq(Row)
    BY Basics
  <1>2. q \in Req
    BY <1>1, SessionsAssumption DEF Req
  <1>3. q.op = o /\ q.device = d /\ q.sid = s /\ q.seen = S
    OBVIOUS
  <1>4. request' = [request EXCEPT ![r] = q]
    BY DEF Begin
  <1> HIDE DEF q
  <1>5. /\ request' \in [Request -> Req]
        /\ \A p \in Request : RequestOK(p)'
        /\ Locks' /\ FamiliesInOrder' /\ OneLivePerFamily'
    BY <1>2, <1>3, <1>4, ReadKeepsInv
  <1>6. request'[r] = q /\ \A p \in Request \ {r} : request'[p] = request[p]
    BY <1>4 DEF Inv, TypeOK
  <1> QED
    BY <1>1, <1>5, <1>6 DEF Kept, q

\* The ops that start on a session, and those that start on none.
onSession == {"refresh", "passwordChecked", "password"}
onDevice == {"login", "admitted", "deregister"} \cup registering

\* A transaction on a session starts.
LEMMA BeginOnSession ==
    ASSUME Inv, session' = session, NEW r \in Request, NEW o \in onSession,
           NEW d \in Device, NEW s \in Issued, NEW S, S \subseteq Issued,
           Begin(r, o, d, s, S)
    PROVE  /\ Kept
           /\ request'[r] = [op |-> o, device |-> d, sid |-> s, seen |-> S]
           /\ \A q \in Request \ {r} : request'[q] = request[q]
  <1>1. o \in Op \ {"idle", "reply"} /\ o \notin {"rotate", "revokeFamily"} /\ o # "rotate"
    BY DEF onSession, Op
  <1>2. s \in 0 .. Len(session)
    BY Basics
  <1> QED
    BY <1>1, <1>2, BeginKeeps

\* A transaction on a device starts.
LEMMA BeginOnDevice ==
    ASSUME Inv, session' = session, NEW r \in Request, NEW o \in onDevice,
           NEW d \in Device, NEW S, S \subseteq Issued,
           Begin(r, o, d, 0, S)
    PROVE  /\ Kept
           /\ request'[r] = [op |-> o, device |-> d, sid |-> 0, seen |-> S]
           /\ \A q \in Request \ {r} : request'[q] = request[q]
  <1>1. /\ o \in Op \ {"idle", "reply"} /\ o \notin {"rotate", "revokeFamily"} /\ o # "rotate"
        /\ o \notin exchanging \cup {"passwordChecked", "password"}
    BY DEF onDevice, Op, exchanging, registering
  <1>2. 0 \in 0 .. Len(session)
    BY Basics
  <1> QED
    BY <1>1, <1>2, BeginKeeps

\* The same for a transaction that has matched no rows yet.
LEMMA BeginEmpty ==
    ASSUME Inv, session' = session, NEW r \in Request, NEW d \in Device, NEW o
    PROVE  /\ o \in onDevice /\ Begin(r, o, d, 0, {}) =>
                 /\ Kept
                 /\ request'[r] = [op |-> o, device |-> d, sid |-> 0, seen |-> {}]
                 /\ \A q \in Request \ {r} : request'[q] = request[q]
           /\ \A s \in Issued : o \in onSession /\ Begin(r, o, d, s, {}) =>
                 /\ Kept
                 /\ request'[r] = [op |-> o, device |-> d, sid |-> s, seen |-> {}]
                 /\ \A q \in Request \ {r} : request'[q] = request[q]
  <1> DEFINE S == {}
  <1>1. S \subseteq Issued /\ S = {}
    OBVIOUS
  <1>2. ASSUME o \in onDevice, Begin(r, o, d, 0, S)
        PROVE  /\ Kept
               /\ request'[r] = [op |-> o, device |-> d, sid |-> 0, seen |-> S]
               /\ \A q \in Request \ {r} : request'[q] = request[q]
    <2> HIDE DEF S
    <2> QED
      BY <1>1, <1>2, BeginOnDevice
  <1>3. ASSUME NEW s \in Issued, o \in onSession, Begin(r, o, d, s, S)
        PROVE  /\ Kept
               /\ request'[r] = [op |-> o, device |-> d, sid |-> s, seen |-> S]
               /\ \A q \in Request \ {r} : request'[q] = request[q]
    <2> HIDE DEF S
    <2> QED
      BY <1>1, <1>3, BeginOnSession
  <1> QED
    BY <1>2, <1>3

\* The end of a transaction that wrote nothing.
LEMMA AnswerKeeps ==
    ASSUME Inv, session' = session, NEW r \in Request, request[r].op # "idle", Answer(r, 0)
    PROVE  Kept
  <1>1. Len(session) \in 0 .. MaxSessions /\ session \in Seq(Row) /\ RequestOK(r) /\ TypeOK
    BY Basics DEF Inv
  <1>2. /\ request' \in [Request -> Req]
        /\ \A q \in Request \ {r} : request'[q] = request[q]
        /\ \/ request'[r] = Idle
           \/ request'[r] = [op |-> "reply", device |-> request[r].device, sid |-> 0, seen |-> {}]
        /\ request[r].device \in Device
    BY <1>1, AnswerSettles, SessionsAssumption
  <1>3. \A q \in Request : Settled(q)
    BY <1>1, <1>2 DEF Settled
  <1>4. \A q \in Request : request'[q].op = "rotate" /\ request'[q] = request[q]
            => Usable(request[q].sid)'
    BY DEF Inv, Locks, Usable, Live
  <1>5. (\A q \in Request : RequestOK(q)') /\ Locks'
    BY <1>1, <1>3, <1>4, WriteKeepsRequests
  <1>6. FamiliesInOrder' /\ OneLivePerFamily'
    BY DEF Inv, FamiliesInOrder, OneLivePerFamily, Issued, Live
  <1> QED
    BY <1>1, <1>2, <1>5, <1>6 DEF Kept

\* A request leaves the server: the transaction of a revocation is over, or
\* the Agent has read the reply.
LEMMA ReleaseKeeps ==
    ASSUME Inv, session' = session, NEW r \in Request, request' = [request EXCEPT ![r] = Idle]
    PROVE  Kept
  <1>1. Len(session) \in 0 .. MaxSessions /\ session \in Seq(Row)
    BY Basics
  <1>2. Idle \in Req /\ Idle.op = "idle" /\ Idle.seen = {}
    BY SessionsAssumption DEF Idle, Req, Op
  <1>3. /\ request' \in [Request -> Req]
        /\ \A p \in Request : RequestOK(p)'
        /\ Locks' /\ FamiliesInOrder' /\ OneLivePerFamily'
    BY <1>2, ReadKeepsInv DEF exchanging
  <1> QED
    BY <1>1, <1>3 DEF Kept

\* The insertion of a session and the answer that carries its tokens.
LEMMA CreateKeeps ==
    ASSUME Inv, Room, NEW r \in Request, request[r].op # "idle", NEW e \in Nat,
           CreateSession(request[r].device, e), Answer(r, Len(session) + 1)
    PROVE  Kept
  <1> DEFINE n == Len(session) + 1
  <1>1. Len(session) \in 0 .. MaxSessions /\ RequestOK(r) /\ TypeOK /\ n \in 0 .. MaxSessions
    BY Basics, SessionsAssumption DEF Inv, Room
  <1>2. /\ request' \in [Request -> Req]
        /\ \A q \in Request \ {r} : request'[q] = request[q]
        /\ \/ request'[r] = Idle
           \/ request'[r] = [op |-> "reply", device |-> request[r].device, sid |-> n, seen |-> {}]
        /\ request[r].device \in Device
    <2> HIDE DEF n
    <2>1. Answer(r, n)
      BY DEF n
    <2> QED
      BY <1>1, <2>1, AnswerSettles
  <1>3. Len(session') = n
    BY <1>1 DEF CreateSession, TypeOK
  <1>4. \A q \in Request : Settled(q)
    BY <1>1, <1>2, <1>3 DEF Settled
  <1>5. /\ session' \in Seq(Row) /\ Len(session') <= MaxSessions
        /\ \A q \in Request : RequestOK(q)'
        /\ Locks' /\ FamiliesInOrder' /\ OneLivePerFamily'
    BY <1>2, <1>4, CreateKeepsInv
  <1> QED
    BY <1>1, <1>2, <1>3, <1>5 DEF Kept

\* A revocation that waited for the locks on its rows.
LEMMA RevokeKeeps ==
    ASSUME Inv, NEW r \in Request, request[r].op \notin {"idle", "rotate"},
           ~Blocked(r, request[r].seen), session' = Revoke(request[r].seen),
           Answer(r, 0) \/ request' = [request EXCEPT ![r] = Idle]
    PROVE  Kept
  <1>1. Len(session) \in 0 .. MaxSessions /\ RequestOK(r) /\ TypeOK /\ Issued = 1 .. Len(session)
    BY Basics DEF Inv
  <1>2. /\ request' \in [Request -> Req]
        /\ \A q \in Request \ {r} : request'[q] = request[q]
        /\ \/ request'[r] = Idle
           \/ request'[r] = [op |-> "reply", device |-> request[r].device, sid |-> 0, seen |-> {}]
        /\ request[r].device \in Device
    <2>1. CASE Answer(r, 0)
      BY <1>1, <2>1, AnswerSettles, SessionsAssumption
    <2>2. CASE request' = [request EXCEPT ![r] = Idle]
      <3>1. Idle \in Req /\ request[r].device \in Device
        BY <1>1, SessionsAssumption DEF Idle, Req, Op, RequestOK
      <3> QED
        BY <1>1, <2>2, <3>1 DEF TypeOK
    <2> QED
      BY <2>1, <2>2
  <1>3. Len(session') = Len(session)
    BY <1>1, RevokeRows
  <1>4. \A q \in Request : Settled(q)
    BY <1>1, <1>2, <1>3 DEF Settled
  <1>5. request[r].seen \in SUBSET Issued
    BY <1>1 DEF RequestOK
  <1>6. \A q \in Request : request'[q].op = "rotate" /\ request'[q] = request[q]
            => request[q].sid \notin request[r].seen
    <2> SUFFICES ASSUME NEW q \in Request, request'[q].op = "rotate", request'[q] = request[q]
                 PROVE  request[q].sid \notin request[r].seen
      OBVIOUS
    <2>1. q # r
      BY DEF Idle
    <2> QED
      BY <2>1 DEF Blocked, Holds
  <1>7. /\ session' \in Seq(Row)
        /\ \A q \in Request : RequestOK(q)'
        /\ Locks' /\ FamiliesInOrder' /\ OneLivePerFamily'
    BY <1>2, <1>4, <1>5, <1>6, RevokeKeepsInv
  <1> QED
    BY <1>1, <1>2, <1>3, <1>7 DEF Kept

\* The columns the table and the requests leave out.
SmallOK ==
    /\ account \in BOOLEAN
    /\ device \in [Device -> {"absent", "active", "deregistered"}]
    /\ agent \in [Agent -> [sid : 0 .. MaxSessions, call : Request \cup {NoCall}, refreshing : BOOLEAN]]
    /\ events \in 0 .. MaxEvents
    /\ epoch \in [Device -> Nat]
    /\ excused \in [Agent -> BOOLEAN]

\* Together with the two parts above they are the invariant.
LEMMA KeptSuffices ==
    ASSUME Kept, SmallOK', \A d \in Agent : agent'[d].sid \in 0 .. Len(session')
    PROVE  Inv'
  BY DEF Kept, SmallOK, Inv, TypeOK, References

\* What those columns are before a step.
LEMMA SmallBasics ==
    ASSUME Inv
    PROVE  SmallOK /\ \A d \in Agent : agent[d].sid \in 0 .. Len(session)
  BY DEF Inv, TypeOK, SmallOK, References

\* The table only grows, so an Agent's session stays in it.
LEMMA AgentRefsKept ==
    ASSUME Inv, Kept, agent' = agent
    PROVE  \A d \in Agent : agent'[d].sid \in 0 .. Len(session')
  BY Basics, SmallBasics DEF Kept

\* A bounded event counts.
LEMMA EventCounts ==
    ASSUME SmallOK, Event
    PROVE  events' \in 0 .. MaxEvents
  BY SessionsAssumption DEF SmallOK, Event

\* An excuse changes nothing but the excuses.
LEMMA ExcuseType ==
    ASSUME NEW S, Excuse(S)
    PROVE  excused' \in [Agent -> BOOLEAN]
  BY DEF Excuse

\* The Agent's call starts, and it keeps its tokens.
LEMMA AgentCallsType ==
    ASSUME SmallOK, NEW d \in Agent, NEW r \in Request, NEW b \in BOOLEAN, AgentCalls(d, r, b)
    PROVE  /\ agent' \in [Agent -> [sid : 0 .. MaxSessions, call : Request \cup {NoCall}, refreshing : BOOLEAN]]
           /\ \A e \in Agent : agent'[e].sid = agent[e].sid
           /\ \A e \in Agent \ {d} : agent'[e] = agent[e]
           /\ agent'[d].call = r /\ agent'[d].refreshing = b
           /\ agent[d].call = NoCall
  BY DEF SmallOK, AgentCalls

\* A request arrives.
LEMMA ArrivalKeepsInv ==
    ASSUME Inv, NEW r \in Request, Arrival(r)
    PROVE  Inv'
  <1>0. SmallOK /\ (\A d \in Agent : agent[d].sid \in 0 .. Len(session)) /\ Len(session) \in Nat
    BY SmallBasics, Basics
  <1>1. ASSUME NEW d \in Phone, Login(r, d) PROVE Inv'
    <2>1. Kept
      BY <1>0, <1>1, BeginEmpty DEF Login, Device, onDevice
    <2>2. SmallOK' /\ agent' = agent
      BY <1>0, <1>1 DEF Login, SmallOK
    <2> QED
      BY <2>1, <2>2, AgentRefsKept, KeptSuffices
  <1>2. ASSUME NEW d \in Device, EnrollDevice(r, d) PROVE Kept
    BY <1>0, <1>2, BeginEmpty DEF EnrollDevice, Admit, onDevice
  <1>3. ASSUME NEW d \in Device, DeregisterStart(r, d) PROVE Inv'
    <2>1. Kept
      <3> DEFINE S == {s \in Issued : session[s].device = d}
      <3>1. S \in SUBSET Issued /\ Begin(r, "deregister", d, 0, S) /\ session' = session
        BY <1>3 DEF DeregisterStart
      <3> HIDE DEF S
      <3> QED
        BY <1>0, <3>1, BeginOnDevice DEF onDevice
    <2>2. SmallOK' /\ agent' = agent
      BY <1>0, <1>3, EventCounts DEF DeregisterStart, SmallOK
    <2> QED
      BY <2>1, <2>2, AgentRefsKept, KeptSuffices
  <1>4. ASSUME NEW s \in Issued, PhoneRefresh(r, s) PROVE Inv'
    <2>1. Kept
      <3>1. session[s].device \in Device /\ s \in 0 .. Len(session)
        BY <1>0, <1>4, RowColumns DEF Inv, Issued
      <3> QED
        BY <1>4, <3>1, BeginEmpty DEF PhoneRefresh, onSession
    <2>2. SmallOK' /\ agent' = agent
      BY <1>0, <1>4 DEF PhoneRefresh, SmallOK
    <2> QED
      BY <2>1, <2>2, AgentRefsKept, KeptSuffices
  <1>5. ASSUME NEW s \in Issued, ChangePasswordCheck(r, s) PROVE Inv'
    <2>1. Kept
      <3>1. session[s].device \in Device /\ s \in 0 .. Len(session)
        BY <1>0, <1>5, RowColumns DEF Inv, Issued
      <3> QED
        BY <1>5, <3>1, BeginEmpty DEF ChangePasswordCheck, onSession
    <2>2. SmallOK' /\ agent' = agent
      BY <1>0, <1>5, EventCounts DEF ChangePasswordCheck, SmallOK
    <2> QED
      BY <2>1, <2>2, AgentRefsKept, KeptSuffices
  <1>6. ASSUME NEW d \in Phone, PhoneEnroll(r, d) PROVE Inv'
    <2>1. Kept
      BY <1>2, <1>6 DEF PhoneEnroll, Device
    <2>2. SmallOK' /\ agent' = agent
      BY <1>0, <1>6 DEF PhoneEnroll, EnrollDevice, Admit, SmallOK
    <2> QED
      BY <2>1, <2>2, AgentRefsKept, KeptSuffices
  <1>7. ASSUME NEW d \in Agent, Enroll(r, d) \/ Provision(r, d) PROVE Inv'
    <2>1. Kept
      BY <1>0, <1>7, BeginEmpty DEF Enroll, EnrollDevice, Provision, Admit, onDevice, Device
    <2>2. AgentCalls(d, r, FALSE)
      BY <1>7 DEF Enroll, Provision
    <2>3. SmallOK'
      BY <1>0, <1>7, <2>2, AgentCallsType DEF Enroll, EnrollDevice, Provision, Admit, SmallOK
    <2>4. \A e \in Agent : agent'[e].sid \in 0 .. Len(session')
      BY <1>0, <1>7, <2>2, AgentCallsType DEF Enroll, EnrollDevice, Provision, Admit
    <2> QED
      BY <2>1, <2>3, <2>4, KeptSuffices
  <1>8. ASSUME NEW d \in Agent, AgentRefresh(r, d) PROVE Inv'
    <2>1. agent[d].sid \in Issued /\ d \in Device
      BY <1>0, <1>8 DEF AgentRefresh, Issued, Device
    <2>2. Kept
      BY <1>0, <1>8, <2>1, BeginEmpty DEF AgentRefresh, onSession
    <2>3. AgentCalls(d, r, TRUE)
      BY <1>8 DEF AgentRefresh
    <2>4. SmallOK'
      BY <1>0, <1>8, <2>3, AgentCallsType DEF AgentRefresh, SmallOK
    <2>5. \A e \in Agent : agent'[e].sid \in 0 .. Len(session')
      BY <1>0, <1>8, <2>3, AgentCallsType DEF AgentRefresh
    <2> QED
      BY <2>2, <2>4, <2>5, KeptSuffices
  <1> QED
    BY <1>1, <1>3, <1>4, <1>5, <1>6, <1>7, <1>8 DEF Arrival

\* A request being served takes a step.
LEMMA ServerStepKeepsInv ==
    ASSUME Inv, NEW r \in Request, ServerStep(r)
    PROVE  Inv'
  <1> DEFINE s == request[r].sid
             d == request[r].device
  <1>0. SmallOK /\ Len(session) \in Nat /\ RequestOK(r) /\ TypeOK /\ \A e \in Device : epoch[e] \in Nat
    BY SmallBasics, Basics DEF Inv
  <1>1. CASE LoginCreate(r)
    <2>1. Kept
      <3>1. d \in Device /\ request[r].op # "idle" /\ epoch[d] \in Nat
        BY <1>0, <1>1 DEF LoginCreate, RequestOK
      <3> QED
        BY <1>1, <3>1, CreateKeeps DEF LoginCreate
    <2>2. SmallOK' /\ agent' = agent
      BY <1>0, <1>1 DEF LoginCreate, SmallOK
    <2> QED
      BY <2>1, <2>2, AgentRefsKept, KeptSuffices
  <1>2. CASE RegisterRead(r)
    <2>1. Kept
      <3>1. d \in Device /\ GetByPeerIDTx(d) \in onDevice /\ Begin(r, GetByPeerIDTx(d), d, 0, {}) /\ session' = session
        BY <1>0, <1>2 DEF RegisterRead, RequestOK, GetByPeerIDTx, onDevice, registering
      <3> QED
        BY <3>1, BeginEmpty
    <2>2. SmallOK' /\ agent' = agent
      BY <1>0, <1>2 DEF RegisterRead, SmallOK
    <2> QED
      BY <2>1, <2>2, AgentRefsKept, KeptSuffices
  <1>3. CASE RegisterDevice(r)
    <2>1. d \in Device /\ request[r].op # "idle"
      BY <1>0, <1>3 DEF RegisterDevice, RequestOK
    <2>2. device' \in [Device -> {"absent", "active", "deregistered"}] /\ epoch' \in [Device -> Nat]
      <3>1. CASE request[r].op = "registerAbsent" /\ CreateDevice(d) /\ UNCHANGED epoch
        BY <1>0, <2>1, <3>1 DEF CreateDevice, SmallOK
      <3>2. CASE request[r].op = "registerInactive" /\ ReactivateDevice(d)
        BY <1>0, <2>1, <3>2 DEF ReactivateDevice, SmallOK
      <3>3. CASE request[r].op = "registerActive" /\ UNCHANGED <<device, epoch>>
        BY <1>0, <3>3 DEF SmallOK
      <3> QED
        BY <1>3, <3>1, <3>2, <3>3 DEF RegisterDevice
    <2>3. Kept
      <3>1. Room /\ CreateSession(d, epoch'[d]) /\ Answer(r, Len(session) + 1) /\ epoch'[d] \in Nat
        BY <1>3, <2>1, <2>2 DEF RegisterDevice
      <3> QED
        BY <2>1, <3>1, CreateKeeps
    <2>4. SmallOK' /\ agent' = agent
      BY <1>0, <1>3, <2>2 DEF RegisterDevice, SmallOK
    <2> QED
      BY <2>3, <2>4, AgentRefsKept, KeptSuffices
  <1>4. CASE RotateRead(r) \/ DetectReplay(r)
    <2>1. s \in Issued /\ d \in Device /\ s \in 0 .. Len(session)
      BY <1>0, <1>4 DEF RotateRead, DetectReplay, RequestOK, exchanging, Issued
    <2>2. Kept
      <3>1. CASE RotateRead(r)
        <4> DEFINE S == {}
        <4>1. S \subseteq Issued /\ Begin(r, "rotate", d, s, S) /\ session' = session
              /\ ~Blocked(r, {s}) /\ Usable(s)
          BY <3>1 DEF RotateRead
        <4>2. "rotate" \in Op \ {"idle", "reply"}
          BY DEF Op
        <4> HIDE DEF S, s, d
        <4> QED
          BY <2>1, <4>1, <4>2, BeginKeeps
      <3>2. CASE DetectReplay(r)
        <4> DEFINE S == LiveFamily(session[s].family)
        <4>1. S \subseteq Issued /\ Begin(r, "revokeFamily", d, s, S) /\ session' = session
              /\ ~Blocked(r, {s})
          BY <3>2 DEF DetectReplay, LiveFamily
        <4>2. "revokeFamily" \in Op \ {"idle", "reply"} /\ "revokeFamily" # "rotate"
          BY DEF Op
        <4> HIDE DEF S, s, d
        <4> QED
          BY <2>1, <4>1, <4>2, BeginKeeps
      <3> QED
        BY <1>4, <3>1, <3>2
    <2>3. SmallOK' /\ agent' = agent
      BY <1>0, <1>4 DEF RotateRead, DetectReplay, SmallOK
    <2> QED
      BY <2>2, <2>3, AgentRefsKept, KeptSuffices
  <1>5. CASE RotateRefreshAtomically(r)
    <2>1. Kept
      BY <1>0, <1>5, RotateRows, RotateKeepsInv DEF Kept
    <2>2. SmallOK' /\ agent' = agent
      BY <1>0, <1>5 DEF RotateRefreshAtomically, SmallOK
    <2> QED
      BY <2>1, <2>2, AgentRefsKept, KeptSuffices
  <1>6. CASE RevokeFamily(r) \/ DeregisterDevice(r) \/ ChangePassword(r)
    <2>1. Kept
      BY <1>6, RevokeKeeps DEF RevokeFamily, DeregisterDevice, ChangePassword
    <2>2. agent' = agent /\ UNCHANGED <<account, events, epoch>>
      BY <1>6 DEF RevokeFamily, DeregisterDevice, ChangePassword
    <2>3. device' \in [Device -> {"absent", "active", "deregistered"}]
      BY <1>0, <1>6 DEF RevokeFamily, DeregisterDevice, ChangePassword, SmallOK
    <2>4. excused' \in [Agent -> BOOLEAN]
      <3>1. excused' = excused \/ Excuse({d}) \/ Excuse(Agent)
        BY <1>6 DEF RevokeFamily, DeregisterDevice, ChangePassword
      <3> QED
        BY <1>0, <3>1, ExcuseType DEF SmallOK
    <2>5. SmallOK'
      BY <1>0, <2>2, <2>3, <2>4 DEF SmallOK
    <2> QED
      BY <2>1, <2>2, <2>5, AgentRefsKept, KeptSuffices
  <1>7. CASE ChangePasswordStart(r)
    <2>1. Kept
      <3> DEFINE S == Issued \ {s}
      <3>1. /\ S \subseteq Issued /\ Begin(r, "password", d, s, S) /\ session' = session
            /\ s \in Issued /\ d \in Device /\ "password" \in onSession
        BY <1>0, <1>7 DEF ChangePasswordStart, RequestOK, onSession
      <3> HIDE DEF S, s, d
      <3> QED
        BY <3>1, BeginOnSession
    <2>2. SmallOK' /\ agent' = agent
      BY <1>0, <1>7 DEF ChangePasswordStart, SmallOK
    <2> QED
      BY <2>1, <2>2, AgentRefsKept, KeptSuffices
  <1>8. CASE Abort(r)
    <2>1. Kept
      BY <1>8, AnswerKeeps DEF Abort
    <2>2. SmallOK' /\ agent' = agent
      BY <1>0, <1>8 DEF Abort, SmallOK
    <2> QED
      BY <2>1, <2>2, AgentRefsKept, KeptSuffices
  <1> QED
    BY <1>1, <1>2, <1>3, <1>4, <1>5, <1>6, <1>7, <1>8 DEF ServerStep

\* The first account is created, or a session ends without a request in
\* progress.
LEMMA LoneStepKeepsInv ==
    ASSUME Inv,
           \/ \E d \in Phone : Bootstrap(d)
           \/ \E s \in Issued : Logout(s) \/ SessionExpires(s)
    PROVE  Inv'
  <1>0. SmallOK /\ Len(session) \in 0 .. MaxSessions /\ TypeOK /\ (\A e \in Device : epoch[e] \in Nat)
        /\ Issued = 1 .. Len(session)
    BY SmallBasics, Basics DEF Inv
  <1>1. ASSUME NEW d \in Phone, Bootstrap(d) PROVE Inv'
    <2>1. /\ Room /\ CreateSession(d, epoch[d]) /\ request' = request
          /\ d \in Device /\ epoch[d] \in Nat /\ request' \in [Request -> Req]
      BY <1>0, <1>1 DEF Bootstrap, Device, TypeOK
    <2>2. \A q \in Request : Settled(q)
      BY <2>1 DEF Settled
    <2>3. Kept
      BY <1>0, <2>1, <2>2, CreateKeepsInv DEF Kept
    <2>4. SmallOK' /\ agent' = agent
      BY <1>0, <1>1, <2>1 DEF Bootstrap, CreateUser, CreateDevice, SmallOK
    <2> QED
      BY <2>3, <2>4, AgentRefsKept, KeptSuffices
  <1>2. ASSUME NEW s \in Issued, Logout(s) PROVE Inv'
    <2> DEFINE S == {s}
    <2>1. /\ request' = request /\ session' = Revoke(S) /\ S \subseteq Issued
          /\ request' \in [Request -> Req]
          /\ \A q \in Request : ~Holds(q, s)
      BY <1>0, <1>2 DEF Logout, TypeOK
    <2>2. \A q \in Request : Settled(q)
      BY <2>1 DEF Settled
    <2>3. \A q \in Request : request'[q].op = "rotate" /\ request'[q] = request[q]
            => request[q].sid \notin S
      BY <2>1 DEF Holds
    <2>4. Kept
      <3> HIDE DEF S
      <3> QED
        BY <1>0, <2>1, <2>2, <2>3, RevokeKeepsInv DEF Kept
    <2>5. SmallOK' /\ agent' = agent
      BY <1>0, <1>2, ExcuseType, EventCounts DEF Logout, SmallOK
    <2> QED
      BY <2>4, <2>5, AgentRefsKept, KeptSuffices
  <1>3. ASSUME NEW s \in Issued, SessionExpires(s) PROVE Inv'
    <2>1. /\ request' = request /\ session' = [session EXCEPT ![s].expired = TRUE]
          /\ request' \in [Request -> Req]
          /\ \A q \in Request : ~Holds(q, s)
      BY <1>0, <1>3 DEF SessionExpires, TypeOK
    <2>2. \A q \in Request : Settled(q)
      BY <2>1 DEF Settled
    <2>3. /\ session' \in Seq(Row) /\ Len(session') = Len(session)
          /\ \A t \in Issued :
                /\ session'[t].family = session[t].family
                /\ session'[t].revoked = session[t].revoked
                /\ t # s => session'[t] = session[t]
      BY <1>0, <2>1, ExpireRows
    <2>4. Issued' = Issued
      BY <2>3 DEF Issued
    <2>5. \A q \in Request : request'[q].op = "rotate" /\ request'[q] = request[q]
            => Usable(request[q].sid)'
      <3> SUFFICES ASSUME NEW q \in Request, request[q].op = "rotate", request'[q] = request[q]
                   PROVE  Usable(request[q].sid)'
        OBVIOUS
      <3>1. request[q].sid \in Issued /\ Usable(request[q].sid) /\ request[q].sid # s
        BY <2>1 DEF Inv, Locks, References, RequestOK, exchanging, Holds
      <3> QED
        BY <2>3, <3>1 DEF Usable, Live
    <2>6. (\A q \in Request : RequestOK(q)') /\ Locks'
      BY <1>0, <2>2, <2>3, <2>5, WriteKeepsRequests
    <2>7. FamiliesInOrder' /\ OneLivePerFamily'
      BY <2>3, <2>4 DEF Inv, FamiliesInOrder, OneLivePerFamily, Live
    <2>8. Kept
      BY <1>0, <2>1, <2>3, <2>6, <2>7 DEF Kept
    <2>9. SmallOK' /\ agent' = agent
      BY <1>0, <1>3, ExcuseType, EventCounts DEF SessionExpires, SmallOK
    <2> QED
      BY <2>8, <2>9, AgentRefsKept, KeptSuffices
  <1> QED
    BY <1>1, <1>2, <1>3

\* What an Agent's step does to its settings, and to nobody else's.
LEMMA AgentStepRows ==
    ASSUME Inv, NEW d \in Agent, NEW s \in 0 .. MaxSessions,
           AgentGivesUp(d) \/ AgentEnrolled(d, s) \/ AgentRefreshed(d, s)
    PROVE  /\ agent[d].call \in Request
           /\ agent' \in [Agent -> [sid : 0 .. MaxSessions, call : Request \cup {NoCall}, refreshing : BOOLEAN]]
           /\ \A e \in Agent \ {d} : agent'[e] = agent[e]
           /\ agent'[d].call = NoCall /\ agent'[d].refreshing = FALSE
           /\ session' = session
           /\ request' = [request EXCEPT ![agent[d].call] = Idle] \/ request' = request
           /\ excused' \in [Agent -> BOOLEAN]
           /\ \A e \in Agent \ {d} : excused'[e] = excused[e]
           /\ AgentGivesUp(d) \/ s = 0 => agent'[d].sid = agent[d].sid
           /\ ~AgentGivesUp(d) /\ s # 0 => agent'[d].sid = s /\ s = request[agent[d].call].sid
           /\ ~AgentGivesUp(d) => /\ request[agent[d].call].op = "reply"
                                  /\ request[agent[d].call].sid = s
                                  /\ request' = [request EXCEPT ![agent[d].call] = Idle]
  <1>0. SmallOK
    BY SmallBasics
  <1>1. CASE AgentGivesUp(d)
    <2>1. /\ agent[d].call \in Request /\ session' = session
          /\ request' = [request EXCEPT ![agent[d].call] = Idle] \/ request' = request
      BY <1>0, <1>1 DEF AgentGivesUp, SmallOK
    <2>2. agent' = [agent EXCEPT ![d].call = NoCall, ![d].refreshing = FALSE]
      BY <1>1 DEF AgentGivesUp
    <2>3. /\ agent' \in [Agent -> [sid : 0 .. MaxSessions, call : Request \cup {NoCall}, refreshing : BOOLEAN]]
          /\ \A e \in Agent \ {d} : agent'[e] = agent[e]
          /\ agent'[d].call = NoCall /\ agent'[d].refreshing = FALSE
          /\ agent'[d].sid = agent[d].sid
      BY <1>0, <2>2 DEF SmallOK
    <2>4. excused' \in [Agent -> BOOLEAN] /\ \A e \in Agent \ {d} : excused'[e] = excused[e]
      <3> DEFINE b == excused[d] \/ agent[d].refreshing
      <3>1. b \in BOOLEAN /\ excused' = [excused EXCEPT ![d] = b]
        BY <1>0, <1>1 DEF AgentGivesUp, SmallOK
      <3> HIDE DEF b
      <3> QED
        BY <1>0, <3>1 DEF SmallOK
    <2> QED
      BY <1>1, <2>1, <2>3, <2>4
  <1>2. CASE AgentEnrolled(d, s) \/ AgentRefreshed(d, s)
    <2>1. Reply(d, s) /\ Store(d, s)
      BY <1>2 DEF AgentEnrolled, AgentRefreshed
    <2>2. /\ agent[d].call \in Request /\ session' = session
          /\ request' = [request EXCEPT ![agent[d].call] = Idle]
          /\ request[agent[d].call].op = "reply" /\ request[agent[d].call].sid = s
      BY <1>0, <2>1 DEF Reply, Store, SmallOK
    <2>3. agent' = [agent EXCEPT ![d] =
                [sid |-> IF s = 0 THEN agent[d].sid ELSE s, call |-> NoCall, refreshing |-> FALSE]]
      BY <2>1 DEF Store
    <2>4. /\ agent' \in [Agent -> [sid : 0 .. MaxSessions, call : Request \cup {NoCall}, refreshing : BOOLEAN]]
          /\ \A e \in Agent \ {d} : agent'[e] = agent[e]
          /\ agent'[d].call = NoCall /\ agent'[d].refreshing = FALSE
          /\ agent'[d].sid = IF s = 0 THEN agent[d].sid ELSE s
      BY <1>0, <2>3 DEF SmallOK
    <2>5. excused' \in [Agent -> BOOLEAN] /\ \A e \in Agent \ {d} : excused'[e] = excused[e]
      <3> DEFINE b == IF s = 0 THEN excused[d] ELSE ~Usable(s)
      <3>1. b \in BOOLEAN
        BY <1>0 DEF SmallOK
      <3>2. excused' = excused \/ excused' = [excused EXCEPT ![d] = b]
        BY <1>0, <1>2 DEF AgentEnrolled, AgentRefreshed, SmallOK
      <3> HIDE DEF b
      <3> QED
        BY <1>0, <3>1, <3>2 DEF SmallOK
    <2>6. ~AgentGivesUp(d) \/ s = 0 => agent'[d].sid = IF s = 0 THEN agent[d].sid ELSE s
      BY <2>4
    <2>7. AgentGivesUp(d) => agent'[d].sid = agent[d].sid
      BY <1>0 DEF AgentGivesUp, SmallOK
    <2> QED
      BY <2>2, <2>4, <2>5, <2>7
  <1> QED
    BY <1>1, <1>2

\* An Agent takes the reply to its call, or gives the call up.
LEMMA AgentStepKeepsInv ==
    ASSUME Inv, NEW d \in Agent, NEW s \in 0 .. MaxSessions,
           AgentGivesUp(d) \/ AgentEnrolled(d, s) \/ AgentRefreshed(d, s)
    PROVE  Inv'
  <1>0. /\ SmallOK /\ Len(session) \in 0 .. MaxSessions /\ (\A e \in Agent : agent[e].sid \in 0 .. Len(session))
        /\ \A r \in Request : RequestOK(r)
    BY SmallBasics, Basics
  <1>1. /\ agent[d].call \in Request
        /\ \A e \in Agent \ {d} : agent'[e] = agent[e]
        /\ session' = session
        /\ request' = [request EXCEPT ![agent[d].call] = Idle] \/ request' = request
        /\ AgentGivesUp(d) \/ s = 0 => agent'[d].sid = agent[d].sid
        /\ ~AgentGivesUp(d) /\ s # 0 => agent'[d].sid = s
        /\ ~AgentGivesUp(d) => /\ request[agent[d].call].op = "reply"
                               /\ request[agent[d].call].sid = s
    BY AgentStepRows
  <1>2. Kept
    <2>1. CASE request' = [request EXCEPT ![agent[d].call] = Idle]
      BY <1>1, <2>1, ReleaseKeeps
    <2>2. CASE request' = request
      BY <1>0, <1>1, <2>2
         DEF Inv, Kept, TypeOK, References, RequestOK, Locks, FamiliesInOrder, OneLivePerFamily, Holds, Usable, Live, Issued
    <2> QED
      BY <1>1, <2>1, <2>2
  <1>3. SmallOK'
    <2>1. UNCHANGED <<account, device, epoch>> /\ events' \in 0 .. MaxEvents
      BY <1>0, EventCounts DEF AgentGivesUp, AgentEnrolled, AgentRefreshed, Store, SmallOK
    <2> QED
      BY <1>0, <2>1, AgentStepRows DEF SmallOK
  <1>4. \A e \in Agent : agent'[e].sid \in 0 .. Len(session')
    <2>1. ~AgentGivesUp(d) => s \in 0 .. Len(session)
      BY <1>0, <1>1 DEF RequestOK
    <2> QED
      BY <1>0, <1>1, <2>1
  <1> QED
    BY <1>2, <1>3, <1>4, KeptSuffices

\* The empty database satisfies the invariant.
LEMMA InitInv == Init => Inv
  <1> SUFFICES ASSUME Init PROVE Inv
    OBVIOUS
  <1>1. Idle \in Req /\ Idle.op = "idle" /\ Idle.seen = {}
    BY SessionsAssumption DEF Idle, Req, Op
  <1>2. Len(session) = 0 /\ Issued = {}
    BY DEF Init, Issued
  <1>3. TypeOK
    <2>1. session \in Seq(Row) /\ Len(session) <= MaxSessions
      BY <1>2, SessionsAssumption DEF Init
    <2>2. agent \in [Agent -> [sid : 0 .. MaxSessions, call : Request \cup {NoCall}, refreshing : BOOLEAN]]
      BY SessionsAssumption DEF Init
    <2>3. request \in [Request -> Req]
      BY <1>1 DEF Init
    <2>4. excused \in [Agent -> BOOLEAN] /\ account \in BOOLEAN
      BY DEF Init
    <2>5. /\ device \in [Device -> {"absent", "active", "deregistered"}]
          /\ events \in 0 .. MaxEvents /\ epoch \in [Device -> Nat]
      BY SessionsAssumption DEF Init
    <2> QED
      BY <2>1, <2>2, <2>3, <2>4, <2>5 DEF TypeOK
  <1>4. References
    BY <1>1, <1>2 DEF Init, References, RequestOK, exchanging
  <1>5. Locks /\ FamiliesInOrder /\ OneLivePerFamily
    BY <1>1, <1>2 DEF Init, Locks, FamiliesInOrder, OneLivePerFamily
  <1> QED
    BY <1>3, <1>4, <1>5 DEF Inv

\* Every step keeps the invariant.
LEMMA NextInv == Inv /\ [Next]_vars => Inv'
  <1> SUFFICES ASSUME Inv, [Next]_vars PROVE Inv'
    OBVIOUS
  <1>1. CASE \E r \in Request : Arrival(r) \/ ServerStep(r)
    BY <1>1, ArrivalKeepsInv, ServerStepKeepsInv
  <1>2. CASE \/ \E d \in Phone : Bootstrap(d)
             \/ \E s \in Issued : Logout(s) \/ SessionExpires(s)
    BY <1>2, LoneStepKeepsInv
  <1>3. CASE \E d \in Agent : AgentGivesUp(d) \/ \E s \in 0 .. MaxSessions : AgentEnrolled(d, s) \/ AgentRefreshed(d, s)
    <2>1. 0 \in 0 .. MaxSessions
      BY SessionsAssumption
    <2> QED
      BY <1>3, <2>1, AgentStepKeepsInv
  <1>4. CASE UNCHANGED vars
    BY <1>4 DEF vars, Inv, TypeOK, References, RequestOK, Locks, FamiliesInOrder, OneLivePerFamily,
                Holds, Usable, Live, Issued
  <1> QED
    BY <1>1, <1>2, <1>3, <1>4 DEF Next

\* The invariant holds in every reachable state.
LEMMA SpecInv == Spec => []Inv
  BY InitInv, NextInv, PTL DEF Spec

\* Every reachable state is typed: tables, requests in progress and the
\* Agents' settings.
THEOREM SessionsTyped == Spec => []TypeOK
  <1>1. Inv => TypeOK
    BY DEF Inv
  <1> QED
    BY <1>1, SpecInv, PTL

\* However requests with one refresh token overlap, its family has at most
\* one session that is not revoked (RotateRefreshAtomically).
THEOREM FamilySafe == Spec => []OneLivePerFamily
  <1>1. Inv => OneLivePerFamily
    BY DEF Inv
  <1> QED
    BY <1>1, SpecInv, PTL

\* The five ways in which a step writes sessions.
LEMMA TableStep ==
    ASSUME Inv, Next
    PROVE  \/ session' = session
           \/ /\ Room
              /\ \E d \in Device : \E e \in Nat : CreateSession(d, e)
           \/ \E r \in Request : RotateRefreshAtomically(r)
           \/ \E S : session' = Revoke(S)
           \/ \E s \in Issued : session' = [session EXCEPT ![s].expired = TRUE]
  <1>0. Inv'
    BY NextInv
  <1>1. ASSUME NEW d \in Phone, Bootstrap(d)
        PROVE  Room /\ \E x \in Device : \E e \in Nat : CreateSession(x, e)
    <2>1. d \in Device /\ epoch[d] \in Nat
      BY Basics DEF Device
    <2> QED
      BY <1>1, <2>1 DEF Bootstrap
  <1>2. ASSUME NEW r \in Request, LoginCreate(r) \/ RegisterDevice(r)
        PROVE  Room /\ \E x \in Device : \E e \in Nat : CreateSession(x, e)
    <2>1. request[r].device \in Device
      BY <1>2, Basics DEF LoginCreate, RegisterDevice, RequestOK
    <2>2. epoch[request[r].device] \in Nat /\ epoch'[request[r].device] \in Nat
      BY <1>0, <2>1 DEF Inv, TypeOK
    <2> QED
      BY <1>2, <2>1, <2>2 DEF LoginCreate, RegisterDevice
  <1>3. ASSUME NEW r \in Request, Arrival(r)
        PROVE  session' = session
    BY <1>3 DEF Arrival, Login, PhoneEnroll, EnrollDevice, Admit, DeregisterStart, Enroll, Provision,
                AgentRefresh, PhoneRefresh, ChangePasswordCheck
  <1>4. ASSUME NEW r \in Request,
               RegisterRead(r) \/ RotateRead(r) \/ DetectReplay(r) \/ ChangePasswordStart(r) \/ Abort(r)
        PROVE  session' = session
    BY <1>4 DEF RegisterRead, RotateRead, DetectReplay, ChangePasswordStart, Abort
  <1>5. ASSUME NEW r \in Request, RevokeFamily(r) \/ DeregisterDevice(r) \/ ChangePassword(r)
        PROVE  \E S : session' = Revoke(S)
    BY <1>5 DEF RevokeFamily, DeregisterDevice, ChangePassword
  <1>6. ASSUME NEW s \in Issued, Logout(s)
        PROVE  \E S : session' = Revoke(S)
    BY <1>6 DEF Logout
  <1>7. ASSUME NEW s \in Issued, SessionExpires(s)
        PROVE  session' = [session EXCEPT ![s].expired = TRUE]
    BY <1>7 DEF SessionExpires
  <1>8. ASSUME NEW d \in Agent, NEW s \in 0 .. MaxSessions,
               AgentGivesUp(d) \/ AgentEnrolled(d, s) \/ AgentRefreshed(d, s)
        PROVE  session' = session
    BY <1>8 DEF AgentGivesUp, AgentEnrolled, AgentRefreshed, Store
  <1>9. 0 \in 0 .. MaxSessions
    BY SessionsAssumption
  <1>10. CASE \E d \in Phone : Bootstrap(d)
    BY <1>1, <1>10
  <1>11. CASE \E s \in Issued : Logout(s) \/ SessionExpires(s)
    BY <1>6, <1>7, <1>11
  <1>12. CASE \E d \in Agent : AgentGivesUp(d) \/ \E s \in 0 .. MaxSessions : AgentEnrolled(d, s) \/ AgentRefreshed(d, s)
    BY <1>8, <1>9, <1>12
  <1>13. CASE \E r \in Request : Arrival(r) \/ ServerStep(r)
    <2>1. PICK r \in Request : Arrival(r) \/ ServerStep(r)
      BY <1>13
    <2> QED
      BY <1>2, <1>3, <1>4, <1>5, <2>1 DEF ServerStep
  <1> QED
    BY <1>10, <1>11, <1>12, <1>13 DEF Next

\* A family that has lost its last session never gets another: no
\* interleaving of rotation with logout, deregistration, password change or
\* replay detection revives it.
THEOREM DeadFamilySafe == Spec => DeadFamilyStaysDead
  <1> DEFINE Dead(f) == \A s \in Issued : session[s].family = f => ~Live(s)
  <1>1. ASSUME Inv, Next, NEW f \in Issued, LiveFamily(f) = {}
        PROVE  LiveFamily(f)' = {}
    <2>1. Dead(f)
      BY <1>1 DEF LiveFamily
    <2>2. Len(session) \in Nat /\ Issued = 1 .. Len(session) /\ TypeOK
      BY <1>1, Basics DEF Inv
    <2> SUFFICES Dead(f)'
      BY DEF LiveFamily
    <2>3. CASE session' = session
      BY <2>1, <2>3 DEF Issued, Live
    <2>4. CASE Room /\ \E d \in Device : \E e \in Nat : CreateSession(d, e)
      <3>1. PICK d \in Device, e \in Nat : CreateSession(d, e)
        BY <2>4
      <3> DEFINE row == [device |-> d, family |-> Len(session) + 1, revoked |-> FALSE,
                         expired |-> FALSE, epoch |-> e]
      <3>2. row \in Row
        BY <1>1, <2>2, <2>4, SessionsAssumption DEF Row, Room, SessionId
      <3>3. row.family = Len(session) + 1
        OBVIOUS
      <3>4. session' = Append(session, row)
        BY <3>1 DEF CreateSession
      <3> HIDE DEF row
      <3>5. /\ Len(session') = Len(session) + 1
            /\ \A s \in Issued : session'[s] = session[s]
            /\ session'[Len(session) + 1] = row
        BY <2>2, <3>2, <3>4, AppendRow DEF TypeOK
      <3>6. f # session'[Len(session) + 1].family
        BY <1>1, <2>2, <3>3, <3>5
      <3> QED
        BY <2>1, <2>2, <3>5, <3>6 DEF Live, Issued
    <2>5. CASE \E r \in Request : RotateRefreshAtomically(r)
      <3>1. PICK r \in Request : RotateRefreshAtomically(r)
        BY <2>5
      <3> DEFINE s == request[r].sid
      <3>2. s \in Issued /\ Live(s)
        BY <1>1, <3>1, RotateRows DEF Inv, Locks, Usable, RotateRefreshAtomically
      <3>3. session[s].family # f
        BY <2>1, <3>2
      <3> QED
        BY <1>1, <2>1, <2>2, <3>1, <3>3, RotateRows DEF Live, Issued
    <2>6. CASE \E S : session' = Revoke(S)
      BY <1>1, <2>1, <2>2, <2>6, RevokeRows DEF Live, Issued
    <2>7. CASE \E s \in Issued : session' = [session EXCEPT ![s].expired = TRUE]
      <3>1. PICK s \in Issued : session' = [session EXCEPT ![s].expired = TRUE]
        BY <2>7
      <3>2. /\ Len(session') = Len(session)
            /\ \A t \in Issued :
                  /\ session'[t].family = session[t].family
                  /\ session'[t].revoked = session[t].revoked
        BY <2>2, <3>1, ExpireRows
      <3> QED
        BY <2>1, <2>2, <3>2 DEF Live, Issued
    <2> QED
      BY <1>1, <2>3, <2>4, <2>5, <2>6, <2>7, TableStep
  <1>2. Inv /\ [Next]_vars => [\A f \in Issued : LiveFamily(f) = {} => LiveFamily(f)' = {}]_vars
    BY <1>1
  <1> QED
    BY <1>2, SpecInv, PTL DEF Spec, DeadFamilyStaysDead

-----------------------------------------------------------------------------
(***************************************************************************)
(* What an Agent may count on.                                              *)
(***************************************************************************)

\* What an Agent holds or is granted exists and is its own.
LEMMA OwnSessions ==
    ASSUME AgentInv, NEW d \in Agent
    PROVE  /\ agent[d].call \in Request \cup {NoCall}
           /\ agent[d].refreshing \in BOOLEAN
           /\ excused[d] \in BOOLEAN
           /\ agent[d].sid # 0 => agent[d].sid \in Issued /\ session[agent[d].sid].device = d
           /\ Granted(d) => /\ agent[d].call \in Request
                            /\ Grant(d) \in Issued
                            /\ session[Grant(d)].device = d
  <1>1. /\ SmallOK /\ (\A r \in Request : RequestOK(r)) /\ Issued = 1 .. Len(session)
        /\ agent[d].sid \in 0 .. Len(session) /\ Len(session) \in Nat
    BY Basics, SmallBasics DEF AgentInv
  <1>2. /\ agent[d].call \in Request \cup {NoCall} /\ agent[d].refreshing \in BOOLEAN
        /\ excused[d] \in BOOLEAN
    BY <1>1 DEF SmallOK
  <1>3. agent[d].sid # 0 => agent[d].sid \in Issued /\ session[agent[d].sid].device = d
    BY <1>1 DEF AgentInv, Ownership
  <1>4. ASSUME Granted(d)
        PROVE  agent[d].call \in Request /\ Grant(d) \in Issued /\ session[Grant(d)].device = d
    <2>1. agent[d].call \in Request /\ request[agent[d].call].op = "reply" /\ Grant(d) # 0
      BY <1>2, <1>4 DEF Granted, Grant
    <2>2. request[agent[d].call].device = d
      BY <1>4 DEF AgentInv, Calls, CallOK, Granted
    <2>3. Grant(d) \in 0 .. Len(session)
      BY <1>1, <2>1 DEF RequestOK, Grant
    <2> QED
      BY <1>1, <2>1, <2>2, <2>3 DEF AgentInv, Ownership, Grant
  <1> QED
    BY <1>2, <1>3, <1>4

\* A row of another device belongs to another family.
LEMMA OtherFamily ==
    ASSUME Ownership, NEW s \in Issued, NEW t \in Issued, session[s].device # session[t].device
    PROVE  session[s].family # session[t].family
  BY DEF Ownership

\* One request moves on, or a new one that belongs to no Agent arrives, and
\* nothing else changes.
LEMMA RequestMoves ==
    ASSUME AgentInv, session' = session, agent' = agent, excused' = excused,
           NEW r \in Request, request[r].op # "reply",
           \A p \in Request \ {r} : request'[p] = request[p],
           \A d \in Agent : agent[d].call = r => CallOK(d)',
           request'[r].op = "reply" => request'[r].sid = 0,
           request'[r].op \in exchanging =>
               /\ request'[r].sid \in Issued
               /\ session[request'[r].sid].device = request'[r].device
               /\ \/ session[request'[r].sid].device \in Phone
                  \/ /\ request[r].op \in exchanging
                     /\ request[r].sid = request'[r].sid
                     /\ request'[r].op = "revokeFamily" => ~Usable(request'[r].sid),
           request'[r].op = "revokeFamily" =>
               \A t \in request'[r].seen : session[t].family = session[request'[r].sid].family,
           request'[r].op = "deregister" =>
               \A t \in request'[r].seen : session[t].device = request'[r].device
    PROVE  Calls' /\ Ownership' /\ GrantIsFresh' /\ AgentsHealthy'
  <1>0. Issued' = Issued
    BY DEF Issued
  <1>1. Calls'
    <2>1. ASSUME NEW d \in Agent PROVE CallOK(d)'
      <3>1. agent[d].call \in Request \cup {NoCall}
        BY OwnSessions
      <3>2. CASE agent[d].call = r
        BY <3>2
      <3>3. CASE agent[d].call # r
        BY <3>1, <3>3 DEF AgentInv, Calls, CallOK
      <3> QED
        BY <3>2, <3>3
    <2> QED
      BY <2>1 DEF AgentInv, Calls
  <1>2. Ownership'
    <2>1. ASSUME NEW p \in Request
          PROVE  /\ request'[p].op \in exchanging => session'[request'[p].sid].device = request'[p].device
                 /\ request'[p].op = "reply" /\ request'[p].sid # 0
                       => session'[request'[p].sid].device = request'[p].device
                 /\ request'[p].op = "revokeFamily"
                       => \A t \in request'[p].seen : session'[t].family = session'[request'[p].sid].family
                 /\ request'[p].op = "deregister"
                       => \A t \in request'[p].seen : session'[t].device = request'[p].device
      <3>1. CASE p = r
        BY <3>1
      <3>2. CASE p # r
        BY <3>2 DEF AgentInv, Ownership
      <3> QED
        BY <3>1, <3>2
    <2> QED
      BY <1>0, <2>1 DEF AgentInv, Ownership
  <1>3. ASSUME NEW d \in Agent
        PROVE  /\ Granted(d)' <=> Granted(d)
               /\ Granted(d) => Grant(d)' = Grant(d)
    BY OwnSessions DEF Granted, Grant
  <1>4. ASSUME NEW d \in Agent, NEW s \in Issued, session[s].device = d,
               NEW p \in Request, Exchanges(p, session[s].family)'
        PROVE  /\ Exchanges(p, session[s].family)
               /\ request'[p].sid = request[p].sid
               /\ request'[p].op = "revokeFamily" => request[p].op = "revokeFamily" \/ ~Usable(request[p].sid)
    <2>1. CASE p # r
      BY <1>4, <2>1 DEF Exchanges
    <2>2. CASE p = r
      <3>1. request'[r].op \in exchanging /\ session[request'[r].sid].family = session[s].family
        BY <1>4, <2>2 DEF Exchanges
      <3>2. session[request'[r].sid].device = d
        BY <1>4, <3>1 DEF AgentInv, Ownership
      <3>3. d \notin Phone
        BY SessionsAssumption
      <3> QED
        BY <2>2, <3>1, <3>2, <3>3 DEF Exchanges
    <2> QED
      BY <2>1, <2>2
  <1>5. GrantIsFresh'
    <2> SUFFICES ASSUME NEW d \in Agent, Granted(d)', ~agent[d].refreshing,
                        NEW p \in Request, Exchanges(p, session[Grant(d)].family)'
                 PROVE  FALSE
      BY DEF GrantIsFresh
    <2>1. Granted(d) /\ Grant(d)' = Grant(d) /\ Grant(d) \in Issued /\ session[Grant(d)].device = d
      BY <1>3, OwnSessions
    <2> DEFINE g == Grant(d)
    <2>2. Exchanges(p, session[g].family)
      <3>1. \E s \in Issued : s = g
        BY <2>1
      <3>2. PICK s \in Issued : s = g
        BY <3>1
      <3>3. Exchanges(p, session[s].family)'
        BY <2>1, <3>2 DEF Exchanges
      <3> QED
        BY <1>4, <2>1, <3>2, <3>3
    <2> QED
      BY <2>1, <2>2 DEF AgentInv, GrantIsFresh
  <1>6. AgentsHealthy'
    <2> SUFFICES ASSUME NEW d \in Agent, agent[d].sid # 0, ~excused[d]
                 PROVE  Healthy(d)'
      BY DEF AgentsHealthy
    <2>1. Healthy(d) /\ agent[d].sid \in Issued /\ session[agent[d].sid].device = d
      BY OwnSessions DEF AgentInv, AgentsHealthy
    <2>2. IF (Granted(d) /\ agent[d].refreshing)'
          THEN (Usable(Grant(d)) /\ session[Grant(d)].family = session[agent[d].sid].family)'
          ELSE Usable(agent[d].sid)'
      BY <1>3, <2>1 DEF Healthy, Usable, Live
    <2>3. ASSUME NEW p \in Request, Exchanges(p, session[agent[d].sid].family)'
          PROVE  p = agent[d].call /\ request'[p].op # "revokeFamily" /\ request'[p].sid = agent[d].sid
      <3>1. PICK s \in Issued : s = agent[d].sid
        BY <2>1
      <3>2. Exchanges(p, session[s].family)'
        BY <2>3, <3>1 DEF Exchanges
      <3>3. /\ Exchanges(p, session[s].family)
            /\ request'[p].sid = request[p].sid
            /\ request'[p].op = "revokeFamily" => request[p].op = "revokeFamily" \/ ~Usable(request[p].sid)
        BY <1>4, <2>1, <3>1, <3>2
      <3>4. p = agent[d].call /\ request[p].op # "revokeFamily" /\ request[p].sid = agent[d].sid
        BY <2>1, <3>1, <3>3 DEF Healthy
      <3>5. ~Granted(d)
        BY <3>3, <3>4 DEF Granted, Exchanges, exchanging
      <3>6. Usable(request[p].sid)
        BY <2>1, <3>4, <3>5 DEF Healthy
      <3> QED
        BY <3>3, <3>4, <3>6
    <2> QED
      BY <2>2, <2>3 DEF Healthy
  <1> QED
    BY <1>1, <1>2, <1>5, <1>6

\* An Agent starts a call: an enrolment, or an exchange of the token it holds.
LEMMA CallStarts ==
    ASSUME AgentInv, session' = session, excused' = excused,
           NEW r \in Request, NEW d \in Agent, NEW b \in BOOLEAN,
           Free(r), AgentCalls(d, r, b),
           \A p \in Request \ {r} : request'[p] = request[p],
           request'[r].device = d,
           \/ request'[r].op = "admitted" /\ b = FALSE
           \/ request'[r].op = "refresh" /\ b = TRUE /\ request'[r].sid = agent[d].sid /\ agent[d].sid # 0
    PROVE  Calls' /\ Ownership' /\ GrantIsFresh' /\ AgentsHealthy'
  <1>0. Issued' = Issued /\ request[r].op = "idle" /\ NoCall \notin Request /\ SmallOK
    BY SessionsAssumption, SmallBasics DEF Issued, Free, Idle, AgentInv
  <1>1. /\ \A e \in Agent : agent'[e].sid = agent[e].sid
        /\ \A e \in Agent \ {d} : agent'[e] = agent[e]
        /\ agent'[d].call = r /\ agent'[d].refreshing = b
        /\ agent[d].call = NoCall
    BY <1>0, AgentCallsType
  <1>2. ASSUME NEW e \in Agent PROVE agent[e].call # r
    BY <1>0 DEF AgentInv, Calls, CallOK, exchanging, registering
  <1>3. Calls'
    <2>1. ASSUME NEW e \in Agent PROVE CallOK(e)'
      <3>1. CASE e = d
        BY <1>1, <3>1 DEF CallOK, exchanging, registering
      <3>2. CASE e # d
        <4>1. agent'[e] = agent[e] /\ agent[e].call \in Request \cup {NoCall} /\ agent[e].call # r
          BY <1>1, <1>2, <3>2, OwnSessions
        <4> QED
          BY <4>1 DEF AgentInv, Calls, CallOK
      <3> QED
        BY <3>1, <3>2
    <2>2. ASSUME NEW e \in Agent, NEW f \in Agent, agent'[e].call = agent'[f].call, agent'[e].call # NoCall
          PROVE  e = f
      BY <1>1, <1>2, <2>2 DEF AgentInv, Calls
    <2> QED
      BY <2>1, <2>2 DEF Calls
  <1>4. Ownership'
    <2>1. request'[r].op \in exchanging => session[request'[r].sid].device = d
      BY OwnSessions DEF exchanging
    <2>2. ASSUME NEW p \in Request
          PROVE  /\ request'[p].op \in exchanging => session'[request'[p].sid].device = request'[p].device
                 /\ request'[p].op = "reply" /\ request'[p].sid # 0
                       => session'[request'[p].sid].device = request'[p].device
                 /\ request'[p].op = "revokeFamily"
                       => \A t \in request'[p].seen : session'[t].family = session'[request'[p].sid].family
                 /\ request'[p].op = "deregister"
                       => \A t \in request'[p].seen : session'[t].device = request'[p].device
      <3>1. CASE p = r
        BY <2>1, <3>1
      <3>2. CASE p # r
        BY <3>2 DEF AgentInv, Ownership
      <3> QED
        BY <3>1, <3>2
    <2> QED
      BY <1>0, <1>1, <2>2 DEF AgentInv, Ownership
  <1>5. ASSUME NEW e \in Agent \ {d}
        PROVE  /\ Granted(e)' <=> Granted(e)
               /\ Granted(e) => Grant(e)' = Grant(e)
    <2>1. agent'[e] = agent[e] /\ agent[e].call \in Request \cup {NoCall} /\ agent[e].call # r
      BY <1>1, <1>2, OwnSessions
    <2> QED
      BY <2>1 DEF Granted, Grant
  <1>6. ~Granted(d) /\ ~Granted(d)'
    BY <1>1 DEF Granted
  <1>7. ASSUME NEW e \in Agent \ {d}, NEW s \in Issued, session[s].device = e,
               NEW p \in Request, Exchanges(p, session[s].family)'
        PROVE  p # r /\ Exchanges(p, session[s].family)
    <2>1. CASE p # r
      BY <1>7, <2>1 DEF Exchanges
    <2>2. CASE p = r
      <3>1. request'[r].sid \in Issued /\ session[request'[r].sid].device = d
        BY <1>7, <2>2, OwnSessions DEF Exchanges, exchanging
      <3> QED
        BY <1>7, <2>2, <3>1, OtherFamily DEF Exchanges, AgentInv
    <2> QED
      BY <2>1, <2>2
  <1>8. GrantIsFresh'
    <2> SUFFICES ASSUME NEW e \in Agent, Granted(e)', ~agent'[e].refreshing,
                        NEW p \in Request, Exchanges(p, session[Grant(e)].family)'
                 PROVE  FALSE
      BY DEF GrantIsFresh
    <2>1. e # d /\ Granted(e) /\ Grant(e)' = Grant(e) /\ Grant(e) \in Issued /\ session[Grant(e)].device = e
          /\ ~agent[e].refreshing
      BY <1>1, <1>5, <1>6, OwnSessions
    <2>2. PICK s \in Issued : s = Grant(e)
      BY <2>1
    <2>3. Exchanges(p, session[s].family)'
      BY <2>1, <2>2 DEF Exchanges
    <2> QED
      BY <1>7, <2>1, <2>2, <2>3 DEF AgentInv, GrantIsFresh
  <1>9. AgentsHealthy'
    <2> SUFFICES ASSUME NEW e \in Agent, agent[e].sid # 0, ~excused[e]
                 PROVE  Healthy(e)'
      BY <1>1 DEF AgentsHealthy
    <2>1. Healthy(e) /\ agent[e].sid \in Issued /\ session[agent[e].sid].device = e
      BY OwnSessions DEF AgentInv, AgentsHealthy
    <2>2. PICK s \in Issued : s = agent[e].sid
      BY <2>1
    <2>3. CASE e = d
      <3>1. Usable(agent[d].sid)
        BY <1>6, <2>1, <2>3 DEF Healthy
      <3>2. ASSUME NEW p \in Request, Exchanges(p, session[s].family)'
            PROVE  p = r /\ request'[p].op # "revokeFamily" /\ request'[p].sid = agent[d].sid
        <4>1. p = r
          <5> SUFFICES ASSUME p # r PROVE FALSE
            OBVIOUS
          <5>1. Exchanges(p, session[s].family)
            BY <3>2 DEF Exchanges
          <5>2. p = agent[d].call
            BY <2>1, <2>2, <2>3, <5>1 DEF Healthy
          <5> QED
            BY <1>0, <1>1, <5>2
        <4> QED
          BY <3>2, <4>1 DEF Exchanges, exchanging
      <3>3. Usable(agent[d].sid)'
        BY <1>1, <3>1 DEF Usable, Live
      <3> QED
        BY <1>1, <1>6, <2>2, <2>3, <3>2, <3>3 DEF Healthy, Exchanges
    <2>4. CASE e # d
      <3>1. agent'[e] = agent[e]
        BY <1>1, <2>4
      <3>2. IF (Granted(e) /\ agent[e].refreshing)'
            THEN (Usable(Grant(e)) /\ session[Grant(e)].family = session[agent[e].sid].family)'
            ELSE Usable(agent[e].sid)'
        BY <1>5, <2>1, <2>4, <3>1 DEF Healthy, Usable, Live
      <3>3. ASSUME NEW p \in Request, Exchanges(p, session[agent[e].sid].family)'
            PROVE  p = agent[e].call /\ request'[p].op # "revokeFamily" /\ request'[p].sid = agent[e].sid
        <4>1. Exchanges(p, session[s].family)'
          BY <2>2, <3>1, <3>3 DEF Exchanges
        <4>2. p # r /\ Exchanges(p, session[s].family)
          BY <1>7, <2>1, <2>2, <2>4, <4>1
        <4> QED
          BY <2>1, <2>2, <4>2 DEF Healthy
      <3> QED
        BY <3>1, <3>2, <3>3 DEF Healthy
    <2> QED
      BY <2>3, <2>4
  <1> QED
    BY <1>3, <1>4, <1>8, <1>9

(***************************************************************************)
(* The steps that write sessions: they settle at most the request they      *)
(* serve, keep the columns device and family, and end the session of no     *)
(* Agent they do not excuse, except for the one its own rotation replaces.  *)
(***************************************************************************)
Settles(p) ==
    \/ request'[p] = request[p]
    \/ /\ request[p].op # "reply"
       /\ \/ request'[p] = Idle /\ \A a \in Agent : agent[a].call # p
          \/ /\ request'[p].op = "reply"
             /\ request'[p].device = request[p].device
             /\ request'[p].sid # 0 => session'[request'[p].sid].device = request[p].device

NewGrantOK(p) ==
    request'[p] # request[p] /\ request'[p].op = "reply" /\ request'[p].sid # 0 =>
        \/ /\ request[p].op \notin exchanging
           /\ \A s \in Issued : session[s].family # session'[request'[p].sid].family
        \/ /\ request[p].op = "rotate"
           /\ Usable(request[p].sid)'
           /\ session'[request'[p].sid].family = session[request[p].sid].family

StillUsable(d) ==
    \A s \in Issued : Usable(s) /\ session[s].family = session[agent[d].sid].family =>
        \/ Usable(s)'
        \/ \E p \in Request :
              /\ request[p].op = "rotate" /\ request[p].sid = s
              /\ request'[p] # request[p] /\ request'[p].sid # 0

\* Such a step keeps what an Agent may count on.
LEMMA WriteStep ==
    ASSUME AgentInv, agent' = agent, Issued \subseteq Issued',
           \A s \in Issued : session'[s].device = session[s].device /\ session'[s].family = session[s].family,
           \A s, t \in Issued' : session'[s].family = session'[t].family => session'[s].device = session'[t].device,
           \A p \in Request : Settles(p) /\ NewGrantOK(p),
           \A d \in Agent : agent[d].sid # 0 /\ ~excused'[d] => ~excused[d] /\ StillUsable(d)
    PROVE  Calls' /\ Ownership' /\ GrantIsFresh' /\ AgentsHealthy'
  <1>0. \A r \in Request : RequestOK(r)
    BY Basics DEF AgentInv
  <1>1. Calls'
    <2>1. ASSUME NEW d \in Agent PROVE CallOK(d)'
      <3> SUFFICES ASSUME agent[d].call # NoCall PROVE CallOK(d)'
        BY DEF CallOK
      <3> DEFINE c == agent[d].call
      <3>1. c \in Request
        BY OwnSessions
      <3>2. CASE request'[c] = request[c]
        BY <3>2 DEF AgentInv, Calls, CallOK
      <3>3. CASE request'[c].op = "reply" /\ request'[c].device = request[c].device
        BY <3>3 DEF AgentInv, Calls, CallOK, exchanging
      <3> QED
        BY <3>1, <3>2, <3>3 DEF Settles
    <2> QED
      BY <2>1 DEF AgentInv, Calls
  <1>2. Ownership'
    <2>1. ASSUME NEW p \in Request
          PROVE  /\ request'[p].op \in exchanging => session'[request'[p].sid].device = request'[p].device
                 /\ request'[p].op = "reply" /\ request'[p].sid # 0
                       => session'[request'[p].sid].device = request'[p].device
                 /\ request'[p].op = "revokeFamily"
                       => \A t \in request'[p].seen : session'[t].family = session'[request'[p].sid].family
                 /\ request'[p].op = "deregister"
                       => \A t \in request'[p].seen : session'[t].device = request'[p].device
      <3>1. CASE request'[p] = request[p]
        <4>1. request[p].op \in exchanging => request[p].sid \in Issued
          BY <1>0 DEF RequestOK
        <4>2. request[p].op = "reply" /\ request[p].sid # 0 => request[p].sid \in Issued
          BY <1>0, Basics DEF RequestOK, AgentInv
        <4>3. request[p].seen \subseteq Issued
          BY <1>0 DEF RequestOK
        <4> QED
          BY <3>1, <4>1, <4>2, <4>3 DEF AgentInv, Ownership, exchanging
      <3>2. CASE request'[p] = Idle
        BY <3>2 DEF Idle, exchanging
      <3>3. CASE /\ request'[p].op = "reply" /\ request'[p].device = request[p].device
                 /\ request'[p].sid # 0 => session'[request'[p].sid].device = request[p].device
        BY <3>3 DEF exchanging
      <3> QED
        BY <3>1, <3>2, <3>3 DEF Settles
    <2>2. \A d \in Agent : agent'[d].sid # 0 => session'[agent'[d].sid].device = d
      BY OwnSessions
    <2> QED
      BY <2>1, <2>2 DEF Ownership
  <1>3. ASSUME NEW s \in Issued, NEW p \in Request, Exchanges(p, session[s].family)'
        PROVE  Exchanges(p, session[s].family) /\ request'[p] = request[p]
    <2>1. request'[p] = request[p]
      BY <1>3 DEF Exchanges, Settles, Idle, exchanging
    <2>2. request[p].sid \in Issued
      BY <1>0, <1>3, <2>1 DEF RequestOK, Exchanges
    <2> QED
      BY <1>3, <2>1, <2>2 DEF Exchanges
  <1>4. ASSUME NEW d \in Agent, agent[d].call = NoCall \/ request'[agent[d].call] = request[agent[d].call]
        PROVE  /\ Granted(d)' <=> Granted(d)
               /\ Granted(d) => Grant(d)' = Grant(d)
    BY <1>4 DEF Granted, Grant
  <1>5. GrantIsFresh'
    <2> SUFFICES ASSUME NEW d \in Agent, Granted(d)', ~agent[d].refreshing,
                        NEW p \in Request, Exchanges(p, session[Grant(d)].family)'
                 PROVE  FALSE
      BY DEF GrantIsFresh
    <2> DEFINE c == agent[d].call
    <2>1. c # NoCall /\ c \in Request
      BY OwnSessions DEF Granted
    <2>2. CASE request'[c] = request[c]
      <3>1. Granted(d) /\ Grant(d)' = Grant(d)
        BY <1>4, <2>2
      <3>2. PICK s \in Issued : s = Grant(d)
        BY <3>1, OwnSessions
      <3>3. Exchanges(p, session[s].family)'
        BY <3>1, <3>2 DEF Exchanges
      <3>4. Exchanges(p, session[s].family)
        BY <1>3, <3>3
      <3> QED
        BY <3>1, <3>2, <3>4 DEF AgentInv, GrantIsFresh
    <2>3. CASE request'[c] # request[c]
      <3>1. request[c].op # "reply" /\ request[c].op \notin exchanging
        BY <2>1, <2>3 DEF AgentInv, Calls, CallOK, Settles, registering, exchanging
      <3>2. request'[c].op = "reply" /\ request'[c].sid # 0
        BY DEF Granted
      <3>3. \A s \in Issued : session[s].family # session'[request'[c].sid].family
        BY <2>1, <2>3, <3>1, <3>2 DEF NewGrantOK, exchanging
      <3>4. request'[p] = request[p] /\ request[p].sid \in Issued
        BY <1>0 DEF Exchanges, Settles, Idle, exchanging, RequestOK
      <3>5. session'[request'[p].sid].family = session'[request'[c].sid].family
        BY DEF Exchanges, Grant
      <3> QED
        BY <3>3, <3>4, <3>5
    <2> QED
      BY <2>2, <2>3
  <1>6. AgentsHealthy'
    <2> SUFFICES ASSUME NEW d \in Agent, agent[d].sid # 0, ~excused'[d]
                 PROVE  Healthy(d)'
      BY DEF AgentsHealthy
    <2> DEFINE c == agent[d].call
    <2>1. Healthy(d) /\ StillUsable(d)
      BY DEF AgentInv, AgentsHealthy
    <2>2. PICK a \in Issued : a = agent[d].sid
      BY OwnSessions
    <2>3. ASSUME NEW p \in Request, Exchanges(p, session[agent[d].sid].family)'
          PROVE  p = agent'[d].call /\ request'[p].op # "revokeFamily" /\ request'[p].sid = agent'[d].sid
      <3>1. Exchanges(p, session[a].family)'
        BY <2>2, <2>3 DEF Exchanges
      <3>2. Exchanges(p, session[a].family) /\ request'[p] = request[p]
        BY <1>3, <3>1
      <3> QED
        BY <2>1, <2>2, <3>2 DEF Healthy
    <2>4. ASSUME NEW s \in Issued, Usable(s), session[s].family = session[a].family, ~Usable(s)'
          PROVE  /\ c \in Request /\ request[c].op = "rotate" /\ request'[c] # request[c] /\ request'[c].sid # 0
      <3>1. PICK p \in Request : /\ request[p].op = "rotate" /\ request[p].sid = s
                                 /\ request'[p] # request[p] /\ request'[p].sid # 0
        BY <2>1, <2>2, <2>4 DEF StillUsable
      <3>2. Exchanges(p, session[a].family)
        BY <2>4, <3>1 DEF Exchanges, exchanging
      <3>3. p = c
        BY <2>1, <2>2, <3>2 DEF Healthy
      <3> QED
        BY <3>1, <3>3
    <2>5. IF (Granted(d) /\ agent[d].refreshing)'
          THEN (Usable(Grant(d)) /\ session[Grant(d)].family = session[agent[d].sid].family)'
          ELSE Usable(agent[d].sid)'
      <3>1. CASE c = NoCall \/ request'[c] = request[c]
        <4>1. CASE Granted(d) /\ agent[d].refreshing
          <5>1. PICK g \in Issued : g = Grant(d)
            BY <4>1, OwnSessions
          <5>2. Usable(g) /\ session[g].family = session[a].family
            BY <2>1, <2>2, <4>1, <5>1 DEF Healthy
          <5>3. request[c].op = "reply"
            BY <4>1 DEF Granted
          <5>4. Usable(g)'
            BY <2>4, <5>2, <5>3
          <5>5. Granted(d)' /\ Grant(d)' = g
            BY <1>4, <3>1, <4>1, <5>1
          <5> QED
            BY <2>2, <4>1, <5>2, <5>4, <5>5 DEF Usable, Live
        <4>2. CASE ~(Granted(d) /\ agent[d].refreshing)
          <5>1. Usable(a)
            BY <2>1, <2>2, <4>2 DEF Healthy
          <5>2. Usable(a)'
            BY <2>4, <3>1, <5>1, SessionsAssumption
          <5>3. ~(Granted(d)' /\ agent[d].refreshing)
            BY <1>4, <3>1, <4>2
          <5> QED
            BY <2>2, <5>2, <5>3 DEF Usable, Live
        <4> QED
          BY <4>1, <4>2
      <3>2. CASE c # NoCall /\ request'[c] # request[c]
        <4>1. /\ c \in Request /\ request[c].op # "reply" /\ request'[c].op = "reply"
          BY <3>2, OwnSessions DEF Settles
        <4>2. ~Granted(d)
          BY <4>1 DEF Granted
        <4>3. Usable(a)
          BY <2>1, <2>2, <4>2 DEF Healthy
        <4>4. CASE request'[c].sid = 0
          <5>1. Usable(a)' /\ ~Granted(d)'
            BY <2>4, <4>3, <4>4 DEF Granted
          <5> QED
            BY <2>2, <5>1 DEF Usable, Live
        <4>5. CASE request'[c].sid # 0 /\ ~agent[d].refreshing
          <5>1. request[c].op # "rotate"
            BY <3>2, <4>5 DEF AgentInv, Calls, CallOK, registering
          <5>2. Usable(a)'
            BY <2>4, <4>3, <5>1
          <5> QED
            BY <2>2, <4>5, <5>2 DEF Usable, Live
        <4>6. CASE request'[c].sid # 0 /\ agent[d].refreshing
          <5>1. request[c].op \in exchanging /\ request[c].sid = a
            BY <2>2, <3>2, <4>1, <4>6 DEF AgentInv, Calls, CallOK
          <5>2. /\ Usable(request[c].sid)'
                /\ session'[request'[c].sid].family = session[a].family
            BY <3>2, <4>1, <4>6, <5>1 DEF NewGrantOK
          <5>3. Granted(d)'
            BY <3>2, <4>1, <4>6 DEF Granted
          <5> QED
            BY <2>2, <4>6, <5>2, <5>3 DEF Grant, Usable, Live
        <4> QED
          BY <4>4, <4>5, <4>6, OwnSessions
      <3> QED
        BY <3>1, <3>2
    <2> QED
      BY <2>3, <2>5 DEF Healthy
  <1> QED
    BY <1>1, <1>2, <1>5, <1>6

\* The rest of the invariant after a step.
Rest == Calls' /\ Ownership' /\ GrantIsFresh' /\ AgentsHealthy'

\* A request no Agent waits for is about to move on.
LEMMA NotACall ==
    ASSUME AgentInv, NEW r \in Request,
           request[r].op \notin exchanging \cup registering \cup {"admitted", "reply"},
           NEW d \in Agent
    PROVE  agent[d].call # r
  BY SessionsAssumption DEF AgentInv, Calls, CallOK

\* A request arrives.
LEMMA ArrivalKeepsRest ==
    ASSUME AgentInv, NEW r \in Request, Arrival(r)
    PROVE  Rest
  <1>0. Inv /\ Len(session) \in Nat /\ TypeOK
    BY Basics DEF AgentInv, Inv
  <1>1. Free(r) /\ request[r].op = "idle" /\ session' = session /\ excused' = excused
    <2>1. Free(r) /\ session' = session /\ excused' = excused
      BY DEF Arrival, Login, PhoneEnroll, EnrollDevice, Admit, DeregisterStart, Enroll, Provision,
             AgentRefresh, PhoneRefresh, ChangePasswordCheck
    <2> QED
      BY <2>1 DEF Free, Idle
  <1>2. \A d \in Agent : agent[d].call # r
    BY <1>1, NotACall DEF exchanging, registering
  <1>3. ASSUME NEW d \in Agent, Enroll(r, d) \/ Provision(r, d)
        PROVE  Rest
    <2>1. AgentCalls(d, r, FALSE) /\ Begin(r, "admitted", d, 0, {}) /\ d \in Device /\ "admitted" \in onDevice
      BY <1>3 DEF Enroll, Provision, EnrollDevice, Admit, Device, onDevice
    <2>2. /\ request'[r] = [op |-> "admitted", device |-> d, sid |-> 0, seen |-> {}]
          /\ \A p \in Request \ {r} : request'[p] = request[p]
      BY <1>0, <1>1, <2>1, BeginEmpty
    <2>3. request'[r].op = "admitted" /\ request'[r].device = d
      BY <2>2
    <2> QED
      BY <1>1, <2>1, <2>2, <2>3, CallStarts DEF Rest
  <1>4. ASSUME NEW d \in Agent, AgentRefresh(r, d)
        PROVE  Rest
    <2>1. /\ AgentCalls(d, r, TRUE) /\ Begin(r, "refresh", d, agent[d].sid, {})
          /\ d \in Device /\ "refresh" \in onSession /\ agent[d].sid # 0 /\ agent[d].sid \in Issued
      BY <1>4, OwnSessions DEF AgentRefresh, Device, onSession
    <2>2. /\ request'[r] = [op |-> "refresh", device |-> d, sid |-> agent[d].sid, seen |-> {}]
          /\ \A p \in Request \ {r} : request'[p] = request[p]
      <3>1. PICK s \in Issued : s = agent[d].sid
        BY <2>1
      <3>2. /\ Begin(r, "refresh", d, s, {}) /\ session' = session /\ Inv
            /\ d \in Device /\ "refresh" \in onSession
        BY <1>0, <1>1, <2>1, <3>1
      <3>3. /\ request'[r] = [op |-> "refresh", device |-> d, sid |-> s, seen |-> {}]
            /\ \A p \in Request \ {r} : request'[p] = request[p]
        BY <3>2, BeginEmpty
      <3> QED
        BY <3>1, <3>3
    <2>3. request'[r].op = "refresh" /\ request'[r].device = d /\ request'[r].sid = agent[d].sid
      BY <2>2
    <2> QED
      BY <1>1, <2>1, <2>2, <2>3, CallStarts DEF Rest
  <1>5. ASSUME NEW d \in Phone, Login(r, d) \/ PhoneEnroll(r, d)
        PROVE  Rest
    <2>1. PICK o \in {"login", "admitted"} : Begin(r, o, d, 0, {})
      BY <1>5 DEF Login, PhoneEnroll, EnrollDevice, Admit
    <2>2. o \in onDevice /\ d \in Device /\ agent' = agent
      BY <1>5 DEF onDevice, Device, Login, PhoneEnroll
    <2>3. /\ request'[r] = [op |-> o, device |-> d, sid |-> 0, seen |-> {}]
          /\ \A p \in Request \ {r} : request'[p] = request[p]
      BY <1>0, <1>1, <2>1, <2>2, BeginEmpty
    <2>4. request'[r].op \in {"login", "admitted"}
      BY <2>3
    <2>5. request'[r].op \notin exchanging \cup {"reply", "revokeFamily", "deregister"}
      BY <2>4 DEF exchanging
    <2> QED
      BY <1>1, <1>2, <2>2, <2>3, <2>5, RequestMoves DEF Rest
  <1>6. ASSUME NEW d \in Device, DeregisterStart(r, d)
        PROVE  Rest
    <2> DEFINE S == {s \in Issued : session[s].device = d}
    <2>1. S \subseteq Issued /\ Begin(r, "deregister", d, 0, S) /\ "deregister" \in onDevice /\ agent' = agent
      BY <1>6 DEF DeregisterStart, onDevice
    <2>2. \A t \in S : session[t].device = d
      OBVIOUS
    <2> HIDE DEF S
    <2>3. /\ request'[r] = [op |-> "deregister", device |-> d, sid |-> 0, seen |-> S]
          /\ \A p \in Request \ {r} : request'[p] = request[p]
      BY <1>0, <1>1, <2>1, BeginOnDevice
    <2>4. request'[r].op = "deregister" /\ request'[r].seen = S /\ request'[r].device = d
      BY <2>3
    <2> QED
      BY <1>1, <1>2, <2>1, <2>2, <2>3, <2>4, RequestMoves DEF Rest, exchanging
  <1>7. ASSUME NEW s \in Issued, PhoneRefresh(r, s)
        PROVE  Rest
    <2>1. /\ Begin(r, "refresh", session[s].device, s, {}) /\ "refresh" \in onSession
          /\ session[s].device \in Phone /\ session[s].device \in Device /\ agent' = agent
      BY <1>7 DEF PhoneRefresh, onSession, Device
    <2>2. /\ request'[r] = [op |-> "refresh", device |-> session[s].device, sid |-> s, seen |-> {}]
          /\ \A p \in Request \ {r} : request'[p] = request[p]
      BY <1>0, <1>1, <2>1, BeginEmpty
    <2>3. request'[r].op = "refresh" /\ request'[r].device = session[s].device /\ request'[r].sid = s
      BY <2>2
    <2> QED
      BY <1>1, <1>2, <2>1, <2>2, <2>3, RequestMoves DEF Rest
  <1>8. ASSUME NEW s \in Issued, ChangePasswordCheck(r, s)
        PROVE  Rest
    <2>1. /\ Begin(r, "passwordChecked", session[s].device, s, {}) /\ "passwordChecked" \in onSession
          /\ session[s].device \in Device /\ agent' = agent
      BY <1>0, <1>8, RowColumns DEF ChangePasswordCheck, onSession
    <2>2. /\ request'[r] = [op |-> "passwordChecked", device |-> session[s].device, sid |-> s, seen |-> {}]
          /\ \A p \in Request \ {r} : request'[p] = request[p]
      BY <1>0, <1>1, <2>1, BeginEmpty
    <2>3. request'[r].op = "passwordChecked"
      BY <2>2
    <2> QED
      BY <1>1, <1>2, <2>1, <2>2, <2>3, RequestMoves DEF Rest, exchanging
  <1> QED
    BY <1>3, <1>4, <1>5, <1>6, <1>7, <1>8 DEF Arrival

\* The steps of a request that write no session.
LEMMA ReadStepKeepsRest ==
    ASSUME AgentInv, NEW r \in Request,
           RegisterRead(r) \/ RotateRead(r) \/ DetectReplay(r) \/ ChangePasswordStart(r) \/ Abort(r)
    PROVE  Rest
  <1> DEFINE s == request[r].sid
             d == request[r].device
  <1>0. Inv /\ Len(session) \in Nat /\ TypeOK /\ RequestOK(r)
    BY Basics DEF AgentInv, Inv
  <1>1. /\ request[r].op \notin {"idle", "reply"} /\ d \in Device
        /\ session' = session /\ agent' = agent /\ excused' = excused
    BY <1>0 DEF RegisterRead, RotateRead, DetectReplay, ChangePasswordStart, Abort, RequestOK
  <1>2. CASE RegisterRead(r)
    <2>1. PICK o \in registering : Begin(r, o, d, 0, {})
      BY <1>2 DEF RegisterRead, GetByPeerIDTx, registering
    <2>2. o \in onDevice
      BY DEF onDevice
    <2>3. /\ request'[r] = [op |-> o, device |-> d, sid |-> 0, seen |-> {}]
          /\ \A p \in Request \ {r} : request'[p] = request[p]
      BY <1>0, <1>1, <2>1, <2>2, BeginEmpty
    <2>4. request'[r].op \in registering /\ request'[r].device = d
      BY <2>3
    <2>5. \A e \in Agent : agent[e].call = r => CallOK(e)'
      BY <1>1, <1>2, <2>4 DEF RegisterRead, AgentInv, Calls, CallOK, exchanging, registering
    <2>6. request'[r].op \notin exchanging \cup {"reply", "revokeFamily", "deregister"}
      BY <2>4 DEF exchanging, registering
    <2> QED
      BY <1>1, <2>3, <2>5, <2>6, RequestMoves DEF Rest
  <1>3. CASE RotateRead(r) \/ DetectReplay(r)
    <2>1. request[r].op = "refresh" /\ s \in Issued /\ s \in 0 .. Len(session)
      BY <1>0, <1>3 DEF RotateRead, DetectReplay, RequestOK, exchanging, Issued
    <2>2. PICK o \in {"rotate", "revokeFamily"}, S \in SUBSET Issued :
              /\ Begin(r, o, d, s, S) /\ ~Blocked(r, {s})
              /\ o = "rotate" => Usable(s)
              /\ o = "revokeFamily" => ~Usable(s) /\ \A t \in S : session[t].family = session[s].family
      <3>1. CASE RotateRead(r)
        BY <3>1 DEF RotateRead
      <3>2. CASE DetectReplay(r)
        <4>1. LiveFamily(session[s].family) \in SUBSET Issued
          BY DEF LiveFamily
        <4>2. \A t \in LiveFamily(session[s].family) : session[t].family = session[s].family
          BY DEF LiveFamily
        <4> QED
          BY <3>2, <4>1, <4>2 DEF DetectReplay
      <3> QED
        BY <1>3, <3>1, <3>2
    <2>3. o \in Op \ {"idle", "reply"} /\ S \subseteq Issued
      BY DEF Op
    <2>4. /\ request'[r] = [op |-> o, device |-> d, sid |-> s, seen |-> S]
          /\ \A p \in Request \ {r} : request'[p] = request[p]
      <3> HIDE DEF s, d
      <3> QED
        BY <1>0, <1>1, <2>1, <2>2, <2>3, BeginKeeps
    <2>5. request'[r].op = o /\ request'[r].device = d /\ request'[r].sid = s /\ request'[r].seen = S
      BY <2>4
    <2>6. o \in exchanging /\ o # "reply" /\ o # "deregister" /\ "refresh" \in exchanging
      BY DEF exchanging
    <2>7. \A e \in Agent : agent[e].call = r => CallOK(e)'
      <3> SUFFICES ASSUME NEW e \in Agent, agent[e].call = r
                   PROVE  CallOK(e)'
        OBVIOUS
      <3>1. agent[e].refreshing /\ d = e /\ s = agent[e].sid /\ agent[e].sid # 0
        BY <2>1, <2>6, SessionsAssumption DEF AgentInv, Calls, CallOK, registering
      <3> QED
        BY <1>1, <2>5, <2>6, <3>1 DEF CallOK
    <2>8. session[s].device = d
      BY <2>1, <2>6 DEF AgentInv, Ownership
    <2> QED
      BY <1>1, <2>1, <2>2, <2>4, <2>5, <2>6, <2>7, <2>8, RequestMoves DEF Rest
  <1>4. CASE ChangePasswordStart(r)
    <2> DEFINE S == Issued \ {s}
    <2>1. /\ S \subseteq Issued /\ Begin(r, "password", d, s, S) /\ "password" \in onSession
          /\ request[r].op = "passwordChecked" /\ s \in Issued
      BY <1>0, <1>4 DEF ChangePasswordStart, onSession, RequestOK
    <2> HIDE DEF S, s, d
    <2>2. /\ request'[r] = [op |-> "password", device |-> d, sid |-> s, seen |-> S]
          /\ \A p \in Request \ {r} : request'[p] = request[p]
      BY <1>0, <1>1, <2>1, BeginOnSession
    <2>3. request'[r].op = "password"
      BY <2>2
    <2>4. \A e \in Agent : agent[e].call # r
      BY <2>1, NotACall DEF exchanging, registering
    <2> QED
      BY <1>1, <2>2, <2>3, <2>4, RequestMoves DEF Rest, exchanging
  <1>5. CASE Abort(r)
    <2>1. Answer(r, 0) /\ 0 \in 0 .. MaxSessions /\ request[r].op # "idle"
      BY <1>1, <1>5, SessionsAssumption DEF Abort
    <2>2. /\ \A q \in Request \ {r} : request'[q] = request[q]
          /\ \/ /\ request'[r] = Idle
                /\ \A a \in Agent : agent[a].call # r
             \/ /\ request'[r] = [op |-> "reply", device |-> request[r].device, sid |-> 0, seen |-> {}]
      BY <1>0, <2>1, AnswerSettles
    <2>3. request'[r].op \in {"idle", "reply"} /\ request'[r].sid = 0
      BY <2>2 DEF Idle
    <2>4. \A e \in Agent : agent[e].call = r => CallOK(e)'
      BY <1>1, <2>2 DEF AgentInv, Calls, CallOK, exchanging
    <2> QED
      BY <1>1, <2>2, <2>3, <2>4, RequestMoves DEF Rest, exchanging
  <1> QED
    BY <1>2, <1>3, <1>4, <1>5

\* The first session of a family is granted to its device, or to nobody.
LEMMA CreateKeepsRest ==
    ASSUME AgentInv, Room, NEW d \in Device, NEW e \in Nat, CreateSession(d, e),
           agent' = agent, excused' = excused,
           \/ request' = request
           \/ \E r \in Request :
                 /\ Answer(r, Len(session) + 1)
                 /\ request[r].op \in registering \cup {"login"}
                 /\ request[r].device = d
    PROVE  Rest
  <1> DEFINE n == Len(session) + 1
             row == [device |-> d, family |-> n, revoked |-> FALSE, expired |-> FALSE, epoch |-> e]
  <1>0. /\ Inv /\ Len(session) \in Nat /\ TypeOK /\ Issued = 1 .. Len(session) /\ n \in 0 .. MaxSessions
        /\ \A r \in Request : RequestOK(r)
    BY Basics, SessionsAssumption DEF AgentInv, Inv, Room
  <1>1. row \in Row /\ row.device = d /\ row.family = n
    BY <1>0, SessionsAssumption DEF Row, SessionId, Room
  <1>2. session' = Append(session, row)
    BY DEF CreateSession
  <1> HIDE DEF row
  <1>3. /\ Len(session') = n /\ session'[n] = row
        /\ \A s \in Issued : session'[s] = session[s]
        /\ Issued' = Issued \cup {n} /\ n \notin Issued
    BY <1>0, <1>1, <1>2, AppendRow DEF TypeOK, Issued
  <1>4. \A s \in Issued : session[s].family # n /\ s # n
    <2> SUFFICES ASSUME NEW s \in Issued PROVE session[s].family # n /\ s # n
      OBVIOUS
    <2>1. session[s].family \in 1 .. s
      BY <1>0 DEF Inv, FamiliesInOrder
    <2> QED
      BY <1>0, <2>1
  <1>5. \A s, t \in Issued' : session'[s].family = session'[t].family => session'[s].device = session'[t].device
    BY <1>1, <1>3, <1>4 DEF AgentInv, Ownership
  <1>6. \A p \in Request : Settles(p) /\ NewGrantOK(p)
    <2>1. CASE request' = request
      BY <2>1 DEF Settles, NewGrantOK
    <2>2. CASE \E r \in Request :
                 /\ Answer(r, Len(session) + 1)
                 /\ request[r].op \in registering \cup {"login"}
                 /\ request[r].device = d
      <3>1. PICK r \in Request :
                 /\ Answer(r, n)
                 /\ request[r].op \in registering \cup {"login"}
                 /\ request[r].device = d
        BY <2>2
      <3>2. request[r].op # "idle" /\ request[r].op # "reply" /\ request[r].op \notin exchanging
        BY <3>1 DEF registering, exchanging
      <3>3. /\ \A q \in Request \ {r} : request'[q] = request[q]
            /\ \/ /\ request'[r] = Idle
                  /\ \A a \in Agent : agent[a].call # r
               \/ request'[r] = [op |-> "reply", device |-> d, sid |-> n, seen |-> {}]
        <4> HIDE DEF n
        <4> QED
          BY <1>0, <3>1, <3>2, AnswerSettles
      <3>4. CASE request'[r] = Idle /\ \A a \in Agent : agent[a].call # r
        BY <3>2, <3>3, <3>4 DEF Settles, NewGrantOK, Idle
      <3>5. CASE request'[r] = [op |-> "reply", device |-> d, sid |-> n, seen |-> {}]
        <4>1. request'[r].op = "reply" /\ request'[r].device = d /\ request'[r].sid = n
          BY <3>5
        <4>2. Settles(r) /\ NewGrantOK(r)
          BY <1>1, <1>3, <1>4, <3>1, <3>2, <4>1 DEF Settles, NewGrantOK
        <4> QED
          BY <3>3, <4>2 DEF Settles, NewGrantOK
      <3> QED
        BY <3>3, <3>4, <3>5
    <2> QED
      BY <2>1, <2>2
  <1>7. \A x \in Agent : StillUsable(x)
    BY <1>3 DEF StillUsable, Usable, Live
  <1> QED
    BY <1>3, <1>5, <1>6, <1>7, WriteStep DEF Rest

\* A rotation replaces the token of the Agent that waits for it.
LEMMA RotateKeepsRest ==
    ASSUME AgentInv, NEW r \in Request, RotateRefreshAtomically(r)
    PROVE  Rest
  <1> DEFINE s == request[r].sid
             n == Len(session) + 1
  <1>0. /\ Inv /\ Len(session) \in Nat /\ TypeOK /\ Issued = 1 .. Len(session) /\ n \in 0 .. MaxSessions
        /\ RequestOK(r)
    BY Basics, SessionsAssumption DEF AgentInv, Inv, Room, RotateRefreshAtomically
  <1>1. /\ Len(session') = n /\ s \in Issued
        /\ \A t \in Issued :
              /\ session'[t].device = session[t].device
              /\ session'[t].family = session[t].family
              /\ session'[t].expired = session[t].expired
              /\ session'[t].revoked <=> session[t].revoked \/ t = s
        /\ session'[n].device = session[s].device
        /\ session'[n].family = session[s].family
    BY <1>0, RotateRows
  <1>2. ~session'[n].revoked /\ ~session'[n].expired
    <2>1. Usable(Len(session))'
      BY <1>0, RotateRows
    <2> QED
      BY <1>1, <2>1 DEF Usable, Live
  <1>3. /\ agent' = agent /\ excused' = excused /\ request[r].op = "rotate" /\ Answer(r, n)
        /\ Issued' = Issued \cup {n}
    <2>1. agent' = agent /\ excused' = excused /\ request[r].op = "rotate" /\ Answer(r, n)
      BY DEF RotateRefreshAtomically
    <2>2. Issued' = Issued \cup {n}
      BY <1>0, <1>1 DEF Issued
    <2> QED
      BY <2>1, <2>2
  <1>4. /\ \A q \in Request \ {r} : request'[q] = request[q]
        /\ \/ /\ request'[r] = Idle
              /\ \A a \in Agent : agent[a].call # r
           \/ request'[r] = [op |-> "reply", device |-> request[r].device, sid |-> n, seen |-> {}]
    <2> HIDE DEF n
    <2> QED
      BY <1>0, <1>3, AnswerSettles
  <1>5. session[s].device = request[r].device
    BY <1>3 DEF AgentInv, Ownership, exchanging
  <1>6. \A t, u \in Issued' : session'[t].family = session'[u].family => session'[t].device = session'[u].device
    BY <1>1, <1>3 DEF AgentInv, Ownership
  <1>7. Settles(r) /\ NewGrantOK(r)
    <2>1. CASE request'[r] = Idle /\ \A a \in Agent : agent[a].call # r
      BY <1>3, <2>1 DEF Settles, NewGrantOK, Idle
    <2>2. CASE request'[r] = [op |-> "reply", device |-> request[r].device, sid |-> n, seen |-> {}]
      <3>1. request'[r].op = "reply" /\ request'[r].device = request[r].device /\ request'[r].sid = n
        BY <2>2
      <3>2. Usable(request[r].sid)'
        BY <1>2, <3>1 DEF Usable, Live
      <3> QED
        BY <1>1, <1>3, <1>5, <3>1, <3>2 DEF Settles, NewGrantOK
    <2> QED
      BY <1>4, <2>1, <2>2
  <1>8. \A p \in Request : Settles(p) /\ NewGrantOK(p)
    BY <1>4, <1>7 DEF Settles, NewGrantOK
  <1>9. \A d \in Agent : agent[d].sid # 0 /\ ~excused'[d] => ~excused[d] /\ StillUsable(d)
    <2> SUFFICES ASSUME NEW d \in Agent, agent[d].sid # 0, ~excused[d]
                 PROVE  StillUsable(d)
      BY <1>3
    <2> SUFFICES ASSUME NEW t \in Issued, Usable(t), session[t].family = session[agent[d].sid].family, ~Usable(t)'
                 PROVE  request[r].sid = t /\ request'[r] # request[r] /\ request'[r].sid # 0
      BY <1>3 DEF StillUsable
    <2>1. t = s
      BY <1>1 DEF Usable, Live
    <2>2. r = agent[d].call
      BY <1>3, <2>1 DEF AgentInv, AgentsHealthy, Healthy, Exchanges, exchanging
    <2>3. request'[r].op = "reply" /\ request'[r].sid = n
      BY <1>4, <2>2
    <2> QED
      BY <1>0, <1>3, <2>1, <2>3
  <1> QED
    BY <1>1, <1>3, <1>6, <1>8, <1>9, WriteStep DEF Rest

\* Rows S are revoked.  The Agents that keep their excuse have no token among
\* them.
LEMMA RevokeKeepsRest ==
    ASSUME AgentInv, NEW S, session' = Revoke(S), agent' = agent,
           \A p \in Request : Settles(p) /\ NewGrantOK(p),
           \A d \in Agent : agent[d].sid # 0 /\ ~excused'[d] =>
               /\ ~excused[d]
               /\ \A t \in Issued : session[t].family = session[agent[d].sid].family => t \notin S
    PROVE  Rest
  <1>1. /\ Len(session') = Len(session)
        /\ \A t \in Issued :
              /\ session'[t].device = session[t].device
              /\ session'[t].family = session[t].family
              /\ session'[t].expired = session[t].expired
              /\ session'[t].revoked <=> session[t].revoked \/ t \in S
    BY RevokeRows DEF AgentInv, Inv
  <1>2. Issued' = Issued
    BY <1>1 DEF Issued
  <1>3. \A t, u \in Issued' : session'[t].family = session'[u].family => session'[t].device = session'[u].device
    BY <1>1, <1>2 DEF AgentInv, Ownership
  <1>4. \A d \in Agent : agent[d].sid # 0 /\ ~excused'[d] => ~excused[d] /\ StillUsable(d)
    BY <1>1 DEF StillUsable, Usable, Live
  <1> QED
    BY <1>1, <1>2, <1>3, <1>4, WriteStep DEF Rest

\* A family, a device or an account loses its sessions: the Agents concerned
\* are excused, or had none of the family.
LEMMA RevocationKeepsRest ==
    ASSUME AgentInv, NEW r \in Request, RevokeFamily(r) \/ DeregisterDevice(r) \/ ChangePassword(r)
    PROVE  Rest
  <1> DEFINE S == request[r].seen
             d == request[r].device
  <1>0. Inv /\ TypeOK /\ RequestOK(r) /\ S \subseteq Issued
    BY Basics DEF AgentInv, Inv, RequestOK
  <1>1. session' = Revoke(S) /\ agent' = agent /\ request[r].op \in {"revokeFamily", "deregister", "password"}
    BY DEF RevokeFamily, DeregisterDevice, ChangePassword
  <1>2. \A p \in Request : Settles(p) /\ NewGrantOK(p)
    <2>1. CASE RevokeFamily(r)
      <3>1. Answer(r, 0) /\ request[r].op = "revokeFamily" /\ 0 \in 0 .. MaxSessions
        BY <2>1, SessionsAssumption DEF RevokeFamily
      <3>2. /\ \A q \in Request \ {r} : request'[q] = request[q]
            /\ \/ /\ request'[r] = Idle
                  /\ \A a \in Agent : agent[a].call # r
               \/ request'[r] = [op |-> "reply", device |-> request[r].device, sid |-> 0, seen |-> {}]
        BY <1>0, <3>1, AnswerSettles
      <3> QED
        BY <3>1, <3>2 DEF Settles, NewGrantOK, Idle
    <2>2. CASE DeregisterDevice(r) \/ ChangePassword(r)
      <3>1. request' = [request EXCEPT ![r] = Idle] /\ request[r].op \in {"deregister", "password"}
        BY <2>2 DEF DeregisterDevice, ChangePassword
      <3>2. \A a \in Agent : agent[a].call # r
        BY <3>1, NotACall DEF exchanging, registering
      <3>3. /\ \A q \in Request \ {r} : request'[q] = request[q]
            /\ request'[r] = Idle
        BY <1>0, <3>1 DEF TypeOK
      <3> QED
        BY <3>1, <3>2, <3>3 DEF Settles, NewGrantOK, Idle
    <2> QED
      BY <2>1, <2>2
  <1>3. ASSUME NEW x \in Agent, agent[x].sid # 0, ~excused'[x]
        PROVE  /\ ~excused[x]
               /\ \A t \in Issued : session[t].family = session[agent[x].sid].family => t \notin S
    <2>0. agent[x].sid \in Issued /\ session[agent[x].sid].device = x
      BY <1>3, OwnSessions
    <2>1. CASE RevokeFamily(r)
      <3>1. excused' = excused /\ request[r].op = "revokeFamily"
        BY <2>1 DEF RevokeFamily
      <3>2. Healthy(x)
        BY <1>3, <3>1 DEF AgentInv, AgentsHealthy
      <3>3. session[request[r].sid].family # session[agent[x].sid].family
        BY <3>1, <3>2 DEF Healthy, Exchanges, exchanging
      <3> QED
        BY <1>3, <3>1, <3>3 DEF AgentInv, Ownership
    <2>2. CASE DeregisterDevice(r)
      <3>1. excused' = [a \in Agent |-> excused[a] \/ a \in {d}] /\ request[r].op = "deregister"
        BY <2>2 DEF DeregisterDevice, Excuse
      <3>2. ~excused[x] /\ x # d
        BY <1>3, <3>1
      <3>3. \A t \in S : session[t].device = d
        BY <3>1 DEF AgentInv, Ownership
      <3> QED
        BY <2>0, <3>2, <3>3 DEF AgentInv, Ownership
    <2>3. CASE ChangePassword(r)
      <3>1. excused' = [a \in Agent |-> excused[a] \/ a \in Agent]
        BY <2>3 DEF ChangePassword, Excuse
      <3> QED
        BY <1>3, <3>1
    <2> QED
      BY <2>1, <2>2, <2>3
  <1> QED
    BY <1>1, <1>2, <1>3, RevokeKeepsRest

\* The first account, a logout and the end of a lifetime.
LEMMA LoneStepKeepsRest ==
    ASSUME AgentInv,
           \/ \E d \in Phone : Bootstrap(d)
           \/ \E s \in Issued : Logout(s) \/ SessionExpires(s)
    PROVE  Rest
  <1>0. Inv /\ TypeOK
    BY DEF AgentInv, Inv
  <1>1. ASSUME NEW d \in Phone, Bootstrap(d) PROVE Rest
    <2>1. /\ Room /\ CreateSession(d, epoch[d]) /\ d \in Device /\ epoch[d] \in Nat
          /\ request' = request /\ agent' = agent /\ excused' = excused
      BY <1>0, <1>1, Basics DEF Bootstrap, Device
    <2> QED
      BY <2>1, CreateKeepsRest
  <1>2. ASSUME NEW s \in Issued, request' = request, Excuse({session[s].device}),
               NEW x \in Agent, agent[x].sid # 0, ~excused'[x]
        PROVE  ~excused[x] /\ \A t \in Issued : session[t].family = session[agent[x].sid].family => t # s
    <2>1. excused' = [a \in Agent |-> excused[a] \/ a \in {session[s].device}]
      BY <1>2 DEF Excuse
    <2>2. ~excused[x] /\ x # session[s].device
      BY <1>2, <2>1
    <2> QED
      BY <1>2, <2>2, OwnSessions DEF AgentInv, Ownership
  <1>3. ASSUME NEW s \in Issued, Logout(s) PROVE Rest
    <2> DEFINE S == {s}
    <2>1. session' = Revoke(S) /\ agent' = agent /\ request' = request /\ Excuse({session[s].device})
      BY <1>3 DEF Logout
    <2>2. \A p \in Request : Settles(p) /\ NewGrantOK(p)
      BY <2>1 DEF Settles, NewGrantOK
    <2>3. \A x \in Agent : agent[x].sid # 0 /\ ~excused'[x] =>
               /\ ~excused[x]
               /\ \A t \in Issued : session[t].family = session[agent[x].sid].family => t \notin S
      BY <1>2, <2>1
    <2> HIDE DEF S
    <2> QED
      BY <2>1, <2>2, <2>3, RevokeKeepsRest
  <1>4. ASSUME NEW s \in Issued, SessionExpires(s) PROVE Rest
    <2>1. /\ session' = [session EXCEPT ![s].expired = TRUE] /\ agent' = agent /\ request' = request
          /\ Excuse({session[s].device})
      BY <1>4 DEF SessionExpires
    <2>2. /\ Len(session') = Len(session)
          /\ \A t \in Issued :
                /\ session'[t].device = session[t].device
                /\ session'[t].family = session[t].family
                /\ t # s => session'[t] = session[t]
      BY <1>0, <2>1, ExpireRows
    <2>3. Issued' = Issued
      BY <2>2 DEF Issued
    <2>4. \A t, u \in Issued' : session'[t].family = session'[u].family => session'[t].device = session'[u].device
      BY <2>2, <2>3 DEF AgentInv, Ownership
    <2>5. \A p \in Request : Settles(p) /\ NewGrantOK(p)
      BY <2>1 DEF Settles, NewGrantOK
    <2>6. \A x \in Agent : agent[x].sid # 0 /\ ~excused'[x] => ~excused[x] /\ StillUsable(x)
      BY <1>2, <2>1, <2>2 DEF StillUsable, Usable, Live
    <2> QED
      BY <2>1, <2>2, <2>3, <2>4, <2>5, <2>6, WriteStep DEF Rest
  <1> QED
    BY <1>1, <1>3, <1>4

\* An Agent stores what its call granted, or gives the call up.
LEMMA AgentStepKeepsRest ==
    ASSUME AgentInv, NEW d \in Agent, NEW s \in 0 .. MaxSessions,
           AgentGivesUp(d) \/ AgentEnrolled(d, s) \/ AgentRefreshed(d, s)
    PROVE  Rest
  <1> DEFINE c == agent[d].call
  <1>0. Inv /\ TypeOK /\ NoCall \notin Request /\ Issued' = Issued
    <2>1. Inv /\ session' = session
      BY AgentStepRows DEF AgentInv
    <2> QED
      BY <2>1, SessionsAssumption DEF Inv, Issued
  <1>1. /\ c \in Request
        /\ \A e \in Agent \ {d} : agent'[e] = agent[e] /\ excused'[e] = excused[e]
        /\ agent'[d].call = NoCall /\ agent'[d].refreshing = FALSE
        /\ session' = session
        /\ request' = [request EXCEPT ![c] = Idle] \/ request' = request
        /\ AgentGivesUp(d) \/ s = 0 => agent'[d].sid = agent[d].sid
        /\ ~AgentGivesUp(d) /\ s # 0 => agent'[d].sid = s
        /\ ~AgentGivesUp(d) => request[c].op = "reply" /\ request[c].sid = s
    BY <1>0, AgentStepRows
  <1>2. /\ \A p \in Request \ {c} : request'[p] = request[p]
        /\ request'[c] = Idle \/ request'[c] = request[c]
    BY <1>0, <1>1 DEF TypeOK
  <1>3. \A e \in Agent \ {d} : agent[e].call # c
    BY <1>0, <1>1 DEF AgentInv, Calls
  <1>4. Calls'
    <2>1. ASSUME NEW e \in Agent PROVE CallOK(e)'
      <3>1. CASE e = d
        BY <1>1, <3>1 DEF CallOK
      <3>2. CASE e # d
        <4>1. agent'[e] = agent[e] /\ agent[e].call \in Request \cup {NoCall} /\ agent[e].call # c
          BY <1>1, <1>3, <3>2, OwnSessions
        <4> QED
          BY <1>2, <4>1 DEF AgentInv, Calls, CallOK
      <3> QED
        BY <3>1, <3>2
    <2> QED
      BY <1>1, <2>1 DEF AgentInv, Calls
  <1>5. ASSUME ~AgentGivesUp(d), s # 0
        PROVE  /\ Granted(d) /\ Grant(d) = s /\ s \in Issued /\ session[s].device = d
    <2>1. Granted(d) /\ Grant(d) = s
      BY <1>0, <1>1, <1>5 DEF Granted, Grant
    <2> QED
      BY <2>1, OwnSessions
  <1>6. Ownership'
    <2>1. ASSUME NEW p \in Request
          PROVE  /\ request'[p].op \in exchanging => session'[request'[p].sid].device = request'[p].device
                 /\ request'[p].op = "reply" /\ request'[p].sid # 0
                       => session'[request'[p].sid].device = request'[p].device
                 /\ request'[p].op = "revokeFamily"
                       => \A t \in request'[p].seen : session'[t].family = session'[request'[p].sid].family
                 /\ request'[p].op = "deregister"
                       => \A t \in request'[p].seen : session'[t].device = request'[p].device
      <3>1. CASE request'[p] = request[p]
        BY <1>1, <3>1 DEF AgentInv, Ownership
      <3>2. CASE request'[p] = Idle
        BY <3>2 DEF Idle, exchanging
      <3> QED
        BY <1>2, <3>1, <3>2
    <2>2. ASSUME NEW e \in Agent, agent'[e].sid # 0
          PROVE  session'[agent'[e].sid].device = e
      BY <1>1, <1>5, <2>2, OwnSessions
    <2> QED
      BY <1>0, <1>1, <2>1, <2>2 DEF AgentInv, Ownership
  <1>7. ASSUME NEW p \in Request, NEW f, NEW g, f = g,
               request'[p].op \in exchanging, session'[request'[p].sid].family = f
        PROVE  Exchanges(p, g) /\ request'[p] = request[p]
    BY <1>1, <1>2, <1>7 DEF Exchanges, Idle, exchanging
  <1>8. ASSUME NEW e \in Agent \ {d}
        PROVE  /\ Granted(e)' <=> Granted(e)
               /\ Granted(e) => Grant(e)' = Grant(e)
    <2>1. agent'[e] = agent[e] /\ agent[e].call \in Request \cup {NoCall} /\ agent[e].call # c
      BY <1>1, <1>3, OwnSessions
    <2> QED
      BY <1>2, <2>1 DEF Granted, Grant
  <1>9. ~Granted(d)'
    BY <1>1 DEF Granted
  <1>10. GrantIsFresh'
    <2> SUFFICES ASSUME NEW e \in Agent, Granted(e)', ~agent'[e].refreshing,
                        NEW p \in Request, Exchanges(p, session[Grant(e)].family)'
                 PROVE  FALSE
      BY DEF GrantIsFresh
    <2>1. e # d /\ Granted(e) /\ Grant(e)' = Grant(e) /\ ~agent[e].refreshing
      BY <1>1, <1>8, <1>9
    <2>2. Exchanges(p, session[Grant(e)].family)
      BY <1>1, <1>7, <2>1 DEF Exchanges
    <2> QED
      BY <2>1, <2>2 DEF AgentInv, GrantIsFresh
  <1>11. ASSUME NEW e \in Agent \ {d}, agent'[e].sid # 0, ~excused'[e]
         PROVE  Healthy(e)'
    <2>1. agent'[e] = agent[e] /\ Healthy(e)
      BY <1>1, <1>11 DEF AgentInv, AgentsHealthy
    <2>2. IF (Granted(e) /\ agent[e].refreshing)'
          THEN (Usable(Grant(e)) /\ session[Grant(e)].family = session[agent[e].sid].family)'
          ELSE Usable(agent[e].sid)'
      BY <1>1, <1>8, <2>1 DEF Healthy, Usable, Live
    <2>3. ASSUME NEW p \in Request, Exchanges(p, session[agent[e].sid].family)'
          PROVE  p = agent'[e].call /\ request'[p].op # "revokeFamily" /\ request'[p].sid = agent'[e].sid
      <3>1. Exchanges(p, session[agent[e].sid].family) /\ request'[p] = request[p]
        BY <1>1, <1>7, <2>1, <2>3 DEF Exchanges
      <3> QED
        BY <2>1, <3>1 DEF Healthy
    <2> QED
      BY <2>2, <2>3 DEF Healthy
  <1>12. ASSUME agent'[d].sid # 0, ~excused'[d]
         PROVE  Healthy(d)'
    <2> SUFFICES /\ Usable(agent[d].sid)'
                 /\ \A p \in Request : ~Exchanges(p, session[agent[d].sid].family)'
      BY <1>9 DEF Healthy
    <2>0. \A e \in Agent : excused[e] \in BOOLEAN /\ agent[e].refreshing \in BOOLEAN
      BY OwnSessions
    <2>1. CASE (AgentGivesUp(d) \/ s = 0) /\ ~agent[d].refreshing
      <3>1. agent'[d].sid = agent[d].sid /\ ~excused[d]
        <4>1. CASE AgentGivesUp(d)
          <5> DEFINE b == excused[d] \/ agent[d].refreshing
          <5>1. excused' = [excused EXCEPT ![d] = b]
            BY <4>1 DEF AgentGivesUp
          <5>2. excused'[d] = b
            <6> HIDE DEF b
            <6> QED
              BY <1>0, <5>1 DEF TypeOK
          <5> QED
            BY <1>1, <1>12, <4>1, <5>2
        <4>2. CASE ~AgentGivesUp(d)
          <5>1. excused' = excused \/ excused' = [excused EXCEPT ![d] = excused[d]]
            BY <2>1, <4>2 DEF AgentEnrolled, AgentRefreshed
          <5>2. excused'[d] = excused[d]
            BY <1>0, <5>1 DEF TypeOK
          <5> QED
            BY <1>1, <1>12, <2>1, <4>2, <5>2
        <4> QED
          BY <4>1, <4>2
      <3>2. Healthy(d)
        BY <1>12, <3>1 DEF AgentInv, AgentsHealthy
      <3>3. Usable(agent[d].sid)
        BY <2>1, <3>2 DEF Healthy
      <3>4. ASSUME NEW p \in Request, Exchanges(p, session[agent[d].sid].family)'
            PROVE  FALSE
        <4>1. Exchanges(p, session[agent[d].sid].family)
          BY <1>1, <1>7, <3>1, <3>4 DEF Exchanges
        <4>2. p = c
          BY <3>2, <4>1 DEF Healthy
        <4> QED
          BY <1>0, <1>1, <2>1, <4>1, <4>2 DEF AgentInv, Calls, CallOK, Exchanges, exchanging, registering
      <3> QED
        BY <1>1, <3>1, <3>3, <3>4 DEF Usable, Live
    <2>2. CASE AgentGivesUp(d) /\ agent[d].refreshing
      <3> DEFINE b == excused[d] \/ agent[d].refreshing
      <3>1. excused' = [excused EXCEPT ![d] = b]
        BY <2>2 DEF AgentGivesUp
      <3>2. excused'[d] = b
        <4> HIDE DEF b
        <4> QED
          BY <1>0, <3>1 DEF TypeOK
      <3> QED
        BY <1>12, <2>2, <3>2
    <2>3. CASE ~AgentGivesUp(d) /\ agent[d].refreshing
      <3>1. excused' = excused
        BY <2>3 DEF AgentEnrolled, AgentRefreshed
      <3>2. agent[d].sid # 0
        BY <1>0, <1>1, <2>3 DEF AgentInv, Calls, CallOK
      <3>3. Healthy(d) /\ request[c].op = "reply" /\ request[c].sid = s
        BY <1>1, <1>12, <2>3, <3>1, <3>2 DEF AgentInv, AgentsHealthy
      <3>4. Usable(agent'[d].sid) /\ session[agent'[d].sid].family = session[agent[d].sid].family
        <4>1. CASE s = 0
          <5>1. ~Granted(d)
            BY <3>3, <4>1 DEF Granted
          <5> QED
            BY <1>1, <3>3, <4>1, <5>1 DEF Healthy
        <4>2. CASE s # 0
          BY <1>1, <1>5, <2>3, <3>3, <4>2 DEF Healthy
        <4> QED
          BY <4>1, <4>2
      <3>5. ASSUME NEW p \in Request, Exchanges(p, session[agent[d].sid].family)'
            PROVE  FALSE
        <4>1. Exchanges(p, session[agent[d].sid].family)
          BY <1>1, <1>7, <3>4, <3>5 DEF Exchanges
        <4>2. p = c
          BY <3>3, <4>1 DEF Healthy
        <4> QED
          BY <3>3, <4>1, <4>2 DEF Exchanges, exchanging
      <3> QED
        BY <1>1, <3>4, <3>5 DEF Usable, Live
    <2>4. CASE ~AgentGivesUp(d) /\ s # 0 /\ ~agent[d].refreshing
      <3> DEFINE b == ~Usable(s)
      <3>1. excused' = [excused EXCEPT ![d] = b]
        BY <2>4 DEF AgentEnrolled, AgentRefreshed
      <3>2. excused'[d] = b
        <4> HIDE DEF b
        <4> QED
          BY <1>0, <3>1 DEF TypeOK
      <3>3. Usable(s) /\ agent'[d].sid = s
        BY <1>1, <1>12, <2>4, <3>2
      <3>4. \A p \in Request : ~Exchanges(p, session[s].family)
        BY <1>5, <2>4 DEF AgentInv, GrantIsFresh
      <3>5. ASSUME NEW p \in Request, Exchanges(p, session[agent[d].sid].family)'
            PROVE  FALSE
        BY <1>1, <1>7, <3>3, <3>4, <3>5 DEF Exchanges
      <3> QED
        BY <1>1, <3>3, <3>5 DEF Usable, Live
    <2> QED
      BY <2>0, <2>1, <2>2, <2>3, <2>4
  <1>13. AgentsHealthy'
    BY <1>11, <1>12 DEF AgentsHealthy
  <1> QED
    BY <1>4, <1>6, <1>10, <1>13 DEF Rest

\* Initially no Agent has a token or waits for one.
LEMMA InitAgentInv == Init => AgentInv
  <1> SUFFICES ASSUME Init PROVE AgentInv
    OBVIOUS
  <1>1. Issued = {} /\ Inv
    BY InitInv DEF Init, Issued
  <1>2. \A d \in Agent : agent[d].sid = 0 /\ agent[d].call = NoCall
    BY DEF Init
  <1>3. \A r \in Request : request[r].op = "idle"
    BY DEF Init, Idle
  <1> QED
    BY <1>1, <1>2, <1>3
       DEF AgentInv, Calls, CallOK, Ownership, GrantIsFresh, Granted, AgentsHealthy, exchanging

\* Every step keeps what an Agent may count on.
LEMMA NextAgentInv == AgentInv /\ [Next]_vars => AgentInv'
  <1> SUFFICES ASSUME AgentInv, [Next]_vars PROVE AgentInv'
    OBVIOUS
  <1>0. Inv'
    BY NextInv DEF AgentInv
  <1>1. CASE \E r \in Request : Arrival(r) \/ ServerStep(r)
    <2>1. PICK r \in Request : Arrival(r) \/ ServerStep(r)
      BY <1>1
    <2>2. CASE LoginCreate(r) \/ RegisterDevice(r)
      <3>1. /\ Room /\ Answer(r, Len(session) + 1) /\ agent' = agent /\ excused' = excused
            /\ request[r].op \in registering \cup {"login"}
        BY <2>2 DEF LoginCreate, RegisterDevice, registering
      <3>2. request[r].device \in Device
        BY <3>1, Basics DEF AgentInv, RequestOK, registering
      <3>3. PICK e \in Nat : CreateSession(request[r].device, e)
        <4>1. epoch[request[r].device] \in Nat /\ epoch'[request[r].device] \in Nat
          BY <1>0, <3>2 DEF AgentInv, Inv, TypeOK
        <4> QED
          BY <2>2, <4>1 DEF LoginCreate, RegisterDevice
      <3>4. Rest
        BY <3>1, <3>2, <3>3, CreateKeepsRest
      <3> QED
        BY <1>0, <3>4 DEF AgentInv, Rest
    <2>3. CASE RegisterRead(r) \/ RotateRead(r) \/ DetectReplay(r) \/ ChangePasswordStart(r) \/ Abort(r)
      BY <1>0, <2>3, ReadStepKeepsRest DEF AgentInv, Rest
    <2>4. CASE RevokeFamily(r) \/ DeregisterDevice(r) \/ ChangePassword(r)
      BY <1>0, <2>4, RevocationKeepsRest DEF AgentInv, Rest
    <2>5. CASE RotateRefreshAtomically(r)
      BY <1>0, <2>5, RotateKeepsRest DEF AgentInv, Rest
    <2>6. CASE Arrival(r)
      BY <1>0, <2>6, ArrivalKeepsRest DEF AgentInv, Rest
    <2> QED
      BY <2>1, <2>2, <2>3, <2>4, <2>5, <2>6 DEF ServerStep
  <1>2. CASE \/ \E d \in Phone : Bootstrap(d)
             \/ \E s \in Issued : Logout(s) \/ SessionExpires(s)
    BY <1>0, <1>2, LoneStepKeepsRest DEF AgentInv, Rest
  <1>3. CASE \E d \in Agent : AgentGivesUp(d) \/ \E s \in 0 .. MaxSessions : AgentEnrolled(d, s) \/ AgentRefreshed(d, s)
    <2>1. 0 \in 0 .. MaxSessions
      BY SessionsAssumption
    <2> QED
      BY <1>0, <1>3, <2>1, AgentStepKeepsRest DEF AgentInv, Rest
  <1>4. CASE UNCHANGED vars
    BY <1>0, <1>4 DEF vars, AgentInv, Calls, CallOK, Ownership, GrantIsFresh, Granted, Grant,
                AgentsHealthy, Healthy, Exchanges, Usable, Live, Issued
  <1> QED
    BY <1>1, <1>2, <1>3, <1>4 DEF Next

\* An Agent that waits for nothing and has no excuse holds a usable refresh
\* token: neither its own duplicates and earlier families nor any other
\* client's requests lock it out (Client.refresh).
THEOREM LockoutSafe == Spec => []LockoutHasCause
  <1>1. AgentInv => LockoutHasCause
    BY DEF AgentInv, AgentsHealthy, Healthy, Granted, LockoutHasCause
  <1> QED
    BY <1>1, InitAgentInv, NextAgentInv, PTL DEF Spec
=============================================================================
