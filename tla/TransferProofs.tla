--------------------------- MODULE TransferProofs ---------------------------
(***************************************************************************)
(* Proofs about TransferService, and then about TransferExecutor, which     *)
(* runs the Agents against it, for every set of devices, Agents and objects *)
(* and every bound.                                                         *)
(***************************************************************************)
EXTENDS TransferExecutor, TLAPS

\* A task id that exists has a full row.
LEMMA ExistingRow ==
    ASSUME TypeOK, NEW t \in Task, Exists(t)
    PROVE  task[t] \in Row
  BY DEF TypeOK, Exists, NoRow, Row

\* A row assembled from columns of the right type is a row of the table.
LEMMA NewRowIsRow ==
    ASSUME NEW o \in Object, NEW d \in Device, NEW p \in Priority
    PROVE  NewRow(o, d, p) \in Row
  BY ConstAssumption DEF NewRow, MkRow, Row, validStates, claimableStates, terminalStates, Lease

(***************************************************************************)
(* What a step does to the table: it creates a queued row, or rewrites one  *)
(* existing row in one of the seven ways below.                             *)
(***************************************************************************)
Created(t) ==
    \E o \in Object, d \in Device, p \in Priority :
        /\ ~Exists(t)
        /\ IndexAllows(t, o, d)
        /\ task' = [task EXCEPT ![t] = NewRow(o, d, p)]

Rewritten(t) ==
    \/ \E d \in Device : AcquireLease(t, d)
    \/ \E d \in Device : \E locked \in SUBSET Task : ClaimNext(t, d, locked)
    \/ \E d \in Device : \E v \in Nat :
          \/ \E s \in validStates : UpdateState(t, d, v, s)
          \/ CompleteReplica(t, d, v)
          \/ FailAttempt(t, d, v)
    \/ CancelTask(t)
    \/ LeaseLapses(t)

\* Every step of the scheduler leaves the table, creates a row or rewrites one.
LEMMA TableStep ==
    ASSUME TypeOK, Next
    PROVE  \/ task' = task
           \/ \E t \in Task : Created(t) \/ Rewritten(t)
  <1> USE DEF Created, Rewritten
  <1>1. CASE \E d \in enrolled : Request(d)
    <2>1. PICK d \in enrolled : Request(d)
      BY <1>1
    <2>2. d \in Device
      BY DEF TypeOK
    <2>3. CASE \E o \in Object, e \in Device, p \in Priority :
                 CreateReplicaTaskCheck(o, e, p) \/ CreateTask(o, e, p)
      BY <2>3 DEF CreateReplicaTaskCheck, CreateTask, Fresh
    <2>4. CASE \/ \E t \in Task : AcquireLease(t, d) \/ CancelTask(t)
               \/ \E t \in Task : \E locked \in SUBSET Task : ClaimNext(t, d, locked)
      BY <2>2, <2>4
    <2>5. CASE \E t \in Task : \E v \in 1 .. MaxVersion[t] :
                 \/ \E s \in validStates : UpdateState(t, d, v, s)
                 \/ CompleteReplica(t, d, v)
                 \/ FailAttempt(t, d, v)
      <3>0. PICK t \in Task : \E v \in 1 .. MaxVersion[t] :
                 \/ \E s \in validStates : UpdateState(t, d, v, s)
                 \/ CompleteReplica(t, d, v)
                 \/ FailAttempt(t, d, v)
        BY <2>5
      <3>1. PICK v \in 1 .. MaxVersion[t] :
                 \/ \E s \in validStates : UpdateState(t, d, v, s)
                 \/ CompleteReplica(t, d, v)
                 \/ FailAttempt(t, d, v)
        BY <3>0
      <3>2. v \in Nat
        BY ConstAssumption DEF Task
      <3> QED
        BY <2>2, <3>1, <3>2
    <2> QED
      BY <2>1, <2>3, <2>4, <2>5 DEF Request
  <1>2. CASE \E r \in checked : CreateReplicaTaskInsert(r)
    <2>1. PICK r \in checked : CreateReplicaTaskInsert(r)
      BY <1>2
    <2>2. r.obj \in Object /\ r.target \in Device /\ r.prio \in Priority
      BY DEF TypeOK
    <2> QED
      BY <2>1, <2>2 DEF CreateReplicaTaskInsert, Fresh
  <1>3. CASE \E t \in Task : LeaseLapses(t)
    BY <1>3
  <1>4. CASE Environment
    BY <1>4 DEF Environment, RegisterFile, DeleteReplica, TrashEntry, RestoreEntry,
                DeregisterDevice, RegisterDevice
  <1> QED
    BY <1>1, <1>2, <1>3, <1>4 DEF Next

(***************************************************************************)
(* WriteRow replaces one existing row; the columns it does not name stay.   *)
(***************************************************************************)

\* The row after WriteRow.
LEMMA WriteRowEffect ==
    ASSUME TypeOK, NEW t \in Task, Exists(t),
           NEW s \in validStates, NEW o \in Device \cup {NoDevice},
           NEW l \in Lease, NEW a \in Nat, WriteRow(t, s, o, l, a)
    PROVE  /\ task'[t] \in Row
           /\ \A u \in Task : u # t => task'[u] = task[u]
           /\ task' \in [Task -> Row \cup {NoRow}]
           /\ task'[t].obj = task[t].obj
           /\ task'[t].target = task[t].target
           /\ task'[t].state = s
           /\ task'[t].owner = o
           /\ task'[t].lease = l
           /\ task'[t].attempt = a
           /\ task'[t].version = task[t].version + 1
  <1> DEFINE r == MkRow(task[t].obj, task[t].target, task[t].prio,
                       s, o, l, a, task[t].version + 1)
  <1>1. /\ task[t].obj \in Object /\ task[t].target \in Device
        /\ task[t].prio \in Priority /\ task[t].version + 1 \in Nat
    BY ExistingRow DEF Row
  <1>2. /\ r \in Row
        /\ r.obj = task[t].obj /\ r.target = task[t].target
        /\ r.state = s /\ r.owner = o /\ r.lease = l /\ r.attempt = a
        /\ r.version = task[t].version + 1
    BY <1>1 DEF Row, MkRow
  <1>3. task' = [task EXCEPT ![t] = r]
    BY DEF WriteRow
  <1>4. task'[t] = r /\ \A u \in Task : u # t => task'[u] = task[u]
    BY <1>3 DEF TypeOK
  <1>5. task' \in [Task -> Row \cup {NoRow}]
    BY <1>2, <1>3 DEF TypeOK
  <1> QED
    BY <1>2, <1>4, <1>5

\* The passage of time changes one column of one row.
LEMMA LapseEffect ==
    ASSUME TypeOK, NEW t \in Task, LeaseLapses(t)
    PROVE  /\ task'[t] \in Row
           /\ \A u \in Task : u # t => task'[u] = task[u]
           /\ task' \in [Task -> Row \cup {NoRow}]
           /\ task'[t] = [task[t] EXCEPT !.lease = "lapsed"]
           /\ task'[t].obj = task[t].obj
           /\ task'[t].target = task[t].target
           /\ task'[t].state = task[t].state
           /\ task'[t].owner = task[t].owner
           /\ task'[t].lease = "lapsed"
           /\ task'[t].attempt = task[t].attempt
           /\ task'[t].version = task[t].version
  <1> DEFINE r == [task[t] EXCEPT !.lease = "lapsed"]
  <1>1. task[t] \in Row
    BY ExistingRow DEF LeaseLapses
  <1>2. r \in Row
    BY <1>1 DEF Row, Lease
  <1>3. task'[t] = r /\ \A u \in Task : u # t => task'[u] = task[u]
    BY DEF LeaseLapses, TypeOK
  <1>5. task' \in [Task -> Row \cup {NoRow}]
    BY <1>2 DEF LeaseLapses, TypeOK
  <1>4. /\ r.obj = task[t].obj /\ r.target = task[t].target
        /\ r.state = task[t].state /\ r.owner = task[t].owner /\ r.lease = "lapsed"
        /\ r.attempt = task[t].attempt /\ r.version = task[t].version
    BY <1>1 DEF Row
  <1> QED
    BY <1>2, <1>3, <1>4, <1>5

(***************************************************************************)
(* All that the theorems below need to know of one rewriting.  LeaseShape   *)
(* is LeaseMatchesState for one row.                                        *)
(***************************************************************************)
LeaseShape(r) ==
    /\ r.state \in inProgress => r.owner = r.target
    /\ r.owner # NoDevice => r.lease # "null"
    /\ r.owner = NoDevice /\ r.lease # "null" => r.state = "retry_wait"

RewriteFacts(t) ==
    /\ Exists(t)
    /\ task'[t] \in Row
    /\ \A u \in Task : u # t => task'[u] = task[u]
    /\ task' \in [Task -> Row \cup {NoRow}]
    /\ task'[t].obj = task[t].obj
    /\ task'[t].target = task[t].target
    /\ LeaseShape(task[t]) => LeaseShape(task'[t])
    /\ \/ task'[t].state \in terminalStates
       \/ task[t].state \notin terminalStates
       \/ IndexAllows(t, task[t].obj, task[t].target)
    /\ \/ task'[t].version = task[t].version + 1
       \/ /\ task'[t] = [task[t] EXCEPT !.lease = "lapsed"]
          /\ task'[t].version = task[t].version
    /\ \/ task'[t].version = task[t].version
       \/ Holds(t, task[t].target)
       \/ task'[t].attempt = task[t].attempt + 1
       \/ task'[t].state = "canceled"

\* The updates that drop the lease owner and end or postpone the task.
LEMMA ReleaseEffect ==
    ASSUME TypeOK, NEW t \in Task, Exists(t),
           NEW s \in {"completed", "canceled", "failed_permanent", "retry_wait"},
           NEW l \in {"null", "running"}, l = "running" => s = "retry_wait",
           WriteRow(t, s, NoDevice, l, task[t].attempt)
    PROVE  /\ task'[t] \in Row
           /\ \A u \in Task : u # t => task'[u] = task[u]
           /\ task' \in [Task -> Row \cup {NoRow}]
           /\ task'[t].obj = task[t].obj
           /\ task'[t].target = task[t].target
           /\ task'[t].state = s
           /\ LeaseShape(task'[t])
           /\ task'[t].version = task[t].version + 1
  <1>1. s \in validStates /\ l \in Lease /\ task[t].attempt \in Nat
    BY ExistingRow DEF validStates, claimableStates, terminalStates, Lease, Row
  <1>2. /\ task'[t] \in Row
        /\ \A u \in Task : u # t => task'[u] = task[u]
        /\ task' \in [Task -> Row \cup {NoRow}]
        /\ task'[t].obj = task[t].obj
        /\ task'[t].target = task[t].target
        /\ task'[t].state = s
        /\ task'[t].owner = NoDevice
        /\ task'[t].lease = l
        /\ task'[t].version = task[t].version + 1
    BY <1>1, WriteRowEffect
  <1> QED
    BY <1>2 DEF LeaseShape, inProgress

\* Every rewriting satisfies these facts.
LEMMA RewriteStep ==
    ASSUME TypeOK, NEW t \in Task, Rewritten(t)
    PROVE  RewriteFacts(t)
  <1> USE DEF RewriteFacts, LeaseShape, inProgress
  <1>0. Exists(t) =>
          /\ task[t] \in Row
          /\ task[t].attempt + 1 \in Nat /\ task[t].attempt \in Nat
          /\ task[t].target \in Device /\ task[t].target # NoDevice
          /\ task[t].owner \in Device \cup {NoDevice}
          /\ task[t].lease \in Lease /\ task[t].state \in validStates
    BY ExistingRow, ConstAssumption DEF Row
  <1>S. "assigned" \in validStates /\ "running" \in Lease
    BY DEF validStates, claimableStates, terminalStates, Lease
  <1>1. ASSUME NEW d \in Device, NEW locked \in SUBSET Task, ClaimNext(t, d, locked)
        PROVE  RewriteFacts(t)
    <2>1. Exists(t) /\ task[t].target = d /\ task[t].state \in claimableStates
      BY <1>1 DEF ClaimNext, ClaimOK, Selected, Claimable
    <2>2. WriteRow(t, "assigned", d, "running", task[t].attempt + 1)
      BY <1>1 DEF ClaimNext
    <2> QED
      BY <1>0, <1>S, <2>1, <2>2, WriteRowEffect DEF claimableStates, terminalStates
  <1>2. ASSUME NEW d \in Device, AcquireLease(t, d)
        PROVE  RewriteFacts(t)
    <2> DEFINE s == IF task[t].state = "queued" THEN "assigned" ELSE task[t].state
    <2>1. Exists(t) /\ task[t].target = d /\ task[t].state \notin terminalStates
      BY <1>2 DEF AcquireLease, Live
    <2>2. WriteRow(t, s, d, "running", task[t].attempt + 1)
      BY <1>2 DEF AcquireLease
    <2>3. s \in validStates
      BY <1>0, <1>S, <2>1
    <2> HIDE DEF s
    <2> QED
      BY <1>0, <1>S, <2>1, <2>2, <2>3, WriteRowEffect
  <1>3. ASSUME NEW d \in Device, NEW v \in Nat, NEW s \in validStates, UpdateState(t, d, v, s)
        PROVE  RewriteFacts(t)
    <2>1. Exists(t) /\ task[t].target = d /\ Holds(t, d)
      BY <1>3 DEF UpdateState, UpdateStateOK
    <2>2. WriteRow(t, s, task[t].owner, task[t].lease, task[t].attempt)
      BY <1>3 DEF UpdateState
    <2>3. task[t].state \notin terminalStates
      BY <1>3 DEF UpdateState, UpdateStateOK, validTransition, validTransitions, terminalStates
    <2> QED
      BY <1>0, <2>1, <2>2, <2>3, WriteRowEffect DEF Holds
  <1>4. ASSUME NEW d \in Device, NEW v \in Nat, CompleteReplica(t, d, v)
        PROVE  RewriteFacts(t)
    <2>1. Exists(t) /\ task[t].target = d /\ Holds(t, d)
      BY <1>4 DEF CompleteReplica, CompleteReplicaOK
    <2>2. WriteRow(t, "completed", NoDevice, "null", task[t].attempt)
      BY <1>4 DEF CompleteReplica
    <2> QED
      BY <2>1, <2>2, ReleaseEffect DEF terminalStates
  <1>5. ASSUME NEW d \in Device, NEW v \in Nat, FailAttempt(t, d, v)
        PROVE  RewriteFacts(t)
    <2>1. Exists(t) /\ task[t].target = d /\ Holds(t, d)
      BY <1>5 DEF FailAttempt, FailAttemptOK
    <2>2. CASE task[t].attempt >= RetryLimit
      <3>1. WriteRow(t, "failed_permanent", NoDevice, "null", task[t].attempt)
        BY <1>5, <2>2 DEF FailAttempt
      <3> QED
        BY <2>1, <3>1, ReleaseEffect DEF terminalStates
    <2>3. CASE ~(task[t].attempt >= RetryLimit)
      <3>1. WriteRow(t, "retry_wait", NoDevice, "running", task[t].attempt)
        BY <1>5, <2>3 DEF FailAttempt
      <3>2. IndexAllows(t, task[t].obj, task[t].target)
        BY <1>5, <2>1, <2>3 DEF FailAttempt, FailAttemptOK
      <3> QED
        BY <2>1, <3>1, <3>2, ReleaseEffect
    <2> QED
      BY <2>2, <2>3
  <1>6. CASE CancelTask(t)
    <2>1. Exists(t)
      BY <1>6 DEF CancelTask, Live
    <2>2. WriteRow(t, "canceled", NoDevice, "null", task[t].attempt)
      BY <1>6 DEF CancelTask
    <2> QED
      BY <2>1, <2>2, ReleaseEffect DEF terminalStates
  <1>7. CASE LeaseLapses(t)
    <2>1. Exists(t) /\ task[t].lease = "running"
      BY <1>7 DEF LeaseLapses
    <2> QED
      BY <1>0, <1>7, <2>1, LapseEffect
  <1> QED
    BY <1>1, <1>2, <1>3, <1>4, <1>5, <1>6, <1>7 DEF Rewritten

------------------------------------------------------------------------------
\* A created row is new and complete; the other rows stay.
LEMMA CreateStep ==
    ASSUME TypeOK, NEW t \in Task, Created(t)
    PROVE  \E o \in Object, d \in Device, p \in Priority :
              /\ ~Exists(t)
              /\ IndexAllows(t, o, d)
              /\ task'[t] = NewRow(o, d, p)
              /\ task'[t] \in Row
              /\ \A u \in Task : u # t => task'[u] = task[u]
              /\ task' \in [Task -> Row \cup {NoRow}]
  BY NewRowIsRow DEF Created, TypeOK

\* TypeOK is preserved by every step.
LEMMA TypeStep ==
    ASSUME TypeOK, [Next]_vars
    PROVE  TypeOK'
  <1>1. CASE UNCHANGED vars
    BY <1>1 DEF vars, TypeOK
  <1>2. CASE Next
    <2>1. task' \in [Task -> Row \cup {NoRow}]
      <3>1. CASE task' = task
        BY <3>1 DEF TypeOK
      <3>2. ASSUME NEW t \in Task, Created(t)
            PROVE  task' \in [Task -> Row \cup {NoRow}]
        BY <3>2, CreateStep, Zenon DEF TypeOK
      <3>3. ASSUME NEW t \in Task, Rewritten(t)
            PROVE  task' \in [Task -> Row \cup {NoRow}]
        BY <3>3, RewriteStep DEF TypeOK, RewriteFacts
      <3> QED
        BY <1>2, <3>1, <3>2, <3>3, TableStep
    <2>2. /\ checked' \in SUBSET [obj : Object, target : Device, prio : Priority]
          /\ ready' \in SUBSET (Object \X Device)
          /\ listed' \in SUBSET Object
          /\ enrolled' \in SUBSET Device
      <3> USE DEF TypeOK, envVars
      <3>1. CASE \E d \in enrolled : Request(d)
        <4>1. PICK d \in enrolled : Request(d)
          BY <3>1
        <4>2. CASE \E o \in Object, e \in Device, p \in Priority :
                     CreateReplicaTaskCheck(o, e, p) \/ CreateTask(o, e, p)
          BY <4>2 DEF CreateReplicaTaskCheck, CreateTask
        <4>3. CASE \/ \E t \in Task : AcquireLease(t, d) \/ CancelTask(t)
                   \/ \E t \in Task : \E locked \in SUBSET Task : ClaimNext(t, d, locked)
          BY <4>3 DEF ClaimNext, AcquireLease, CancelTask
        <4>4. ASSUME NEW t \in Task, NEW v \in 1 .. MaxVersion[t],
                     \/ \E s \in validStates : UpdateState(t, d, v, s)
                     \/ FailAttempt(t, d, v)
              PROVE  UNCHANGED <<checked, ready, listed, enrolled>>
          BY <4>4 DEF UpdateState, FailAttempt
        <4>5. ASSUME NEW t \in Task, NEW v \in 1 .. MaxVersion[t], CompleteReplica(t, d, v)
              PROVE  /\ ready' \in SUBSET (Object \X Device)
                     /\ UNCHANGED <<checked, listed, enrolled>>
          <5>1. task[t].obj \in Object /\ d \in Device
            BY <4>5, ExistingRow DEF CompleteReplica, CompleteReplicaOK, Row
          <5> QED
            BY <4>5, <5>1 DEF CompleteReplica
        <4> QED
          BY <4>1, <4>2, <4>3, <4>4, <4>5 DEF Request
      <3>2. CASE \E r \in checked : CreateReplicaTaskInsert(r)
        <4>1. PICK r \in checked : CreateReplicaTaskInsert(r)
          BY <3>2
        <4>2. checked' = checked \ {r} /\ UNCHANGED <<ready, listed, enrolled>>
          BY <4>1 DEF CreateReplicaTaskInsert
        <4> QED
          BY <4>2
      <3>3. CASE \E t \in Task : LeaseLapses(t)
        BY <3>3 DEF LeaseLapses
      <3>4. CASE Environment
        <4>1. checked' = checked
          BY <3>4 DEF Environment, RegisterFile, DeleteReplica, TrashEntry, RestoreEntry,
                      DeregisterDevice, RegisterDevice
        <4>2. ASSUME NEW o \in Object, NEW d \in Device, RegisterFile(o, d) \/ DeleteReplica(o, d)
              PROVE  /\ ready' \in SUBSET (Object \X Device)
                     /\ listed' \in SUBSET Object
                     /\ enrolled' = enrolled
          BY <4>2 DEF RegisterFile, DeleteReplica
        <4>3. ASSUME NEW o \in Object, TrashEntry(o) \/ RestoreEntry(o)
              PROVE  ready' = ready /\ listed' \in SUBSET Object /\ enrolled' = enrolled
          BY <4>3 DEF TrashEntry, RestoreEntry
        <4>4. ASSUME NEW d \in Device, DeregisterDevice(d) \/ RegisterDevice(d)
              PROVE  ready' = ready /\ listed' = listed /\ enrolled' \in SUBSET Device
          BY <4>4 DEF DeregisterDevice, RegisterDevice
        <4> QED
          BY <3>4, <4>1, <4>2, <4>3, <4>4 DEF Environment
      <3> QED
        BY <1>2, <3>1, <3>2, <3>3, <3>4 DEF Next
    <2> QED
      BY <2>1, <2>2 DEF TypeOK
  <1> QED
    BY <1>1, <1>2

\* Type correctness of the scheduler for every set of devices and objects.
THEOREM TypeCorrect == Spec => []TypeOK
  <1>1. Init => TypeOK
    BY DEF Init, TypeOK
  <1> QED
    BY <1>1, TypeStep, PTL DEF Spec

(***************************************************************************)
(* The safety invariants.  Each is inductive together with TypeOK.          *)
(***************************************************************************)

\* No step makes a second row live for an object and target.
LEMMA OneLiveTaskStep ==
    ASSUME TypeOK, OneLiveTask, [Next]_vars
    PROVE  OneLiveTask'
  <1> USE DEF OneLiveTask, Live, Exists
  <1>1. CASE task' = task
    BY <1>1
  <1>2. ASSUME NEW t \in Task, Created(t)
        PROVE  OneLiveTask'
    <2>1. PICK o \in Object, d \in Device, p \in Priority :
              /\ IndexAllows(t, o, d)
              /\ task'[t] = NewRow(o, d, p)
              /\ \A u \in Task : u # t => task'[u] = task[u]
      BY <1>2, CreateStep
    <2>2. task'[t].obj = o /\ task'[t].target = d
      BY <2>1 DEF NewRow, MkRow
    <2> QED
      BY <2>1, <2>2 DEF IndexAllows
  <1>3. ASSUME NEW t \in Task, Rewritten(t)
        PROVE  OneLiveTask'
    <2>1. /\ Exists(t)
          /\ \A u \in Task : u # t => task'[u] = task[u]
          /\ task'[t].obj = task[t].obj
          /\ task'[t].target = task[t].target
          /\ \/ task'[t].state \in terminalStates
             \/ task[t].state \notin terminalStates
             \/ IndexAllows(t, task[t].obj, task[t].target)
      BY <1>3, RewriteStep DEF RewriteFacts
    <2>2. ASSUME NEW u \in Task, u # t, Live(u), Live(t)'
          PROVE  <<task[u].obj, task[u].target>> # <<task[t].obj, task[t].target>>
      BY <2>1, <2>2 DEF IndexAllows
    <2> QED
      BY <2>1, <2>2
  <1> QED
    BY <1>1, <1>2, <1>3, TableStep DEF vars

\* At most one live task per object and target, whoever calls what: the
\* unique index covers every way a row becomes live.
THEOREM LiveTaskUnique == Spec => []OneLiveTask
  <1>1. Init => OneLiveTask
    BY DEF Init, OneLiveTask, Live, Exists, NoRow
  <1> QED
    BY <1>1, OneLiveTaskStep, TypeCorrect, PTL DEF Spec

\* The lease columns and the state agree after every step.
LEMMA LeaseStep ==
    ASSUME TypeOK, LeaseMatchesState, [Next]_vars
    PROVE  LeaseMatchesState'
  <1>0. \A t \in Task : Exists(t) => LeaseShape(task[t])
    BY DEF LeaseMatchesState, LeaseShape
  <1> SUFFICES ASSUME NEW u \in Task, Exists(u)'
               PROVE  LeaseShape(task'[u])
    BY DEF LeaseMatchesState, LeaseShape
  <1>1. CASE task' = task
    BY <1>0, <1>1 DEF Exists
  <1>2. ASSUME NEW t \in Task, Created(t)
        PROVE  LeaseShape(task'[u])
    <2>1. PICK o \in Object, d \in Device, p \in Priority :
              /\ task'[t] = NewRow(o, d, p)
              /\ \A w \in Task : w # t => task'[w] = task[w]
      BY <1>2, CreateStep
    <2>2. LeaseShape(NewRow(o, d, p))
      BY DEF LeaseShape, NewRow, MkRow, inProgress
    <2> QED
      BY <1>0, <2>1, <2>2 DEF Exists
  <1>3. ASSUME NEW t \in Task, Rewritten(t)
        PROVE  LeaseShape(task'[u])
    BY <1>0, <1>3, RewriteStep DEF RewriteFacts, Exists
  <1> QED
    BY <1>1, <1>2, <1>3, TableStep DEF vars

\* The lease columns agree with the state column: work in progress is owned
\* by its target, an ownerless lease is a retry delay.
THEOREM LeaseAgreesWithState == Spec => []LeaseMatchesState
  <1>1. Init => LeaseMatchesState
    BY DEF Init, LeaseMatchesState, Exists, NoRow
  <1> QED
    BY <1>1, LeaseStep, TypeCorrect, PTL DEF Spec

\* Every change of a row but the passage of time takes a new version number.
THEOREM VersionFence == Spec => VersionFencesRow
  <1>1. ASSUME TypeOK, [Next]_vars, NEW t \in Task, Exists(t), task'[t] # task[t]
        PROVE  \/ task'[t].version = task[t].version + 1
               \/ task'[t] = [task[t] EXCEPT !.lease = "lapsed"]
    BY <1>1, TableStep, CreateStep, RewriteStep DEF vars, RewriteFacts
  <1>2. TypeOK /\ [Next]_vars =>
          [\A t \in Task :
              Exists(t) /\ task'[t] # task[t] =>
                  \/ task'[t].version = task[t].version + 1
                  \/ task'[t] = [task[t] EXCEPT !.lease = "lapsed"]]_vars
    BY <1>1
  <1> QED
    BY <1>2, TypeCorrect, PTL DEF Spec, VersionFencesRow

\* Outside a new lease and a cancellation, only the device that holds the
\* unexpired lease changes a row.
THEOREM HolderReports == Spec => OnlyTheHolderReports
  <1>1. ASSUME TypeOK, [Next]_vars, NEW t \in Task, Exists(t),
               task'[t].version # task[t].version
        PROVE  \/ Holds(t, task[t].target)
               \/ task'[t].attempt = task[t].attempt + 1
               \/ task'[t].state = "canceled"
    BY <1>1, TableStep, CreateStep, RewriteStep DEF vars, RewriteFacts
  <1>2. TypeOK /\ [Next]_vars =>
          [\A t \in Task :
              Exists(t) /\ task'[t].version # task[t].version =>
                  \/ Holds(t, task[t].target)
                  \/ task'[t].attempt = task[t].attempt + 1
                  \/ task'[t].state = "canceled"]_vars
    BY <1>1
  <1> QED
    BY <1>2, TypeCorrect, PTL DEF Spec, OnlyTheHolderReports

------------------------------------------------------------------------------
(***************************************************************************)
(* TransferExecutor.  The inductive invariant.                              *)
(***************************************************************************)

\* The pcs at which an Agent works on an assignment it got from a claim.
workPCs == reportedStates \cup {"download", "import", "complete", "fail", "cancel"}

\* Version v and attempt a were those of the row of t at some time: the row
\* still has version v only if it still has attempt a.
Fenced(t, v, a) ==
    /\ t \in Task /\ Exists(t)
    /\ v <= task[t].version
    /\ v = task[t].version => a = task[t].attempt

\* What an Agent knows, and what an abandoned request carries, is fenced;
\* completion is reported of what is stored.
AgentsFenced ==
    \A d \in Agents :
        /\ agent[d].pc \in workPCs => Fenced(agent[d].task, agent[d].version, agent[d].attempt)
        /\ agent[d].pc = "complete" => agent[d].task \in stored
        /\ agent[d].pc = "sweep" => agent[d].task \in Task /\ Exists(agent[d].task)
        /\ \A t \in agent[d].todo : Exists(t)

LateFenced ==
    \A m \in late :
        /\ m.op \in workPCs => Fenced(m.task, m.version, m.attempt)
        /\ m.op = "complete" => m.task \in stored
        /\ m.op = "sweep" => m.task \in Task /\ Exists(m.task)

\* Versions count from 1; a task that has ended has no lease owner, so that no
\* report of any attempt is accepted for it.
RowsSound ==
    \A t \in Task : Exists(t) =>
        /\ task[t].version >= 1
        /\ task[t].state \in terminalStates => task[t].owner = NoDevice

\* The local list shows tasks that exist.
RunsExist == \A t \in Task : run[t].state # "none" => Exists(t)

ExecInv ==
    /\ ExecTypeOK
    /\ AgentsFenced
    /\ LateFenced
    /\ RowsSound
    /\ RunsExist
    /\ ReplicaIsStored
    /\ LocalEndIsReal

-----------------------------------------------------------------------------
(***************************************************************************)
(* What the server does for a request, and what that leaves of the          *)
(* invariant.                                                               *)
(***************************************************************************)

\* Rows stay, versions grow with every change but the passage of time, and
\* what has ended stays as it is.
Advance ==
    \A t \in Task : Exists(t) =>
        /\ Exists(t)'
        /\ task'[t].version >= task[t].version
        /\ task'[t].version = task[t].version => task'[t].attempt = task[t].attempt
        /\ task[t].state \in terminalStates => task'[t].state = task[t].state

\* Fences hold across such a step.
LEMMA FencedKept ==
    ASSUME TypeOK, TypeOK', Advance, NEW t, NEW v \in Nat, NEW a \in Nat, Fenced(t, v, a)
    PROVE  t \in Task /\ Exists(t)' /\ v <= task'[t].version
           /\ (v = task'[t].version => a = task'[t].attempt)
  <1>1. t \in Task /\ Exists(t) /\ Exists(t)'
    BY DEF Fenced, Advance
  <1>2. task[t] \in Row /\ task'[t] \in Row
    BY <1>1 DEF TypeOK, Exists, NoRow, Row
  <1>3. task[t].version \in Nat /\ task'[t].version \in Nat
    BY <1>2 DEF Row
  <1> QED
    BY <1>1, <1>3 DEF Fenced, Advance

\* Facts about a row that exists.
LEMMA RowTypes ==
    ASSUME TypeOK, NEW t \in Task, Exists(t)
    PROVE  /\ task[t] \in Row
           /\ task[t].attempt + 1 \in Nat /\ task[t].attempt \in Nat /\ task[t].version \in Nat
           /\ task[t].version + 1 # task[t].version
           /\ task[t].target \in Device /\ task[t].target # NoDevice
           /\ task[t].owner \in Device \cup {NoDevice}
           /\ task[t].lease \in Lease /\ task[t].state \in validStates
  BY ExistingRow, ConstAssumption DEF Row

\* Facts about the names of states and leases.
LEMMA StateNames ==
    /\ "absent" \notin validStates
    /\ "assigned" \in validStates \ terminalStates /\ "queued" \in validStates \ terminalStates
    /\ "completed" \in validStates /\ "failed_permanent" \in validStates /\ "canceled" \in validStates
    /\ "retry_wait" \in validStates
    /\ reportedStates \subseteq validStates \ terminalStates
    /\ "completed" \in terminalStates /\ "canceled" \in terminalStates
    /\ "retry_wait" \notin terminalStates
    /\ "running" \in Lease /\ "null" \in Lease
    /\ "completed" \notin reportedStates
  BY DEF validStates, claimableStates, terminalStates, Lease, reportedStates

\* The row exists after a step that gives it its columns.
LEMMA RowExists ==
    ASSUME NEW t \in Task, task'[t] \in Row
    PROVE  Exists(t)'
  BY StateNames DEF Exists, Row

\* A task whose lease is held has not ended.
LEMMA HeldIsLive ==
    ASSUME RowsSound, NEW t \in Task, Exists(t), NEW d \in Device, Holds(t, d)
    PROVE  task[t].state \notin terminalStates
  BY ConstAssumption DEF RowsSound, Holds

\* The requests of an Agent, each with its effect on the row.
LEMMA ClaimEffect ==
    ASSUME TypeOK, NEW t \in Task, NEW d \in Device, ClaimNext(t, d, {})
    PROVE  /\ Exists(t) /\ task[t].state \notin terminalStates
           /\ \A u \in Task : u # t => task'[u] = task[u]
           /\ task'[t] \in Row /\ task'[t].version = task[t].version + 1
           /\ task'[t].state = "assigned"
  <1>1. Exists(t) /\ task[t].state \in claimableStates
    BY DEF ClaimNext, ClaimOK, Selected, Claimable
  <1>2. WriteRow(t, "assigned", d, "running", task[t].attempt + 1)
    BY DEF ClaimNext
  <1> QED
    BY <1>1, <1>2, RowTypes, StateNames, WriteRowEffect DEF claimableStates, terminalStates

\* A reported state.
LEMMA UpdateEffect ==
    ASSUME TypeOK, RowsSound, NEW t \in Task, NEW d \in Device, NEW v \in Nat, NEW s \in reportedStates,
           UpdateState(t, d, v, s)
    PROVE  /\ Exists(t) /\ task[t].state \notin terminalStates /\ task[t].version = v
           /\ \A u \in Task : u # t => task'[u] = task[u]
           /\ task'[t] \in Row /\ task'[t].version = task[t].version + 1
           /\ task'[t].attempt = task[t].attempt
           /\ task'[t].state = s
  <1>1. Exists(t) /\ Holds(t, d) /\ task[t].version = v
    BY DEF UpdateState, UpdateStateOK
  <1>2. WriteRow(t, s, task[t].owner, task[t].lease, task[t].attempt)
    BY DEF UpdateState
  <1>3. s \in validStates
    BY StateNames
  <1>4. task[t].attempt \in Nat /\ task[t].owner \in Device \cup {NoDevice} /\ task[t].lease \in Lease
    BY <1>1, RowTypes
  <1>5. task[t].state \notin terminalStates
    BY <1>1, HeldIsLive
  <1>6. PICK o \in Device \cup {NoDevice}, l \in Lease, a \in Nat :
           o = task[t].owner /\ l = task[t].lease /\ a = task[t].attempt
    BY <1>4
  <1>7. WriteRow(t, s, o, l, a)
    BY <1>2, <1>6
  <1>8. /\ \A u \in Task : u # t => task'[u] = task[u]
        /\ task'[t] \in Row /\ task'[t].version = task[t].version + 1
        /\ task'[t].attempt = a /\ task'[t].state = s
    BY <1>1, <1>3, <1>7, WriteRowEffect
  <1> QED
    BY <1>1, <1>5, <1>6, <1>8

\* A completion.
LEMMA CompleteEffect ==
    ASSUME TypeOK, RowsSound, NEW t \in Task, NEW d \in Device, NEW v \in Nat, CompleteReplica(t, d, v)
    PROVE  /\ Exists(t) /\ task[t].state \notin terminalStates
           /\ \A u \in Task : u # t => task'[u] = task[u]
           /\ task'[t] \in Row /\ task'[t].version = task[t].version + 1
           /\ task'[t].state = "completed" /\ task'[t].owner = NoDevice
  <1>0. Exists(t) /\ Holds(t, d)
    BY DEF CompleteReplica, CompleteReplicaOK
  <1>1. /\ Exists(t) /\ task[t].attempt \in Nat /\ task[t].state \notin terminalStates
        /\ "null" \in Lease /\ "running" \in Lease /\ "completed" \in validStates
        /\ "failed_permanent" \in validStates /\ "retry_wait" \in validStates
    BY <1>0, RowTypes, HeldIsLive, StateNames
  <1>2. WriteRow(t, "completed", NoDevice, "null", task[t].attempt)
    BY DEF CompleteReplica
  <1> QED
    BY <1>1, <1>2, WriteRowEffect

\* A failure.
LEMMA FailEffect ==
    ASSUME TypeOK, RowsSound, NEW t \in Task, NEW d \in Device, NEW v \in Nat, FailAttempt(t, d, v)
    PROVE  /\ Exists(t) /\ task[t].state \notin terminalStates
           /\ \A u \in Task : u # t => task'[u] = task[u]
           /\ task'[t] \in Row /\ task'[t].version = task[t].version + 1
           /\ task'[t].state \in {"failed_permanent", "retry_wait"} /\ task'[t].owner = NoDevice
  <1>0. Exists(t) /\ Holds(t, d)
    BY DEF FailAttempt, FailAttemptOK
  <1>1. /\ Exists(t) /\ task[t].attempt \in Nat /\ task[t].state \notin terminalStates
        /\ "null" \in Lease /\ "running" \in Lease /\ "completed" \in validStates
        /\ "failed_permanent" \in validStates /\ "retry_wait" \in validStates
    BY <1>0, RowTypes, HeldIsLive, StateNames
  <1>2. CASE task[t].attempt >= RetryLimit
    <2>1. WriteRow(t, "failed_permanent", NoDevice, "null", task[t].attempt)
      BY <1>2 DEF FailAttempt
    <2> QED
      BY <1>1, <2>1, WriteRowEffect
  <1>3. CASE ~(task[t].attempt >= RetryLimit)
    <2>1. WriteRow(t, "retry_wait", NoDevice, "running", task[t].attempt)
      BY <1>3 DEF FailAttempt
    <2> QED
      BY <1>1, <2>1, WriteRowEffect
  <1> QED
    BY <1>2, <1>3

\* A cancellation.
LEMMA CancelEffect ==
    ASSUME TypeOK, NEW t \in Task, CancelTask(t)
    PROVE  /\ Exists(t) /\ task[t].state \notin terminalStates
           /\ \A u \in Task : u # t => task'[u] = task[u]
           /\ task'[t] \in Row /\ task'[t].version = task[t].version + 1
           /\ task'[t].state = "canceled" /\ task'[t].owner = NoDevice
  <1>1. Exists(t) /\ task[t].state \notin terminalStates
    BY DEF CancelTask, Live
  <1>2. WriteRow(t, "canceled", NoDevice, "null", task[t].attempt)
    BY DEF CancelTask
  <1>3. task[t].attempt \in Nat /\ "null" \in Lease /\ "canceled" \in validStates
    BY <1>1, RowTypes, StateNames
  <1> QED
    BY <1>1, <1>2, <1>3, WriteRowEffect

\* The rewritings of the table that occur with Agents.
AgentRewrite(t) ==
    \/ \E d \in Device : ClaimNext(t, d, {})
    \/ \E d \in Device : \E v \in Nat :
          \/ \E s \in reportedStates : UpdateState(t, d, v, s)
          \/ CompleteReplica(t, d, v)
          \/ FailAttempt(t, d, v)
    \/ CancelTask(t)
    \/ LeaseLapses(t)

\* What they have in common.
LEMMA RewriteAdvances ==
    ASSUME TypeOK, RowsSound, NEW t \in Task, AgentRewrite(t)
    PROVE  /\ Exists(t)
           /\ \A u \in Task : u # t => task'[u] = task[u]
           /\ Exists(t)'
           /\ task[t].state \in terminalStates => task'[t].state = task[t].state
           /\ task'[t].version = task[t].version + 1 \/ task'[t].version = task[t].version
           /\ task'[t].version = task[t].version => task'[t].attempt = task[t].attempt
           /\ task'[t].state \in terminalStates => task'[t].owner = NoDevice
  <1>1. CASE LeaseLapses(t)
    <2>1. Exists(t)
      BY <1>1 DEF LeaseLapses
    <2> QED
      BY <1>1, <2>1, LapseEffect, RowExists DEF RowsSound
  <1>2. CASE \E d \in Device : ClaimNext(t, d, {})
    BY <1>2, ClaimEffect, RowTypes, RowExists, StateNames
  <1>3. CASE \E d \in Device : \E v \in Nat : \E s \in reportedStates : UpdateState(t, d, v, s)
    BY <1>3, UpdateEffect, RowTypes, RowExists, StateNames
  <1>4. CASE \E d \in Device : \E v \in Nat : CompleteReplica(t, d, v)
    BY <1>4, CompleteEffect, RowTypes, RowExists
  <1>5. CASE \E d \in Device : \E v \in Nat : FailAttempt(t, d, v)
    BY <1>5, FailEffect, RowTypes, RowExists
  <1>6. CASE CancelTask(t)
    BY <1>6, CancelEffect, RowTypes, RowExists
  <1> QED
    BY <1>1, <1>2, <1>3, <1>4, <1>5, <1>6 DEF AgentRewrite

\* Whatever the server does while Agents run, the table advances and its
\* rows stay sound.
LEMMA ServerAdvances ==
    ASSUME TypeOK, RowsSound, task' = task \/ \E t \in Task : AgentRewrite(t) \/ Created(t)
    PROVE  Advance /\ RowsSound'
  <1>1. CASE task' = task
    BY <1>1, RowTypes DEF Advance, RowsSound, Exists
  <1>2. ASSUME NEW t \in Task, Created(t) PROVE Advance /\ RowsSound'
    <2>1. PICK o \in Object, d \in Device, p \in Priority :
              /\ ~Exists(t) /\ task'[t] = NewRow(o, d, p)
              /\ \A u \in Task : u # t => task'[u] = task[u]
      BY <1>2, CreateStep
    <2>2. task'[t].version = 1 /\ task'[t].owner = NoDevice
      BY <2>1 DEF NewRow, MkRow
    <2> QED
      BY <2>1, <2>2, RowTypes DEF Advance, RowsSound, Exists
  <1>3. ASSUME NEW t \in Task, AgentRewrite(t) PROVE Advance /\ RowsSound'
    <2>1. /\ Exists(t)
          /\ \A u \in Task : u # t => task'[u] = task[u]
          /\ Exists(t)'
          /\ task[t].state \in terminalStates => task'[t].state = task[t].state
          /\ task'[t].version = task[t].version + 1 \/ task'[t].version = task[t].version
          /\ task'[t].version = task[t].version => task'[t].attempt = task[t].attempt
          /\ task'[t].state \in terminalStates => task'[t].owner = NoDevice
      BY <1>3, RewriteAdvances
    <2>2. \A u \in Task : Exists(u) => task[u].version \in Nat
      BY RowTypes
    <2>3. Advance
      BY <2>1, <2>2 DEF Advance, Exists
    <2>4. task'[t].version >= 1
      BY <2>1, <2>2 DEF RowsSound
    <2>5. RowsSound'
      BY <2>1, <2>4 DEF RowsSound, Exists
    <2> QED
      BY <2>3, <2>5
  <1> QED
    BY <1>1, <1>2, <1>3

\* A version that a report carries and the row still has is one the bound
\* allows.
LEMMA VersionInRange ==
    ASSUME TypeOK, RowsSound, NEW t \in Task, Exists(t), NEW v, v = task[t].version,
           task[t].version < MaxVersion[t]
    PROVE  v \in 1 .. MaxVersion[t]
  <1>1. task[t].version \in Nat /\ task[t].version >= 1
    BY RowTypes DEF RowsSound
  <1>2. MaxVersion[t] \in Nat
    BY ConstAssumption DEF Task
  <1> QED
    BY <1>1, <1>2

\* The server acts on a request: one of its own steps, with these effects.
LEMMA ServeFacts ==
    ASSUME TypeOK, RowsSound, NEW m \in Requests, m.op # "claim" => m.task \in Task, Accepted(m), Serve(m)
    PROVE  /\ [Next]_vars
           /\ task' = task \/ \E t \in Task : AgentRewrite(t)
           /\ \A u \in Task : task'[u].state = "completed" =>
                 task[u].state = "completed" \/ (m.op = "complete" /\ u = m.task)
           /\ m.op \in reportedStates =>
                 /\ task[m.task].version = m.version
                 /\ task'[m.task].version = m.version + 1
                 /\ task'[m.task].attempt = task[m.task].attempt
           /\ m.op = "complete" => task'[m.task].state = "completed"
           /\ m.op \in {"cancel", "sweep"} => task'[m.task].state \in terminalStates
  <1>0. m.dev \in enrolled /\ m.dev \in Device /\ m.version \in Nat
    BY ExecAssumption DEF Accepted, Requests
  <1>N. reportedStates \cap {"claim", "complete", "fail", "cancel", "sweep"} = {}
    BY DEF reportedStates
  <1>1. CASE m.op = "claim"
    <2>1. PICK t \in Task : ClaimNext(t, m.dev, {})
      BY <1>1, <1>N DEF Serve
    <2>2. Request(m.dev)
      BY <2>1 DEF Request
    <2>3. [Next]_vars
      BY <1>0, <2>2 DEF Next
    <2>4. AgentRewrite(t)
      BY <1>0, <2>1 DEF AgentRewrite
    <2>5. (\A u \in Task : u # t => task'[u] = task[u]) /\ task'[t].state = "assigned"
      BY <1>0, <2>1, ClaimEffect
    <2> QED
      BY <1>1, <1>N, <2>3, <2>4, <2>5
  <1>2. CASE m.op \in reportedStates
    <2>0. m.op \notin {"claim", "complete", "fail", "cancel", "sweep"} /\ m.task \in Task
      BY <1>2, <1>N
    <2>1. UpdateState(m.task, m.dev, m.version, m.op)
      BY <1>2, <2>0 DEF Serve
    <2>2. Exists(m.task) /\ m.version = task[m.task].version /\ task[m.task].version < MaxVersion[m.task]
      BY <2>1 DEF UpdateState, UpdateStateOK
    <2>3. m.version \in 1 .. MaxVersion[m.task]
      BY <2>0, <2>2, VersionInRange
    <2>4. m.op \in validStates
      BY <1>2, StateNames
    <2>5. Request(m.dev)
      BY <2>0, <2>1, <2>3, <2>4 DEF Request
    <2>6. [Next]_vars
      BY <1>0, <2>5 DEF Next
    <2>7. AgentRewrite(m.task)
      BY <1>0, <1>2, <2>1 DEF AgentRewrite
    <2>8. /\ \A u \in Task : u # m.task => task'[u] = task[u]
          /\ task'[m.task].version = task[m.task].version + 1
          /\ task'[m.task].attempt = task[m.task].attempt
          /\ task'[m.task].state = m.op
      BY <1>0, <1>2, <2>0, <2>1, UpdateEffect
    <2> QED
      BY <1>2, <2>0, <2>2, <2>6, <2>7, <2>8, StateNames
  <1>3. CASE m.op = "complete"
    <2>0. m.op \notin reportedStates \cup {"claim", "fail", "cancel", "sweep"} /\ m.task \in Task
      BY <1>3, <1>N
    <2>1. CompleteReplica(m.task, m.dev, m.version)
      BY <1>3, <2>0 DEF Serve
    <2>2. Exists(m.task) /\ m.version = task[m.task].version /\ task[m.task].version < MaxVersion[m.task]
      BY <2>1 DEF CompleteReplica, CompleteReplicaOK
    <2>3. m.version \in 1 .. MaxVersion[m.task]
      BY <2>0, <2>2, VersionInRange
    <2>4. Request(m.dev)
      BY <2>0, <2>1, <2>3 DEF Request
    <2>5. [Next]_vars
      BY <1>0, <2>4 DEF Next
    <2>6. AgentRewrite(m.task)
      BY <1>0, <2>1 DEF AgentRewrite
    <2>7. /\ \A u \in Task : u # m.task => task'[u] = task[u]
          /\ task'[m.task].state = "completed"
      BY <1>0, <2>0, <2>1, CompleteEffect
    <2> QED
      BY <1>3, <2>0, <2>5, <2>6, <2>7
  <1>4. CASE m.op = "fail"
    <2>0. m.op \notin reportedStates \cup {"claim", "complete", "cancel", "sweep"} /\ m.task \in Task
      BY <1>4, <1>N
    <2>1. FailAttempt(m.task, m.dev, m.version)
      BY <1>4, <2>0 DEF Serve
    <2>2. Exists(m.task) /\ m.version = task[m.task].version /\ task[m.task].version < MaxVersion[m.task]
      BY <2>1 DEF FailAttempt, FailAttemptOK
    <2>3. m.version \in 1 .. MaxVersion[m.task]
      BY <2>0, <2>2, VersionInRange
    <2>4. Request(m.dev)
      BY <2>0, <2>1, <2>3 DEF Request
    <2>5. [Next]_vars
      BY <1>0, <2>4 DEF Next
    <2>6. AgentRewrite(m.task)
      BY <1>0, <2>1 DEF AgentRewrite
    <2>7. /\ \A u \in Task : u # m.task => task'[u] = task[u]
          /\ task'[m.task].state \in {"failed_permanent", "retry_wait"}
      BY <1>0, <2>0, <2>1, FailEffect
    <2> QED
      BY <1>4, <2>0, <2>5, <2>6, <2>7
  <1>5. CASE m.op \in {"cancel", "sweep"}
    <2>0. m.op \notin reportedStates \cup {"claim", "complete", "fail"} /\ m.task \in Task
      BY <1>5, <1>N
    <2>1. CASE CancelTask(m.task)
      <3>1. Request(m.dev)
        BY <2>0, <2>1 DEF Request
      <3>2. [Next]_vars
        BY <1>0, <3>1 DEF Next
      <3>3. AgentRewrite(m.task)
        BY <2>1 DEF AgentRewrite
      <3>4. /\ \A u \in Task : u # m.task => task'[u] = task[u]
            /\ task'[m.task].state = "canceled"
        BY <2>0, <2>1, CancelEffect
      <3> QED
        BY <2>0, <3>2, <3>3, <3>4, StateNames
    <2>2. CASE ~Live(m.task) /\ UNCHANGED vars
      <3>1. Exists(m.task)
        BY <1>5, <2>0 DEF Accepted
      <3>2. task' = task /\ task[m.task].state \in terminalStates
        BY <2>2, <3>1 DEF vars, Live
      <3> QED
        BY <2>0, <2>2, <3>2
    <2> QED
      BY <1>5, <2>0, <2>1, <2>2 DEF Serve
  <1> QED
    BY <1>1, <1>2, <1>3, <1>4, <1>5 DEF Requests, requestPCs

-----------------------------------------------------------------------------
(***************************************************************************)
(* The invariant after a step, clause by clause: what the server's part of  *)
(* the step leaves (Carried), and what the Agents' part must add to it.     *)
(***************************************************************************)
AgentType == [pc : PCs, task : Task \cup {0}, version : Nat, attempt : Nat, todo : SUBSET Task]
RunType == [state : {"none", "open", "completed", "canceled"}, cancel : BOOLEAN]
PartType == [len : {"none", "some", "all", "over"}, good : BOOLEAN]

\* Fenced and the clauses of the invariant, read in the next state.
There(t) == task'[t].state # "absent"

FencedNext(t, v, a) ==
    /\ t \in Task /\ There(t)
    /\ v <= task'[t].version
    /\ v = task'[t].version => a = task'[t].attempt

AgentNext(x) ==
    /\ x.pc \in workPCs => FencedNext(x.task, x.version, x.attempt)
    /\ x.pc = "complete" => x.task \in stored'
    /\ x.pc = "sweep" => x.task \in Task /\ There(x.task)
    /\ \A t \in x.todo : There(t)

LateNext(m) ==
    /\ m.op \in workPCs => FencedNext(m.task, m.version, m.attempt)
    /\ m.op = "complete" => m.task \in stored'
    /\ m.op = "sweep" => m.task \in Task /\ There(m.task)

RunNext(t, s) ==
    /\ s # "none" => There(t)
    /\ s = "completed" => task'[t].state = "completed"
    /\ s = "canceled" => task'[t].state \in terminalStates

\* The server's part of a step is one of its own steps, and completes only
\* what is stored.
ServerOK ==
    /\ [Next]_vars
    /\ task' = task \/ \E t \in Task : AgentRewrite(t) \/ Created(t)
    /\ \A t \in Task : task'[t].state = "completed" => task[t].state = "completed" \/ t \in stored'
    /\ stored \subseteq stored'

Carried ==
    /\ TypeOK' /\ RowsSound'
    /\ \A d \in Agents : AgentNext(agent[d])
    /\ \A m \in late : LateNext(m)
    /\ \A t \in Task : RunNext(t, run[t].state)
    /\ \A t \in Task : task'[t].state = "completed" => t \in stored'

\* One Agent moves, at most one run changes.
AgentMoves ==
    \/ agent' = agent
    \/ \E d \in Agents : \E x \in AgentType : AgentNext(x) /\ agent' = [agent EXCEPT ![d] = x]

RunMoves ==
    \/ run' = run
    \/ \E t \in Task : \E r \in RunType : RunNext(t, r.state) /\ run' = [run EXCEPT ![t] = r]

\* The server's part of a step keeps what the invariant says of it.
LEMMA CarriedOver ==
    ASSUME ExecInv, ServerOK
    PROVE  Carried
  <1> USE DEF ExecInv
  <1>0. TypeOK
    BY DEF ExecTypeOK
  <1>1. TypeOK'
    BY <1>0, TypeStep DEF ServerOK
  <1>2. Advance /\ RowsSound'
    BY <1>0, ServerAdvances DEF ServerOK
  <1>3. ASSUME NEW t, NEW v \in Nat, NEW a \in Nat, Fenced(t, v, a)
        PROVE  FencedNext(t, v, a)
    BY <1>0, <1>1, <1>2, <1>3, FencedKept DEF FencedNext, There, Exists
  <1>4. ASSUME NEW d \in Agents PROVE AgentNext(agent[d])
    <2>1. agent[d] \in AgentType
      BY <1>4 DEF ExecTypeOK, AgentType
    <2>2. agent[d].version \in Nat /\ agent[d].attempt \in Nat /\ agent[d].todo \in SUBSET Task
      BY <2>1 DEF AgentType
    <2>3. agent[d].pc \in workPCs => FencedNext(agent[d].task, agent[d].version, agent[d].attempt)
      BY <1>3, <2>2 DEF AgentsFenced
    <2>4. /\ agent[d].pc = "complete" => agent[d].task \in stored'
          /\ agent[d].pc = "sweep" => agent[d].task \in Task /\ There(agent[d].task)
          /\ \A t \in agent[d].todo : There(t)
      BY <1>2, <2>2 DEF AgentsFenced, Advance, ServerOK, There, Exists
    <2> QED
      BY <2>3, <2>4 DEF AgentNext
  <1>5. ASSUME NEW m \in late PROVE LateNext(m)
    <2>1. m.version \in Nat /\ m.attempt \in Nat
      BY <1>5 DEF ExecTypeOK, Requests
    <2>2. m.op \in workPCs => FencedNext(m.task, m.version, m.attempt)
      BY <1>3, <2>1 DEF LateFenced
    <2>3. /\ m.op = "complete" => m.task \in stored'
          /\ m.op = "sweep" => m.task \in Task /\ There(m.task)
      BY <1>2 DEF LateFenced, Advance, ServerOK, There, Exists
    <2> QED
      BY <2>2, <2>3 DEF LateNext
  <1>6. ASSUME NEW t \in Task PROVE RunNext(t, run[t].state)
    BY <1>2, StateNames DEF RunNext, RunsExist, LocalEndIsReal, Advance, There, Exists
  <1>7. ASSUME NEW t \in Task, task'[t].state = "completed" PROVE t \in stored'
    <2>1. CASE task[t].state = "completed"
      BY <2>1 DEF ReplicaIsStored, ServerOK, Exists
    <2> QED
      BY <1>7, <2>1 DEF ServerOK
  <1> QED
    BY <1>1, <1>2, <1>4, <1>5, <1>6, <1>7 DEF Carried

\* The Agents' part completes the invariant.
LEMMA Recombined ==
    ASSUME ExecInv, Carried, AgentMoves, RunMoves,
           late' \in SUBSET Requests, \A m \in late' : m \in late \/ LateNext(m),
           part' \in [Task -> PartType], stored' \in SUBSET Task,
           faults' \in 0 .. MaxFaults, churn' \in 0 .. MaxChurn
    PROVE  ExecInv'
  <1> USE DEF ExecInv
  <1>1. agent' \in [Agents -> AgentType] /\ \A d \in Agents : AgentNext(agent'[d])
    <2>1. agent \in [Agents -> AgentType] /\ \A d \in Agents : AgentNext(agent[d])
      BY DEF ExecTypeOK, AgentType, Carried
    <2>2. ASSUME NEW d \in Agents, NEW x \in AgentType, AgentNext(x), agent' = [agent EXCEPT ![d] = x]
          PROVE  agent' \in [Agents -> AgentType] /\ \A e \in Agents : AgentNext(agent'[e])
      <3>1. agent' \in [Agents -> AgentType]
        BY <2>1, <2>2
      <3>2. ASSUME NEW e \in Agents PROVE AgentNext(agent'[e])
        <4>1. agent'[e] = agent[e] \/ agent'[e] = x
          BY <2>1, <2>2
        <4> QED
          BY <2>1, <2>2, <4>1, Zenon
      <3> QED
        BY <3>1, <3>2
    <2> QED
      BY <2>1, <2>2 DEF AgentMoves
  <1>2. AgentsFenced'
    BY <1>1 DEF AgentsFenced, AgentNext, Fenced, FencedNext, There, Exists
  <1>3. LateFenced'
    <2>1. \A m \in late' : LateNext(m)
      BY DEF Carried
    <2> QED
      BY <2>1 DEF LateFenced, LateNext, Fenced, FencedNext, There, Exists
  <1>4. run' \in [Task -> RunType] /\ \A t \in Task : RunNext(t, run'[t].state)
    <2>1. run \in [Task -> RunType] /\ \A t \in Task : RunNext(t, run[t].state)
      BY DEF ExecTypeOK, RunType, Carried
    <2>2. ASSUME NEW t \in Task, NEW r \in RunType, RunNext(t, r.state), run' = [run EXCEPT ![t] = r]
          PROVE  run' \in [Task -> RunType] /\ \A u \in Task : RunNext(u, run'[u].state)
      <3>1. run' \in [Task -> RunType]
        BY <2>1, <2>2
      <3>2. ASSUME NEW u \in Task PROVE RunNext(u, run'[u].state)
        <4>1. run'[u] = run[u] \/ (u = t /\ run'[u] = r)
          BY <2>1, <2>2
        <4> QED
          BY <2>1, <2>2, <4>1, Zenon
      <3> QED
        BY <3>1, <3>2
    <2> QED
      BY <2>1, <2>2 DEF RunMoves
  <1>5. RunsExist' /\ LocalEndIsReal'
    BY <1>4 DEF RunsExist, LocalEndIsReal, RunNext, There, Exists
  <1>6. ReplicaIsStored' /\ RowsSound'
    BY DEF ReplicaIsStored, Carried
  <1>7. ExecTypeOK'
    BY <1>1, <1>4 DEF ExecTypeOK, Carried, AgentType, RunType, PartType
  <1> QED
    BY <1>2, <1>3, <1>5, <1>6, <1>7

-----------------------------------------------------------------------------
(***************************************************************************)
(* The ways an Agent moves.                                                 *)
(***************************************************************************)

\* The Agent goes back to the top of its loop.
LEMMA RestMoves ==
    ASSUME NEW d \in Agents, Rest(d)
    PROVE  AgentMoves
  <1>1. Idle \in AgentType
    BY DEF Idle, AgentType, PCs
  <1>2. AgentNext(Idle)
    BY DEF Idle, AgentNext, workPCs, reportedStates
  <1> QED
    BY <1>1, <1>2 DEF Rest, AgentMoves

\* A move within an attempt keeps the assignment it works on.
LEMMA GotoMoves ==
    ASSUME ExecInv, Carried, NEW d \in Agents, agent[d].pc \in workPCs,
           NEW pc \in workPCs, pc = "complete" => agent[d].task \in stored', Goto(d, pc)
    PROVE  AgentMoves
  <1>1. agent \in [Agents -> AgentType] /\ agent[d] \in AgentType
    BY DEF ExecInv, ExecTypeOK, AgentType
  <1>2. pc \in PCs /\ pc # "sweep"
    BY DEF PCs, workPCs, requestPCs, reportedStates
  <1>3. PICK x : x = [agent[d] EXCEPT !.pc = pc]
    OBVIOUS
  <1>4. /\ x \in AgentType /\ x.pc = pc /\ x.task = agent[d].task /\ x.version = agent[d].version
        /\ x.attempt = agent[d].attempt /\ x.todo = agent[d].todo
    BY <1>1, <1>2, <1>3 DEF AgentType
  <1>5. agent' = [agent EXCEPT ![d] = x]
    BY <1>1, <1>3 DEF Goto, AgentType
  <1>6. AgentNext(agent[d])
    BY DEF Carried
  <1>7. AgentNext(x)
    BY <1>2, <1>4, <1>6 DEF AgentNext
  <1> QED
    BY <1>4, <1>5, <1>7 DEF AgentMoves

\* The loop over the cancellations goes on, or the claim follows it.
LEMMA SweepMoves ==
    ASSUME NEW d \in Agents, NEW todo \in SUBSET Task, \A t \in todo : There(t), SweepOn(d, todo)
    PROVE  AgentMoves
  <1>N. /\ "sweep" \in PCs /\ "claim" \in PCs /\ "sweep" \notin workPCs /\ "claim" \notin workPCs
    BY DEF PCs, workPCs, requestPCs, reportedStates
  <1>1. ASSUME NEW t \in todo,
               agent' = [agent EXCEPT ![d] = [Idle EXCEPT !.pc = "sweep", !.task = t, !.todo = todo \ {t}]]
        PROVE  AgentMoves
    <2>1. PICK x : x = [Idle EXCEPT !.pc = "sweep", !.task = t, !.todo = todo \ {t}]
      OBVIOUS
    <2>2. x \in AgentType /\ x.pc = "sweep" /\ x.task = t /\ x.todo = todo \ {t}
      BY <1>N, <2>1 DEF Idle, AgentType
    <2>3. AgentNext(x)
      BY <1>N, <2>2 DEF AgentNext
    <2> QED
      BY <1>1, <2>1, <2>2, <2>3 DEF AgentMoves
  <1>2. ASSUME agent' = [agent EXCEPT ![d] = [Idle EXCEPT !.pc = "claim"]]
        PROVE  AgentMoves
    <2>1. PICK x : x = [Idle EXCEPT !.pc = "claim"]
      OBVIOUS
    <2>2. x \in AgentType /\ x.pc = "claim" /\ x.todo = {}
      BY <1>N, <2>1 DEF Idle, AgentType
    <2>3. AgentNext(x)
      BY <1>N, <2>2 DEF AgentNext
    <2> QED
      BY <1>2, <2>1, <2>2, <2>3 DEF AgentMoves
  <1>3. CASE todo = {} /\ agent' = [agent EXCEPT ![d] = [Idle EXCEPT !.pc = "claim"]]
    BY <1>2, <1>3
  <1>4. CASE \E t \in todo :
               agent' = [agent EXCEPT ![d] = [Idle EXCEPT !.pc = "sweep", !.task = t, !.todo = todo \ {t}]]
    BY <1>1, <1>4, Zenon
  <1> QED
    BY <1>3, <1>4, Zenon DEF SweepOn

\* A run that gets the state s, and keeps its flag.
LEMMA UpdateMoves ==
    ASSUME ExecInv, NEW t \in Task, NEW s \in {"open", "completed", "canceled"},
           RunNext(t, s), updateTransfer(t, s)
    PROVE  RunMoves
  <1>1. run \in [Task -> RunType] /\ run[t] \in RunType
    BY DEF ExecInv, ExecTypeOK, RunType
  <1>2. PICK r : r = [run[t] EXCEPT !.state = s]
    OBVIOUS
  <1>3. r \in RunType /\ r.state = s
    BY <1>1, <1>2 DEF RunType
  <1>4. run' = [run EXCEPT ![t] = r]
    BY <1>1, <1>2 DEF updateTransfer, RunType
  <1> QED
    BY <1>3, <1>4 DEF RunMoves

\* What is known of the pcs.
LEMMA PCNames ==
    /\ reportedStates \subseteq workPCs /\ reportedStates \subseteq requestPCs
    /\ {"download", "import", "complete", "fail", "cancel"} \subseteq workPCs
    /\ "complete" \notin reportedStates /\ "sweep" \notin workPCs /\ "claim" \notin workPCs
    /\ "idle" \notin workPCs
    /\ requestPCs \subseteq workPCs \cup {"claim", "sweep"}
    /\ reportedStates \cap {"claim", "complete", "fail", "cancel", "sweep"} = {}
    /\ cancelPoints \subseteq workPCs
    /\ \A p \in reportedStates : NextPC[p] \in workPCs /\ NextPC[p] # "complete"
    /\ requestPCs \subseteq PCs /\ workPCs \subseteq PCs
  BY DEF workPCs, reportedStates, requestPCs, cancelPoints, PCs, NextPC

\* A request that got no answer, or a refusal.
LEMMA FailedMoves ==
    ASSUME ExecInv, Carried, NEW d \in Agents, Failed(d)
    PROVE  AgentMoves /\ RunMoves
  <1>1. CASE At(d, "claim") /\ Rest(d) /\ UNCHANGED run
    BY <1>1, RestMoves DEF RunMoves
  <1>2. CASE agent[d].pc \in reportedStates \cup {"complete"} /\ Goto(d, "fail") /\ UNCHANGED run
    <2>1. agent[d].pc \in workPCs /\ "fail" \in workPCs /\ "fail" # "complete"
      BY <1>2, PCNames
    <2>2. PICK p \in workPCs : p = "fail" /\ p # "complete"
      BY <2>1
    <2>3. Goto(d, p)
      BY <1>2, <2>2
    <2> QED
      BY <1>2, <2>1, <2>2, <2>3, GotoMoves DEF RunMoves
  <1>3. CASE At(d, "fail") /\ Rest(d) /\ updateTransfer(agent[d].task, "open")
    <2>1. agent[d].task \in Task /\ There(agent[d].task)
      BY <1>3, PCNames DEF Carried, AgentNext, FencedNext, At
    <2>2. RunNext(agent[d].task, "open")
      BY <2>1 DEF RunNext
    <2> QED
      BY <1>3, <2>1, <2>2, RestMoves, UpdateMoves
  <1>4. CASE At(d, "cancel") /\ Rest(d) /\ UNCHANGED run
    BY <1>4, RestMoves DEF RunMoves
  <1>5. CASE At(d, "sweep") /\ SweepOn(d, agent[d].todo) /\ UNCHANGED run
    <2>1. agent[d].todo \in SUBSET Task
      BY DEF ExecInv, ExecTypeOK
    <2>2. \A t \in agent[d].todo : There(t)
      BY DEF Carried, AgentNext
    <2> QED
      BY <1>5, <2>1, <2>2, SweepMoves DEF RunMoves
  <1> QED
    BY <1>1, <1>2, <1>3, <1>4, <1>5 DEF Failed

-----------------------------------------------------------------------------
(***************************************************************************)
(* Requests: what they carry, what the server does, what the Agent does     *)
(* with the answer.                                                         *)
(***************************************************************************)

\* The request of an Agent carries what the Agent knows.
LEMMA ReqFacts ==
    ASSUME ExecInv, NEW d \in Agents, agent[d].pc \in requestPCs
    PROVE  /\ Req(d) \in Requests
           /\ Req(d).op = agent[d].pc /\ Req(d).task = agent[d].task
           /\ Req(d).version = agent[d].version /\ Req(d).attempt = agent[d].attempt
           /\ Req(d).op # "claim" => Req(d).task \in Task
           /\ Req(d).op = "complete" => Req(d).task \in stored
  <1>1. agent[d] \in AgentType
    BY DEF ExecInv, ExecTypeOK, AgentType
  <1>2. /\ Req(d) \in Requests
        /\ Req(d).op = agent[d].pc /\ Req(d).task = agent[d].task
        /\ Req(d).version = agent[d].version /\ Req(d).attempt = agent[d].attempt
    BY <1>1 DEF Req, Requests, AgentType
  <1>3. agent[d].pc # "claim" => agent[d].task \in Task
    BY PCNames DEF ExecInv, AgentsFenced, Fenced
  <1>4. agent[d].pc = "complete" => agent[d].task \in stored
    BY DEF ExecInv, AgentsFenced
  <1> QED
    BY <1>2, <1>3, <1>4

\* A step that leaves the server alone.
LEMMA QuietOK ==
    ASSUME UNCHANGED vars, stored \subseteq stored'
    PROVE  ServerOK
  BY DEF ServerOK, vars

\* A step in which the server acts on a request.
LEMMA ServedOK ==
    ASSUME ExecInv, NEW m \in Requests, m.op # "claim" => m.task \in Task,
           m.op = "complete" => m.task \in stored, Accepted(m), Serve(m), stored' = stored
    PROVE  ServerOK
  <1>1. TypeOK /\ RowsSound
    BY DEF ExecInv, ExecTypeOK
  <1>2. /\ [Next]_vars
        /\ task' = task \/ \E t \in Task : AgentRewrite(t)
        /\ \A u \in Task : task'[u].state = "completed" =>
              task[u].state = "completed" \/ (m.op = "complete" /\ u = m.task)
    BY <1>1, ServeFacts
  <1> QED
    BY <1>2 DEF ServerOK

\* The server accepted: the Agent goes on from what the server recorded.
LEMMA SucceededMoves ==
    ASSUME ExecInv, Carried, NEW d \in Agents, agent[d].pc \in requestPCs,
           Accepted(Req(d)), Serve(Req(d)), Succeeded(d)
    PROVE  AgentMoves /\ RunMoves /\ part' \in [Task -> PartType] /\ stored' = stored
  <1> DEFINE m == Req(d)
             t == agent[d].task
  <1>1. TypeOK /\ RowsSound /\ part \in [Task -> PartType] /\ agent \in [Agents -> AgentType]
    BY DEF ExecInv, ExecTypeOK, PartType, AgentType
  <1>2. /\ m \in Requests
        /\ m.op = agent[d].pc /\ m.task = agent[d].task
        /\ m.version = agent[d].version /\ m.attempt = agent[d].attempt
        /\ m.op # "claim" => m.task \in Task
    BY ReqFacts
  <1>3. Accepted(m) /\ Serve(m)
    OBVIOUS
  <1>4. AgentNext(agent[d]) /\ TypeOK'
    BY DEF Carried
  <1> HIDE DEF m
  <1>5. /\ task' = task \/ \E u \in Task : AgentRewrite(u)
        /\ m.op \in reportedStates =>
              /\ task[m.task].version = m.version
              /\ task'[m.task].version = m.version + 1
              /\ task'[m.task].attempt = task[m.task].attempt
        /\ m.op = "complete" => task'[m.task].state = "completed"
        /\ m.op \in {"cancel", "sweep"} => task'[m.task].state \in terminalStates
    BY <1>1, <1>2, <1>3, ServeFacts
  <1>6. agent[d].pc \in workPCs \cup {"sweep"} => t \in Task /\ There(t)
    BY <1>4 DEF AgentNext, FencedNext
  <1>7. CASE At(d, "claim") /\ (\E u \in Task : Assigned(d, u)) /\ UNCHANGED <<part, stored>>
    <2>0. PICK u \in Task : Assigned(d, u)
      BY <1>7
    <2>1. /\ task'[u] # task[u]
          /\ agent' = [agent EXCEPT ![d] =
                [Idle EXCEPT !.pc = "discovering", !.task = u,
                             !.version = task'[u].version,
                             !.attempt = task'[u].attempt]]
          /\ recordTransfer(u)
      BY <2>0, Zenon DEF Assigned
    <2>2. There(u)
      <3>1. PICK w \in Task : AgentRewrite(w)
        BY <1>5, <2>1
      <3>2. Exists(w)' /\ \A z \in Task : z # w => task'[z] = task[z]
        BY <1>1, <3>1, RewriteAdvances
      <3> QED
        BY <2>1, <3>2 DEF There, Exists
    <2>3. task'[u] \in Row
      BY <1>4, <2>2 DEF TypeOK, There, NoRow, Row
    <2>4. PICK v \in Nat, a \in Nat : v = task'[u].version /\ a = task'[u].attempt
      BY <2>3 DEF Row
    <2>5. PICK x : x = [Idle EXCEPT !.pc = "discovering", !.task = u, !.version = v, !.attempt = a]
      OBVIOUS
    <2>6. /\ x \in AgentType /\ x.pc = "discovering" /\ x.task = u /\ x.version = v
          /\ x.attempt = a /\ x.todo = {}
      BY <2>5 DEF Idle, AgentType, PCs, requestPCs, reportedStates
    <2>7. agent' = [agent EXCEPT ![d] = x]
      BY <2>1, <2>4, <2>5
    <2>8. FencedNext(u, v, a)
      BY <2>2, <2>4 DEF FencedNext
    <2>9. AgentNext(x)
      BY <2>6, <2>8 DEF AgentNext
    <2>10. AgentMoves
      BY <2>6, <2>7, <2>9 DEF AgentMoves
    <2>11. RunMoves
      <3>1. PICK r : r = [state |-> "open", cancel |-> FALSE]
        OBVIOUS
      <3>2. r \in RunType /\ r.state = "open"
        BY <3>1 DEF RunType
      <3>3. RunNext(u, r.state)
        BY <2>2, <3>2 DEF RunNext
      <3> QED
        BY <2>1, <3>1, <3>2, <3>3 DEF RunMoves, recordTransfer
    <2> QED
      BY <1>1, <1>7, <2>10, <2>11
  <1>8. CASE /\ agent[d].pc \in reportedStates
             /\ agent' = [agent EXCEPT ![d].pc = NextPC[agent[d].pc], ![d].version = @ + 1]
             /\ updateTransfer(t, "open")
             /\ UNCHANGED <<part, stored>>
    <2>1. agent[d].pc \in workPCs /\ t \in Task /\ There(t) /\ agent[d] \in AgentType
      BY <1>1, <1>6, <1>8, PCNames
    <2>2. RunMoves
      <3>1. RunNext(t, "open")
        BY <2>1 DEF RunNext
      <3> QED
        BY <1>8, <2>1, <3>1, UpdateMoves
    <2>3. PICK p \in workPCs : p = NextPC[agent[d].pc] /\ p # "complete"
      BY <1>8, PCNames
    <2>4. PICK v \in Nat : v = agent[d].version + 1
      BY <2>1 DEF AgentType
    <2>5. PICK x : x = [agent[d] EXCEPT !.pc = p, !.version = v]
      OBVIOUS
    <2>6. /\ x \in AgentType /\ x.pc = p /\ x.task = t /\ x.version = v
          /\ x.attempt = agent[d].attempt /\ x.todo = agent[d].todo
      BY <2>1, <2>3, <2>5, PCNames DEF AgentType
    <2>7. agent' = [agent EXCEPT ![d] = x]
      <3>1. agent' = [agent EXCEPT ![d] = [agent[d] EXCEPT !.pc = NextPC[agent[d].pc], !.version = agent[d].version + 1]]
        BY <1>1, <1>8, <2>1 DEF AgentType
      <3> QED
        BY <2>3, <2>4, <2>5, <3>1
    <2>8. agent[d].attempt = task[t].attempt
      <3>1. Fenced(t, agent[d].version, agent[d].attempt)
        BY <2>1 DEF ExecInv, AgentsFenced
      <3>2. task[t].version = agent[d].version
        BY <1>2, <1>5, <1>8
      <3> QED
        BY <3>1, <3>2 DEF Fenced
    <2>9. task'[t].version = v /\ task'[t].attempt = agent[d].attempt
      BY <1>2, <1>5, <1>8, <2>4, <2>8
    <2>10. FencedNext(t, v, agent[d].attempt)
      BY <2>1, <2>9 DEF FencedNext
    <2>11. AgentNext(x)
      BY <1>4, <2>3, <2>6, <2>10, PCNames DEF AgentNext
    <2> QED
      BY <1>1, <1>8, <2>2, <2>6, <2>7, <2>11 DEF AgentMoves
  <1>9. CASE At(d, "complete") /\ Rest(d) /\ updateTransfer(t, "completed")
             /\ part' = [part EXCEPT ![t] = NoPart] /\ UNCHANGED stored
    <2>1. t \in Task /\ There(t) /\ task'[t].state = "completed"
      BY <1>2, <1>5, <1>6, <1>9, PCNames DEF At
    <2>2. RunNext(t, "completed")
      BY <2>1 DEF RunNext
    <2>3. part' \in [Task -> PartType]
      BY <1>1, <1>9 DEF PartType, NoPart
    <2> QED
      BY <1>9, <2>1, <2>2, <2>3, RestMoves, UpdateMoves
  <1>10. CASE At(d, "fail") /\ Rest(d) /\ updateTransfer(t, "open") /\ UNCHANGED <<part, stored>>
    <2>1. t \in Task /\ There(t)
      BY <1>6, <1>10, PCNames DEF At
    <2>2. RunNext(t, "open")
      BY <2>1 DEF RunNext
    <2> QED
      BY <1>1, <1>10, <2>1, <2>2, RestMoves, UpdateMoves
  <1>11. CASE At(d, "cancel") /\ Rest(d) /\ updateTransfer(t, "canceled") /\ UNCHANGED <<part, stored>>
    <2>1. t \in Task /\ There(t) /\ task'[t].state \in terminalStates
      BY <1>2, <1>5, <1>6, <1>11, PCNames DEF At
    <2>2. RunNext(t, "canceled")
      BY <2>1 DEF RunNext
    <2> QED
      BY <1>1, <1>11, <2>1, <2>2, RestMoves, UpdateMoves
  <1>12. CASE At(d, "sweep") /\ SweepOn(d, agent[d].todo) /\ updateTransfer(t, "canceled")
              /\ UNCHANGED <<part, stored>>
    <2>1. t \in Task /\ There(t) /\ task'[t].state \in terminalStates
      BY <1>2, <1>5, <1>6, <1>12, PCNames DEF At
    <2>2. RunNext(t, "canceled")
      BY <2>1 DEF RunNext
    <2>3. agent[d].todo \in SUBSET Task
      BY <1>1 DEF AgentType
    <2>4. \A u \in agent[d].todo : There(u)
      BY <1>4 DEF AgentNext
    <2> QED
      BY <1>1, <1>12, <2>1, <2>2, <2>3, <2>4, SweepMoves, UpdateMoves
  <1> QED
    BY <1>7, <1>8, <1>9, <1>10, <1>11, <1>12, Zenon DEF Succeeded

-----------------------------------------------------------------------------
(***************************************************************************)
(* Every step keeps the invariant, and its server part is a step of         *)
(* TransferService.                                                         *)
(***************************************************************************)

\* The types of the variables a step leaves alone, and of a counted fault.
LEMMA ExecTypes ==
    ASSUME ExecInv
    PROVE  /\ part \in [Task -> PartType] /\ stored \in SUBSET Task
           /\ late \in SUBSET Requests
           /\ faults \in 0 .. MaxFaults /\ churn \in 0 .. MaxChurn
           /\ Fault => faults' \in 0 .. MaxFaults
           /\ agent \in [Agents -> AgentType]
           /\ run \in [Task -> RunType]
           /\ TypeOK /\ RowsSound
           /\ NoPart \in PartType
  BY ExecAssumption DEF ExecInv, ExecTypeOK, PartType, Fault, AgentType, RunType, NoPart

\* The Agent collects the transfers it was asked to cancel.
LEMMA LoopTopKeeps ==
    ASSUME ExecInv, NEW d \in Agents, LoopTop(d)
    PROVE  ServerOK /\ ExecInv'
  <1>1. UNCHANGED <<vars, run, part, stored, late, faults, churn>>
    BY DEF LoopTop
  <1>2. ServerOK
    BY <1>1, QuietOK
  <1>3. Carried
    BY <1>2, CarriedOver
  <1>4. PICK todo : todo = {t \in Task : /\ run[t].state = "open" /\ run[t].cancel
                                         /\ task[t].target = d}
    OBVIOUS
  <1>5. todo \in SUBSET Task /\ \A t \in todo : There(t)
    BY <1>3, <1>4 DEF Carried, RunNext
  <1>6. AgentMoves
    BY <1>4, <1>5, SweepMoves DEF LoopTop
  <1>7. RunMoves
    BY <1>1 DEF RunMoves
  <1>8. ExecInv'
    BY <1>1, <1>3, <1>6, <1>7, ExecTypes, Recombined
  <1> QED
    BY <1>2, <1>8

\* A request is answered.
LEMMA AnswerKeeps ==
    ASSUME ExecInv, NEW d \in Agents, Answer(d)
    PROVE  ServerOK /\ ExecInv'
  <1>1. agent[d].pc \in requestPCs /\ UNCHANGED <<late, faults, churn>>
    BY DEF Answer, Sending
  <1>2. CASE Accepted(Req(d)) /\ Serve(Req(d)) /\ Succeeded(d)
    <2>1. stored' = stored
      BY <1>2 DEF Succeeded
    <2>2. PICK m : m = Req(d)
      OBVIOUS
    <2>3. /\ m \in Requests /\ (m.op # "claim" => m.task \in Task)
          /\ m.op = "complete" => m.task \in stored
      BY <1>1, <2>2, ReqFacts
    <2>4. Accepted(m) /\ Serve(m)
      BY <1>2, <2>2
    <2>5. ServerOK
      BY <2>1, <2>3, <2>4, ServedOK
    <2>6. Carried
      BY <2>5, CarriedOver
    <2>7. AgentMoves /\ RunMoves /\ part' \in [Task -> PartType]
      BY <1>1, <1>2, <2>6, SucceededMoves
    <2>8. ExecInv'
      BY <1>1, <2>1, <2>6, <2>7, ExecTypes, Recombined
    <2> QED
      BY <2>5, <2>8
  <1>3. CASE ~Accepted(Req(d)) /\ UNCHANGED vars /\ Failed(d)
    <2>1. UNCHANGED <<part, stored>>
      BY <1>3 DEF Failed
    <2>2. ServerOK
      BY <1>3, <2>1, QuietOK
    <2>3. Carried
      BY <2>2, CarriedOver
    <2>4. AgentMoves /\ RunMoves
      BY <1>3, <2>3, FailedMoves
    <2>5. ExecInv'
      BY <1>1, <2>1, <2>3, <2>4, ExecTypes, Recombined
    <2> QED
      BY <2>2, <2>5
  <1> QED
    BY <1>2, <1>3 DEF Answer

\* The server acts, and the reply is lost.
LEMMA LostReplyKeeps ==
    ASSUME ExecInv, NEW d \in Agents, LostReply(d)
    PROVE  ServerOK /\ ExecInv'
  <1>1. agent[d].pc \in requestPCs /\ UNCHANGED <<late, churn, part, stored>> /\ Fault
    BY DEF LostReply, Sending, Failed
  <1>2. PICK m : m = Req(d)
    OBVIOUS
  <1>3. /\ m \in Requests /\ (m.op # "claim" => m.task \in Task)
        /\ m.op = "complete" => m.task \in stored
    BY <1>1, <1>2, ReqFacts
  <1>4. Accepted(m) /\ Serve(m)
    BY <1>2 DEF LostReply
  <1>5. ServerOK
    BY <1>1, <1>3, <1>4, ServedOK
  <1>6. Carried
    BY <1>5, CarriedOver
  <1>7. AgentMoves /\ RunMoves
    BY <1>6, FailedMoves DEF LostReply
  <1>8. ExecInv'
    BY <1>1, <1>6, <1>7, ExecTypes, Recombined
  <1> QED
    BY <1>5, <1>8

\* The client gives up on a request, which is still on its way.
LEMMA TimeoutKeeps ==
    ASSUME ExecInv, NEW d \in Agents, Timeout(d)
    PROVE  ServerOK /\ ExecInv'
  <1>1. agent[d].pc \in requestPCs /\ UNCHANGED <<vars, churn, part, stored>> /\ Fault
    BY DEF Timeout, Sending, Failed
  <1>2. ServerOK
    BY <1>1, QuietOK
  <1>3. Carried
    BY <1>2, CarriedOver
  <1>4. AgentMoves /\ RunMoves
    BY <1>3, FailedMoves DEF Timeout
  <1>5. PICK m : m = Req(d)
    OBVIOUS
  <1>6. /\ m \in Requests
        /\ m.op = agent[d].pc /\ m.task = agent[d].task
        /\ m.version = agent[d].version /\ m.attempt = agent[d].attempt
    BY <1>1, <1>5, ReqFacts
  <1>7. LateNext(m)
    BY <1>3, <1>6 DEF Carried, AgentNext, LateNext
  <1>8. late' \in SUBSET Requests /\ \A n \in late' : n \in late \/ LateNext(n)
    <2>1. late' = late \cup {m}
      BY <1>5 DEF Timeout
    <2> QED
      BY <1>6, <1>7, <2>1, ExecTypes
  <1>9. ExecInv'
    BY <1>1, <1>3, <1>4, <1>8, ExecTypes, Recombined
  <1> QED
    BY <1>2, <1>9

\* The server gets to see an abandoned request.
LEMMA LateKeeps ==
    ASSUME ExecInv, NEW m \in late, LateArrives(m)
    PROVE  ServerOK /\ ExecInv'
  <1>1. UNCHANGED <<agent, run, part, stored, faults, churn>> /\ late' = late \ {m}
    BY DEF LateArrives, agentVars
  <1>2. ServerOK
    <2>1. m \in Requests
      BY ExecTypes
    <2>2. m.op # "claim" => m.task \in Task
      <3>1. m.op \in requestPCs
        BY <2>1 DEF Requests
      <3> QED
        BY <3>1, PCNames DEF ExecInv, LateFenced, Fenced
    <2>3. m.op = "complete" => m.task \in stored
      BY DEF ExecInv, LateFenced
    <2>4. CASE Accepted(m) /\ Serve(m)
      BY <1>1, <2>1, <2>2, <2>3, <2>4, ServedOK
    <2>5. CASE UNCHANGED vars
      BY <1>1, <2>5, QuietOK
    <2> QED
      BY <2>4, <2>5 DEF LateArrives
  <1>3. Carried
    BY <1>2, CarriedOver
  <1>4. AgentMoves /\ RunMoves
    BY <1>1 DEF AgentMoves, RunMoves
  <1>5. late' \in SUBSET Requests /\ \A n \in late' : n \in late \/ LateNext(n)
    BY <1>1, ExecTypes
  <1>6. ExecInv'
    BY <1>1, <1>3, <1>4, <1>5, ExecTypes, Recombined
  <1> QED
    BY <1>2, <1>6

\* A step within an attempt that leaves the server and the runs alone.
LEMMA WorkKeeps ==
    ASSUME ExecInv, NEW d \in Agents, agent[d].pc \in workPCs,
           NEW pc \in workPCs, pc = "complete" => agent[d].task \in stored',
           Goto(d, pc) \/ agent' = agent, UNCHANGED <<vars, run, late, churn>>,
           part' \in [Task -> PartType], stored' \in SUBSET Task, stored \subseteq stored',
           faults' = faults \/ Fault
    PROVE  ServerOK /\ ExecInv'
  <1>1. ServerOK
    BY QuietOK
  <1>2. Carried
    BY <1>1, CarriedOver
  <1>3. AgentMoves
    BY <1>2, GotoMoves DEF AgentMoves
  <1>4. RunMoves
    BY DEF RunMoves
  <1>5. ExecInv'
    BY <1>2, <1>3, <1>4, ExecTypes, Recombined
  <1> QED
    BY <1>1, <1>5

\* The Agent notices a cancellation.
LEMMA CheckCancelKeeps ==
    ASSUME ExecInv, NEW d \in Agents, CheckCancel(d)
    PROVE  ServerOK /\ ExecInv'
  <1>1. PICK p \in workPCs : p = "cancel" /\ p # "complete"
    BY PCNames
  <1>2. agent[d].pc \in workPCs
    BY PCNames DEF CheckCancel, CancelSeen
  <1>3. part' \in [Task -> PartType]
    BY ExecTypes DEF CheckCancel
  <1>4. Goto(d, p) /\ UNCHANGED <<vars, run, stored, late, faults, churn>>
    BY <1>1 DEF CheckCancel
  <1> QED
    BY <1>1, <1>2, <1>3, <1>4, ExecTypes, WorkKeeps

\* Bytes arrive.
LEMMA DownloadKeeps ==
    ASSUME ExecInv, NEW d \in Agents, downloadReplica(d)
    PROVE  ServerOK /\ ExecInv'
  <1>1. PICK p \in workPCs : p = "verifying" /\ p # "complete"
    BY PCNames DEF reportedStates
  <1>2. agent[d].pc \in workPCs
    BY PCNames DEF downloadReplica, At
  <1>3. UNCHANGED <<vars, run, stored, late, churn>>
    BY DEF downloadReplica
  <1>4. CASE part[agent[d].task].len = "all" /\ Goto(d, "verifying") /\ UNCHANGED <<part, faults>>
    BY <1>1, <1>2, <1>3, <1>4, ExecTypes, WorkKeeps
  <1>5. CASE \E good \in BOOLEAN : \E g \in Received(part[agent[d].task], good) :
               /\ IF good THEN UNCHANGED faults ELSE Fault
               /\ \/ part' = [part EXCEPT ![agent[d].task] = [len |-> "some", good |-> g]]
                     /\ UNCHANGED agent
                  \/ part' = [part EXCEPT ![agent[d].task] = [len |-> "all", good |-> g]]
                     /\ Goto(d, "verifying")
    <2> DEFINE t == agent[d].task
    <2>0. t \in Task
      BY <1>2 DEF ExecInv, AgentsFenced, Fenced
    <2>1. PICK good \in BOOLEAN : \E g \in Received(part[t], good) :
               /\ IF good THEN UNCHANGED faults ELSE Fault
               /\ \/ part' = [part EXCEPT ![t] = [len |-> "some", good |-> g]]
                     /\ UNCHANGED agent
                  \/ part' = [part EXCEPT ![t] = [len |-> "all", good |-> g]]
                     /\ Goto(d, "verifying")
      BY <1>5
    <2>2. PICK g \in Received(part[t], good) :
               /\ IF good THEN UNCHANGED faults ELSE Fault
               /\ \/ part' = [part EXCEPT ![t] = [len |-> "some", good |-> g]]
                     /\ UNCHANGED agent
                  \/ part' = [part EXCEPT ![t] = [len |-> "all", good |-> g]]
                     /\ Goto(d, "verifying")
      BY <2>1
    <2>3. g \in BOOLEAN
      <3>1. part[t].good \in BOOLEAN
        BY <2>0, ExecTypes DEF PartType
      <3> QED
        BY <2>1, <2>2, <3>1, Zenon DEF Received
    <2>4. PICK r1 \in PartType, r2 \in PartType :
             r1 = [len |-> "some", good |-> g] /\ r2 = [len |-> "all", good |-> g]
      BY <2>3 DEF PartType
    <2>5. part' = [part EXCEPT ![t] = r1] \/ part' = [part EXCEPT ![t] = r2]
      BY <2>2, <2>4
    <2>6. part' \in [Task -> PartType]
      BY <2>4, <2>5, ExecTypes
    <2>7. faults' = faults \/ Fault
      BY <2>2
    <2>8. Goto(d, p) \/ agent' = agent
      BY <1>1, <2>2
    <2> QED
      BY <1>1, <1>2, <1>3, <2>6, <2>7, <2>8, ExecTypes, WorkKeeps
  <1> QED
    BY <1>4, <1>5, Zenon DEF downloadReplica

\* The download fails.
LEMMA DownloadFailsKeeps ==
    ASSUME ExecInv, NEW d \in Agents, DownloadFails(d)
    PROVE  ServerOK /\ ExecInv'
  <1>1. PICK p \in workPCs : p = "fail" /\ p # "complete"
    BY PCNames
  <1>2. agent[d].pc \in workPCs
    BY PCNames DEF DownloadFails, At
  <1>3. PICK r \in PartType : r = [len |-> "over", good |-> FALSE]
    BY DEF PartType
  <1>4. part' = part \/ part' = [part EXCEPT ![agent[d].task] = r]
    BY <1>3 DEF DownloadFails
  <1>5. part' \in [Task -> PartType]
    BY <1>4, ExecTypes
  <1>6. Goto(d, p) /\ UNCHANGED <<vars, run, stored, late, churn>> /\ (faults' = faults \/ Fault)
    BY <1>1 DEF DownloadFails
  <1> QED
    BY <1>1, <1>2, <1>5, <1>6, ExecTypes, WorkKeeps

\* The file is hashed and imported, or truncated.
LEMMA ImportKeeps ==
    ASSUME ExecInv, NEW d \in Agents, Import(d)
    PROVE  ServerOK /\ ExecInv'
  <1>1. agent[d].pc \in workPCs
    BY PCNames DEF Import, At
  <1>2. agent[d].task \in Task
    BY <1>1 DEF ExecInv, AgentsFenced, Fenced
  <1>3. UNCHANGED <<vars, run, late, faults, churn>>
    BY DEF Import
  <1>4. CASE stored' = stored \cup {agent[d].task} /\ Goto(d, "complete") /\ UNCHANGED part
    <2>1. PICK p \in workPCs : p = "complete"
      BY PCNames
    <2>2. Goto(d, p) /\ stored' \in SUBSET Task /\ stored \subseteq stored' /\ agent[d].task \in stored'
      BY <1>2, <1>4, <2>1, ExecTypes
    <2> QED
      BY <1>1, <1>3, <1>4, <2>2, ExecTypes, WorkKeeps
  <1>5. CASE part' = [part EXCEPT ![agent[d].task] = NoPart] /\ Goto(d, "fail") /\ UNCHANGED stored
    <2>1. PICK p \in workPCs : p = "fail" /\ p # "complete"
      BY PCNames
    <2>2. Goto(d, p) /\ part' \in [Task -> PartType]
      BY <1>5, <2>1, ExecTypes
    <2> QED
      BY <1>1, <1>3, <1>5, <2>1, <2>2, ExecTypes, WorkKeeps
  <1> QED
    BY <1>4, <1>5 DEF Import

\* The import fails.
LEMMA ImportFailsKeeps ==
    ASSUME ExecInv, NEW d \in Agents, ImportFails(d)
    PROVE  ServerOK /\ ExecInv'
  <1>1. PICK p \in workPCs : p = "fail" /\ p # "complete"
    BY PCNames
  <1>2. agent[d].pc \in workPCs
    BY PCNames DEF ImportFails, At
  <1>3. Goto(d, p) /\ UNCHANGED <<vars, run, part, stored, late, churn>> /\ Fault
    BY <1>1 DEF ImportFails
  <1> QED
    BY <1>1, <1>2, <1>3, ExecTypes, WorkKeeps

\* A crash leaves what is on disk and in flight.
LEMMA CrashKeeps ==
    ASSUME ExecInv, NEW d \in Agents, Crash(d)
    PROVE  ServerOK /\ ExecInv'
  <1>1. Rest(d) /\ Fault /\ UNCHANGED <<vars, run, part, stored, late, churn>>
    BY DEF Crash
  <1>2. ServerOK
    BY <1>1, QuietOK
  <1>3. Carried
    BY <1>2, CarriedOver
  <1>4. AgentMoves /\ RunMoves
    BY <1>1, RestMoves DEF RunMoves
  <1>5. ExecInv'
    BY <1>1, <1>3, <1>4, ExecTypes, Recombined
  <1> QED
    BY <1>2, <1>5

\* The user asks for a cancellation on the device.
LEMMA LocalCancelKeeps ==
    ASSUME ExecInv, NEW t \in Task, handleCancelTransfer(t)
    PROVE  ServerOK /\ ExecInv'
  <1>1. UNCHANGED <<vars, agent, part, stored, late, faults, churn>>
    BY DEF handleCancelTransfer
  <1>2. ServerOK
    BY <1>1, QuietOK
  <1>3. Carried
    BY <1>2, CarriedOver
  <1>4. RunMoves
    <2>1. PICK r : r = [run[t] EXCEPT !.cancel = TRUE]
      OBVIOUS
    <2>2. run[t] \in RunType
      BY ExecTypes
    <2>3. r \in RunType /\ r.state = run[t].state
      BY <2>1, <2>2 DEF RunType
    <2>4. RunNext(t, r.state)
      BY <1>3, <2>3 DEF Carried
    <2>5. run' = [run EXCEPT ![t] = r]
      BY <2>1 DEF handleCancelTransfer
    <2> QED
      BY <2>3, <2>4, <2>5 DEF RunMoves
  <1>5. AgentMoves
    BY <1>1 DEF AgentMoves
  <1>6. ExecInv'
    BY <1>1, <1>3, <1>4, <1>5, ExecTypes, Recombined
  <1> QED
    BY <1>2, <1>6

\* A step of the server that no Agent takes part in.
LEMMA ServerAloneKeeps ==
    ASSUME ExecInv, ServerOK, UNCHANGED <<agentVars, late>>,
           faults' \in 0 .. MaxFaults, churn' \in 0 .. MaxChurn
    PROVE  ExecInv'
  <1>1. Carried
    BY CarriedOver
  <1>2. AgentMoves /\ RunMoves /\ UNCHANGED <<part, stored>>
    BY DEF AgentMoves, RunMoves, agentVars
  <1> QED
    BY <1>1, <1>2, ExecTypes, Recombined

\* A lease expires, under a working Agent or not.
LEMMA ExpireKeeps ==
    ASSUME ExecInv, NEW t \in Task, Expire(t) \/ ExpireUnderWork(t)
    PROVE  ServerOK /\ ExecInv'
  <1>1. LeaseLapses(t) /\ UNCHANGED <<agentVars, late, churn>> /\ (faults' = faults \/ Fault)
    BY DEF Expire, ExpireUnderWork
  <1>2. ServerOK
    <2>1. [Next]_vars
      BY <1>1 DEF Next
    <2>2. AgentRewrite(t)
      BY <1>1 DEF AgentRewrite
    <2>3. task'[t].state = task[t].state /\ \A u \in Task : u # t => task'[u] = task[u]
      BY <1>1, ExecTypes, LapseEffect
    <2>4. stored' = stored
      BY <1>1 DEF agentVars
    <2> QED
      BY <2>1, <2>2, <2>3, <2>4 DEF ServerOK
  <1>3. ExecInv'
    BY <1>1, <1>2, ExecTypes, ServerAloneKeeps
  <1> QED
    BY <1>2, <1>3

\* Requests of the user interface.
LEMMA UserKeeps ==
    ASSUME ExecInv, UserRequest
    PROVE  ServerOK /\ ExecInv'
  <1>1. UNCHANGED <<agentVars, late, faults, churn>> /\ stored' = stored
    BY DEF UserRequest, agentVars
  <1>2. CASE \E o \in Object, d \in Agents, p \in Priority : CreateReplicaTaskCheck(o, d, p)
    <2>1. PICK o \in Object, d \in Agents, p \in Priority : CreateReplicaTaskCheck(o, d, p)
      BY <1>2
    <2>2. d \in enrolled /\ d \in Device /\ task' = task
      BY <2>1, ExecAssumption DEF CreateReplicaTaskCheck
    <2>3. Request(d)
      BY <2>1, <2>2 DEF Request
    <2>4. Next
      BY <2>2, <2>3 DEF Next
    <2> QED
      BY <1>1, <2>2, <2>4, ExecTypes, ServerAloneKeeps DEF ServerOK
  <1>3. CASE \E r \in checked : CreateReplicaTaskInsert(r)
    <2>1. PICK r \in checked : CreateReplicaTaskInsert(r)
      BY <1>3
    <2>2. r.obj \in Object /\ r.target \in Device /\ r.prio \in Priority
      BY ExecTypes DEF TypeOK
    <2>3. Next
      BY <2>1 DEF Next
    <2>4. CASE task' = task
      BY <1>1, <2>3, <2>4, ExecTypes, ServerAloneKeeps DEF ServerOK
    <2>5. ASSUME NEW t \in Task, Created(t)
          PROVE  ServerOK /\ ExecInv'
      <3>1. PICK o \in Object, e \in Device, p \in Priority :
               task'[t] = NewRow(o, e, p) /\ \A u \in Task : u # t => task'[u] = task[u]
        BY <2>5, ExecTypes, CreateStep
      <3>2. task'[t].state # "completed"
        BY <3>1 DEF NewRow, MkRow
      <3> QED
        BY <1>1, <2>3, <2>5, <3>1, <3>2, ExecTypes, ServerAloneKeeps DEF ServerOK
    <2> QED
      BY <2>1, <2>2, <2>4, <2>5 DEF CreateReplicaTaskInsert, Created, Fresh
  <1>4. CASE enrolled # {} /\ \E t \in Task : CancelTask(t)
    <2>1. PICK t \in Task : CancelTask(t)
      BY <1>4
    <2>2. PICK d \in enrolled : TRUE
      BY <1>4
    <2>3. Request(d)
      BY <2>1 DEF Request
    <2>4. Next
      BY <2>2, <2>3 DEF Next
    <2>5. AgentRewrite(t)
      BY <2>1 DEF AgentRewrite
    <2>6. task'[t].state = "canceled" /\ \A u \in Task : u # t => task'[u] = task[u]
      BY <2>1, ExecTypes, CancelEffect
    <2> QED
      BY <1>1, <2>4, <2>5, <2>6, ExecTypes, ServerAloneKeeps DEF ServerOK
  <1> QED
    BY <1>2, <1>3, <1>4 DEF UserRequest

\* The rest of the system.
LEMMA ChurnKeeps ==
    ASSUME ExecInv, Churn
    PROVE  ServerOK /\ ExecInv'
  <1>1. UNCHANGED <<agentVars, late, faults>> /\ churn' \in 0 .. MaxChurn /\ stored' = stored
    BY ExecTypes, ExecAssumption DEF Churn, agentVars
  <1>2. Next
    BY DEF Churn, Next
  <1>3. task' = task
    BY DEF Churn, Environment, RegisterFile, DeleteReplica, TrashEntry, RestoreEntry,
           DeregisterDevice, RegisterDevice
  <1> QED
    BY <1>1, <1>2, <1>3, ExecTypes, ServerAloneKeeps DEF ServerOK

\* ExecInv is inductive, and the server's part of every step is a step of
\* TransferService in which nothing that has ended changes its state.
LEMMA ExecStep ==
    ASSUME ExecInv, [ExecNext]_execVars
    PROVE  ServerOK /\ ExecInv'
  <1>1. CASE UNCHANGED execVars
    <2>1. UNCHANGED <<agentVars, late>> /\ UNCHANGED vars /\ UNCHANGED <<stored, faults, churn>>
      BY <1>1 DEF execVars, agentVars
    <2>2. ServerOK
      BY <2>1, QuietOK
    <2> QED
      BY <2>1, <2>2, ExecTypes, ServerAloneKeeps
  <1>2. ASSUME NEW d \in Agents, AgentStep(d) \/ FaultStep(d)
        PROVE  ServerOK /\ ExecInv'
    BY <1>2, LoopTopKeeps, AnswerKeeps, CheckCancelKeeps, DownloadKeeps, DownloadFailsKeeps,
       ImportKeeps, LostReplyKeeps, TimeoutKeeps, ImportFailsKeeps, CrashKeeps
       DEF AgentStep, FaultStep
  <1>3. ASSUME NEW m \in late, LateArrives(m)
        PROVE  ServerOK /\ ExecInv'
    BY <1>3, LateKeeps
  <1>4. ASSUME NEW t \in Task, Expire(t) \/ ExpireUnderWork(t) \/ handleCancelTransfer(t)
        PROVE  ServerOK /\ ExecInv'
    BY <1>4, ExpireKeeps, LocalCancelKeeps
  <1> QED
    BY <1>1, <1>2, <1>3, <1>4, UserKeeps, ChurnKeeps DEF ExecNext

\* It holds initially.
LEMMA ExecStart == ExecInit => ExecInv
  <1> SUFFICES ASSUME ExecInit PROVE ExecInv
    OBVIOUS
  <1>0. \A t \in Task : ~Exists(t)
    BY DEF ExecInit, Exists, NoRow
  <1>1. ExecTypeOK
    <2>1. TypeOK
      BY DEF ExecInit, TypeOK
    <2>2. Idle \in AgentType /\ NoRun \in RunType /\ NoPart \in PartType
      BY DEF Idle, AgentType, PCs, NoRun, RunType, NoPart, PartType
    <2>3. agent \in [Agents -> AgentType] /\ run \in [Task -> RunType] /\ part \in [Task -> PartType]
      BY <2>2 DEF ExecInit
    <2>4. late = {} /\ stored = {} /\ faults \in 0 .. MaxFaults /\ churn \in 0 .. MaxChurn
      BY ExecAssumption DEF ExecInit
    <2> QED
      BY <2>1, <2>3, <2>4 DEF ExecTypeOK, AgentType, RunType, PartType
  <1>2. AgentsFenced
    <2>1. \A d \in Agents : agent[d].pc = "idle" /\ agent[d].todo = {}
      BY DEF ExecInit, Idle
    <2> QED
      BY <2>1, PCNames DEF AgentsFenced
  <1>3. LateFenced
    BY DEF ExecInit, LateFenced
  <1>4. RowsSound /\ ReplicaIsStored
    BY <1>0 DEF RowsSound, ReplicaIsStored
  <1>5. RunsExist /\ LocalEndIsReal
    BY DEF ExecInit, NoRun, RunsExist, LocalEndIsReal
  <1> QED
    BY <1>1, <1>2, <1>3, <1>4, <1>5 DEF ExecInv

-----------------------------------------------------------------------------
(* The theorems about the Agents and the server together *)

\* Every step of the composition keeps the inductive invariant.
LEMMA ExecInvariant == ExecSpec => []ExecInv
  <1>1. ExecInv /\ [ExecNext]_execVars => ExecInv'
    BY ExecStep
  <1> QED
    BY <1>1, ExecStart, PTL DEF ExecSpec

\* The variables of the server and of the Agents keep their types.
THEOREM ExecTyped == ExecSpec => []ExecTypeOK
  <1>1. ExecInv => ExecTypeOK
    BY DEF ExecInv
  <1> QED
    BY <1>1, ExecInvariant, PTL

\* A completed task has its verified bytes stored on the target, whichever
\* reports were lost, late or repeated and whenever the Agents crashed.
THEOREM ReplicaSafe == ExecSpec => []ReplicaIsStored
  <1>1. ExecInv => ReplicaIsStored
    BY DEF ExecInv
  <1> QED
    BY <1>1, ExecInvariant, PTL

\* What a device shows as completed or canceled has ended on the server.
THEOREM LocalEndSafe == ExecSpec => []LocalEndIsReal
  <1>1. ExecInv => LocalEndIsReal
    BY DEF ExecInv
  <1> QED
    BY <1>1, ExecInvariant, PTL

\* The server accepts no report of an earlier attempt: the version it carries
\* is older than the row's.
THEOREM StaleSafe == ExecSpec => []StaleReportsRejected
  <1>1. ASSUME ExecInv PROVE StaleReportsRejected
    <2> SUFFICES ASSUME NEW m \in late \cup {Req(d) : d \in Agents},
                        m.op \in reportedStates \cup {"complete", "fail"}, Accepted(m)
                 PROVE  m.attempt = task[m.task].attempt
      BY DEF StaleReportsRejected
    <2>1. m.op \in workPCs
      BY PCNames
    <2>2. Fenced(m.task, m.version, m.attempt)
      <3>1. CASE m \in late
        BY <1>1, <2>1, <3>1 DEF ExecInv, LateFenced
      <3>2. CASE m \in {Req(d) : d \in Agents}
        <4>1. PICK d \in Agents : m = Req(d)
          BY <3>2
        <4>2. /\ m.op = agent[d].pc /\ m.task = agent[d].task
              /\ m.version = agent[d].version /\ m.attempt = agent[d].attempt
          BY <4>1 DEF Req
        <4> QED
          BY <1>1, <2>1, <4>2 DEF ExecInv, AgentsFenced
      <3> QED
        BY <3>1, <3>2
    <2>3. task[m.task].version = m.version
      BY PCNames DEF Accepted, UpdateStateOK, CompleteReplicaOK, FailAttemptOK
    <2> QED
      BY <2>2, <2>3 DEF Fenced
  <1> QED
    BY <1>1, ExecInvariant, PTL

\* With Agents as the only callers, a task that has ended never gets another
\* state.  Not so for arbitrary callers: one that reports "canceled" itself
\* and then a failure revives its task (TerminalRevived.cfg).
THEOREM TerminalSafe == ExecSpec => TerminalIsFinal
  <1>1. ASSUME ExecInv, [ExecNext]_execVars, NEW t \in Task, Exists(t), task[t].state \in terminalStates
        PROVE  task'[t].state = task[t].state
    <2>1. task' = task \/ \E u \in Task : AgentRewrite(u) \/ Created(u)
      BY <1>1, ExecStep DEF ServerOK
    <2>2. Advance
      BY <1>1, <2>1, ExecTypes, ServerAdvances
    <2> QED
      BY <1>1, <2>2 DEF Advance
  <1>2. ExecInv /\ [ExecNext]_execVars =>
          [\A t \in Task :
              Exists(t) /\ task[t].state \in terminalStates =>
                  task'[t].state = task[t].state]_vars
    BY <1>1
  <1> QED
    BY <1>2, ExecInvariant, PTL DEF ExecSpec, TerminalIsFinal

\* The server's part of every step of the composition is a step of
\* TransferService: Agents, their lost and late requests, the user and the
\* rest of the system ask nothing of it that its own specification excludes.
THEOREM ServerRefines == ExecSpec => [][Next]_vars
  <1>1. ExecInv /\ [ExecNext]_execVars => [Next]_vars
    BY ExecStep DEF ServerOK
  <1> QED
    BY <1>1, ExecInvariant, PTL DEF ExecSpec

\* So the scheduler's own safety holds of the composition too, which starts
\* from a server that already has entries and replicas.
THEOREM ServerSafe == ExecSpec => [](OneLiveTask /\ LeaseMatchesState)
  <1>1. ExecInit => OneLiveTask /\ LeaseMatchesState
    BY DEF ExecInit, OneLiveTask, LeaseMatchesState, Live, Exists, NoRow
  <1>2. ExecTypeOK => TypeOK
    BY DEF ExecTypeOK
  <1> QED
    BY <1>1, <1>2, OneLiveTaskStep, LeaseStep, ServerRefines, ExecTyped, PTL DEF ExecSpec
=============================================================================
