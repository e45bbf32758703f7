--------------------------- MODULE TransferService ---------------------------
(***************************************************************************)
(* The control server's replication scheduler: the transfer_tasks table     *)
(* and the operations of server/internal/transfer that change it.  One      *)
(* account; every database transaction that takes the row lock of its task  *)
(* is one step.  CreateReplicaTask reads before it inserts and locks        *)
(* nothing, so it is two steps.                                             *)
(*                                                                          *)
(* A caller is any authenticated device of the account and may send any     *)
(* request at any time; a rejected request changes nothing and is no step.  *)
(*                                                                          *)
(* Time: the code only ever compares lease_until with NOW(), so a lease     *)
(* (and the retry delay, which is stored in the same column) is "running"   *)
(* until LeaseLapses makes it "lapsed".                                     *)
(*                                                                          *)
(* transfer_sources is not kept: ClaimNext re-inserts every ready source    *)
(* in the transaction that selects one, and nothing else reads the table.   *)
(***************************************************************************)
EXTENDS Integers

CONSTANTS
    Device,       \* the account's devices
    Object,       \* the account's content objects (file_objects)
    Priority,     \* priorities a caller may ask for
    MaxTasks,     \* bound: rows of transfer_tasks
    MaxVersion,   \* bound: value of the version column, per task
    RetryLimit,   \* FailAttempt gives up from this attempt on (10 in the code)
    NoDevice      \* SQL NULL in lease_owner

ASSUME ConstAssumption ==
    /\ NoDevice \notin Device
    /\ Priority \subseteq Int
    /\ MaxTasks \in Nat
    /\ MaxVersion \in [1 .. MaxTasks -> Nat]
    /\ RetryLimit \in Nat \ {0}

VARIABLES
    task,      \* transfer_tasks: a row per task id
    checked,   \* requests past CreateReplicaTask's reads, before its insert
    ready,     \* replicas in state 'ready': pairs <<object, device>>
    listed,    \* objects some active file_entries row refers to
    enrolled   \* devices with status 'active'

envVars == <<ready, listed, enrolled>>
vars == <<task, checked, ready, listed, enrolled>>

(***************************************************************************)
(* Ids are numbered in creation order, so created_at,id orders as Task.     *)
(***************************************************************************)
Task == 1 .. MaxTasks

terminalStates == {"completed", "canceled", "failed_permanent"}

\* The states ClaimNext selects from: every live state but "paused".
claimableStates ==
    {"queued", "assigned", "discovering", "connecting", "transferring",
     "verifying", "retry_wait", "waiting_source"}

validStates == claimableStates \cup {"paused"} \cup terminalStates

Lease == {"null", "running", "lapsed"}

Row == [obj : Object, target : Device, prio : Priority, state : validStates,
        owner : Device \cup {NoDevice}, lease : Lease,
        attempt : Nat, version : Nat]

NoRow == [state |-> "absent"]

Exists(t) == task[t].state # "absent"
Live(t) == Exists(t) /\ task[t].state \notin terminalStates

(***************************************************************************)
(* The adjacency list UpdateState validates against.                        *)
(***************************************************************************)
validTransitions ==
    {<<"queued", "assigned">>, <<"assigned", "discovering">>,
     <<"discovering", "connecting">>, <<"discovering", "retry_wait">>,
     <<"connecting", "transferring">>, <<"connecting", "retry_wait">>,
     <<"transferring", "verifying">>, <<"transferring", "waiting_source">>,
     <<"transferring", "paused">>,
     <<"verifying", "completed">>, <<"verifying", "retry_wait">>,
     <<"waiting_source", "queued">>, <<"retry_wait", "queued">>,
     <<"paused", "transferring">>}
    \cup {<<s, "canceled">> : s \in validStates \ terminalStates}
    \cup {<<s, "failed_permanent">> :
            s \in {"discovering", "connecting", "transferring", "verifying"}}

validTransition(from, to) == <<from, to>> \in validTransitions

\* Variant: the partial unique index is missing.
NoIndex(t, o, d) == TRUE

(***************************************************************************)
(* transfer_tasks_live_object_target_unique: no second live row for the     *)
(* object and target of a row about to become live.                         *)
(***************************************************************************)
IndexAllows(t, o, d) ==
    \A u \in Task : u # t /\ Live(u) => <<task[u].obj, task[u].target>> # <<o, d>>

\* Devices other than the target that hold a ready replica and are active.
Sources(o, d) == {s \in enrolled \ {d} : <<o, s>> \in ready}

\* The unexpired lease of device d on task t.
Holds(t, d) == task[t].owner = d /\ task[t].lease = "running"

\* The next id of the table.
Fresh(t) == ~Exists(t) /\ \A u \in Task : u < t => Exists(u)

MkRow(o, d, p, state, owner, lease, attempt, version) ==
    [obj |-> o, target |-> d, prio |-> p, state |-> state,
     owner |-> owner, lease |-> lease, attempt |-> attempt, version |-> version]

\* Variant: a task starts in a state the schema does not know.
NewRowCreated(o, d, p) == MkRow(o, d, p, "created", NoDevice, "null", 0, 1)

NewRow(o, d, p) == MkRow(o, d, p, "queued", NoDevice, "null", 0, 1)

\* UPDATE transfer_tasks SET ..., version = version + 1 WHERE id = t.
WriteRow(t, state, owner, lease, attempt) ==
    task' = [task EXCEPT ![t] =
               MkRow(task[t].obj, task[t].target, task[t].prio,
                     state, owner, lease, attempt, task[t].version + 1)]

------------------------------------------------------------------------------
(* CreateReplicaTask *)

\* Its reads: an active entry, an active target, no ready replica there.
CreateReplicaTaskCheck(o, d, p) ==
    /\ o \in listed
    /\ d \in enrolled
    /\ <<o, d>> \notin ready
    /\ checked' = checked \cup {[obj |-> o, target |-> d, prio |-> p]}
    /\ UNCHANGED <<task, envVars>>

\* Its writes: the row unless a live one exists (which is then returned), and
\* the sources; no source rolls the row back.
CreateReplicaTaskInsert(r) ==
    /\ checked' = checked \ {r}
    /\ \/ \E t \in Task :
            /\ Fresh(t)
            /\ IndexAllows(t, r.obj, r.target)
            /\ Sources(r.obj, r.target) # {}
            /\ task' = [task EXCEPT ![t] = NewRow(r.obj, r.target, r.prio)]
       \/ /\ \/ Sources(r.obj, r.target) = {}
             \/ \E u \in Task : Live(u) /\ <<task[u].obj, task[u].target>> = <<r.obj, r.target>>
          /\ task' = task
    /\ UNCHANGED envVars

\* Service.CreateTask: no check of entries, replicas or sources.
CreateTask(o, d, p) ==
    /\ \E t \in Task :
          /\ Fresh(t)
          /\ IndexAllows(t, o, d)
          /\ task' = [task EXCEPT ![t] = NewRow(o, d, p)]
    /\ UNCHANGED <<checked, envVars>>

------------------------------------------------------------------------------
(* Leases *)

\* Variant: the state filter of ClaimNext's query is missing.
ClaimableAnyState(t, d) ==
    /\ Exists(t)
    /\ task[t].target = d
    /\ task[t].lease # "running"
    /\ Sources(task[t].obj, d) # {}

Claimable(t, d) ==
    /\ Exists(t)
    /\ task[t].target = d
    /\ task[t].state \in claimableStates
    /\ task[t].lease # "running"
    /\ Sources(task[t].obj, d) # {}

\* ORDER BY priority DESC, created_at, id.
Before(t, u) ==
    \/ task[t].prio > task[u].prio
    \/ task[t].prio = task[u].prio /\ t < u

\* The one row ClaimNext's SELECT ... FOR UPDATE SKIP LOCKED LIMIT 1 returns
\* when other transactions hold the row locks of the tasks in locked.
Selected(t, d, locked) ==
    /\ Claimable(t, d)
    /\ t \notin locked
    /\ \A u \in Task \ ({t} \cup locked) : Claimable(u, d) => Before(t, u)

(***************************************************************************)
(* The assignment is read with a join on an active entry of the object: no  *)
(* entry is sql.ErrNoRows, and the whole transaction is rolled back.        *)
(***************************************************************************)
ClaimOK(t, d, locked) == Selected(t, d, locked) /\ task[t].obj \in listed

ClaimNext(t, d, locked) ==
    /\ ClaimOK(t, d, locked)
    /\ task[t].version < MaxVersion[t]
    /\ WriteRow(t, "assigned", d, "running", task[t].attempt + 1)
    /\ UNCHANGED <<checked, envVars>>

\* Service.AcquireLease: a named task, whatever its retry delay.
AcquireLease(t, d) ==
    /\ Live(t)
    /\ task[t].target = d
    /\ ~(task[t].owner # NoDevice /\ task[t].lease = "running")
    /\ task[t].version < MaxVersion[t]
    /\ WriteRow(t, IF task[t].state = "queued" THEN "assigned" ELSE task[t].state,
                d, "running", task[t].attempt + 1)
    /\ UNCHANGED <<checked, envVars>>

LeaseLapses(t) ==
    /\ Exists(t)
    /\ task[t].lease = "running"
    /\ task' = [task EXCEPT ![t] = [task[t] EXCEPT !.lease = "lapsed"]]
    /\ UNCHANGED <<checked, envVars>>

------------------------------------------------------------------------------
(* Reports of the target device, each carrying the version it expects *)

\* Variants: a report needs no lease; a report needs no current version.
UpdateStateOKNoLease(t, d, v, s) ==
    /\ Exists(t)
    /\ task[t].target = d
    /\ validTransition(task[t].state, s)
    /\ task[t].version = v

UpdateStateOKAnyVersion(t, d, v, s) ==
    /\ Exists(t)
    /\ task[t].target = d
    /\ validTransition(task[t].state, s)
    /\ Holds(t, d)

UpdateStateOK(t, d, v, s) ==
    /\ Exists(t)
    /\ task[t].target = d
    /\ validTransition(task[t].state, s)
    /\ Holds(t, d)
    /\ task[t].version = v

\* Variant: the update forgets version = version + 1.
UpdateStateUnversioned(t, d, v, s) ==
    /\ UpdateStateOK(t, d, v, s)
    /\ task' = [task EXCEPT ![t].state = s]
    /\ UNCHANGED <<checked, envVars>>

UpdateState(t, d, v, s) ==
    /\ UpdateStateOK(t, d, v, s)
    /\ task[t].version < MaxVersion[t]
    /\ WriteRow(t, s, task[t].owner, task[t].lease, task[t].attempt)
    /\ UNCHANGED <<checked, envVars>>

CompleteReplicaOK(t, d, v) ==
    /\ Exists(t)
    /\ task[t].target = d
    /\ task[t].state = "verifying"
    /\ Holds(t, d)
    /\ task[t].version = v

\* The report's size and hash are the object's; a mismatch is rejected.
CompleteReplica(t, d, v) ==
    /\ CompleteReplicaOK(t, d, v)
    /\ task[t].version < MaxVersion[t]
    /\ WriteRow(t, "completed", NoDevice, "null", task[t].attempt)
    /\ ready' = ready \cup {<<task[t].obj, d>>}
    /\ UNCHANGED <<checked, listed, enrolled>>

\* No test of the row's state; the unique index still guards the update.
FailAttemptOK(t, d, v) ==
    /\ Exists(t)
    /\ task[t].target = d
    /\ Holds(t, d)
    /\ task[t].version = v
    /\ task[t].attempt >= RetryLimit \/ IndexAllows(t, task[t].obj, d)

FailAttempt(t, d, v) ==
    /\ FailAttemptOK(t, d, v)
    /\ task[t].version < MaxVersion[t]
    /\ IF task[t].attempt >= RetryLimit
          THEN WriteRow(t, "failed_permanent", NoDevice, "null", task[t].attempt)
          ELSE WriteRow(t, "retry_wait", NoDevice, "running", task[t].attempt)
    /\ UNCHANGED <<checked, envVars>>

\* Variant: canceling forgets to clear lease_until.
CancelKeepsLease(t) ==
    /\ Live(t)
    /\ task[t].version < MaxVersion[t]
    /\ WriteRow(t, "canceled", NoDevice, task[t].lease, task[t].attempt)
    /\ UNCHANGED <<checked, envVars>>

\* Any device of the account; repeating it on a terminal task changes nothing.
CancelTask(t) ==
    /\ Live(t)
    /\ task[t].version < MaxVersion[t]
    /\ WriteRow(t, "canceled", NoDevice, "null", task[t].attempt)
    /\ UNCHANGED <<checked, envVars>>

------------------------------------------------------------------------------
(* What the rest of the server does to the rows these queries join with *)

\* RegisterVerifiedFile: an active entry and a ready replica on the reporter.
RegisterFile(o, d) ==
    /\ d \in enrolled
    /\ listed' = listed \cup {o}
    /\ ready' = ready \cup {<<o, d>>}
    /\ UNCHANGED <<task, checked, enrolled>>

\* A rename leaves these rows alone; trash and restore toggle the entry.
TrashEntry(o) ==
    /\ o \in listed
    /\ listed' = listed \ {o}
    /\ UNCHANGED <<task, checked, ready, enrolled>>

RestoreEntry(o) ==
    /\ o \notin listed
    /\ listed' = listed \cup {o}
    /\ UNCHANGED <<task, checked, ready, enrolled>>

\* A purge report or a finished purge command marks one replica deleted.
DeleteReplica(o, d) ==
    /\ <<o, d>> \in ready
    /\ ready' = ready \ {<<o, d>>}
    /\ UNCHANGED <<task, checked, listed, enrolled>>

DeregisterDevice(d) ==
    /\ d \in enrolled
    /\ enrolled' = enrolled \ {d}
    /\ UNCHANGED <<task, checked, ready, listed>>

RegisterDevice(d) ==
    /\ d \notin enrolled
    /\ enrolled' = enrolled \cup {d}
    /\ UNCHANGED <<task, checked, ready, listed>>

------------------------------------------------------------------------------
Init ==
    /\ task = [t \in Task |-> NoRow]
    /\ checked = {}
    /\ ready = {}
    /\ listed = {}
    /\ enrolled = Device

Environment ==
    \/ \E o \in Object, d \in Device : RegisterFile(o, d) \/ DeleteReplica(o, d)
    \/ \E o \in Object : TrashEntry(o) \/ RestoreEntry(o)
    \/ \E d \in Device : DeregisterDevice(d) \/ RegisterDevice(d)

\* Requests of an authenticated (hence enrolled) device d.
Request(d) ==
    \/ \E o \in Object, e \in Device, p \in Priority :
          CreateReplicaTaskCheck(o, e, p) \/ CreateTask(o, e, p)
    \/ \E t \in Task : AcquireLease(t, d) \/ CancelTask(t)
    \/ \E t \in Task : \E locked \in SUBSET Task : ClaimNext(t, d, locked)
    \/ \E t \in Task : \E v \in 1 .. MaxVersion[t] :
          \/ \E s \in validStates : UpdateState(t, d, v, s)
          \/ CompleteReplica(t, d, v)
          \/ FailAttempt(t, d, v)

Next ==
    \/ \E d \in enrolled : Request(d)
    \/ \E r \in checked : CreateReplicaTaskInsert(r)
    \/ \E t \in Task : LeaseLapses(t)
    \/ Environment

Spec == Init /\ [][Next]_vars

------------------------------------------------------------------------------
(* Properties *)

\* Every variable has its type: rows carry the columns of transfer_tasks.
TypeOK ==
    /\ task \in [Task -> Row \cup {NoRow}]
    /\ checked \in SUBSET [obj : Object, target : Device, prio : Priority]
    /\ ready \in SUBSET (Object \X Device)
    /\ listed \in SUBSET Object
    /\ enrolled \in SUBSET Device

\* CreateReplicaTask "creates one live task per object/target"
\* (execution.go:50), whichever of the four operations that make a row live
\* ran, and although a report can make a finished row live again.
OneLiveTask ==
    \A t, u \in Task :
        /\ Live(t) /\ Live(u)
        /\ <<task[t].obj, task[t].target>> = <<task[u].obj, task[u].target>>
        => t = u

\* The states a device reports while it works on a task.
inProgress == {"assigned", "discovering", "connecting", "transferring", "verifying"}

\* A task in progress names its target as the lease owner, so that a lapsed
\* lease identifies abandoned work; a lease without an owner is a retry delay
\* and belongs to a task that waits for its retry.
LeaseMatchesState ==
    \A t \in Task : Exists(t) =>
        /\ task[t].state \in inProgress => task[t].owner = task[t].target
        /\ task[t].owner # NoDevice => task[t].lease # "null"
        /\ task[t].owner = NoDevice /\ task[t].lease # "null" =>
              task[t].state = "retry_wait"

\* The version column fences reports: whatever changes a row other than the
\* passage of time increments its version by one, so a report that was
\* prepared against an older row is rejected ("a late or never-claimed agent
\* cannot mutate a re-assigned task", transfer.go:399).
VersionFencesRow ==
    [][\A t \in Task :
          Exists(t) /\ task'[t] # task[t] =>
              \/ task'[t].version = task[t].version + 1
              \/ task'[t] = [task[t] EXCEPT !.lease = "lapsed"]]_vars

\* Outside a new lease and a cancellation, a row changes only under an
\* unexpired lease held by its target device.
OnlyTheHolderReports ==
    [][\A t \in Task :
          Exists(t) /\ task'[t].version # task[t].version =>
              \/ Holds(t, task[t].target)
              \/ task'[t].attempt = task[t].attempt + 1
              \/ task'[t].state = "canceled"]_vars

\* "Terminal states (completed, canceled, failed_permanent) have no outgoing
\* edges" (transfer.go:44): a task that ended never gets another state.
TerminalIsFinal ==
    [][\A t \in Task :
          Exists(t) /\ task[t].state \in terminalStates =>
              task'[t].state = task[t].state]_vars
=============================================================================
