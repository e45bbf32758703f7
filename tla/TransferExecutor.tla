--------------------------- MODULE TransferExecutor ---------------------------
(***************************************************************************)
(* The Agent's side of a replication: executeOneTransfer and                *)
(* processCancellations of client/ubuntu/internal/agentsync, running        *)
(* against TransferService over HTTP.                                       *)
(*                                                                          *)
(* Each Agent is one goroutine.  Its pc names the request it sends next     *)
(* (or the local work it does next); a request is answered, or the server   *)
(* acts on it and the reply is lost, or the client gives up on it while it  *)
(* is still on its way and the server may act on it at any later time.      *)
(* The local database (run), the partial download (part) and the imported   *)
(* files (stored) survive a crash; the rest of the Agent does not.          *)
(*                                                                          *)
(* Every fault (lost or late message, crash, bad bytes, local I/O error, a  *)
(* lease that expires under a working Agent) consumes one of MaxFaults.     *)
(***************************************************************************)
EXTENDS TransferService

CONSTANTS
    Agents,      \* the devices whose Agents execute transfers
    MaxFaults,   \* bound: faults in a behaviour
    MaxChurn     \* bound: environment steps in a behaviour

ASSUME ExecAssumption ==
    /\ Agents \subseteq Device
    /\ MaxFaults \in Nat
    /\ MaxChurn \in Nat

VARIABLES
    agent,    \* per Agent: the locals of executeOneTransfer
    late,     \* abandoned requests the server has not seen yet
    run,      \* transfer_runs: per task, the state and cancel_requested
    part,     \* transfer-<task>.part: its length and whether its bytes are right
    stored,   \* tasks whose content is imported and has its lan_files row
    faults,
    churn

agentVars == <<agent, run, part, stored>>
execVars == <<vars, agentVars, late, faults, churn>>

reportedStates == {"discovering", "connecting", "transferring", "verifying"}

\* The pcs at which a request is outstanding.
requestPCs == reportedStates \cup {"claim", "complete", "fail", "cancel", "sweep"}

\* The pcs at which cancelRequested is read before anything else happens.
cancelPoints == reportedStates \cup {"download"}

PCs == requestPCs \cup {"idle", "download", "import"}

Idle == [pc |-> "idle", task |-> 0, version |-> 0, attempt |-> 0, todo |-> {}]

NoPart == [len |-> "none", good |-> TRUE]

\* The local state column, as far as anything tests it: "open" stands for
\* every state outside ('completed','canceled','failed_permanent').
NoRun == [state |-> "none", cancel |-> FALSE]

At(d, pc) == agent[d].pc = pc
Goto(d, pc) == agent' = [agent EXCEPT ![d].pc = pc]
Rest(d) == agent' = [agent EXCEPT ![d] = Idle]

Fault == faults < MaxFaults /\ faults' = faults + 1

------------------------------------------------------------------------------
(* Requests *)

Req(d) == [op |-> agent[d].pc, dev |-> d, task |-> agent[d].task,
           version |-> agent[d].version, attempt |-> agent[d].attempt]

\* The server answers 2xx: the caller is authenticated and the operation of
\* TransferService it names is enabled (a repeated cancel is accepted too).
Accepted(m) ==
    /\ m.dev \in enrolled
    /\ \/ m.op = "claim" /\ \E t \in Task : ClaimOK(t, m.dev, {})
       \/ m.op \in reportedStates /\ UpdateStateOK(m.task, m.dev, m.version, m.op)
       \/ m.op = "complete" /\ CompleteReplicaOK(m.task, m.dev, m.version)
       \/ m.op = "fail" /\ FailAttemptOK(m.task, m.dev, m.version)
       \/ m.op \in {"cancel", "sweep"} /\ Exists(m.task)

Serve(m) ==
    \/ m.op = "claim" /\ \E t \in Task : ClaimNext(t, m.dev, {})
    \/ m.op \in reportedStates /\ UpdateState(m.task, m.dev, m.version, m.op)
    \/ m.op = "complete" /\ CompleteReplica(m.task, m.dev, m.version)
    \/ m.op = "fail" /\ FailAttempt(m.task, m.dev, m.version)
    \/ m.op \in {"cancel", "sweep"} /\ CancelTask(m.task)
    \/ m.op \in {"cancel", "sweep"} /\ ~Live(m.task) /\ UNCHANGED vars

------------------------------------------------------------------------------
(* What the Agent does with an answer *)

\* The next request of the loop over the cancellations, or the claim after it.
SweepOn(d, todo) ==
    \/ \E t \in todo :
          agent' = [agent EXCEPT ![d] = [Idle EXCEPT !.pc = "sweep", !.task = t,
                                                     !.todo = todo \ {t}]]
    \/ todo = {} /\ agent' = [agent EXCEPT ![d] = [Idle EXCEPT !.pc = "claim"]]

\* recordTransfer clears cancel_requested along with the rest of the row.
recordTransfer(t) == run' = [run EXCEPT ![t] = [state |-> "open", cancel |-> FALSE]]

updateTransfer(t, s) == run' = [run EXCEPT ![t].state = s]

NextPC == [discovering |-> "connecting", connecting |-> "transferring",
           transferring |-> "download", verifying |-> "import"]

\* The answer to a claim: the row as the server has just written it.
Assigned(d, u) ==
    /\ task'[u] # task[u]
    /\ agent' = [agent EXCEPT ![d] =
          [Idle EXCEPT !.pc = "discovering", !.task = u,
                       !.version = task'[u].version, !.attempt = task'[u].attempt]]
    /\ recordTransfer(u)

Succeeded(d) ==
    LET t == agent[d].task IN
    \/ /\ At(d, "claim")
       /\ \E u \in Task : Assigned(d, u)
       /\ UNCHANGED <<part, stored>>
    \/ /\ agent[d].pc \in reportedStates
       /\ agent' = [agent EXCEPT ![d].pc = NextPC[agent[d].pc], ![d].version = @ + 1]
       /\ updateTransfer(t, "open")
       /\ UNCHANGED <<part, stored>>
    \/ /\ At(d, "complete")
       /\ Rest(d)
       /\ updateTransfer(t, "completed")
       /\ part' = [part EXCEPT ![t] = NoPart]
       /\ UNCHANGED stored
    \/ /\ At(d, "fail")
       /\ Rest(d)
       /\ updateTransfer(t, "open")
       /\ UNCHANGED <<part, stored>>
    \/ /\ At(d, "cancel")
       /\ Rest(d)
       /\ updateTransfer(t, "canceled")
       /\ UNCHANGED <<part, stored>>
    \/ /\ At(d, "sweep")
       /\ SweepOn(d, agent[d].todo)
       /\ updateTransfer(t, "canceled")
       /\ UNCHANGED <<part, stored>>

\* Variant: a cancellation is recorded locally whatever the server answers.
FailedCancelRecorded(d) ==
    /\ \/ At(d, "claim") /\ Rest(d) /\ UNCHANGED run
       \/ agent[d].pc \in reportedStates \cup {"complete"} /\ Goto(d, "fail") /\ UNCHANGED run
       \/ At(d, "fail") /\ Rest(d) /\ updateTransfer(agent[d].task, "open")
       \/ At(d, "cancel") /\ Rest(d) /\ updateTransfer(agent[d].task, "canceled")
       \/ At(d, "sweep") /\ SweepOn(d, agent[d].todo) /\ UNCHANGED run
    /\ UNCHANGED <<part, stored>>

\* An error or any other status.  A failed /fail still ends the attempt.
Failed(d) ==
    /\ \/ At(d, "claim") /\ Rest(d) /\ UNCHANGED run
       \/ agent[d].pc \in reportedStates \cup {"complete"} /\ Goto(d, "fail") /\ UNCHANGED run
       \/ At(d, "fail") /\ Rest(d) /\ updateTransfer(agent[d].task, "open")
       \/ At(d, "cancel") /\ Rest(d) /\ UNCHANGED run
       \/ At(d, "sweep") /\ SweepOn(d, agent[d].todo) /\ UNCHANGED run
    /\ UNCHANGED <<part, stored>>

CancelSeen(d) == agent[d].pc \in cancelPoints /\ run[agent[d].task].cancel

Sending(d) == agent[d].pc \in requestPCs /\ ~CancelSeen(d)

Answer(d) ==
    /\ Sending(d)
    /\ \/ Accepted(Req(d)) /\ Serve(Req(d)) /\ Succeeded(d)
       \/ ~Accepted(Req(d)) /\ UNCHANGED vars /\ Failed(d)
    /\ UNCHANGED <<late, faults, churn>>

\* The server commits, the reply never arrives.
LostReply(d) ==
    /\ Sending(d)
    /\ Fault
    /\ Accepted(Req(d)) /\ Serve(Req(d))
    /\ Failed(d)
    /\ UNCHANGED <<late, churn>>

\* The client's timeout expires with the request still on its way.
Timeout(d) ==
    /\ Sending(d)
    /\ Fault
    /\ late' = late \cup {Req(d)}
    /\ Failed(d)
    /\ UNCHANGED <<vars, churn>>

LateArrives(m) ==
    /\ late' = late \ {m}
    /\ \/ Accepted(m) /\ Serve(m)
       \/ ~Accepted(m) /\ UNCHANGED vars
    /\ UNCHANGED <<agentVars, faults, churn>>

------------------------------------------------------------------------------
(* The Agent's local steps *)

\* The top of Run's loop: processCancellations collects its ids.
LoopTop(d) ==
    /\ At(d, "idle")
    /\ SweepOn(d, {t \in Task : /\ run[t].state = "open" /\ run[t].cancel
                                /\ task[t].target = d})
    /\ UNCHANGED <<vars, run, part, stored, late, faults, churn>>

\* cancelRequested is true: cancelTransfer is called, and from the download
\* on the partial file is removed first.
CheckCancel(d) ==
    /\ CancelSeen(d)
    /\ Goto(d, "cancel")
    /\ part' = IF agent[d].pc \in {"download", "verifying"}
                  THEN [part EXCEPT ![agent[d].task] = NoPart] ELSE part
    /\ UNCHANGED <<vars, run, stored, late, faults, churn>>

\* The bytes a response leaves in the file: appended to the partial file
\* (206), or written over it from the start (200).
Received(p, good) ==
    {good} \cup (IF p.len = "some" THEN {p.good /\ good} ELSE {})

\* downloadReplica: a complete file is not fetched again, an over-long one is
\* dropped; otherwise some bytes arrive, or all that are missing.
downloadReplica(d) ==
    LET t == agent[d].task IN
    /\ At(d, "download") /\ ~CancelSeen(d)
    /\ \/ part[t].len = "all" /\ Goto(d, "verifying") /\ UNCHANGED <<part, faults>>
       \/ /\ part[t].len # "all"
          /\ \E good \in BOOLEAN : \E g \in Received(part[t], good) :
               /\ IF good THEN UNCHANGED faults ELSE Fault
               /\ \/ part' = [part EXCEPT ![t] = [len |-> "some", good |-> g]]
                     /\ UNCHANGED agent
                  \/ part' = [part EXCEPT ![t] = [len |-> "all", good |-> g]]
                     /\ Goto(d, "verifying")
    /\ UNCHANGED <<vars, run, stored, late, churn>>

\* The source fails, or sends a byte too many: the attempt fails.
DownloadFails(d) ==
    /\ At(d, "download") /\ part[agent[d].task].len # "all"
    /\ \/ Fault
       \/ Sources(task[agent[d].task].obj, d) = {} /\ UNCHANGED faults
    /\ \/ UNCHANGED part
       \/ part' = [part EXCEPT ![agent[d].task] = [len |-> "over", good |-> FALSE]]
    /\ Goto(d, "fail")
    /\ UNCHANGED <<vars, run, stored, late, churn>>

\* Variants: the hash is not compared; a mismatch leaves the file as it is.
ImportUnchecked(d) ==
    LET t == agent[d].task IN
    /\ At(d, "import")
    /\ stored' = IF part[t].good THEN stored \cup {t} ELSE stored
    /\ Goto(d, "complete")
    /\ UNCHANGED <<vars, run, part, late, faults, churn>>

ImportKeepsBadPart(d) ==
    LET t == agent[d].task IN
    /\ At(d, "import")
    /\ IF part[t].good THEN stored' = stored \cup {t} /\ Goto(d, "complete")
                       ELSE UNCHANGED stored /\ Goto(d, "fail")
    /\ UNCHANGED <<vars, run, part, late, faults, churn>>

\* The file is hashed: a mismatch truncates it, a match is imported and gets
\* its lan_files row, whose id is the task's, so that a repetition finds it.
Import(d) ==
    LET t == agent[d].task IN
    /\ At(d, "import")
    /\ \/ /\ part[t].good
          /\ stored' = stored \cup {t}
          /\ Goto(d, "complete")
          /\ UNCHANGED part
       \/ /\ ~part[t].good
          /\ part' = [part EXCEPT ![t] = NoPart]
          /\ Goto(d, "fail")
          /\ UNCHANGED stored
    /\ UNCHANGED <<vars, run, late, faults, churn>>

\* Object store, name or database errors around the import.
ImportFails(d) ==
    /\ At(d, "import")
    /\ Fault
    /\ Goto(d, "fail")
    /\ UNCHANGED <<vars, run, part, stored, late, churn>>

Crash(d) ==
    /\ ~At(d, "idle")
    /\ Fault
    /\ Rest(d)
    /\ UNCHANGED <<vars, run, part, stored, late, churn>>

\* The user's cancel on the local API: it only sets cancel_requested.
handleCancelTransfer(t) ==
    /\ run[t].state = "open"
    /\ run' = [run EXCEPT ![t].cancel = TRUE]
    /\ UNCHANGED <<vars, agent, part, stored, late, faults, churn>>

------------------------------------------------------------------------------
(* The rest of the system *)

Executing(t) ==
    \E d \in Agents : /\ agent[d].pc \notin {"idle", "claim", "sweep"}
                      /\ agent[d].task = t
                      /\ agent[d].attempt = task[t].attempt

\* A lease nobody works under expires; under a working Agent that is a fault
\* (it is never renewed and lasts 600 s; the download alone may take 540 s).
Expire(t) ==
    /\ LeaseLapses(t)
    /\ ~Executing(t) /\ UNCHANGED faults
    /\ UNCHANGED <<agentVars, late, churn>>

ExpireUnderWork(t) ==
    /\ LeaseLapses(t)
    /\ Executing(t) /\ Fault
    /\ UNCHANGED <<agentVars, late, churn>>

\* Requests of the user interface, from any enrolled device.
UserRequest ==
    /\ \/ \E o \in Object, d \in Agents, p \in Priority : CreateReplicaTaskCheck(o, d, p)
       \/ \E r \in checked : CreateReplicaTaskInsert(r)
       \/ enrolled # {} /\ \E t \in Task : CancelTask(t)
    /\ UNCHANGED <<agentVars, late, faults, churn>>

Churn ==
    /\ Environment
    /\ churn < MaxChurn /\ churn' = churn + 1
    /\ UNCHANGED <<agentVars, late, faults>>

\* The devices without an Agent have registered every object.
ExecInit ==
    /\ task = [t \in Task |-> NoRow]
    /\ checked = {}
    /\ ready = Object \X (Device \ Agents)
    /\ listed = Object
    /\ enrolled = Device
    /\ agent = [d \in Agents |-> Idle]
    /\ late = {}
    /\ run = [t \in Task |-> NoRun]
    /\ part = [t \in Task |-> NoPart]
    /\ stored = {}
    /\ faults = 0
    /\ churn = 0

AgentStep(d) ==
    \/ LoopTop(d) \/ Answer(d) \/ CheckCancel(d) \/ downloadReplica(d)
    \/ DownloadFails(d) \/ Import(d)

FaultStep(d) == LostReply(d) \/ Timeout(d) \/ ImportFails(d) \/ Crash(d)

ExecNext ==
    \/ \E d \in Agents : AgentStep(d) \/ FaultStep(d)
    \/ \E m \in late : LateArrives(m)
    \/ \E t \in Task : Expire(t) \/ ExpireUnderWork(t) \/ handleCancelTransfer(t)
    \/ UserRequest
    \/ Churn

ExecSpec == ExecInit /\ [][ExecNext]_execVars

\* The Agents keep running, the network answers when it does not fail, and
\* time passes.  Nothing is assumed of the user, the faults or the churn.
ExecFairness ==
    /\ \A d \in Agents : WF_execVars(AgentStep(d))
    /\ \A t \in Task : WF_execVars(Expire(t))

FairExecSpec == ExecSpec /\ ExecFairness

------------------------------------------------------------------------------
(* Properties *)

Requests ==
    [op : requestPCs, dev : Agents, task : Task \cup {0}, version : Nat, attempt : Nat]

\* The types of the Agents' variables; TypeOK has the server's.
ExecTypeOK ==
    /\ TypeOK
    /\ agent \in [Agents -> [pc : PCs, task : Task \cup {0}, version : Nat,
                             attempt : Nat, todo : SUBSET Task]]
    /\ late \in SUBSET Requests
    /\ run \in [Task -> [state : {"none", "open", "completed", "canceled"}, cancel : BOOLEAN]]
    /\ part \in [Task -> [len : {"none", "some", "all", "over"}, good : BOOLEAN]]
    /\ stored \in SUBSET Task
    /\ faults \in 0 .. MaxFaults
    /\ churn \in 0 .. MaxChurn

\* The server never records a replica on an Agent's device whose verified
\* bytes are not stored there, whichever of the reports of whichever attempt
\* got through (executeOneTransfer hashes and imports before it reports).
ReplicaIsStored ==
    \A t \in Task : Exists(t) /\ task[t].state = "completed" => t \in stored

\* A report that an earlier attempt prepared is never accepted, however late
\* it arrives ("a late or never-claimed agent cannot mutate a re-assigned
\* task", transfer.go:399).
StaleReportsRejected ==
    \A m \in late \cup {Req(d) : d \in Agents} :
        m.op \in reportedStates \cup {"complete", "fail"} /\ Accepted(m) =>
            m.attempt = task[m.task].attempt

\* What the local transfer list shows as ended has ended on the server too:
\* "completed" only if completed there, "canceled" only if no device will
\* work on it again.
LocalEndIsReal ==
    \A t \in Task :
        /\ run[t].state = "completed" => task[t].state = "completed"
        /\ run[t].state = "canceled" => task[t].state \in terminalStates

\* Every task the server accepted ends completed or canceled, or is given up
\* after as many faults as it had attempts: no sequence of lost replies, late
\* requests, crashes, corrupted or partial downloads leaves it stuck or gives
\* it up early.  (Unless a device or the entry goes away meanwhile.)
TransferEnds ==
    \A t \in Task :
        Exists(t) ~> \/ task[t].state \in {"completed", "canceled"}
                     \/ task[t].state = "failed_permanent" /\ faults >= RetryLimit
                     \/ churn > 0

\* "ClaimNext leases the highest-priority ready task to its target device"
\* (execution.go:124): while a device keeps asking, a task that has a source
\* and an entry does not stay claimable for ever.
ReadyTaskIsServed ==
    \A t \in Task : \A d \in Agents :
        []<>~(Claimable(t, d) /\ task[t].obj \in listed /\ d \in enrolled)

\* CancelTransferResponse.canceled: "Whether the transfer was canceled."
\* (local.proto:184).  A transfer whose cancellation was confirmed to the
\* user does not complete afterwards.
ConfirmedCancelHolds ==
    [][\A t \in Task :
          run[t].cancel /\ task[t].state # "completed" => task'[t].state # "completed"]_execVars
=============================================================================
