-------------------------------- MODULE Catalog --------------------------------
(***************************************************************************)
(* The unified catalog (server/internal/catalog), the Agents' outboxes that  *)
(* report to it and the device commands that flow back.                     *)
(*                                                                          *)
(* A file is created on its origin, whose Agent reports every change through *)
(* its outbox (agentsync deliver); other Agents may hold copies.  A client   *)
(* may act on the catalog itself (ApplyCatalogActions): the server then      *)
(* changes the entry and queues commands for the Agents that hold the file.  *)
(*                                                                          *)
(* RegisterVerifiedFile and ApplyLifecycleReport are transactions under the  *)
(* account's advisory lock: one step each.  Every file has its own content,  *)
(* and all entries are in the root folder.  Deleting a file's object is one  *)
(* step here; its steps on disk are those of LocalStore.                    *)
(***************************************************************************)
EXTENDS Integers, Sequences, FiniteSets

CONSTANTS
    Device,         \* Agents of the account
    File,           \* files
    Origin,         \* [File -> Device]: where a file is created
    Name,           \* normalised names
    Fresh,          \* Agents not yet enrolled at the start, with files of their own
    MaxChanges,     \* bound: changes the users of Agents make, purges of expired trash too
    MaxActions,     \* bound: actions clients request on the catalog
    MaxLosses,      \* bound: timeouts, crashes and failed requests
    MaxAttempts,    \* attempts after which a command is given up (10)
    NoName,         \* the name of a file that does not exist
    Client          \* who asks for an action on the catalog

ASSUME CatalogAssumption ==
    /\ IsFiniteSet(File)
    /\ Origin \in [File -> Device]
    /\ NoName \notin Name
    /\ Client \notin Device
    /\ Fresh \subseteq Device
    /\ MaxChanges \in Nat /\ MaxActions \in Nat /\ MaxLosses \in Nat
    /\ MaxAttempts \in Nat \ {0}

VARIABLES
    entry,      \* file_entries: status and name
    replica,    \* replicas.state of each file on each Agent
    done,       \* idempotency_keys that are completed
    command,    \* device_commands of each Agent, in the order of creation
    local,      \* lan_files of each Agent
    outbox,     \* outgoing_ops of each Agent, in the order of their rowid
    loop,       \* what each Agent's Run loop is doing
    phase,      \* how far each Agent's enrolment is
    reconcile,  \* statements each Agent's reconcileExisting has still to run
    purge,      \* calls of PurgeLANFileCoordinated under way
    late,       \* reports whose sender gave up and the server has not seen
    action,     \* ApplyCatalogActions requests
    losses,     \* failures so far
    changes,    \* changes users made so far
    effects,    \* auxiliary: the operations that changed an entry, in order
    raced       \* auxiliary: files changed while reconcileExisting ran

vars == <<entry, replica, done, command, local, outbox, loop, phase, reconcile, purge,
          late, action, losses, changes, effects, raced>>
catalogVars == <<entry, replica, done, command, effects>>
agentVars == <<local, outbox, phase, reconcile, purge, raced, changes>>
\* What the delivery of a report leaves alone.
otherVars == <<local, phase, reconcile, purge, action, changes, raced>>

lifecycle == {"rename", "trash", "restore", "purge"}

Absent == [status |-> "none", name |-> NoName]

Statuses == {"none", "active", "trashed", "purged"}

\* lan_files.status; a row that was deleted is "purged".
LocalStatuses == Statuses \cup {"purging"}

\* Without credentials; with credentials, the files not all reported; with
\* reconcileExisting under way; with its marker set.
Phases == {"configured", "enrolled", "reconciling", "reconciled"}

Report == [kind : lifecycle \cup {"register"}, file : File, name : Name \cup {NoName},
           identified : BOOLEAN, status : {"pending", "processing", "completed", "failed"}]

\* An operation: report n of an Agent, or file i of a client's request n.
Operation == [by : Device \cup {Client}, n : Nat, i : Nat]

Command == [file : File, op : Operation, act : lifecycle, name : Name \cup {NoName},
            state : {"queued", "leased", "completed", "failed"},
            lapsed : BOOLEAN, attempt : 0 .. MaxAttempts + MaxLosses]

\* A purge of a file, and the number of the report it holds back.
Purge == [device : Device, file : File, item : Nat, at : {"delete", "activate"}]

AtRest == [at |-> "rest", item |-> 0]

\* The Agent has credentials.
Online(d) == phase[d] # "configured"

-----------------------------------------------------------------------------
(***************************************************************************)
(* The catalog's transactions.                                              *)
(***************************************************************************)

\* getUnifiedFileByLocalID: an entry is found under its origin's device and
\* local id only, so an Agent's reports on copies find nothing.
Found(d, f) == Origin[f] = d /\ entry[f].status # "none"

\* file_entries_folder_name_unique, on active entries.
NameFree(f, n) == \A g \in File \ {f} : ~(entry[g].status = "active" /\ entry[g].name = n)

\* The conditions under which ApplyLifecycleReport accepts a report.
ReportOK(f, a, n) ==
    \/ a = "rename" /\ entry[f].status = "active" /\ NameFree(f, n)
    \/ a = "trash" /\ entry[f].status \in {"active", "trashed"}
    \/ a = "restore" /\ entry[f].status = "trashed" /\ NameFree(f, entry[f].name)
    \/ a = "restore" /\ entry[f].status = "active"
    \/ a = "purge" /\ entry[f].status \in {"trashed", "purged"}

\* An accepted report that finds its work done changes nothing.
Changes(f, a) ==
    \/ a = "rename"
    \/ a = "trash" /\ entry[f].status = "active"
    \/ a \in {"restore", "purge"} /\ entry[f].status = "trashed"

NewStatus(a) ==
    CASE a \in {"rename", "restore"} -> "active"
      [] a = "trash" -> "trashed"
      [] a = "purge" -> "purged"

\* INSERT ... ON CONFLICT(device_id, operation_id) DO NOTHING.
Queued(d, f, op, a, n) ==
    IF \E i \in 1 .. Len(command[d]) : command[d][i].op = op
    THEN command[d]
    ELSE Append(command[d], [file |-> f, op |-> op, act |-> a, name |-> n,
                             state |-> "queued", lapsed |-> FALSE, attempt |-> 0])

\* Every other Agent whose replica is ready.
enqueueLifecycleCommands(f, op, a, n) ==
    command' = [d \in Device |->
        IF d # Origin[f] /\ replica[f][d] = "ready" THEN Queued(d, f, op, a, n) ELSE command[d]]

\* A report's effect on the entry, the trash record and the device's replica.
ChangeEntry(f, op, a, n) ==
    /\ entry' = [entry EXCEPT ![f] =
           [status |-> NewStatus(a), name |-> IF a = "rename" THEN n ELSE @.name]]
    /\ replica' = IF a = "purge" THEN [replica EXCEPT ![f][Origin[f]] = "deleted"] ELSE replica
    /\ enqueueLifecycleCommands(f, op, a, n)
    /\ effects' = Append(effects, op)

\* Variant of Applied: the idempotency key is not looked up.
AppliedAgain(f, op, a, n) ==
    /\ ReportOK(f, a, n)
    /\ done' = done \cup {op}
    /\ IF Changes(f, a) THEN ChangeEntry(f, op, a, n)
       ELSE UNCHANGED <<entry, replica, command, effects>>

\* ApplyLifecycleReport commits.  A completed key answers from the stored
\* response.
Applied(f, op, a, n) ==
    \/ /\ op \in done
       /\ UNCHANGED catalogVars
    \/ /\ op \notin done
       /\ ReportOK(f, a, n)
       /\ done' = done \cup {op}
       /\ IF Changes(f, a) THEN ChangeEntry(f, op, a, n)
          ELSE UNCHANGED <<entry, replica, command, effects>>

\* Variant of Registered: an upsert that makes the entry active again.
RegisteredUpsert(f, op, n) ==
    /\ NameFree(f, n)
    /\ entry' = [entry EXCEPT ![f] = [status |-> "active", name |-> n]]
    /\ replica' = [replica EXCEPT ![f][Origin[f]] = "ready"]
    /\ effects' = IF entry[f].status = "none" THEN Append(effects, op) ELSE effects
    /\ UNCHANGED <<done, command>>

\* RegisterVerifiedFile commits: it creates entry and replica, or finds the
\* entry that an earlier delivery created.
Registered(f, op, n) ==
    \/ /\ entry[f].status # "none"
       /\ UNCHANGED catalogVars
    \/ /\ entry[f].status = "none"
       /\ NameFree(f, n)
       /\ entry' = [entry EXCEPT ![f] = [status |-> "active", name |-> n]]
       /\ replica' = [replica EXCEPT ![f][Origin[f]] = "ready"]
       /\ effects' = Append(effects, op)
       /\ UNCHANGED <<done, command>>

\* The server answers the report r of Agent d: RegisterCatalogFile.
RegisterCatalogFile(d, op, r) == r.kind = "register" /\ Registered(r.file, op, r.name)

\* ReportCatalogLifecycle: a report without operation_id is invalid.
ReportCatalogLifecycle(d, op, r) ==
    /\ r.kind \in lifecycle
    /\ r.identified
    /\ Found(d, r.file)
    /\ Applied(r.file, op, r.kind, r.name)

\* writeCatalogError: 4xx, after a rollback.
Rejected(d, op, r) ==
    /\ \/ r.kind = "register" /\ entry[r.file].status = "none" /\ ~NameFree(r.file, r.name)
       \/ /\ r.kind \in lifecycle
          /\ \/ ~r.identified
             \/ ~Found(d, r.file)
             \/ op \notin done /\ ~ReportOK(r.file, r.kind, r.name)
    /\ UNCHANGED catalogVars

Accepted(d, op, r) == RegisterCatalogFile(d, op, r) \/ ReportCatalogLifecycle(d, op, r)

-----------------------------------------------------------------------------
(***************************************************************************)
(* Users of an Agent: the LAN API and the local API.                        *)
(***************************************************************************)

\* lan_files has one active row per name.
LocalNameFree(d, f, n) ==
    \A g \in File \ {f} : ~(local[d][g].status = "active" /\ local[d][g].name = n)

\* enqueueOutgoingWithStatusTx, in the transaction of the change.
EnqueueWithStatus(d, k, f, n, ident, st) ==
    outbox' = [outbox EXCEPT ![d] = Append(@,
        [kind |-> k, file |-> f, name |-> n, identified |-> ident, status |-> st])]

Enqueue(d, k, f, n, ident) == EnqueueWithStatus(d, k, f, n, ident, "pending")

SetLocal(d, f, st, n) == local' = [local EXCEPT ![d][f] = [status |-> st, name |-> n]]

\* Statements of reconcileExisting still to run for f.
Reconciling(d, f) == \E i \in 1 .. Len(reconcile[d]) : reconcile[d][i].file = f

\* The transaction of a change: the row, and its report.
Change(d, f, k, st, n, reported) ==
    /\ changes < MaxChanges
    /\ changes' = changes + 1
    /\ SetLocal(d, f, st, n)
    /\ EnqueueWithStatus(d, k, f, IF k \in {"register", "rename"} THEN n ELSE NoName, TRUE, reported)
    /\ raced' = IF Reconciling(d, f) THEN raced \cup {f} ELSE raced
    /\ UNCHANGED <<catalogVars, loop, phase, reconcile, late, action, losses>>

UserChange(d, f, k, st, n) == Change(d, f, k, st, n, "pending") /\ UNCHANGED purge

\* A finished upload: Import and CreateLANFileCoordinated.
Upload(f, n) ==
    LET d == Origin[f] IN
    /\ local[d][f].status = "none"
    /\ LocalNameFree(d, f, n)
    /\ UserChange(d, f, "register", "active", n)

RenameFile(d, f, n) ==
    /\ local[d][f].status = "active"
    /\ LocalNameFree(d, f, n)
    /\ UserChange(d, f, "rename", "active", n)

TrashFile(d, f) ==
    /\ local[d][f].status = "active"
    /\ UserChange(d, f, "trash", "trashed", local[d][f].name)

RestoreFile(d, f) ==
    /\ local[d][f].status = "trashed"
    /\ LocalNameFree(d, f, local[d][f].name)
    /\ UserChange(d, f, "restore", "active", local[d][f].name)

\* A user or the hourly tick begins to purge a file, again if an earlier
\* purge did not end: a report of its own, which stays 'processing' until
\* the bytes are gone.
BeginPurge(d, f) ==
    /\ local[d][f].status \in {"trashed", "purging"}
    /\ Change(d, f, "purge", "purging", local[d][f].name, "processing")
    /\ purge' = purge \cup {[device |-> d, file |-> f, item |-> Len(outbox[d]) + 1, at |-> "delete"]}

\* The object's file and record go, and with it the row.  It fails when
\* another purge of the file was quicker: the report stays 'processing'.
DeleteObject(p) ==
    LET x == local[p.device][p.file] IN
    /\ p.at = "delete"
    /\ \/ /\ x.status = "purging"
          /\ SetLocal(p.device, p.file, "purged", x.name)
          /\ purge' = (purge \ {p}) \cup {[p EXCEPT !.at = "activate"]}
       \/ /\ x.status # "purging"
          /\ purge' = purge \ {p}
          /\ UNCHANGED local
    /\ UNCHANGED <<catalogVars, outbox, loop, phase, reconcile, late, action, losses, changes, raced>>

\* The report may now be delivered.
ActivateOutgoing(p) ==
    /\ p.at = "activate"
    /\ outbox' = [outbox EXCEPT ![p.device][p.item].status = "pending"]
    /\ purge' = purge \ {p}
    /\ UNCHANGED <<catalogVars, local, loop, phase, reconcile, late, action, losses, changes, raced>>

\* The file cannot be removed, or the caller's context ends before the
\* report is activated: nothing but a restart releases it.
PurgeFails(p) ==
    /\ losses < MaxLosses
    /\ losses' = losses + 1
    /\ purge' = purge \ {p}
    /\ UNCHANGED <<catalogVars, local, outbox, loop, phase, reconcile, late, action, changes, raced>>

\* A transfer that ends well puts a copy on another Agent and its replica in
\* the catalog (CompleteReplica).
Replicate(d, f) ==
    /\ d # Origin[f]
    /\ Online(d)
    /\ entry[f].status = "active"
    /\ local[d][f].status = "none"
    /\ LocalNameFree(d, f, entry[f].name)
    /\ SetLocal(d, f, "active", entry[f].name)
    /\ replica' = [replica EXCEPT ![f][d] = "ready"]
    /\ UNCHANGED <<entry, done, command, effects, outbox, loop, phase, reconcile, purge, late, action,
                   losses, changes, raced>>

-----------------------------------------------------------------------------
(***************************************************************************)
(* The Agent's loop: deliver.                                               *)
(***************************************************************************)
\* GetPendingOps looks at the oldest report that is pending or processing.
Oldest(d, k) ==
    /\ outbox[d][k].status \in {"pending", "processing"}
    /\ \A j \in 1 .. k - 1 : outbox[d][j].status \in {"completed", "failed"}

Mark(d, k, st) == outbox' = [outbox EXCEPT ![d][k].status = st]

At(d, where, k) == loop' = [loop EXCEPT ![d] = [at |-> where, item |-> k]]

OpOf(d, k) == [by |-> d, n |-> k, i |-> 0]

Deliver(d) ==
    /\ Online(d)
    /\ loop[d] = AtRest
    /\ \E k \in 1 .. Len(outbox[d]) :
          /\ Oldest(d, k) /\ outbox[d][k].status = "pending"
          /\ Mark(d, k, "processing")
          /\ At(d, "sent", k)
    /\ UNCHANGED <<catalogVars, otherVars, late, losses>>

\* The request reaches the server, which answers 200 or 4xx.
Serve(d) ==
    LET k == loop[d].item IN
    /\ loop[d].at = "sent"
    /\ \/ Accepted(d, OpOf(d, k), outbox[d][k]) /\ At(d, "accepted", k)
       \/ Rejected(d, OpOf(d, k), outbox[d][k]) /\ At(d, "rejected", k)
    /\ UNCHANGED <<agentVars, late, action, losses>>

MarkOpCompleted(d) ==
    /\ loop[d].at = "accepted"
    /\ Mark(d, loop[d].item, "completed")
    /\ At(d, "rest", 0)
    /\ UNCHANGED <<catalogVars, otherVars, late, losses>>

MarkOpFailed(d) ==
    /\ loop[d].at = "rejected"
    /\ Mark(d, loop[d].item, "failed")
    /\ At(d, "rest", 0)
    /\ UNCHANGED <<catalogVars, otherVars, late, losses>>

\* Variant of MarkOpRetryable: the report is left 'processing'.
MarkOpRetryableStuck(d) ==
    /\ loop[d].at \in {"sent", "accepted", "rejected"}
    /\ losses < MaxLosses
    /\ losses' = losses + 1
    /\ At(d, "rest", 0)
    /\ UNCHANGED <<catalogVars, agentVars, late, action>>

\* The reply does not arrive or is a 5xx.  The server may still receive the
\* request.
MarkOpRetryable(d) ==
    LET k == loop[d].item IN
    /\ loop[d].at \in {"sent", "accepted", "rejected"}
    /\ losses < MaxLosses
    /\ losses' = losses + 1
    /\ Mark(d, k, "pending")
    /\ At(d, "rest", 0)
    /\ \/ loop[d].at = "sent" /\ late' = late \cup {<<d, k, outbox[d][k]>>}
       \/ UNCHANGED late
    /\ UNCHANGED <<catalogVars, otherVars>>

\* The server gets round to a request nobody waits for.
ServeLate(x) ==
    LET op == OpOf(x[1], x[2]) IN
    /\ Accepted(x[1], op, x[3]) \/ Rejected(x[1], op, x[3])
    /\ late' = late \ {x}
    /\ UNCHANGED <<agentVars, loop, action, losses>>

-----------------------------------------------------------------------------
(***************************************************************************)
(* Enrolment: persistAuth, then reconcileExisting.                          *)
(***************************************************************************)

\* The files reconcileExisting reads: it re-registers each, and reports the
\* trashed ones as trashed.
Existing(d) == {[file |-> f, name |-> local[d][f].name, trashed |-> local[d][f].status = "trashed",
                 step |-> "register", item |-> 0] :
                f \in {g \in File : local[d][g].status \in {"active", "trashed"}}}

\* The lists of the elements of S, each once.
Listings(S) == {s \in [1 .. Cardinality(S) -> S] : \A i, j \in DOMAIN s : s[i] = s[j] => i = j}

\* Variant of PersistAuth: the marker is set with the credentials.
PersistAuthMarked(d) ==
    /\ phase[d] = "configured"
    /\ phase' = [phase EXCEPT ![d] = "reconciled"]
    /\ \E s \in Listings(Existing(d)) : reconcile' = [reconcile EXCEPT ![d] = s]
    /\ UNCHANGED <<catalogVars, local, outbox, loop, purge, late, action, losses, changes, raced>>

\* A user enrols the Agent, again if reconcileExisting did not end.  (It would
\* register copies as files of their own: an Agent that holds some is left out.)
PersistAuth(d) ==
    /\ phase[d] \in {"configured", "enrolled"}
    /\ \A f \in File : local[d][f].status \in {"active", "trashed"} => Origin[f] = d
    /\ phase' = [phase EXCEPT ![d] = "reconciling"]
    /\ \E s \in Listings(Existing(d)) : reconcile' = [reconcile EXCEPT ![d] = s]
    /\ UNCHANGED <<catalogVars, local, outbox, loop, purge, late, action, losses, changes, raced>>

\* One statement: register the file; insert the trash report; add the
\* operation_id to that report.  The loop and the users run meanwhile.
ReconcileExisting(d) ==
    LET x == Head(reconcile[d])
        rest == Tail(reconcile[d])
    IN
    /\ reconcile[d] # <<>>
    /\ \/ /\ x.step = "register"
          /\ Enqueue(d, "register", x.file, x.name, TRUE)
          /\ reconcile' = [reconcile EXCEPT ![d] =
                 IF x.trashed THEN <<[x EXCEPT !.step = "trash"]>> \o rest ELSE rest]
       \/ /\ x.step = "trash"
          /\ Enqueue(d, "trash", x.file, NoName, FALSE)
          /\ reconcile' = [reconcile EXCEPT ![d] =
                 <<[x EXCEPT !.step = "identify", !.item = Len(outbox[d]) + 1]>> \o rest]
       \/ /\ x.step = "identify"
          /\ outbox' = [outbox EXCEPT ![d][x.item].identified = TRUE]
          /\ reconcile' = [reconcile EXCEPT ![d] = rest]
    /\ UNCHANGED <<catalogVars, local, loop, phase, purge, late, action, losses, changes, raced>>

\* The marker is set, and reconcileExisting never runs again.
MarkReconciled(d) ==
    /\ phase[d] = "reconciling" /\ reconcile[d] = <<>>
    /\ phase' = [phase EXCEPT ![d] = "reconciled"]
    /\ UNCHANGED <<catalogVars, local, outbox, loop, reconcile, purge, late, action, losses, changes, raced>>

\* A statement fails or the caller's context ends: the rest is not run.
ReconcileFails(d) ==
    /\ phase[d] = "reconciling"
    /\ losses < MaxLosses
    /\ losses' = losses + 1
    /\ phase' = [phase EXCEPT ![d] = "enrolled"]
    /\ reconcile' = [reconcile EXCEPT ![d] = <<>>]
    /\ UNCHANGED <<catalogVars, local, outbox, loop, purge, late, action, changes, raced>>

-----------------------------------------------------------------------------
(***************************************************************************)
(* A client acts on the catalog.                                            *)
(***************************************************************************)

ClientOp(w, x) == [by |-> Client, n |-> w, i |-> x.i]

\* The body of the handler's loop, for request w in state x: the entry's
\* transaction, as if the origin reported ...
ApplyFile(w, x) ==
    LET f == x.files[x.i]
        op == ClientOp(w, x)
        ok == entry[f].status # "none" /\ (op \in done \/ ReportOK(f, x.act, x.name))
        y == [x EXCEPT !.at = IF ok THEN "queue" ELSE "error"]
    IN
    /\ IF ok THEN Applied(f, op, x.act, x.name) ELSE UNCHANGED catalogVars
    /\ action' = IF w > Len(action) THEN Append(action, y) ELSE [action EXCEPT ![w] = y]
    /\ UNCHANGED <<agentVars, loop, late, losses>>

\* ApplyCatalogActions validates the request (rename takes one file) and
\* applies it to the first file, then to the others.
ApplyCatalogActions(fs, a, n) ==
    /\ Len(action) < MaxActions
    /\ a = "rename" => Len(fs) = 1
    /\ (a = "rename") = (n # NoName)
    /\ ApplyFile(Len(action) + 1, [files |-> fs, act |-> a, name |-> n, i |-> 1, at |-> "apply"])

ApplyNext(w) == action[w].at = "apply" /\ ApplyFile(w, action[w])

\* ... then, in a statement of its own, the command for the origin.
QueueOriginLifecycleCommand(w) ==
    LET x == action[w]
        f == x.files[x.i]
        op == ClientOp(w, x)
    IN
    /\ x.at = "queue"
    /\ command' = [command EXCEPT ![Origin[f]] = Queued(Origin[f], f, op, x.act, x.name)]
    /\ action' = [action EXCEPT ![w] =
           IF x.i < Len(x.files) THEN [x EXCEPT !.i = @ + 1, !.at = "apply"]
           ELSE [x EXCEPT !.at = "answered"]]
    /\ UNCHANGED <<entry, replica, done, effects, agentVars, loop, late, losses>>

\* The client sends a request again, with its operation_id.
RepeatAction(w) ==
    /\ action[w].at = "error"
    /\ action' = [action EXCEPT ![w].i = 1, ![w].at = "apply"]
    /\ UNCHANGED <<catalogVars, agentVars, loop, late, losses>>

\* The server stops, the client goes away and the request's context ends, or
\* the answer is lost.
RequestFails(w) ==
    /\ action[w].at \in {"apply", "queue", "answered"}
    /\ losses < MaxLosses
    /\ losses' = losses + 1
    /\ action' = [action EXCEPT ![w].at = "error"]
    /\ UNCHANGED <<catalogVars, agentVars, loop, late>>

-----------------------------------------------------------------------------
(***************************************************************************)
(* The Agent's loop: executeOneDeviceCommand.                               *)
(***************************************************************************)

\* Variant of Claimable: a lease is for ever.
ClaimableOnce(d, c) == command[d][c].state = "queued"

\* queued, or leased with lease_until in the past.  The back-off that a
\* failed attempt stores in lease_until is not looked at.
Claimable(d, c) == command[d][c].state = "queued" \/ (command[d][c].state = "leased" /\ command[d][c].lapsed)

\* The oldest one.
Selected(d, c) == Claimable(d, c) /\ \A b \in 1 .. c - 1 : ~Claimable(d, b)

\* The Agent gets the command, or it does not hear of it.
ClaimDeviceCommand(d, c) ==
    /\ Online(d)
    /\ loop[d] = AtRest
    /\ Selected(d, c)
    /\ command' = [command EXCEPT ![d][c].state = "leased", ![d][c].lapsed = FALSE,
                                  ![d][c].attempt = @ + 1]
    /\ \/ At(d, "command", c) /\ UNCHANGED losses
       \/ losses < MaxLosses /\ losses' = losses + 1 /\ UNCHANGED loop
    /\ UNCHANGED <<entry, replica, done, effects, agentVars, late, action>>

\* The lease of two minutes ends; an Agent at work is quicker.
LeaseLapses(d, c) ==
    /\ command[d][c].state = "leased" /\ ~command[d][c].lapsed
    /\ ~(loop[d].at \in {"command", "purging", "done", "refused"} /\ loop[d].item = c)
    /\ command' = [command EXCEPT ![d][c].lapsed = TRUE]
    /\ UNCHANGED <<entry, replica, done, effects, agentVars, loop, late, action, losses>>

\* applyDeviceCommand has nothing to do.
AlreadyApplied(x, c) ==
    \/ c.act = "rename" /\ x.status = "active" /\ x.name = c.name
    \/ c.act = "trash" /\ x.status \in {"trashed", "purging"}
    \/ c.act = "restore" /\ x.status = "active"
    \/ c.act = "purge" /\ x.status \in {"none", "purged"}

\* The store accepts the change.
Applicable(d, c) ==
    LET x == local[d][c.file] IN
    \/ c.act = "rename" /\ x.status = "active" /\ LocalNameFree(d, c.file, c.name)
    \/ c.act = "trash" /\ x.status = "active"
    \/ c.act = "restore" /\ x.status = "trashed" /\ LocalNameFree(d, c.file, x.name)
    \/ c.act = "purge" /\ x.status \in {"trashed", "purging"}

\* None of its changes is reported.  A purge is only begun.
ApplyDeviceCommand(d) ==
    LET i == loop[d].item
        c == command[d][i]
        x == local[d][c.file]
    IN
    /\ loop[d].at = "command"
    /\ \/ AlreadyApplied(x, c) /\ At(d, "done", i) /\ UNCHANGED <<local, raced>>
       \/ /\ ~AlreadyApplied(x, c) /\ Applicable(d, c)
          /\ At(d, IF c.act = "purge" THEN "purging" ELSE "done", i)
          /\ SetLocal(d, c.file, IF c.act = "purge" THEN "purging" ELSE NewStatus(c.act),
                      IF c.act = "rename" THEN c.name ELSE x.name)
          /\ raced' = IF Reconciling(d, c.file) THEN raced \cup {c.file} ELSE raced
       \/ /\ ~AlreadyApplied(x, c) /\ ~Applicable(d, c)
          /\ At(d, "refused", i) /\ UNCHANGED <<local, raced>>
    /\ UNCHANGED <<catalogVars, outbox, phase, reconcile, purge, late, action, losses, changes>>

\* PurgeLANFile goes on to delete the object, unless a user's purge was
\* quicker.
DeleteCommanded(d) ==
    LET i == loop[d].item
        f == command[d][i].file
        x == local[d][f]
    IN
    /\ loop[d].at = "purging"
    /\ \/ x.status = "purging" /\ At(d, "done", i) /\ SetLocal(d, f, "purged", x.name)
       \/ x.status # "purging" /\ At(d, "refused", i) /\ UNCHANGED local
    /\ UNCHANGED <<catalogVars, outbox, phase, reconcile, purge, late, action, losses, changes, raced>>

\* The file cannot be removed.
DeleteCommandedFails(d) ==
    /\ loop[d].at = "purging"
    /\ losses < MaxLosses
    /\ losses' = losses + 1
    /\ At(d, "refused", loop[d].item)
    /\ UNCHANGED <<catalogVars, agentVars, late, action>>

\* Variant of FinishDeviceCommand: one attempt too many.
FinishDeviceCommandLater(d) ==
    LET i == loop[d].item
        c == command[d][i]
        ok == loop[d].at = "done"
    IN
    /\ loop[d].at \in {"done", "refused"}
    /\ command' = [command EXCEPT ![d][i].state =
           IF ok THEN "completed" ELSE IF c.attempt > MaxAttempts THEN "failed" ELSE "queued"]
    /\ At(d, "rest", 0)
    /\ UNCHANGED <<entry, replica, done, effects, agentVars, late, action, losses>>

\* A success completes the command and, for a purge, ends the replica; a
\* failure queues it again until it has had its attempts.
FinishDeviceCommand(d) ==
    LET i == loop[d].item
        c == command[d][i]
        ok == loop[d].at = "done"
    IN
    /\ loop[d].at \in {"done", "refused"}
    /\ command' = [command EXCEPT ![d][i].state =
           IF ok THEN "completed" ELSE IF c.attempt >= MaxAttempts THEN "failed" ELSE "queued"]
    /\ replica' = IF ok /\ c.act = "purge" /\ replica[c.file][d] # "none"
                  THEN [replica EXCEPT ![c.file][d] = "deleted"] ELSE replica
    /\ At(d, "rest", 0)
    /\ UNCHANGED <<entry, done, effects, agentVars, late, action, losses>>

\* The result does not reach the server.
CommandLost(d) ==
    /\ loop[d].at \in {"done", "refused"}
    /\ losses < MaxLosses
    /\ losses' = losses + 1
    /\ At(d, "rest", 0)
    /\ UNCHANGED <<catalogVars, agentVars, late, action>>

-----------------------------------------------------------------------------
\* The Agent stops and starts.  Recovery finishes the purges whose object is
\* marked as deleting, and Recover releases every report that is
\* 'processing', the ones that purges hold back too.
Restart(d) ==
    LET k == loop[d].item IN
    /\ losses < MaxLosses
    /\ losses' = losses + 1
    /\ At(d, "rest", 0)
    /\ purge' = {p \in purge : p.device # d}
    /\ \E S \in SUBSET {f \in File : local[d][f].status = "purging"} :
          local' = [local EXCEPT ![d] = [f \in File |->
              IF f \in S THEN [local[d][f] EXCEPT !.status = "purged"] ELSE local[d][f]]]
    /\ outbox' = [outbox EXCEPT ![d] = [j \in 1 .. Len(outbox[d]) |->
              IF outbox[d][j].status = "processing" THEN [outbox[d][j] EXCEPT !.status = "pending"]
              ELSE outbox[d][j]]]
    /\ phase' = [phase EXCEPT ![d] = IF @ = "reconciling" THEN "enrolled" ELSE @]
    /\ reconcile' = [reconcile EXCEPT ![d] = <<>>]
    /\ \/ loop[d].at = "sent" /\ late' = late \cup {<<d, k, outbox[d][k]>>}
       \/ UNCHANGED late
    /\ UNCHANGED <<catalogVars, action, changes, raced>>

-----------------------------------------------------------------------------
\* What an Agent may hold when it is configured for a control plane: files
\* in its list or its trash, of which nothing was reported.
Held == {Absent} \cup [status : {"active", "trashed"}, name : Name]

Init ==
    /\ entry = [f \in File |-> Absent]
    /\ replica = [f \in File |-> [d \in Device |-> "none"]]
    /\ done = {}
    /\ command = [d \in Device |-> <<>>]
    /\ \E held \in [File -> Held] :
          /\ \A f \in File : Origin[f] \notin Fresh => held[f] = Absent
          /\ \A f, g \in File : f # g /\ Origin[f] = Origin[g] /\ held[f].status = "active"
                                  /\ held[g].status = "active" => held[f].name # held[g].name
          /\ local = [d \in Device |-> [f \in File |-> IF d = Origin[f] THEN held[f] ELSE Absent]]
    /\ outbox = [d \in Device |-> <<>>]
    /\ loop = [d \in Device |-> AtRest]
    /\ phase = [d \in Device |-> IF d \in Fresh THEN "configured" ELSE "reconciled"]
    /\ reconcile = [d \in Device |-> <<>>]
    /\ purge = {}
    /\ late = {}
    /\ action = <<>>
    /\ losses = 0
    /\ changes = 0
    /\ effects = <<>>
    /\ raced = {}

\* What a user of an Agent does.
UserStep ==
    \/ \E f \in File, n \in Name : Upload(f, n)
    \/ \E d \in Device : PersistAuth(d)
    \/ \E d \in Device, f \in File :
          \/ TrashFile(d, f) \/ RestoreFile(d, f) \/ BeginPurge(d, f) \/ Replicate(d, f)
          \/ \E n \in Name \ {local[d][f].name} : RenameFile(d, f, n)

\* The lists of files a client sends: single files, and two.
FileLists == {<<f>> : f \in File} \cup {fs \in [1 .. 2 -> File] : fs[1] # fs[2]}

ClientStep ==
    \/ \E fs \in FileLists, a \in lifecycle, n \in Name \cup {NoName} : ApplyCatalogActions(fs, a, n)
    \/ \E w \in 1 .. Len(action) : RepeatAction(w) \/ RequestFails(w)

Answers == \E w \in 1 .. Len(action) : ApplyNext(w) \/ QueueOriginLifecycleCommand(w)

ServesLate == \E x \in late : ServeLate(x)

Lapses(d) == \E c \in 1 .. Len(command[d]) : LeaseLapses(d, c)

ServerStep == Answers \/ ServesLate \/ \E d \in Device : Serve(d) \/ Lapses(d)

ReconcileStep(d) == ReconcileExisting(d) \/ MarkReconciled(d)

PurgeStep(p) == DeleteObject(p) \/ ActivateOutgoing(p)

PurgesGoOn(d) == \E p \in purge : p.device = d /\ PurgeStep(p)

LoopStep(d) ==
    \/ Deliver(d) \/ MarkOpCompleted(d) \/ MarkOpFailed(d)
    \/ \E c \in 1 .. Len(command[d]) : ClaimDeviceCommand(d, c)
    \/ ApplyDeviceCommand(d) \/ DeleteCommanded(d) \/ FinishDeviceCommand(d)

AgentStep(d) == ReconcileStep(d) \/ PurgesGoOn(d) \/ LoopStep(d)

Fault(d) ==
    \/ MarkOpRetryable(d) \/ CommandLost(d) \/ DeleteCommandedFails(d)
    \/ ReconcileFails(d) \/ Restart(d)
    \/ \E p \in purge : p.device = d /\ PurgeFails(p)

Next ==
    \/ UserStep \/ ClientStep \/ ServerStep
    \/ \E d \in Device : AgentStep(d) \/ Fault(d)

Spec == Init /\ [][Next]_vars

\* The goroutines of an Agent (its loop, an enrolment, the purges) and of the
\* server (a request to act, a report, a late one; and time, for the leases)
\* go on.  Users and clients, who enrol, change and repeat, and faults are
\* free.
Fairness ==
    /\ WF_vars(Answers)
    /\ WF_vars(ServesLate)
    /\ \A d \in Device :
          /\ WF_vars(Serve(d))
          /\ WF_vars(Lapses(d))
          /\ WF_vars(ReconcileStep(d))
          /\ WF_vars(PurgesGoOn(d))
          /\ WF_vars(LoopStep(d))

LiveSpec == Spec /\ Fairness

-----------------------------------------------------------------------------
(***************************************************************************)
(* Properties.                                                              *)
(***************************************************************************)

\* Type invariant of the catalog, the outboxes and the commands.
TypeOK ==
    /\ entry \in [File -> [status : Statuses, name : Name \cup {NoName}]]
    /\ replica \in [File -> [Device -> {"none", "ready", "deleted"}]]
    /\ done \subseteq Operation
    /\ command \in [Device -> Seq(Command)]
    /\ local \in [Device -> [File -> [status : LocalStatuses, name : Name \cup {NoName}]]]
    /\ outbox \in [Device -> Seq(Report)]
    /\ phase \in [Device -> Phases]
    /\ purge \subseteq Purge
    /\ effects \in Seq(Operation)
    /\ raced \subseteq File
    /\ losses \in 0 .. MaxLosses
    /\ changes \in 0 .. MaxChanges

\* However often a report is delivered, in time or late, it changes the
\* catalog at most once (idempotency_keys, client_file_id).
AppliedOnce ==
    \A i, j \in 1 .. Len(effects) : effects[i] = effects[j] => i = j

\* No client acts on f; f's origin has reported its files and delivered
\* everything.
Settled(f) ==
    /\ \A w \in 1 .. Len(action) : \A i \in 1 .. Len(action[w].files) : action[w].files[i] # f
    /\ phase[Origin[f]] = "reconciled"
    /\ \A k \in 1 .. Len(outbox[Origin[f]]) : outbox[Origin[f]][k].status = "completed"

\* When the outbox of a file's origin is empty, nothing in it was refused
\* and only the origin acted on the file, the catalog shows the file as the
\* origin has it: retries, late duplicates, crashes and an enrolment that
\* failed half-way and was repeated neither lose nor revive a state.  (A
\* change that races with reconcileExisting is excepted: see raced.)
CatalogFollowsOrigin ==
    \A f \in File : (Settled(f) /\ f \notin raced) =>
        LET x == local[Origin[f]][f] IN
        /\ entry[f].status = IF x.status = "purging" THEN "purged" ELSE x.status
        /\ x.status = "active" => entry[f].name = x.name

\* A purged entry stays purged, whatever is delivered late or asked for.
PurgedIsFinal ==
    [][\A f \in File : entry[f].status = "purged" => entry'[f].status = "purged"]_entry

Delivered(d) == \A k \in 1 .. Len(outbox[d]) : outbox[d][k].status \in {"completed", "failed"}

Executed(d) == \A c \in 1 .. Len(command[d]) : command[d][c].state \in {"completed", "failed"}

\* The report at the head of d's outbox is that of a purge which did not get
\* to ActivateOutgoing.
HeldBack(d) ==
    \E k \in 1 .. Len(outbox[d]) :
        /\ Oldest(d, k)
        /\ outbox[d][k].kind = "purge" /\ outbox[d][k].status = "processing"
        /\ \A p \in purge : ~(p.device = d /\ p.item = k)
        /\ ~(loop[d].at \in {"sent", "accepted", "rejected"} /\ loop[d].item = k)

\* The outbox of every Agent that has credentials drains again and again: the
\* report at its head is delivered or given up, after lost replies and
\* restarts too, and nothing waits behind it for ever.  The one exception is
\* the report of a purge that failed, which stands until a restart.
ReportsEnd == []<>(\A d \in Device : Online(d) => Delivered(d) \/ HeldBack(d))

\* "Run processes operations FIFO.  One operation is completed before the next
\* begins": every report is completed or given up in the end.  It is not: a
\* purge that fails leaves its report 'processing', and all that come after it
\* wait until the Agent restarts.
OutboxDrains == []<>(\A d \in Device : Online(d) => Delivered(d))

\* Every command is executed or given up, its claim or its result lost or not.
CommandsEnd == []<>(\A d \in Device : Executed(d))

\* Nothing is under way: every report and every command has succeeded and
\* every client has its answer.
Quiet ==
    /\ \A d \in Device :
          /\ \A k \in 1 .. Len(outbox[d]) : outbox[d][k].status = "completed"
          /\ \A c \in 1 .. Len(command[d]) : command[d][c].state = "completed"
          /\ phase[d] = "reconciled" /\ loop[d] = AtRest
    /\ \A w \in 1 .. Len(action) : action[w].at = "answered"
    /\ late = {} /\ purge = {}

\* "Apply an authoritative lifecycle action and queue it to every replica":
\* once the actions and their commands are through, the origin has the file
\* in the catalog's state.  It does not: a command that was queued before the
\* origin's own later change is applied after it, and is not reported.
ActionsAreAuthoritative ==
    Quiet => \A f \in File : entry[f].status = local[Origin[f]][f].status
===============================================================================
