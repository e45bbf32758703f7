------------------------------ MODULE LocalStore ------------------------------
(***************************************************************************)
(* The Agent's store (client/ubuntu/internal/storage): the object records   *)
(* and object files, the lan_files rows that name them, the purge saga, and *)
(* the outbox of reports to the control server that the same SQLite         *)
(* transactions fill.                                                       *)
(*                                                                          *)
(* A Worker is a goroutine inside Import or purgeLANFile: an upload, a      *)
(* local request, the retention ticker or the coordinator.  Each SQLite     *)
(* statement or transaction and each file operation is a step of its own    *)
(* (the pool has one connection, so transactions never overlap); nothing    *)
(* locks across them.  Hashing a file and writing what it showed is one     *)
(* step.  The mutations that are one transaction need no Worker.  Retention *)
(* deadlines are not kept: a trashed file may expire at any time.           *)
(***************************************************************************)
EXTENDS Integers, FiniteSets

CONSTANTS
    File,       \* lan_files ids (UUIDs: never used twice)
    Object,     \* contents, named by their hash
    Name,       \* normalized file names
    Worker,
    MaxOps,     \* bound: rows of outgoing_ops
    MaxFaults   \* bound: crashes, I/O errors, decayed files, failed requests

ASSUME StoreAssumption == MaxOps \in Nat /\ MaxFaults \in Nat

VARIABLES
    rec,      \* local_objects.status per object, "none" without a record
    disk,     \* the object's file: "none", "good" or "bad" bytes
    file,     \* lan_files
    ops,      \* outgoing_ops by rowid
    worker,   \* the locals of each goroutine
    sending,  \* the rowid deliver is working on, 0 for none
    faults,
    unstored  \* auxiliary: objects whose last rename into place failed

storeVars == <<rec, disk, file, ops, worker, sending, faults, unstored>>

OpId == 1 .. MaxOps
statuses == {"none", "importing", "ready", "quarantined", "deleting", "missing", "corrupt"}
rowStates == {"active", "trashed", "purging"}

\* A file id not used yet, or whose row is deleted.
NewFile == [status |-> "new"]
GoneFile == [status |-> "gone"]
Row == [status : rowStates, obj : Object, name : Name]

NoOp == [status |-> "unused"]
Op == [kind : {"register", "rename", "trash", "restore", "purge"}, file : File,
       status : {"pending", "processing", "completed", "failed"}]

idle == [pc |-> "idle"]
workerPCs == {"lookup", "verify", "record", "commit", "ready", "create",
              "finalize", "deleting", "remove", "drop", "activate"}

HasRow(f) == file[f].status \in rowStates
Named(n) == {f \in File : file[f].status = "active" /\ file[f].name = n}
RowsOf(o) == {f \in File : HasRow(f) /\ file[f].obj = o}

Fault == faults < MaxFaults /\ faults' = faults + 1

\* The rows after DELETE FROM local_objects WHERE id = o, for o in gone:
\* lan_files.object_id is ON DELETE CASCADE.
Cascade(gone) ==
    [f \in File |-> IF HasRow(f) /\ file[f].obj \in gone THEN GoneFile ELSE file[f]]

NextOp(i) == ops[i] = NoOp /\ \A j \in OpId : j < i => ops[j] # NoOp

\* enqueueOutgoingWithStatusTx, in the transaction of the calling mutation.
Enqueue(i, kind, f, status) ==
    /\ NextOp(i)
    /\ ops' = [ops EXCEPT ![i] = [kind |-> kind, file |-> f, status |-> status]]

\* A mutation reports itself unless the server commanded it.
Report(kind, f) ==
    \/ UNCHANGED ops
    \/ \E i \in OpId : Enqueue(i, kind, f, "pending")

------------------------------------------------------------------------------
(* Mutations in one transaction *)

SetFile(f, row) == file' = [file EXCEPT ![f] = row]

RenameLANFile(f, n) ==
    /\ file[f].status = "active"
    /\ Named(n) \subseteq {f}
    /\ SetFile(f, [file[f] EXCEPT !.name = n])
    /\ Report("rename", f)
    /\ UNCHANGED <<rec, disk, worker, sending, faults, unstored>>

\* Variant: a status the schema does not know.
TrashAsDeleted(f) ==
    /\ file[f].status = "active"
    /\ SetFile(f, [file[f] EXCEPT !.status = "deleted"])
    /\ Report("trash", f)
    /\ UNCHANGED <<rec, disk, worker, sending, faults, unstored>>

TrashLANFile(f) ==
    /\ file[f].status = "active"
    /\ SetFile(f, [file[f] EXCEPT !.status = "trashed"])
    /\ Report("trash", f)
    /\ UNCHANGED <<rec, disk, worker, sending, faults, unstored>>

\* Variant: no check for an active file of that name.
RestoreOverName(f) ==
    /\ file[f].status = "trashed"
    /\ SetFile(f, [file[f] EXCEPT !.status = "active"])
    /\ Report("restore", f)
    /\ UNCHANGED <<rec, disk, worker, sending, faults, unstored>>

RestoreLANFile(f) ==
    /\ file[f].status = "trashed"
    /\ Named(file[f].name) = {}
    /\ SetFile(f, [file[f] EXCEPT !.status = "active"])
    /\ Report("restore", f)
    /\ UNCHANGED <<rec, disk, worker, sending, faults, unstored>>

\* The status of a record; an error when there is none.
UpdateObjectStatus(o, status) ==
    /\ rec[o] # "none"
    /\ rec' = [rec EXCEPT ![o] = status]

\* A record with that status, whether there was one or not.
UpsertObject(o, status) == rec' = [rec EXCEPT ![o] = status]

\* A bad or missing file makes the object CORRUPT.
Verify(o) ==
    /\ disk[o] # "good"
    /\ UpdateObjectStatus(o, "corrupt")
    /\ UNCHANGED <<disk, file, ops, worker, sending, faults, unstored>>

\* An active file whose object is READY.
GetLANFile(f) == file[f].status = "active" /\ rec[file[f].obj] = "ready"

\* A download verifies the object first, a local request verifies any.
downloadFile(f) == GetLANFile(f) /\ Verify(file[f].obj)
handleVerify(o) == Verify(o)

------------------------------------------------------------------------------
(* Import, then CreateLANFile *)

Step(w, pc) == worker' = [worker EXCEPT ![w].pc = pc]
Done(w) == worker' = [worker EXCEPT ![w] = idle]
At(w, pc) == worker[w].pc = pc

\* Stage has written and hashed a .part file of its own.
StartImport(w, f, o, n) ==
    /\ At(w, "idle")
    /\ file[f] = NewFile
    /\ \A v \in Worker : ~At(v, "idle") => worker[v].file # f
    /\ worker' = [worker EXCEPT ![w] = [pc |-> "lookup", file |-> f, obj |-> o, name |-> n]]
    /\ UNCHANGED <<rec, disk, file, ops, sending, faults, unstored>>

\* A local import names its file; an upload and a replica do the same.
handleImport(w, f, o, n) == StartImport(w, f, o, n)

LookupObject(w) ==
    /\ At(w, "lookup")
    /\ Step(w, IF rec[worker[w].obj] = "ready" THEN "verify" ELSE "record")
    /\ UNCHANGED <<rec, disk, file, ops, sending, faults, unstored>>

\* A READY object is only trusted when its file still verifies; a record that
\* went away meanwhile stays away.
verifyPersistedObject(w) ==
    LET o == worker[w].obj IN
    /\ At(w, "verify")
    /\ \/ disk[o] = "good" /\ Step(w, "create") /\ UNCHANGED rec
       \/ /\ disk[o] # "good"
          /\ rec' = [rec EXCEPT ![o] = IF @ = "none" THEN "none"
                                       ELSE IF disk[o] = "none" THEN "missing" ELSE "corrupt"]
          /\ Step(w, "record")
    /\ UNCHANGED <<disk, file, ops, sending, faults, unstored>>

RecordImporting(w) ==
    /\ At(w, "record")
    /\ UpsertObject(worker[w].obj, "importing")
    /\ Step(w, "commit")
    /\ UNCHANGED <<disk, file, ops, sending, faults, unstored>>

\* rename(2) into place, over whatever is there.
Commit(w) ==
    /\ At(w, "commit")
    /\ disk' = [disk EXCEPT ![worker[w].obj] = "good"]
    /\ unstored' = unstored \ {worker[w].obj}
    /\ Step(w, "ready")
    /\ UNCHANGED <<rec, file, ops, sending, faults>>

\* The import fails when the record is gone.
MarkReady(w) ==
    LET o == worker[w].obj IN
    /\ At(w, "ready")
    /\ \/ UpdateObjectStatus(o, "ready") /\ Step(w, "create")
       \/ rec[o] = "none" /\ UNCHANGED rec /\ Done(w)
    /\ UNCHANGED <<disk, file, ops, sending, faults, unstored>>

CreateOK(w) == rec[worker[w].obj] = "ready" /\ Named(worker[w].name) = {}

\* A taken name or an object that is no longer READY loses the upload.
CreateLANFile(w) ==
    /\ At(w, "create")
    /\ \/ /\ CreateOK(w)
          /\ SetFile(worker[w].file, [status |-> "active", obj |-> worker[w].obj,
                                      name |-> worker[w].name])
          /\ Report("register", worker[w].file)
       \/ ~CreateOK(w) /\ UNCHANGED <<file, ops>>
    /\ Done(w)
    /\ UNCHANGED <<rec, disk, sending, faults, unstored>>

------------------------------------------------------------------------------
(* purgeLANFile.  op is the blocked report, 0 when uncoordinated. *)

\* Variant: an interrupted purge cannot begin again.
BeginPurgeOnce(w, f) ==
    /\ At(w, "idle")
    /\ file[f].status = "trashed"
    /\ SetFile(f, [file[f] EXCEPT !.status = "purging"])
    /\ worker' = [worker EXCEPT ![w] =
          [pc |-> IF RowsOf(file[f].obj) = {f} THEN "deleting" ELSE "finalize",
           file |-> f, obj |-> file[f].obj, op |-> 0]]
    /\ UNCHANGED <<rec, disk, ops, sending, faults, unstored>>

BeginPurge(w, f) ==
    /\ At(w, "idle")
    /\ file[f].status \in {"trashed", "purging"}
    /\ SetFile(f, [file[f] EXCEPT !.status = "purging"])
    /\ \E i \in OpId \cup {0} :
         /\ \/ i = 0 /\ UNCHANGED ops
            \/ i # 0 /\ Enqueue(i, "purge", f, "processing")
         /\ worker' = [worker EXCEPT ![w] =
               [pc |-> IF RowsOf(file[f].obj) = {f} THEN "deleting" ELSE "finalize",
                file |-> f, obj |-> file[f].obj, op |-> i]]
    /\ UNCHANGED <<rec, disk, sending, faults, unstored>>

AfterPurge(w) == IF worker[w].op = 0 THEN Done(w) ELSE Step(w, "activate")

\* Another reference keeps the object: only the row goes.
FinalizePurge(w) ==
    LET f == worker[w].file IN
    /\ At(w, "finalize")
    /\ \/ file[f].status = "purging" /\ SetFile(f, GoneFile) /\ AfterPurge(w)
       \/ file[f].status # "purging" /\ UNCHANGED file /\ Done(w)
    /\ UNCHANGED <<rec, disk, ops, sending, faults, unstored>>

MarkDeleting(w) ==
    LET o == worker[w].obj IN
    /\ At(w, "deleting")
    /\ \/ UpdateObjectStatus(o, "deleting") /\ Step(w, "remove")
       \/ rec[o] = "none" /\ UNCHANGED rec /\ Done(w)
    /\ UNCHANGED <<disk, file, ops, sending, faults, unstored>>

RemoveBytes(w) ==
    /\ At(w, "remove")
    /\ disk' = [disk EXCEPT ![worker[w].obj] = "none"]
    /\ Step(w, "drop")
    /\ UNCHANGED <<rec, file, ops, sending, faults, unstored>>

DropRecord(w) ==
    LET o == worker[w].obj IN
    /\ At(w, "drop")
    /\ \/ /\ rec[o] # "none"
          /\ rec' = [rec EXCEPT ![o] = "none"]
          /\ file' = Cascade({o})
          /\ AfterPurge(w)
       \/ rec[o] = "none" /\ UNCHANGED <<rec, file>> /\ Done(w)
    /\ UNCHANGED <<disk, ops, sending, faults, unstored>>

ActivateOutgoing(w) ==
    LET i == worker[w].op IN
    /\ At(w, "activate")
    /\ ops' = [ops EXCEPT ![i].status = IF @ = "processing" THEN "pending" ELSE @]
    /\ Done(w)
    /\ UNCHANGED <<rec, disk, file, sending, faults, unstored>>

------------------------------------------------------------------------------
(* drain and deliver: the oldest undelivered report, when it is pending *)

Open(i) == ops[i].status \in {"pending", "processing"}
Head(i) == Open(i) /\ \A j \in OpId : j < i => ~Open(j)

MarkProcessing(i) ==
    /\ sending = 0
    /\ Head(i) /\ ops[i].status = "pending"
    /\ ops' = [ops EXCEPT ![i].status = "processing"]
    /\ sending' = i
    /\ UNCHANGED <<rec, disk, file, worker, faults, unstored>>

\* 2xx completes it, a deterministic rejection fails it, anything else is
\* retried later.
Deliver ==
    /\ sending # 0
    /\ \E s \in {"completed", "failed", "pending"} :
         /\ ops' = [ops EXCEPT ![sending].status = s]
         /\ IF s = "pending" THEN Fault ELSE UNCHANGED faults
    /\ sending' = 0
    /\ UNCHANGED <<rec, disk, file, worker, unstored>>

------------------------------------------------------------------------------
(* Faults *)

\* Variant: only the scan from files to records, not the one back.
RecoveredForward(o) ==
    IF disk[o] = "none" THEN rec[o]
    ELSE IF rec[o] = "none" THEN "quarantined"
    ELSE IF disk[o] = "good" THEN "ready" ELSE "corrupt"

\* startupRecovery, before the cleanup: every file that verifies is READY
\* unless it has no record at all.
Recovered(o) ==
    IF disk[o] = "none" THEN IF rec[o] = "ready" THEN "missing" ELSE rec[o]
    ELSE IF rec[o] = "none" THEN "quarantined"
    ELSE IF disk[o] = "good" THEN "ready" ELSE "corrupt"

\* cleanupStaleObjects: records without a file that this start did not touch,
\* when they are an hour old.
Stale == {o \in Object : disk[o] = "none" /\ rec[o] \notin {"none", "ready"}}

\* The process dies and starts again; Recover frees the blocked reports.
CrashRestart ==
    /\ Fault
    /\ \E gone \in SUBSET Stale :
         /\ rec' = [o \in Object |-> IF o \in gone THEN "none" ELSE Recovered(o)]
         /\ file' = Cascade(gone)
    /\ ops' = [i \in OpId |-> IF ops[i].status = "processing"
                                 THEN [ops[i] EXCEPT !.status = "pending"] ELSE ops[i]]
    /\ worker' = [w \in Worker |-> idle]
    /\ sending' = 0
    /\ unstored' = {}
    /\ UNCHANGED disk

\* rename(2) returns an error: the import stops where it is.  SQLite
\* statements do not fail.
RenameFails(w) ==
    /\ At(w, "commit")
    /\ Fault
    /\ unstored' = unstored \cup {worker[w].obj}
    /\ Done(w)
    /\ UNCHANGED <<rec, disk, file, ops, sending>>

\* unlink(2) returns an error: the purge stops and leaves its report blocked.
UnlinkFails(w) ==
    /\ At(w, "remove")
    /\ Fault
    /\ Done(w)
    /\ UNCHANGED <<rec, disk, file, ops, sending, unstored>>

\* The medium loses bits.
Decay(o) ==
    /\ disk[o] = "good"
    /\ Fault
    /\ disk' = [disk EXCEPT ![o] = "bad"]
    /\ UNCHANGED <<rec, file, ops, worker, sending, unstored>>

------------------------------------------------------------------------------
StoreInit ==
    /\ rec = [o \in Object |-> "none"]
    /\ disk = [o \in Object |-> "none"]
    /\ file = [f \in File |-> NewFile]
    /\ ops = [i \in OpId |-> NoOp]
    /\ worker = [w \in Worker |-> idle]
    /\ sending = 0
    /\ faults = 0
    /\ unstored = {}

\* The steps of a saga that has begun.
Continue(w) ==
    \/ LookupObject(w) \/ verifyPersistedObject(w) \/ RecordImporting(w) \/ Commit(w)
    \/ MarkReady(w) \/ CreateLANFile(w)
    \/ FinalizePurge(w) \/ MarkDeleting(w) \/ RemoveBytes(w) \/ DropRecord(w)
    \/ ActivateOutgoing(w)

\* What the hourly ticker finds past its deadline: a trashed file may be, and a
\* file whose purge has begun will be.
ListExpiredLANTrash == {f \in File : file[f].status \in {"trashed", "purging"}}

purgeExpiredLANFiles(w, f) == f \in ListExpiredLANTrash /\ BeginPurge(w, f)

\* The ticker retries what an interrupted purge left behind.
PurgeExpired(f) == file[f].status = "purging" /\ \E w \in Worker : purgeExpiredLANFiles(w, f)

StoreNext ==
    \/ \E f \in File : TrashLANFile(f) \/ RestoreLANFile(f) \/ PurgeExpired(f)
    \/ \E f \in File, n \in Name : RenameLANFile(f, n)
    \/ \E f \in {f \in File : file[f].status = "active"} : downloadFile(f)
    \/ \E o \in Object : handleVerify(o) \/ Decay(o)
    \/ \E w \in Worker : Continue(w) \/ RenameFails(w) \/ UnlinkFails(w)
    \/ \E w \in Worker, f \in File : BeginPurge(w, f)
    \/ \E w \in Worker, f \in File, o \in Object, n \in Name : handleImport(w, f, o, n)
    \/ \E i \in OpId : MarkProcessing(i)
    \/ Deliver
    \/ CrashRestart

StoreSpec == StoreInit /\ [][StoreNext]_storeVars

\* Goroutines that run go on running, and the ticker keeps ticking.
StoreFairness ==
    /\ \A w \in Worker : WF_storeVars(Continue(w))
    /\ \A f \in File : SF_storeVars(PurgeExpired(f))

FairStoreSpec == StoreSpec /\ StoreFairness

------------------------------------------------------------------------------
(* Properties *)

\* Every variable has its type.
StoreTypeOK ==
    /\ rec \in [Object -> statuses]
    /\ disk \in [Object -> {"none", "good", "bad"}]
    /\ file \in [File -> Row \cup {NewFile, GoneFile}]
    /\ ops \in [OpId -> Op \cup {NoOp}]
    /\ \A w \in Worker :
          \/ worker[w] = idle
          \/ /\ worker[w].pc \in workerPCs
             /\ worker[w].file \in File /\ worker[w].obj \in Object
    /\ sending \in 0 .. MaxOps
    /\ faults \in 0 .. MaxFaults
    /\ unstored \subseteq Object

\* Two active files of the account never share a name: lan_files has no such
\* constraint, only the check inside each of the three transactions that
\* make a name active.
ActiveNamesUnique ==
    \A n \in Name : Cardinality(Named(n)) <= 1

\* Whatever imports and purges of the same content overlapped and wherever a
\* crash cut them off, once no saga runs a READY record has its file, unless
\* the last rename of the object failed: otherwise the store never offers
\* content it does not have.
ReadyHasFile ==
    (\A w \in Worker : worker[w] = idle) =>
        \A o \in Object \ unstored : rec[o] = "ready" => disk[o] # "none"

\* "SQLite never claims READY for an object that no longer exists on disk"
\* (sqlite_object_store.go:127): once no saga runs, even after a failed
\* rename.
ReadyAlwaysHasFile ==
    (\A w \in Worker : worker[w] = idle) =>
        \A o \in Object : rec[o] = "ready" => disk[o] # "none"

\* A file whose permanent removal has begun is eventually gone, through
\* crashes and competing sagas.
PurgeFinishes ==
    \A f \in File : file[f].status = "purging" ~> file[f] = GoneFile

\* "Content bytes are reclaimed only when this is the final logical reference
\* to the object" (sqlite_object_store.go:347): a file leaves lan_files only
\* through its own purge.
OnlyPurgedFilesGo ==
    [][\A f \in File : file[f].status \in {"active", "trashed"} => file'[f] # GoneFile]_storeVars

\* PurgeLANFileCoordinated "keeps the server report blocked until the local
\* filesystem/SQLite purge saga has completed" (sqlite_object_store.go:353).
ReportFollowsPurge ==
    \A i \in OpId :
        sending = i /\ ops[i].kind = "purge" => file[ops[i].file] = GoneFile

\* "File without a record: [...] Quarantine it; never auto-mark it READY"
\* (sqlite_object_store.go:86): only an import makes the object READY.
QuarantineHolds ==
    [][\A o \in Object : rec[o] = "quarantined" => rec'[o] # "ready"]_storeVars
=============================================================================
