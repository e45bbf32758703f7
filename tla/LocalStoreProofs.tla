--------------------------- MODULE LocalStoreProofs ---------------------------
(***************************************************************************)
(* Proofs about LocalStore for every number of files, contents, names,      *)
(* goroutines, reports and faults.                                          *)
(***************************************************************************)
EXTENDS LocalStore, FiniteSetTheorems, TLAPS

(***************************************************************************)
(* The inductive invariant.                                                 *)
(***************************************************************************)

\* What a goroutine remembers in an import, in a purge, and in a purge that
\* has a report to free.
Import == [pc : {"lookup", "verify", "record", "commit", "ready", "create"}, file : File, obj : Object,
           name : Name]
Purge == [pc : {"finalize", "deleting", "remove", "drop"}, file : File, obj : Object, op : OpId \cup {0}]
Activation == [pc : {"activate"}, file : File, obj : Object, op : OpId]

WorkersTyped == worker \in [Worker -> Import \cup Purge \cup Activation \cup {idle}]

\* The report that is being delivered exists.
SendingExists == sending # 0 => ops[sending] # NoOp

\* Goroutine w is about to put the bytes of o in place, or about to delete
\* its record.
Repairs(w, o) == worker[w].pc \in {"commit", "drop"} /\ worker[w].obj = o

\* Goroutine w has put the bytes of o in place and will say so.
WillMarkReady(w, o) == At(w, "ready") /\ worker[w].obj = o

\* When the bytes of an object are gone and its record is READY, or will be
\* once a goroutine goes on, another goroutine brings the bytes back or takes
\* the record away.
BytesFollow ==
    \A o \in Object \ unstored :
        /\ disk[o] = "none" /\ rec[o] # "none"
        /\ rec[o] = "ready" \/ \E w \in Worker : WillMarkReady(w, o)
        => \E w \in Worker : Repairs(w, o)

\* An active name belongs to one file.
NameOnce == \A n \in Name : \A f, g \in Named(n) : f = g

Inv == StoreTypeOK /\ WorkersTyped /\ SendingExists /\ NameOnce /\ BytesFollow

-----------------------------------------------------------------------------
(***************************************************************************)
(* What the helpers of the actions do.                                      *)
(***************************************************************************)

\* The operation a goroutine is in determines what it remembers.
LEMMA WorkerFields ==
    ASSUME Inv, NEW w \in Worker
    PROVE  /\ worker[w].pc \in {"lookup", "verify", "record", "commit", "ready", "create"} => worker[w] \in Import
           /\ worker[w].pc \in {"finalize", "deleting", "remove", "drop"} => worker[w] \in Purge
           /\ worker[w].pc = "activate" => worker[w] \in Activation
           /\ worker[w].pc = "idle" <=> worker[w] = idle
           /\ worker[w] # idle => worker[w].obj \in Object /\ worker[w].file \in File
  <1>1. worker[w] \in Import \cup Purge \cup Activation \cup {idle}
    BY DEF Inv, WorkersTyped
  <1> QED
    BY <1>1 DEF Import, Purge, Activation, idle

\* A goroutine that is done.
LEMMA DoneFacts ==
    ASSUME Inv, NEW w \in Worker, Done(w)
    PROVE  /\ WorkersTyped'
           /\ worker'[w] = idle
           /\ worker'[w].pc = "idle"
           /\ \A v \in Worker \ {w} : worker'[v] = worker[v]
  <1>1. worker' = [worker EXCEPT ![w] = idle] /\ idle.pc = "idle"
    BY DEF Done, idle
  <1>2. worker \in [Worker -> Import \cup Purge \cup Activation \cup {idle}]
    BY DEF Inv, WorkersTyped
  <1> HIDE DEF idle
  <1> QED
    BY <1>1, <1>2 DEF WorkersTyped

\* An import that goes on.
LEMMA ImportStep ==
    ASSUME Inv, NEW w \in Worker, worker[w] \in Import,
           NEW pc \in {"lookup", "verify", "record", "commit", "ready", "create"}, Step(w, pc)
    PROVE  /\ WorkersTyped'
           /\ worker'[w].pc = pc /\ worker'[w].obj = worker[w].obj
           /\ \A v \in Worker \ {w} : worker'[v] = worker[v]
  <1> DEFINE x == [worker[w] EXCEPT !.pc = pc]
  <1>1. x \in Import /\ x.pc = pc /\ x.obj = worker[w].obj
    BY DEF Import
  <1>2. worker' = [worker EXCEPT ![w] = x]
    BY DEF Step
  <1>3. worker \in [Worker -> Import \cup Purge \cup Activation \cup {idle}]
    BY DEF Inv, WorkersTyped
  <1> HIDE DEF x
  <1> QED
    BY <1>1, <1>2, <1>3 DEF WorkersTyped

\* A purge that goes on.
LEMMA PurgeStep ==
    ASSUME Inv, NEW w \in Worker, worker[w] \in Purge,
           NEW pc \in {"finalize", "deleting", "remove", "drop"}, Step(w, pc)
    PROVE  /\ WorkersTyped'
           /\ worker'[w].pc = pc /\ worker'[w].obj = worker[w].obj
           /\ \A v \in Worker \ {w} : worker'[v] = worker[v]
  <1> DEFINE x == [worker[w] EXCEPT !.pc = pc]
  <1>1. x \in Purge /\ x.pc = pc /\ x.obj = worker[w].obj
    BY DEF Purge
  <1>2. worker' = [worker EXCEPT ![w] = x]
    BY DEF Step
  <1>3. worker \in [Worker -> Import \cup Purge \cup Activation \cup {idle}]
    BY DEF Inv, WorkersTyped
  <1> HIDE DEF x
  <1> QED
    BY <1>1, <1>2, <1>3 DEF WorkersTyped

\* A purge that has removed what it was to remove.
LEMMA AfterPurgeFacts ==
    ASSUME Inv, NEW w \in Worker, worker[w] \in Purge, AfterPurge(w)
    PROVE  /\ WorkersTyped'
           /\ worker'[w].pc \in {"idle", "activate"}
           /\ \A v \in Worker \ {w} : worker'[v] = worker[v]
  <1>1. CASE worker[w].op = 0
    <2>1. Done(w)
      BY <1>1 DEF AfterPurge
    <2> QED
      BY <2>1, DoneFacts
  <1>2. CASE worker[w].op # 0
    <2> DEFINE x == [worker[w] EXCEPT !.pc = "activate"]
    <2>1. x \in Activation /\ x.pc = "activate"
      BY <1>2 DEF Purge, Activation
    <2>2. worker' = [worker EXCEPT ![w] = x]
      BY <1>2 DEF AfterPurge, Step
    <2>3. worker \in [Worker -> Import \cup Purge \cup Activation \cup {idle}]
      BY DEF Inv, WorkersTyped
    <2> HIDE DEF x
    <2> QED
      BY <2>1, <2>2, <2>3 DEF WorkersTyped
  <1> QED
    BY <1>1, <1>2

\* One row of lan_files is written.
LEMMA SetFileFacts ==
    ASSUME Inv, NEW f \in File, NEW row \in Row \cup {NewFile, GoneFile}, SetFile(f, row)
    PROVE  /\ file' \in [File -> Row \cup {NewFile, GoneFile}]
           /\ file'[f] = row
           /\ \A g \in File \ {f} : file'[g] = file[g]
  BY DEF Inv, StoreTypeOK, SetFile

\* A row that exists.
LEMMA RowFacts ==
    ASSUME Inv, NEW f \in File, file[f].status \in rowStates
    PROVE  file[f] \in Row
  BY DEF Inv, StoreTypeOK, rowStates, NewFile, GoneFile

\* The cascade only takes rows away.
LEMMA CascadeFacts ==
    ASSUME Inv, NEW gone, file' = Cascade(gone)
    PROVE  /\ file' \in [File -> Row \cup {NewFile, GoneFile}]
           /\ \A f \in File : file'[f] = file[f] \/ file'[f] = GoneFile
  BY DEF Inv, StoreTypeOK, Cascade

\* A new report.
LEMMA EnqueueFacts ==
    ASSUME Inv, NEW i \in OpId, NEW f \in File, NEW status \in {"pending", "processing"},
           NEW kind \in {"register", "rename", "trash", "restore", "purge"}, Enqueue(i, kind, f, status)
    PROVE  /\ ops' \in [OpId -> Op \cup {NoOp}]
           /\ \A j \in OpId : ops[j] # NoOp => ops'[j] # NoOp
  <1> DEFINE x == [kind |-> kind, file |-> f, status |-> status]
  <1>1. x \in Op /\ NoOp.status = "unused" /\ x.status # "unused"
    BY DEF Op, NoOp
  <1>2. ops' = [ops EXCEPT ![i] = x] /\ ops \in [OpId -> Op \cup {NoOp}]
    BY DEF Enqueue, Inv, StoreTypeOK
  <1> HIDE DEF x
  <1> QED
    BY <1>1, <1>2

\* A mutation that reports itself, or does not.
LEMMA ReportFacts ==
    ASSUME Inv, NEW f \in File, NEW kind \in {"register", "rename", "trash", "restore"}, Report(kind, f)
    PROVE  /\ ops' \in [OpId -> Op \cup {NoOp}]
           /\ \A j \in OpId : ops[j] # NoOp => ops'[j] # NoOp
  <1>1. CASE UNCHANGED ops
    BY <1>1 DEF Inv, StoreTypeOK
  <1>2. ASSUME NEW i \in OpId, Enqueue(i, kind, f, "pending")
        PROVE  /\ ops' \in [OpId -> Op \cup {NoOp}]
               /\ \A j \in OpId : ops[j] # NoOp => ops'[j] # NoOp
    <2> DEFINE s == "pending"
    <2>1. s \in {"pending", "processing"} /\ Enqueue(i, kind, f, s)
      BY <1>2
    <2> HIDE DEF s
    <2> QED
      BY <2>1, EnqueueFacts
  <1> QED
    BY <1>1, <1>2 DEF Report

\* The status of a report that exists is written.
LEMMA StatusFacts ==
    ASSUME Inv, NEW i \in OpId, ops[i] # NoOp,
           NEW s \in {"pending", "processing", "completed", "failed"}, ops' = [ops EXCEPT ![i].status = s]
    PROVE  /\ ops' \in [OpId -> Op \cup {NoOp}]
           /\ \A j \in OpId : ops[j] # NoOp => ops'[j] # NoOp
  <1> DEFINE x == [ops[i] EXCEPT !.status = s]
  <1>0. ops[i] \in Op /\ ops \in [OpId -> Op \cup {NoOp}]
    BY DEF Inv, StoreTypeOK
  <1>1. x \in Op /\ x.status = s /\ NoOp.status = "unused"
    BY <1>0 DEF Op, NoOp
  <1>2. ops' = [ops EXCEPT ![i] = x]
    OBVIOUS
  <1> HIDE DEF x
  <1> QED
    BY <1>0, <1>1, <1>2

\* A step that makes no name active keeps names unique.
LEMMA NamesKept ==
    ASSUME Inv, \A f \in File : file'[f] = file[f] \/ file'[f].status # "active"
    PROVE  NameOnce'
  BY DEF Inv, NameOnce, Named

\* A step that makes the name of one file active, when it was free.
LEMMA NameTaken ==
    ASSUME Inv, NEW f \in File, \A g \in File \ {f} : file'[g] = file[g],
           Named(file'[f].name) \subseteq {f}
    PROVE  NameOnce'
  BY DEF Inv, NameOnce, Named

\* A step that takes no bytes, makes no record READY and none exist, and
\* stops no repair.
LEMMA BytesKept ==
    ASSUME Inv, unstored \subseteq unstored',
           \A o \in Object : disk'[o] = "none" => disk[o] = "none",
           \A o \in Object : rec'[o] # "none" => rec[o] # "none",
           \A o \in Object : rec'[o] = "ready" => rec[o] = "ready",
           \A w \in Worker : \A o \in Object : WillMarkReady(w, o)' => WillMarkReady(w, o),
           \A w \in Worker : \A o \in Object : Repairs(w, o) => Repairs(w, o)'
    PROVE  BytesFollow'
  BY DEF Inv, BytesFollow

-----------------------------------------------------------------------------
(***************************************************************************)
(* Every action keeps the invariant.                                        *)
(***************************************************************************)

\* What the variables must satisfy for the invariant to hold after a step.
LEMMA Assemble ==
    ASSUME Inv, rec' \in [Object -> statuses], disk' \in [Object -> {"none", "good", "bad"}],
           file' \in [File -> Row \cup {NewFile, GoneFile}], ops' \in [OpId -> Op \cup {NoOp}],
           \A j \in OpId : ops[j] # NoOp => ops'[j] # NoOp,
           sending' = sending \/ sending' = 0, faults' \in 0 .. MaxFaults, unstored' \subseteq Object,
           WorkersTyped', NameOnce', BytesFollow'
    PROVE  Inv'
  <1>1. sending \in 0 .. MaxOps /\ sending' \in 0 .. MaxOps
    BY StoreAssumption DEF Inv, StoreTypeOK
  <1>2. SendingExists'
    BY <1>1 DEF Inv, SendingExists, OpId
  <1>3. \A w \in Worker : \/ worker'[w] = idle
                          \/ /\ worker'[w].pc \in workerPCs
                             /\ worker'[w].file \in File /\ worker'[w].obj \in Object
    BY DEF WorkersTyped, Import, Purge, Activation, workerPCs
  <1> QED
    BY <1>1, <1>2, <1>3 DEF Inv, StoreTypeOK

\* What the invariant says of the variables.
LEMMA Types ==
    ASSUME Inv
    PROVE  /\ rec \in [Object -> statuses] /\ disk \in [Object -> {"none", "good", "bad"}]
           /\ file \in [File -> Row \cup {NewFile, GoneFile}] /\ ops \in [OpId -> Op \cup {NoOp}]
           /\ sending \in 0 .. MaxOps /\ faults \in 0 .. MaxFaults /\ unstored \subseteq Object
           /\ WorkersTyped /\ NameOnce /\ BytesFollow
  BY DEF Inv, StoreTypeOK

\* A mutation in one transaction touches lan_files and the outbox only.
LEMMA MutationKeepsInv ==
    ASSUME Inv, NEW f \in File,
           TrashLANFile(f) \/ RestoreLANFile(f) \/ (\E n \in Name : RenameLANFile(f, n))
    PROVE  Inv'
  <1>0. UNCHANGED <<rec, disk, worker, sending, faults, unstored>>
    BY DEF TrashLANFile, RestoreLANFile, RenameLANFile
  <1>1. /\ rec' \in [Object -> statuses] /\ disk' \in [Object -> {"none", "good", "bad"}]
        /\ faults' \in 0 .. MaxFaults /\ unstored' \subseteq Object /\ WorkersTyped'
    BY <1>0, Types DEF WorkersTyped
  <1>2. BytesFollow'
    BY <1>0, BytesKept DEF WillMarkReady, Repairs, At
  <1>3. file[f] \in Row
    BY RowFacts DEF TrashLANFile, RestoreLANFile, RenameLANFile, rowStates
  <1>4. /\ ops' \in [OpId -> Op \cup {NoOp}]
        /\ \A j \in OpId : ops[j] # NoOp => ops'[j] # NoOp
    <2>1. PICK kind \in {"register", "rename", "trash", "restore"} : Report(kind, f)
      BY DEF TrashLANFile, RestoreLANFile, RenameLANFile
    <2> QED
      BY <2>1, ReportFacts
  <1>5. file' \in [File -> Row \cup {NewFile, GoneFile}] /\ NameOnce'
    <2>1. CASE TrashLANFile(f)
      <3> DEFINE row == [file[f] EXCEPT !.status = "trashed"]
      <3>1. row \in Row /\ row.status = "trashed" /\ SetFile(f, row)
        BY <1>3, <2>1 DEF Row, rowStates, TrashLANFile
      <3> HIDE DEF row
      <3>2. /\ file' \in [File -> Row \cup {NewFile, GoneFile}] /\ file'[f] = row
            /\ \A g \in File \ {f} : file'[g] = file[g]
        BY <3>1, SetFileFacts
      <3> QED
        BY <3>1, <3>2, NamesKept
    <2>2. CASE RestoreLANFile(f)
      <3> DEFINE row == [file[f] EXCEPT !.status = "active"]
      <3>1. row \in Row /\ row.name = file[f].name /\ SetFile(f, row) /\ Named(file[f].name) = {}
        BY <1>3, <2>2 DEF Row, rowStates, RestoreLANFile
      <3> HIDE DEF row
      <3>2. /\ file' \in [File -> Row \cup {NewFile, GoneFile}] /\ file'[f] = row
            /\ \A g \in File \ {f} : file'[g] = file[g]
        BY <3>1, SetFileFacts
      <3> QED
        BY <3>1, <3>2, NameTaken
    <2>3. ASSUME NEW n \in Name, RenameLANFile(f, n)
          PROVE  file' \in [File -> Row \cup {NewFile, GoneFile}] /\ NameOnce'
      <3> DEFINE row == [file[f] EXCEPT !.name = n]
      <3>1. row \in Row /\ row.name = n /\ SetFile(f, row) /\ Named(n) \subseteq {f}
        BY <1>3, <2>3 DEF Row, RenameLANFile
      <3> HIDE DEF row
      <3>2. /\ file' \in [File -> Row \cup {NewFile, GoneFile}] /\ file'[f] = row
            /\ \A g \in File \ {f} : file'[g] = file[g]
        BY <3>1, SetFileFacts
      <3> QED
        BY <3>1, <3>2, NameTaken
    <2> QED
      BY <2>1, <2>2, <2>3
  <1> QED
    BY <1>0, <1>1, <1>2, <1>4, <1>5, Assemble

\* Steps that touch neither lan_files nor the outbox.
LEMMA QuietStep ==
    ASSUME Inv, UNCHANGED <<file, ops, sending, faults>>, unstored' \subseteq Object,
           rec' \in [Object -> statuses], disk' \in [Object -> {"none", "good", "bad"}],
           WorkersTyped', BytesFollow'
    PROVE  Inv'
  <1>1. NameOnce'
    BY NamesKept
  <1>2. /\ file' \in [File -> Row \cup {NewFile, GoneFile}] /\ ops' \in [OpId -> Op \cup {NoOp}]
        /\ \A j \in OpId : ops[j] # NoOp => ops'[j] # NoOp
        /\ faults' \in 0 .. MaxFaults
    BY Types
  <1> QED
    BY <1>1, <1>2, Assemble

\* A verification only takes READY away.
LEMMA VerifyKeepsInv ==
    ASSUME Inv, NEW o \in Object, Verify(o)
    PROVE  Inv'
  <1>1. /\ rec[o] # "none" /\ rec' = [rec EXCEPT ![o] = "corrupt"] /\ disk' = disk /\ worker' = worker
        /\ UNCHANGED <<file, ops, sending, faults, unstored>>
    BY DEF Verify, UpdateObjectStatus
  <1>2. rec' \in [Object -> statuses] /\ rec'[o] = "corrupt" /\ \A p \in Object \ {o} : rec'[p] = rec[p]
    BY <1>1, Types DEF statuses
  <1>3. BytesFollow'
    BY <1>1, <1>2, BytesKept DEF WillMarkReady, Repairs, At
  <1>4. WorkersTyped' /\ disk' \in [Object -> {"none", "good", "bad"}] /\ unstored' \subseteq Object
    BY <1>1, Types DEF WorkersTyped
  <1> QED
    BY <1>1, <1>2, <1>3, <1>4, QuietStep

\* An import begins.
LEMMA StartKeepsInv ==
    ASSUME Inv, NEW w \in Worker, NEW f \in File, NEW o \in Object, NEW n \in Name, StartImport(w, f, o, n)
    PROVE  Inv'
  <1> DEFINE x == [pc |-> "lookup", file |-> f, obj |-> o, name |-> n]
  <1>1. x \in Import /\ x.pc = "lookup"
    BY DEF Import
  <1>2. worker' = [worker EXCEPT ![w] = x] /\ UNCHANGED <<rec, disk, file, ops, sending, faults, unstored>>
        /\ worker[w].pc = "idle"
    BY DEF StartImport, At
  <1> HIDE DEF x
  <1>3. WorkersTyped' /\ worker'[w] = x /\ \A v \in Worker \ {w} : worker'[v] = worker[v]
    BY <1>1, <1>2, Types DEF WorkersTyped
  <1>4. BytesFollow'
    BY <1>1, <1>2, <1>3, BytesKept DEF WillMarkReady, Repairs, At
  <1> QED
    BY <1>2, <1>3, <1>4, Types, QuietStep

\* An import goes on.  Only RecordImporting, Commit and MarkReady concern
\* BytesFollow: the first two are or make a repair, and the third says READY
\* of an object that had someone to say so.
LEMMA ImportKeepsInv ==
    ASSUME Inv, NEW w \in Worker,
           \/ LookupObject(w) \/ verifyPersistedObject(w) \/ RecordImporting(w) \/ Commit(w)
           \/ MarkReady(w) \/ CreateLANFile(w)
    PROVE  Inv'
  <1>0. PICK o \in Object : o = worker[w].obj /\ worker[w] \in Import
    <2>1. worker[w].pc \in {"lookup", "verify", "record", "commit", "ready", "create"}
      BY DEF LookupObject, verifyPersistedObject, RecordImporting, Commit, MarkReady, CreateLANFile, At
    <2>2. worker[w] \in Import
      BY <2>1, WorkerFields
    <2> QED
      BY <2>2 DEF Import
  <1>1. CASE LookupObject(w)
    <2>1. PICK pc \in {"lookup", "verify", "record", "commit", "ready", "create"} :
             pc \in {"verify", "record"} /\ Step(w, pc)
      BY <1>1 DEF LookupObject
    <2>2. UNCHANGED <<rec, disk, file, ops, sending, faults, unstored>> /\ worker[w].pc = "lookup"
      BY <1>1 DEF LookupObject, At
    <2>3. WorkersTyped' /\ worker'[w].pc = pc /\ \A v \in Worker \ {w} : worker'[v] = worker[v]
      BY <1>0, <2>1, ImportStep
    <2>4. BytesFollow'
      BY <2>1, <2>2, <2>3, BytesKept DEF WillMarkReady, Repairs, At
    <2> QED
      BY <2>2, <2>3, <2>4, Types, QuietStep
  <1>2. CASE verifyPersistedObject(w)
    <2>1. PICK pc \in {"lookup", "verify", "record", "commit", "ready", "create"} :
             pc \in {"create", "record"} /\ Step(w, pc)
      BY <1>2 DEF verifyPersistedObject
    <2>2. UNCHANGED <<disk, file, ops, sending, faults, unstored>> /\ worker[w].pc = "verify"
      BY <1>2 DEF verifyPersistedObject, At
    <2>3. WorkersTyped' /\ worker'[w].pc = pc /\ \A v \in Worker \ {w} : worker'[v] = worker[v]
      BY <1>0, <2>1, ImportStep
    <2>4. /\ rec' \in [Object -> statuses]
          /\ \A p \in Object : rec'[p] # "none" => rec[p] # "none"
          /\ \A p \in Object : rec'[p] = "ready" => rec[p] = "ready"
      BY <1>0, <1>2, Types DEF verifyPersistedObject, statuses
    <2>5. BytesFollow'
      BY <2>1, <2>2, <2>3, <2>4, BytesKept DEF WillMarkReady, Repairs, At
    <2> QED
      BY <2>2, <2>3, <2>4, <2>5, Types, QuietStep
  <1>3. CASE RecordImporting(w)
    <2>1. PICK pc \in {"lookup", "verify", "record", "commit", "ready", "create"} : pc = "commit" /\ Step(w, pc)
      BY <1>3 DEF RecordImporting
    <2>2. UNCHANGED <<disk, file, ops, sending, faults, unstored>> /\ worker[w].pc = "record"
          /\ rec' = [rec EXCEPT ![o] = "importing"]
      BY <1>0, <1>3 DEF RecordImporting, At, UpsertObject
    <2>3. /\ WorkersTyped' /\ worker'[w].pc = "commit" /\ worker'[w].obj = o
          /\ \A v \in Worker \ {w} : worker'[v] = worker[v]
      BY <1>0, <2>1, ImportStep
    <2>4. rec' \in [Object -> statuses] /\ \A p \in Object \ {o} : rec'[p] = rec[p]
      BY <1>0, <2>2, Types DEF statuses
    <2>5. Repairs(w, o)'
      BY <2>3 DEF Repairs
    <2>6. /\ \A v \in Worker : \A p \in Object : WillMarkReady(v, p)' => WillMarkReady(v, p)
          /\ \A v \in Worker : \A p \in Object : Repairs(v, p) => Repairs(v, p)'
      BY <2>2, <2>3 DEF WillMarkReady, Repairs, At
    <2>7. BytesFollow'
      BY <2>2, <2>4, <2>5, <2>6 DEF Inv, BytesFollow
    <2> QED
      BY <2>2, <2>3, <2>4, <2>7, Types, QuietStep
  <1>4. CASE Commit(w)
    <2>1. PICK pc \in {"lookup", "verify", "record", "commit", "ready", "create"} : pc = "ready" /\ Step(w, pc)
      BY <1>4 DEF Commit
    <2>2. UNCHANGED <<rec, file, ops, sending, faults>> /\ worker[w].pc = "commit"
          /\ disk' = [disk EXCEPT ![o] = "good"] /\ unstored' = unstored \ {o}
      BY <1>0, <1>4 DEF Commit, At
    <2>3. /\ WorkersTyped' /\ worker'[w].pc = "ready" /\ worker'[w].obj = o
          /\ \A v \in Worker \ {w} : worker'[v] = worker[v]
      BY <1>0, <2>1, ImportStep
    <2>4. disk' \in [Object -> {"none", "good", "bad"}] /\ disk'[o] = "good"
          /\ \A p \in Object \ {o} : disk'[p] = disk[p]
      BY <1>0, <2>2, Types
    <2>5. \A v \in Worker : \A p \in Object \ {o} : WillMarkReady(v, p)' => WillMarkReady(v, p)
      BY <2>2, <2>3 DEF WillMarkReady, At
    <2>6. \A v \in Worker : \A p \in Object \ {o} : Repairs(v, p) => Repairs(v, p)'
      BY <1>0, <2>2, <2>3 DEF Repairs
    <2>7. BytesFollow'
      BY <2>2, <2>4, <2>5, <2>6 DEF Inv, BytesFollow
    <2>8. unstored' \subseteq Object
      BY <2>2, Types
    <2> QED
      BY <2>2, <2>3, <2>4, <2>7, <2>8, Types, QuietStep
  <1>5. CASE MarkReady(w)
    <2>0. UNCHANGED <<disk, file, ops, sending, faults, unstored>> /\ worker[w].pc = "ready"
      BY <1>5 DEF MarkReady, At
    <2>1. CASE rec[o] # "none" /\ rec' = [rec EXCEPT ![o] = "ready"] /\ Step(w, "create")
      <3>1. PICK pc \in {"lookup", "verify", "record", "commit", "ready", "create"} : pc = "create" /\ Step(w, pc)
        BY <2>1
      <3>2. WorkersTyped' /\ worker'[w].pc = "create" /\ \A v \in Worker \ {w} : worker'[v] = worker[v]
        BY <1>0, <3>1, ImportStep
      <3>3. rec' \in [Object -> statuses] /\ \A p \in Object \ {o} : rec'[p] = rec[p]
        BY <1>0, <2>1, Types DEF statuses
      <3>4. WillMarkReady(w, o)
        BY <1>0, <2>0 DEF WillMarkReady, At
      <3>5. /\ \A v \in Worker : \A p \in Object : WillMarkReady(v, p)' => WillMarkReady(v, p)
            /\ \A v \in Worker : \A p \in Object : Repairs(v, p) => Repairs(v, p)'
        BY <2>0, <3>2 DEF WillMarkReady, Repairs, At
      <3>6. BytesFollow'
        BY <2>0, <2>1, <3>3, <3>4, <3>5 DEF Inv, BytesFollow
      <3> QED
        BY <2>0, <3>2, <3>3, <3>6, Types, QuietStep
    <2>2. CASE rec' = rec /\ Done(w)
      <3>1. WorkersTyped' /\ worker'[w].pc = "idle" /\ \A v \in Worker \ {w} : worker'[v] = worker[v]
        BY <2>2, DoneFacts
      <3>2. BytesFollow'
        BY <2>0, <2>2, <3>1, BytesKept DEF WillMarkReady, Repairs, At
      <3> QED
        BY <2>0, <2>2, <3>1, <3>2, Types, QuietStep
    <2> QED
      BY <1>0, <1>5, <2>1, <2>2 DEF MarkReady, UpdateObjectStatus
  <1>6. CASE CreateLANFile(w)
    <2>0. UNCHANGED <<rec, disk, sending, faults, unstored>> /\ worker[w].pc = "create" /\ Done(w)
      BY <1>6 DEF CreateLANFile, At
    <2>1. WorkersTyped' /\ worker'[w].pc = "idle" /\ \A v \in Worker \ {w} : worker'[v] = worker[v]
      BY <2>0, DoneFacts
    <2>2. BytesFollow'
      BY <2>0, <2>1, BytesKept DEF WillMarkReady, Repairs, At
    <2>3. CASE UNCHANGED <<file, ops>>
      BY <2>0, <2>1, <2>2, <2>3, Types, QuietStep
    <2>4. CASE ~UNCHANGED <<file, ops>>
      <3> DEFINE f == worker[w].file
                 row == [status |-> "active", obj |-> o, name |-> worker[w].name]
      <3>1. Named(worker[w].name) = {} /\ SetFile(f, row) /\ Report("register", f)
        BY <1>0, <1>6, <2>4 DEF CreateLANFile, CreateOK
      <3>2. f \in File /\ row \in Row /\ row.name = worker[w].name
        BY <1>0 DEF Import, Row, rowStates
      <3> HIDE DEF f, row
      <3>3. /\ file' \in [File -> Row \cup {NewFile, GoneFile}] /\ file'[f] = row
            /\ \A g \in File \ {f} : file'[g] = file[g]
        BY <3>1, <3>2, SetFileFacts
      <3>4. NameOnce'
        BY <3>1, <3>2, <3>3, NameTaken
      <3>5. PICK kind \in {"register", "rename", "trash", "restore"} : Report(kind, f)
        BY <3>1
      <3>6. /\ ops' \in [OpId -> Op \cup {NoOp}]
            /\ \A j \in OpId : ops[j] # NoOp => ops'[j] # NoOp
        BY <3>2, <3>5, ReportFacts
      <3> QED
        BY <2>0, <2>1, <2>2, <3>3, <3>4, <3>6, Types, Assemble
    <2> QED
      BY <2>3, <2>4
  <1> QED
    BY <1>1, <1>2, <1>3, <1>4, <1>5, <1>6

\* A purge begins.
LEMMA BeginPurgeKeepsInv ==
    ASSUME Inv, NEW w \in Worker, NEW f \in File, BeginPurge(w, f)
    PROVE  Inv'
  <1>0. UNCHANGED <<rec, disk, sending, faults, unstored>> /\ worker[w].pc = "idle" /\ file[f] \in Row
    BY RowFacts DEF BeginPurge, At, rowStates
  <1> DEFINE row == [file[f] EXCEPT !.status = "purging"]
  <1>1. row \in Row /\ row.status = "purging" /\ SetFile(f, row)
    BY <1>0 DEF BeginPurge, Row, rowStates
  <1> HIDE DEF row
  <1>2. /\ file' \in [File -> Row \cup {NewFile, GoneFile}] /\ file'[f] = row
        /\ \A g \in File \ {f} : file'[g] = file[g]
    BY <1>1, SetFileFacts
  <1>3. NameOnce'
    BY <1>1, <1>2, NamesKept
  <1>4. PICK i \in OpId \cup {0}, pc \in {"deleting", "finalize"} :
          /\ (i = 0 /\ UNCHANGED ops) \/ (i # 0 /\ Enqueue(i, "purge", f, "processing"))
          /\ worker' = [worker EXCEPT ![w] = [pc |-> pc, file |-> f, obj |-> file[f].obj, op |-> i]]
    BY DEF BeginPurge
  <1>5. /\ ops' \in [OpId -> Op \cup {NoOp}]
        /\ \A j \in OpId : ops[j] # NoOp => ops'[j] # NoOp
    <2>1. CASE UNCHANGED ops
      BY <2>1, Types
    <2>2. CASE i # 0 /\ Enqueue(i, "purge", f, "processing")
      <3>1. PICK kind \in {"register", "rename", "trash", "restore", "purge"}, s \in {"pending", "processing"} :
               i \in OpId /\ Enqueue(i, kind, f, s)
        BY <2>2
      <3> QED
        BY <3>1, EnqueueFacts
    <2> QED
      BY <1>4, <2>1, <2>2
  <1> DEFINE x == [pc |-> pc, file |-> f, obj |-> file[f].obj, op |-> i]
  <1>6. x \in Purge /\ x.pc \notin {"ready", "commit", "drop"} /\ worker' = [worker EXCEPT ![w] = x]
    BY <1>0, <1>4 DEF Purge, Row
  <1> HIDE DEF x
  <1>7. WorkersTyped' /\ worker'[w] = x /\ \A v \in Worker \ {w} : worker'[v] = worker[v]
    BY <1>6, Types DEF WorkersTyped
  <1>8. BytesFollow'
    BY <1>0, <1>6, <1>7, BytesKept DEF WillMarkReady, Repairs, At
  <1> QED
    BY <1>0, <1>2, <1>3, <1>5, <1>7, <1>8, Types, Assemble

\* A purge goes on.  RemoveBytes takes the bytes, and is then about to drop
\* the record; DropRecord ends that repair with the record.
LEMMA PurgeKeepsInv ==
    ASSUME Inv, NEW w \in Worker,
           FinalizePurge(w) \/ MarkDeleting(w) \/ RemoveBytes(w) \/ DropRecord(w) \/ ActivateOutgoing(w)
    PROVE  Inv'
  <1>1. CASE FinalizePurge(w)
    <2>0. UNCHANGED <<rec, disk, ops, sending, faults, unstored>> /\ worker[w].pc = "finalize"
      BY <1>1 DEF FinalizePurge, At
    <2>1. worker[w] \in Purge
      BY <2>0, WorkerFields
    <2>2. /\ WorkersTyped' /\ worker'[w].pc \in {"idle", "activate"}
          /\ \A v \in Worker \ {w} : worker'[v] = worker[v]
      BY <1>1, <2>1, AfterPurgeFacts, DoneFacts DEF FinalizePurge
    <2>3. BytesFollow'
      BY <2>0, <2>2, BytesKept DEF WillMarkReady, Repairs, At
    <2>4. \/ UNCHANGED file
          \/ SetFile(worker[w].file, GoneFile)
      BY <1>1 DEF FinalizePurge
    <2>5. /\ file' \in [File -> Row \cup {NewFile, GoneFile}]
          /\ \A g \in File : file'[g] = file[g] \/ file'[g] = GoneFile
      <3>1. CASE UNCHANGED file
        BY <3>1, Types
      <3>2. CASE SetFile(worker[w].file, GoneFile)
        <4>1. PICK f \in File, row \in Row \cup {NewFile, GoneFile} : row = GoneFile /\ SetFile(f, row)
          BY <2>1, <3>2 DEF Purge
        <4> QED
          BY <4>1, SetFileFacts
      <3> QED
        BY <2>4, <3>1, <3>2
    <2>6. NameOnce'
      BY <2>5, NamesKept DEF GoneFile
    <2> QED
      BY <2>0, <2>2, <2>3, <2>5, <2>6, Types, Assemble
  <1>2. CASE MarkDeleting(w)
    <2>0. UNCHANGED <<disk, file, ops, sending, faults, unstored>> /\ worker[w].pc = "deleting"
      BY <1>2 DEF MarkDeleting, At
    <2>1. worker[w] \in Purge
      BY <2>0, WorkerFields
    <2>2. PICK o \in Object : o = worker[w].obj
      BY <2>1 DEF Purge
    <2>3. CASE rec[o] # "none" /\ rec' = [rec EXCEPT ![o] = "deleting"] /\ Step(w, "remove")
      <3>1. PICK pc \in {"finalize", "deleting", "remove", "drop"} : pc = "remove" /\ Step(w, pc)
        BY <2>3
      <3>2. WorkersTyped' /\ worker'[w].pc = "remove" /\ \A v \in Worker \ {w} : worker'[v] = worker[v]
        BY <2>1, <3>1, PurgeStep
      <3>3. rec' \in [Object -> statuses] /\ rec'[o] = "deleting" /\ \A p \in Object \ {o} : rec'[p] = rec[p]
        BY <2>3, Types DEF statuses
      <3>4. BytesFollow'
        BY <2>0, <2>3, <3>2, <3>3, BytesKept DEF WillMarkReady, Repairs, At
      <3> QED
        BY <2>0, <3>2, <3>3, <3>4, Types, QuietStep
    <2>4. CASE rec' = rec /\ Done(w)
      <3>1. WorkersTyped' /\ worker'[w].pc = "idle" /\ \A v \in Worker \ {w} : worker'[v] = worker[v]
        BY <2>4, DoneFacts
      <3>2. BytesFollow'
        BY <2>0, <2>4, <3>1, BytesKept DEF WillMarkReady, Repairs, At
      <3> QED
        BY <2>0, <2>4, <3>1, <3>2, Types, QuietStep
    <2> QED
      BY <1>2, <2>2, <2>3, <2>4 DEF MarkDeleting, UpdateObjectStatus
  <1>3. CASE RemoveBytes(w)
    <2>0. UNCHANGED <<rec, file, ops, sending, faults, unstored>> /\ worker[w].pc = "remove"
      BY <1>3 DEF RemoveBytes, At
    <2>1. worker[w] \in Purge
      BY <2>0, WorkerFields
    <2>2. PICK o \in Object : o = worker[w].obj
      BY <2>1 DEF Purge
    <2>3. PICK pc \in {"finalize", "deleting", "remove", "drop"} : pc = "drop" /\ Step(w, pc)
      BY <1>3 DEF RemoveBytes
    <2>4. /\ WorkersTyped' /\ worker'[w].pc = "drop" /\ worker'[w].obj = o
          /\ \A v \in Worker \ {w} : worker'[v] = worker[v]
      BY <2>1, <2>2, <2>3, PurgeStep
    <2>5. disk' \in [Object -> {"none", "good", "bad"}] /\ \A p \in Object \ {o} : disk'[p] = disk[p]
      BY <1>3, <2>2, Types DEF RemoveBytes
    <2>6. Repairs(w, o)'
      BY <2>4 DEF Repairs
    <2>7. /\ \A v \in Worker : \A p \in Object : WillMarkReady(v, p)' => WillMarkReady(v, p)
          /\ \A v \in Worker : \A p \in Object : Repairs(v, p) => Repairs(v, p)'
      BY <2>0, <2>4 DEF WillMarkReady, Repairs, At
    <2>8. BytesFollow'
      BY <2>0, <2>5, <2>6, <2>7 DEF Inv, BytesFollow
    <2> QED
      BY <2>0, <2>4, <2>5, <2>8, Types, QuietStep
  <1>4. CASE DropRecord(w)
    <2>0. UNCHANGED <<disk, ops, sending, faults, unstored>> /\ worker[w].pc = "drop"
      BY <1>4 DEF DropRecord, At
    <2>1. worker[w] \in Purge
      BY <2>0, WorkerFields
    <2>2. PICK o \in Object : o = worker[w].obj
      BY <2>1 DEF Purge
    <2>3. /\ WorkersTyped' /\ worker'[w].pc \in {"idle", "activate"}
          /\ \A v \in Worker \ {w} : worker'[v] = worker[v]
      BY <1>4, <2>1, AfterPurgeFacts, DoneFacts DEF DropRecord
    <2>4. /\ rec' \in [Object -> statuses] /\ rec'[o] = "none"
          /\ \A p \in Object \ {o} : rec'[p] = rec[p]
      BY <1>4, <2>2, Types DEF DropRecord, statuses
    <2>5. \A v \in Worker : \A p \in Object : WillMarkReady(v, p)' => WillMarkReady(v, p)
      BY <2>0, <2>3 DEF WillMarkReady, At
    <2>6. \A v \in Worker : \A p \in Object \ {o} : Repairs(v, p) => Repairs(v, p)'
      BY <2>2, <2>3 DEF Repairs
    <2>7. BytesFollow'
      BY <2>0, <2>4, <2>5, <2>6 DEF Inv, BytesFollow
    <2>8. /\ file' \in [File -> Row \cup {NewFile, GoneFile}]
          /\ \A g \in File : file'[g] = file[g] \/ file'[g] = GoneFile
      <3>1. CASE UNCHANGED file
        BY <3>1, Types
      <3>2. CASE file' = Cascade({worker[w].obj})
        <4> DEFINE gone == {worker[w].obj}
        <4>1. file' = Cascade(gone)
          BY <3>2
        <4> HIDE DEF gone
        <4> QED
          BY <4>1, CascadeFacts
      <3> QED
        BY <1>4, <3>1, <3>2 DEF DropRecord
    <2>9. NameOnce'
      BY <2>8, NamesKept DEF GoneFile
    <2> QED
      BY <2>0, <2>3, <2>4, <2>7, <2>8, <2>9, Types, Assemble
  <1>5. CASE ActivateOutgoing(w)
    <2>0. UNCHANGED <<rec, disk, file, sending, faults, unstored>> /\ worker[w].pc = "activate" /\ Done(w)
      BY <1>5 DEF ActivateOutgoing, At
    <2>1. WorkersTyped' /\ worker'[w].pc = "idle" /\ \A v \in Worker \ {w} : worker'[v] = worker[v]
      BY <2>0, DoneFacts
    <2>2. BytesFollow'
      BY <2>0, <2>1, BytesKept DEF WillMarkReady, Repairs, At
    <2>3. PICK i \in OpId : i = worker[w].op
      BY <2>0, WorkerFields DEF Activation
    <2>4. ops' = [ops EXCEPT ![i].status = IF ops[i].status = "processing" THEN "pending" ELSE ops[i].status]
      BY <1>5, <2>3 DEF ActivateOutgoing
    <2>5. /\ ops' \in [OpId -> Op \cup {NoOp}]
          /\ \A j \in OpId : ops[j] # NoOp => ops'[j] # NoOp
      <3>1. CASE ops[i].status = "processing"
        <4>1. ops[i] # NoOp
          BY <3>1 DEF NoOp
        <4>2. PICK s \in {"pending", "processing", "completed", "failed"} :
                 s = "pending" /\ ops' = [ops EXCEPT ![i].status = s]
          BY <2>4, <3>1
        <4> QED
          BY <4>1, <4>2, StatusFacts
      <3>2. CASE ops[i].status # "processing"
        <4>1. ops \in [OpId -> Op \cup {NoOp}]
          BY Types
        <4>2. [ops[i] EXCEPT !.status = ops[i].status] = ops[i]
          BY <4>1 DEF Op, NoOp
        <4>3. ops' = [ops EXCEPT ![i] = ops[i]]
          BY <2>4, <3>2, <4>2
        <4>4. ops' = ops
          BY <4>1, <4>3
        <4> QED
          BY <4>1, <4>4
      <3> QED
        BY <3>1, <3>2
    <2>6. NameOnce'
      BY <2>0, NamesKept
    <2> QED
      BY <2>0, <2>1, <2>2, <2>5, <2>6, Types, Assemble
  <1> QED
    BY <1>1, <1>2, <1>3, <1>4, <1>5

\* The oldest report is taken up, and answered.
LEMMA DeliveryKeepsInv ==
    ASSUME Inv, (\E i \in OpId : MarkProcessing(i)) \/ Deliver
    PROVE  Inv'
  <1>0. UNCHANGED <<rec, disk, file, worker, unstored>>
    BY DEF MarkProcessing, Deliver
  <1>1. WorkersTyped' /\ NameOnce' /\ BytesFollow'
    <2>1. BytesFollow'
      BY <1>0, BytesKept DEF WillMarkReady, Repairs, At
    <2> QED
      BY <1>0, <2>1, NamesKept, Types DEF WorkersTyped
  <1>2. ASSUME NEW i \in OpId, MarkProcessing(i) PROVE Inv'
    <2>1. ops[i].status = "pending" /\ sending' = i /\ UNCHANGED faults
          /\ ops' = [ops EXCEPT ![i].status = "processing"]
      BY <1>2 DEF MarkProcessing
    <2>2. ops[i] # NoOp
      BY <2>1 DEF NoOp
    <2>3. PICK s \in {"pending", "processing", "completed", "failed"} :
             s = "processing" /\ ops' = [ops EXCEPT ![i].status = s]
      BY <2>1
    <2>4. /\ ops' \in [OpId -> Op \cup {NoOp}]
          /\ \A j \in OpId : ops[j] # NoOp => ops'[j] # NoOp
      BY <2>2, <2>3, StatusFacts
    <2>5. SendingExists' /\ sending' \in 0 .. MaxOps
      BY <2>1, <2>2, <2>4, StoreAssumption DEF SendingExists, OpId
    <2>6. StoreTypeOK'
      BY <1>0, <2>1, <2>4, <2>5 DEF Inv, StoreTypeOK
    <2> QED
      BY <1>1, <2>5, <2>6 DEF Inv
  <1>3. ASSUME Deliver PROVE Inv'
    <2>0. PICK s \in {"pending", "processing", "completed", "failed"} :
            /\ ops' = [ops EXCEPT ![sending].status = s]
            /\ Fault \/ UNCHANGED faults
      BY <1>3 DEF Deliver
    <2>1. sending # 0 /\ sending' = 0
      BY <1>3 DEF Deliver
    <2>2. PICK i \in OpId : i = sending
      BY <2>1, Types, StoreAssumption DEF OpId
    <2>3. ops[i] # NoOp
      BY <2>1, <2>2 DEF Inv, SendingExists
    <2>4. /\ ops' \in [OpId -> Op \cup {NoOp}]
          /\ \A j \in OpId : ops[j] # NoOp => ops'[j] # NoOp
      BY <2>0, <2>2, <2>3, StatusFacts
    <2>5. faults' \in 0 .. MaxFaults
      BY <2>0, Types, StoreAssumption DEF Fault
    <2> QED
      BY <1>0, <1>1, <2>1, <2>4, <2>5, Types, Assemble
  <1> QED
    BY <1>2, <1>3

\* The process dies and starts again: no goroutine is left, and what is READY
\* has a file.
LEMMA CrashKeepsInv ==
    ASSUME Inv, CrashRestart
    PROVE  Inv'
  <1>1. PICK gone \in SUBSET Stale :
          /\ rec' = [o \in Object |-> IF o \in gone THEN "none" ELSE Recovered(o)]
          /\ file' = Cascade(gone)
    BY DEF CrashRestart
  <1>2. disk' = disk /\ sending' = 0 /\ unstored' = {} /\ worker' = [w \in Worker |-> idle] /\ Fault
    BY DEF CrashRestart
  <1>3. faults' \in 0 .. MaxFaults
    BY <1>2, Types, StoreAssumption DEF Fault
  <1>4. /\ file' \in [File -> Row \cup {NewFile, GoneFile}]
        /\ \A f \in File : file'[f] = file[f] \/ file'[f] = GoneFile
    BY <1>1, CascadeFacts
  <1>5. NameOnce'
    BY <1>4, NamesKept DEF GoneFile
  <1>6. /\ rec' \in [Object -> statuses]
        /\ \A o \in Object : rec'[o] = "ready" => disk[o] # "none"
    BY <1>1, Types DEF Recovered, statuses
  <1>7. WorkersTyped' /\ \A w \in Worker : worker'[w].pc = "idle"
    BY <1>2 DEF WorkersTyped, idle
  <1>8. BytesFollow'
    BY <1>2, <1>6, <1>7 DEF BytesFollow, WillMarkReady, At
  <1>9. /\ ops' \in [OpId -> Op \cup {NoOp}]
        /\ \A j \in OpId : ops[j] # NoOp => ops'[j] # NoOp
    <2>1. ops' = [i \in OpId |-> IF ops[i].status = "processing"
                                 THEN [ops[i] EXCEPT !.status = "pending"] ELSE ops[i]]
      BY DEF CrashRestart
    <2>2. ASSUME NEW i \in OpId
          PROVE  ops'[i] \in Op \cup {NoOp} /\ (ops[i] # NoOp => ops'[i] # NoOp)
      <3>1. ops[i] \in Op \cup {NoOp} /\ NoOp.status = "unused"
        BY Types DEF NoOp
      <3>2. CASE ops[i].status = "processing"
        <4>1. ops'[i] = [ops[i] EXCEPT !.status = "pending"] /\ ops[i] \in Op
          BY <2>1, <3>1, <3>2
        <4>2. ops'[i] \in Op /\ ops'[i].status = "pending"
          BY <4>1 DEF Op
        <4> QED
          BY <3>1, <4>2
      <3>3. CASE ops[i].status # "processing"
        BY <2>1, <3>1, <3>3
      <3> QED
        BY <3>2, <3>3
    <2> QED
      BY <2>1, <2>2
  <1>10. disk' \in [Object -> {"none", "good", "bad"}] /\ unstored' \subseteq Object
    BY <1>2, Types
  <1> QED
    BY <1>2, <1>3, <1>4, <1>5, <1>6, <1>7, <1>8, <1>9, <1>10, Assemble

\* A file operation fails, or a file decays.
LEMMA FaultKeepsInv ==
    ASSUME Inv, (\E w \in Worker : RenameFails(w) \/ UnlinkFails(w)) \/ (\E o \in Object : Decay(o))
    PROVE  Inv'
  <1>0. UNCHANGED <<rec, file, ops, sending>> /\ Fault
    BY DEF RenameFails, UnlinkFails, Decay
  <1>1. faults' \in 0 .. MaxFaults
    BY <1>0, Types, StoreAssumption DEF Fault
  <1>2. NameOnce'
    BY <1>0, NamesKept
  <1>3. ASSUME NEW w \in Worker, RenameFails(w) PROVE Inv'
    <2>0. worker[w].pc = "commit" /\ Done(w) /\ disk' = disk
      BY <1>3 DEF RenameFails, At
    <2>1. PICK o \in Object : o = worker[w].obj
      BY <2>0, WorkerFields DEF Import
    <2>2. unstored' = unstored \cup {o} /\ unstored' \subseteq Object
      BY <1>3, <2>1, Types DEF RenameFails
    <2>3. WorkersTyped' /\ worker'[w].pc = "idle" /\ \A v \in Worker \ {w} : worker'[v] = worker[v]
      BY <2>0, DoneFacts
    <2>4. /\ \A v \in Worker : \A p \in Object : WillMarkReady(v, p)' => WillMarkReady(v, p)
          /\ \A v \in Worker : \A p \in Object \ {o} : Repairs(v, p) => Repairs(v, p)'
      BY <2>1, <2>3 DEF WillMarkReady, Repairs, At
    <2>5. BytesFollow'
      BY <1>0, <2>0, <2>2, <2>4 DEF Inv, BytesFollow
    <2> QED
      BY <1>0, <1>1, <1>2, <2>0, <2>2, <2>3, <2>5, Types, Assemble
  <1>4. ASSUME NEW w \in Worker, UnlinkFails(w) PROVE Inv'
    <2>0. worker[w].pc = "remove" /\ Done(w) /\ disk' = disk /\ unstored' = unstored
      BY <1>4 DEF UnlinkFails, At
    <2>1. WorkersTyped' /\ worker'[w].pc = "idle" /\ \A v \in Worker \ {w} : worker'[v] = worker[v]
      BY <2>0, DoneFacts
    <2>2. BytesFollow'
      BY <1>0, <2>0, <2>1, BytesKept DEF WillMarkReady, Repairs, At
    <2> QED
      BY <1>0, <1>1, <1>2, <2>0, <2>1, <2>2, Types, Assemble
  <1>5. ASSUME NEW o \in Object, Decay(o) PROVE Inv'
    <2>0. worker' = worker /\ unstored' = unstored /\ disk' = [disk EXCEPT ![o] = "bad"]
      BY <1>5 DEF Decay
    <2>1. disk' \in [Object -> {"none", "good", "bad"}] /\ \A p \in Object : disk'[p] = disk[p] \/ disk'[p] = "bad"
      BY <2>0, Types
    <2>2. BytesFollow'
      BY <1>0, <2>0, <2>1, BytesKept DEF WillMarkReady, Repairs, At
    <2>3. WorkersTyped'
      BY <2>0, Types DEF WorkersTyped
    <2> QED
      BY <1>0, <1>1, <1>2, <2>0, <2>1, <2>2, <2>3, Types, Assemble
  <1> QED
    BY <1>3, <1>4, <1>5

-----------------------------------------------------------------------------
(***************************************************************************)
(* The theorems.                                                            *)
(***************************************************************************)

\* The invariant holds at first.
LEMMA InitInv == StoreInit => Inv
  <1> SUFFICES ASSUME StoreInit PROVE Inv
    OBVIOUS
  <1>1. StoreTypeOK
    BY StoreAssumption DEF StoreInit, StoreTypeOK, statuses
  <1>2. WorkersTyped /\ SendingExists
    BY DEF StoreInit, WorkersTyped, SendingExists
  <1>3. NameOnce
    BY DEF StoreInit, NameOnce, Named, NewFile
  <1>4. BytesFollow
    BY DEF StoreInit, BytesFollow
  <1> QED
    BY <1>1, <1>2, <1>3, <1>4 DEF Inv

\* Every step keeps it.
LEMMA NextInv == Inv /\ [StoreNext]_storeVars => Inv'
  <1> SUFFICES ASSUME Inv, [StoreNext]_storeVars PROVE Inv'
    OBVIOUS
  <1>1. CASE UNCHANGED storeVars
    BY <1>1 DEF storeVars, Inv, StoreTypeOK, WorkersTyped, SendingExists, NameOnce, Named, BytesFollow,
                WillMarkReady, Repairs, At
  <1>2. CASE StoreNext
    <2>1. ASSUME NEW f \in File, TrashLANFile(f) \/ RestoreLANFile(f) \/ \E n \in Name : RenameLANFile(f, n)
          PROVE  Inv'
      BY <2>1, MutationKeepsInv
    <2>2. ASSUME NEW w \in Worker, NEW f \in File, BeginPurge(w, f) PROVE Inv'
      BY <2>2, BeginPurgeKeepsInv
    <2>3. ASSUME NEW f \in File, PurgeExpired(f) PROVE Inv'
      BY <2>2, <2>3 DEF PurgeExpired, purgeExpiredLANFiles
    <2>4. ASSUME NEW o \in Object, Verify(o) PROVE Inv'
      BY <2>4, VerifyKeepsInv
    <2>5. ASSUME NEW f \in File, file[f].status = "active", downloadFile(f) PROVE Inv'
      <3>1. file[f].obj \in Object
        BY <2>5, RowFacts DEF rowStates, Row
      <3> QED
        BY <2>4, <2>5, <3>1 DEF downloadFile
    <2>6. ASSUME NEW w \in Worker, Continue(w) PROVE Inv'
      BY <2>6, ImportKeepsInv, PurgeKeepsInv DEF Continue
    <2>7. CASE (\E w \in Worker : RenameFails(w) \/ UnlinkFails(w)) \/ \E o \in Object : Decay(o)
      BY <2>7, FaultKeepsInv
    <2>8. ASSUME NEW w \in Worker, NEW f \in File, NEW o \in Object, NEW n \in Name, handleImport(w, f, o, n)
          PROVE  Inv'
      BY <2>8, StartKeepsInv DEF handleImport
    <2>9. CASE (\E i \in OpId : MarkProcessing(i)) \/ Deliver
      BY <2>9, DeliveryKeepsInv
    <2>10. CASE CrashRestart
      BY <2>10, CrashKeepsInv
    <2> QED
      BY <1>2, <2>1, <2>2, <2>3, <2>4, <2>5, <2>6, <2>7, <2>8, <2>9, <2>10 DEF StoreNext, handleVerify
  <1> QED
    BY <1>1, <1>2

\* The invariant holds throughout.
LEMMA StoreInv == StoreSpec => []Inv
  BY InitInv, NextInv, PTL DEF StoreSpec

\* The store's tables, files and goroutines keep their types.
THEOREM StoreTyped == StoreSpec => []StoreTypeOK
  <1>1. Inv => StoreTypeOK
    BY DEF Inv
  <1> QED
    BY <1>1, StoreInv, PTL

\* No two active files share a name, for any number of files and goroutines,
\* although only the transactions check it.
THEOREM NamesSafe == StoreSpec => []ActiveNamesUnique
  <1>1. Inv => ActiveNamesUnique
    <2> SUFFICES ASSUME Inv, NEW n \in Name PROVE Cardinality(Named(n)) <= 1
      BY DEF ActiveNamesUnique
    <2>1. CASE Named(n) = {}
      BY <2>1, FS_EmptySet
    <2>2. CASE Named(n) # {}
      <3>1. PICK f \in Named(n) : TRUE
        BY <2>2
      <3>2. Named(n) = {f}
        BY <3>1 DEF Inv, NameOnce
      <3>3. Cardinality({f}) = 1
        BY FS_Singleton
      <3> QED
        BY <3>2, <3>3
    <2> QED
      BY <2>1, <2>2
  <1> QED
    BY <1>1, StoreInv, PTL

\* Once no saga runs, a READY record has its file unless the last rename of
\* the object failed, whatever imports and purges overlapped and crashed.
THEOREM ReadySafe == StoreSpec => []ReadyHasFile
  <1>1. Inv => ReadyHasFile
    <2> SUFFICES ASSUME Inv, \A w \in Worker : worker[w] = idle,
                        NEW o \in Object \ unstored, rec[o] = "ready", disk[o] = "none"
                 PROVE  FALSE
      BY DEF ReadyHasFile
    <2>1. PICK w \in Worker : Repairs(w, o)
      BY DEF Inv, BytesFollow
    <2> QED
      BY <2>1 DEF Repairs, idle
  <1> QED
    BY <1>1, StoreInv, PTL
=============================================================================
