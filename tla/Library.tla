-------------------------------- MODULE Library --------------------------------
(***************************************************************************)
(* The account's library on the control server: folders and moves           *)
(* (server/internal/catalog/browser.go), public shares (shares.go), the       *)
(* trash service (server/internal/trash) and the lifecycle reports of the     *)
(* Agents (unified.go), which write the same rows as the trash service.       *)
(*                                                                          *)
(* PostgreSQL runs at READ COMMITTED: a statement sees what is committed     *)
(* when it starts, a transaction's writes appear when it commits, a row it   *)
(* wrote or selected FOR UPDATE is locked until then.  A call of the API is  *)
(* therefore split at every statement whose result a later one relies on;    *)
(* the calls in flight are the variable call.                               *)
(***************************************************************************)
EXTENDS Integers, Sequences, FiniteSets

CONSTANTS
    Call,       \* calls in flight
    Folder,     \* ids for new folders
    Root,       \* the id of the root folder 'Files'
    File,       \* file entries
    Name,       \* normalised names of files
    FolderName, \* normalised names of folders
    Share,      \* ids for new shares
    Limit,      \* max_downloads of a share (0: unlimited)
    MaxServed,  \* bound: resolutions of an unlimited share
    NoFolder,   \* the parent of the root
    NoName,     \* the name of the root and of rows that do not exist
    NoFile      \* the file of a share that does not exist

ASSUME LibraryAssumption ==
    /\ Root \notin Folder
    /\ NoFolder \notin Folder \cup {Root}
    /\ NoFile \notin File
    /\ NoName \notin Name \cup FolderName
    /\ Limit \in Nat
    /\ MaxServed \in Nat

VARIABLES
    folder,     \* folders
    file,       \* file_entries
    record,     \* trash_records: status and original folder
    share,      \* shares
    served,     \* auxiliary: resolutions answered with 200
    call        \* what each call is doing

vars == <<folder, file, record, share, served, call>>

AllFolders == Folder \cup {Root}

Idle == [op |-> "idle"]

FolderRow == [status : {"none", "active", "deleted"}, parent : AllFolders \cup {NoFolder},
              name : FolderName \cup {NoName}]
FileRow == [status : {"none", "active", "trashed", "purged"}, in : AllFolders, name : Name \cup {NoName}]
RecordRow == [status : {"none", "trashed", "purged"}, in : AllFolders]
\* An expired share is an active one whose expires_at has passed.
ShareRow == [status : {"none", "active", "expired", "revoked"}, file : File \cup {NoFile}, count : Nat]

\* The lists of files a client moves.
FileLists == {<<f>> : f \in File} \cup {fs \in [1 .. 2 -> File] : fs[1] # fs[2]}

\* The actions of a lifecycle report.
Action == {"rename", "trash", "restore", "purge"}

\* What a call in flight remembers, by operation.
CallState ==
    [op : {"idle", "root"}]
    \cup [op : {"create"}, parent : AllFolders, name : FolderName]
    \cup [op : {"move"}, files : FileLists, to : AllFolders, next : 1 .. 3]
    \cup [op : {"restore"}, locked : SUBSET File, file : File, to : AllFolders]
    \cup [op : {"purge"}, locked : SUBSET File]
    \cup [op : {"report"}, file : File, action : Action, name : Name \cup {NoName}]
    \cup [op : {"share"}, file : File]
    \cup [op : {"resolve"}, share : Share]

Begin(c, x) == call[c] = Idle /\ call' = [call EXCEPT ![c] = x]
End(c) == call' = [call EXCEPT ![c] = Idle]

-----------------------------------------------------------------------------
(***************************************************************************)
(* Locks and constraints of the database.                                   *)
(***************************************************************************)

\* The entries that a move has updated and not yet committed.
Updated(c) == IF call[c].op = "move" THEN {call[c].files[i] : i \in 1 .. call[c].next - 1} ELSE {}

RecordHeld(c, f) == call[c].op \in {"restore", "purge"} /\ f \in call[c].locked
\* pg_advisory_xact_lock of the account, which only a report holds across steps.
AccountHeld(c) == call[c].op = "report"
ShareHeld(c, s) == call[c].op = "resolve" /\ call[c].share = s

\* Another transaction holds the row of the entry, the record or the share.
EntryLocked(c, f) == \E d \in Call \ {c} : f \in Updated(d)
RecordLocked(c, f) == \E d \in Call \ {c} : RecordHeld(d, f)
ShareLocked(c, s) == \E d \in Call \ {c} : ShareHeld(d, s)

\* file_entries_folder_name_unique, on committed rows ...
EntryNameTaken(f, p, n) ==
    \E g \in File \ {f} : file[g].status = "active" /\ file[g].in = p /\ file[g].name = n

\* ... and on those of moves: the own ones conflict, those of others make the
\* statement wait for their end.
NameMoved(c, f, p, n) ==
    call[c].op = "move" /\ call[c].to = p /\ \E g \in Updated(c) \ {f} : file[g].name = n
NameAwaited(c, f, p, n) ==
    \E d \in Call \ {c} : NameMoved(d, f, p, n)

\* folders_user_parent_name_unique.
FolderNameTaken(p, n) ==
    \E q \in Folder : folder[q].status = "active" /\ folder[q].parent = p /\ folder[q].name = n

-----------------------------------------------------------------------------
(***************************************************************************)
(* Folders.                                                                 *)
(***************************************************************************)

\* SELECT EXISTS ... status = 'active'.
FolderOK(p) == folder[p].status = "active"

\* ensureRootFolder does not find the root, and goes on to create it.
EnsureRootFolder(c) ==
    /\ folder[Root].status = "none"
    /\ Begin(c, [op |-> "root"])
    /\ UNCHANGED <<folder, file, record, share, served>>

\* It does, unless another call was quicker: then the call fails.
EnsureRootFolderDB(c) ==
    /\ call[c].op = "root"
    /\ folder' = [folder EXCEPT ![Root].status = "active"]
    /\ End(c)
    /\ UNCHANGED <<file, record, share, served>>

\* RegisterVerifiedFile: a new entry in the root, which it creates if need be.
RegisterVerifiedFile(f, n) ==
    /\ file[f].status = "none"
    /\ \A c \in Call : ~AccountHeld(c)
    /\ ~EntryNameTaken(f, Root, n)
    /\ \A c \in Call : ~NameMoved(c, f, Root, n)
    /\ folder' = [folder EXCEPT ![Root].status = "active"]
    /\ file' = [file EXCEPT ![f] = [status |-> "active", in |-> Root, name |-> n]]
    /\ UNCHANGED <<record, share, served, call>>

\* CreateFolder: the parent is looked up ...
CreateFolder(c, p, n) ==
    /\ FolderOK(p)
    /\ Begin(c, [op |-> "create", parent |-> p, name |-> n])
    /\ UNCHANGED <<folder, file, record, share, served>>

\* ... and the folder inserted, or its name refused.
CreateManagedFolder(c) ==
    LET x == call[c] IN
    /\ x.op = "create"
    /\ \/ FolderNameTaken(x.parent, x.name) /\ UNCHANGED folder
       \/ /\ ~FolderNameTaken(x.parent, x.name)
          /\ \E q \in Folder :
                /\ folder[q].status = "none"
                /\ folder' = [folder EXCEPT ![q] = [status |-> "active", parent |-> x.parent, name |-> x.name]]
    /\ End(c)
    /\ UNCHANGED <<file, record, share, served>>

\* One statement; the root cannot be renamed.
RenameManagedFolder(q, n) ==
    /\ FolderOK(q)
    /\ ~FolderNameTaken(folder[q].parent, n)
    /\ folder' = [folder EXCEPT ![q].name = n]
    /\ UNCHANGED <<file, record, share, served, call>>

\* No active subfolder and no entry that is not purged.
Empty(q) ==
    /\ \A r \in Folder : ~(folder[r].status = "active" /\ folder[r].parent = q)
    /\ \A f \in File : file[f].in = q => file[f].status = "purged"

\* One statement, on what is committed.
DeleteManagedFolder(q) ==
    /\ FolderOK(q)
    /\ Empty(q)
    /\ folder' = [folder EXCEPT ![q].status = "deleted"]
    /\ UNCHANGED <<file, record, share, served, call>>

\* MoveCatalogFiles: the folder is looked up.
MoveCatalogFiles(c, fs, p) ==
    /\ FolderOK(p)
    /\ Begin(c, [op |-> "move", files |-> fs, to |-> p, next |-> 1])
    /\ UNCHANGED <<folder, file, record, share, served>>

\* Variant of MoveFiles: each file is moved in a transaction of its own.
MoveFilesSingly(c) ==
    LET x == call[c]
        f == x.files[x.next]
    IN
    /\ x.op = "move" /\ x.next <= Len(x.files)
    /\ ~EntryLocked(c, f)
    /\ IF file[f].status = "active" /\ ~EntryNameTaken(f, x.to, file[f].name)
       THEN /\ call' = [call EXCEPT ![c].next = @ + 1]
            /\ file' = [file EXCEPT ![f].in = x.to]
       ELSE End(c) /\ UNCHANGED file
    /\ UNCHANGED <<folder, record, share, served>>

\* One UPDATE of the loop.  It waits for a row that another call has locked
\* and for a name that another call may take; an entry that is not active or
\* whose name is taken rolls everything back.
MoveFiles(c) ==
    LET x == call[c]
        f == x.files[x.next]
        n == file[f].name
    IN
    /\ x.op = "move" /\ x.next <= Len(x.files)
    /\ ~EntryLocked(c, f) /\ ~NameAwaited(c, f, x.to, n)
    /\ IF file[f].status = "active" /\ ~EntryNameTaken(f, x.to, n) /\ ~NameMoved(c, f, x.to, n)
       THEN call' = [call EXCEPT ![c].next = @ + 1]
       ELSE End(c)
    /\ UNCHANGED <<folder, file, record, share, served>>

\* tx.Commit.
CommitMove(c) ==
    /\ call[c].op = "move" /\ call[c].next > Len(call[c].files)
    /\ file' = [f \in File |-> IF f \in Updated(c) THEN [file[f] EXCEPT !.in = call[c].to] ELSE file[f]]
    /\ End(c)
    /\ UNCHANGED <<folder, record, share, served>>

\* The request's context ends, the server stops, or the database breaks a
\* cycle of waiting calls: nothing is kept.
Rollback(c) ==
    /\ call[c] # Idle
    /\ End(c)
    /\ UNCHANGED <<folder, file, record, share, served>>

-----------------------------------------------------------------------------
(***************************************************************************)
(* The trash service.                                                       *)
(***************************************************************************)

\* Variant of TrashFileEntry: ON CONFLICT leaves the status of the record.
TrashFileEntryKeepStatus(f) ==
    /\ \A c \in Call : f \notin Updated(c) /\ ~RecordHeld(c, f)
    /\ file[f].status = "active"
    /\ file' = [file EXCEPT ![f].status = "trashed"]
    /\ record' = [record EXCEPT ![f] =
           [status |-> IF @.status = "none" THEN "trashed" ELSE @.status, in |-> file[f].in]]
    /\ UNCHANGED <<folder, share, served, call>>

\* The entry's row is locked, the record inserted or taken again.
TrashFileEntry(f) ==
    /\ \A c \in Call : f \notin Updated(c) /\ ~RecordHeld(c, f)
    /\ file[f].status = "active"
    /\ file' = [file EXCEPT ![f].status = "trashed"]
    /\ record' = [record EXCEPT ![f] = [status |-> "trashed", in |-> file[f].in]]
    /\ UNCHANGED <<folder, share, served, call>>

\* Variant of RestoreFileEntry: without FOR UPDATE OF tr.
RestoreFileEntryUnlocked(c, f) ==
    /\ record[f].status = "trashed"
    /\ ~EntryNameTaken(f, record[f].in, file[f].name)
    /\ Begin(c, [op |-> "restore", locked |-> {}, file |-> f, to |-> record[f].in])
    /\ UNCHANGED <<folder, file, record, share, served>>

\* Restore locks the record, and finds the name free in the original folder.
RestoreFileEntry(c, f) ==
    /\ ~RecordLocked(c, f)
    /\ record[f].status = "trashed"
    /\ ~EntryNameTaken(f, record[f].in, file[f].name)
    /\ Begin(c, [op |-> "restore", locked |-> {f}, file |-> f, to |-> record[f].in])
    /\ UNCHANGED <<folder, file, record, share, served>>

\* Variant of Restore: a status that the schema does not allow.
RestoreOtherStatus(c) ==
    LET x == call[c] IN
    /\ x.op = "restore"
    /\ file' = [file EXCEPT ![x.file].status = "active", ![x.file].in = x.to]
    /\ record' = [record EXCEPT ![x.file].status = "restored"]
    /\ End(c)
    /\ UNCHANGED <<folder, share, served>>

\* It puts the entry back and closes the record, or the name is taken after
\* all.
Restore(c) ==
    LET x == call[c]
        f == x.file
    IN
    /\ x.op = "restore"
    /\ ~EntryLocked(c, f) /\ ~NameAwaited(c, f, x.to, file[f].name)
    /\ IF EntryNameTaken(f, x.to, file[f].name) THEN UNCHANGED <<file, record>>
       ELSE /\ file' = [file EXCEPT ![f].status = "active", ![f].in = x.to]
            /\ record' = [record EXCEPT ![f].status = "purged"]
    /\ End(c)
    /\ UNCHANGED <<folder, share, served>>

\* Purge selects records whose time has come and locks them.
SelectPurge(c, fs) ==
    /\ fs # {}
    /\ \A f \in fs : record[f].status = "trashed" /\ ~RecordLocked(c, f)
    /\ Begin(c, [op |-> "purge", locked |-> fs])
    /\ UNCHANGED <<folder, file, record, share, served>>

\* It purges their entries and closes them, all or none.
Purge(c) ==
    LET fs == call[c].locked IN
    /\ call[c].op = "purge"
    /\ \A f \in fs : ~EntryLocked(c, f)
    /\ file' = [f \in File |-> IF f \in fs THEN [file[f] EXCEPT !.status = "purged"] ELSE file[f]]
    /\ record' = [f \in File |-> IF f \in fs THEN [record[f] EXCEPT !.status = "purged"] ELSE record[f]]
    /\ End(c)
    /\ UNCHANGED <<folder, share, served>>

-----------------------------------------------------------------------------
(***************************************************************************)
(* The lifecycle reports of the Agents.                                     *)
(***************************************************************************)

\* The status on which ApplyLifecycleReport goes on to make a change; on the
\* one it would lead to a report changes nothing, any other is an error.
StatusFor(action) == IF action \in {"rename", "trash"} THEN "active" ELSE "trashed"

\* Under the account's lock a report reads the entry, without locking it.
ApplyLifecycleReport(c, f, action, n) ==
    /\ \A d \in Call : ~AccountHeld(d)
    /\ (action = "rename") <=> (n \in Name)
    /\ file[f].status = StatusFor(action)
    /\ Begin(c, [op |-> "report", file |-> f, action |-> action, name |-> n])
    /\ UNCHANGED <<folder, file, record, share, served>>

\* The entry as a report leaves it: WHERE id=$1, whatever has become of it.
Reported(x, row) ==
    CASE x.action = "rename" -> [row EXCEPT !.name = x.name]
      [] x.action = "trash" -> [row EXCEPT !.status = "trashed"]
      [] x.action = "restore" -> [row EXCEPT !.status = "active"]
      [] x.action = "purge" -> [row EXCEPT !.status = "purged"]

\* Its trash record: ON CONFLICT keeps the original folder, a restore deletes
\* the record, a purge closes the one there is.
ReportedRecord(x, rec, at) ==
    CASE x.action = "rename" -> rec
      [] x.action = "trash" -> [status |-> "trashed", in |-> IF rec.status = "none" THEN at ELSE rec.in]
      [] x.action = "restore" -> [status |-> "none", in |-> Root]
      [] x.action = "purge" -> [rec EXCEPT !.status = IF @ = "none" THEN @ ELSE "purged"]

\* Its UPDATEs wait for the rows and names that others have locked; a name
\* that is taken rolls everything back.
CommitReport(c) ==
    LET x == call[c]
        f == x.file
        row == Reported(x, file[f])
    IN
    /\ x.op = "report"
    /\ ~EntryLocked(c, f)
    /\ x.action # "rename" => ~RecordLocked(c, f)
    /\ row.status = "active" => ~NameAwaited(c, f, row.in, row.name)
    /\ IF row.status = "active" /\ EntryNameTaken(f, row.in, row.name) THEN UNCHANGED <<file, record>>
       ELSE /\ file' = [file EXCEPT ![f] = row]
            /\ record' = [record EXCEPT ![f] = ReportedRecord(x, @, file[f].in)]
    /\ End(c)
    /\ UNCHANGED <<folder, share, served>>

-----------------------------------------------------------------------------
(***************************************************************************)
(* Shares.                                                                  *)
(***************************************************************************)

\* CreateShare finds an active file ...
CreateShare(c, f) ==
    /\ file[f].status = "active"
    /\ Begin(c, [op |-> "share", file |-> f])
    /\ UNCHANGED <<folder, file, record, share, served>>

\* ... and inserts the share, whatever has happened to the file.
InsertShare(c) ==
    /\ call[c].op = "share"
    /\ \E s \in Share :
          /\ share[s].status = "none"
          /\ share' = [share EXCEPT ![s] = [status |-> "active", file |-> call[c].file, count |-> 0]]
    /\ End(c)
    /\ UNCHANGED <<folder, file, record, served>>

\* The WHERE clause of ResolveShare.
Resolvable(s) ==
    /\ share[s].status = "active"
    /\ Limit = 0 \/ share[s].count < Limit

\* Variant of ResolveShare: the share is read, not updated, and so not locked.
ResolveShareUnlocked(c, s) ==
    /\ Resolvable(s)
    /\ served[s] < MaxServed
    /\ Begin(c, [op |-> "resolve", share |-> s])
    /\ UNCHANGED <<folder, file, record, share, served>>

\* ResolveShare counts one use, which locks the share ...
ResolveShare(c, s) ==
    /\ ~ShareLocked(c, s)
    /\ Resolvable(s)
    /\ served[s] < MaxServed
    /\ Begin(c, [op |-> "resolve", share |-> s])
    /\ UNCHANGED <<folder, file, record, share, served>>

\* ... reads the file, and commits if it can be downloaded.
CommitResolve(c) ==
    LET s == call[c].share IN
    /\ call[c].op = "resolve"
    /\ IF file[share[s].file].status = "active"
       THEN /\ share' = [share EXCEPT ![s].count = @ + 1]
            /\ served' = [served EXCEPT ![s] = @ + 1]
       ELSE UNCHANGED <<share, served>>
    /\ End(c)
    /\ UNCHANGED <<folder, file, record>>

\* Variant of RevokeShare: it does not wait for the lock.
RevokeShareAtOnce(s) ==
    /\ share[s].status \in {"active", "expired"}
    /\ share' = [share EXCEPT ![s].status = "revoked"]
    /\ UNCHANGED <<folder, file, record, served, call>>

RevokeShare(s) ==
    /\ share[s].status \in {"active", "expired"}
    /\ \A c \in Call : ~ShareHeld(c, s)
    /\ share' = [share EXCEPT ![s].status = "revoked"]
    /\ UNCHANGED <<folder, file, record, served, call>>

ShareExpires(s) ==
    /\ share[s].status = "active"
    /\ share' = [share EXCEPT ![s].status = "expired"]
    /\ UNCHANGED <<folder, file, record, served, call>>

-----------------------------------------------------------------------------
Init ==
    /\ folder = [p \in AllFolders |-> [status |-> "none", parent |-> NoFolder, name |-> NoName]]
    /\ file = [f \in File |-> [status |-> "none", in |-> Root, name |-> NoName]]
    /\ record = [f \in File |-> [status |-> "none", in |-> Root]]
    /\ share = [s \in Share |-> [status |-> "none", file |-> NoFile, count |-> 0]]
    /\ served = [s \in Share |-> 0]
    /\ call = [c \in Call |-> Idle]

\* A statement that takes effect at once.
Statement ==
    \/ \E f \in File : TrashFileEntry(f) \/ \E n \in Name : RegisterVerifiedFile(f, n)
    \/ \E q \in Folder : DeleteManagedFolder(q) \/ \E n \in FolderName : RenameManagedFolder(q, n)
    \/ \E s \in Share : RevokeShare(s) \/ ShareExpires(s)

\* A call arrives.
Arrive(c) ==
    \/ EnsureRootFolder(c)
    \/ \E p \in AllFolders : \/ \E n \in FolderName : CreateFolder(c, p, n)
                             \/ \E fs \in FileLists : MoveCatalogFiles(c, fs, p)
    \/ \E f \in File : RestoreFileEntry(c, f) \/ CreateShare(c, f)
    \/ \E fs \in SUBSET File : SelectPurge(c, fs)
    \/ \E f \in File, action \in Action, n \in Name \cup {NoName} : ApplyLifecycleReport(c, f, action, n)
    \/ \E s \in Share : ResolveShare(c, s)

\* A call goes on.
Continue(c) ==
    \/ EnsureRootFolderDB(c) \/ CreateManagedFolder(c) \/ MoveFiles(c) \/ CommitMove(c)
    \/ Restore(c) \/ Purge(c) \/ CommitReport(c) \/ InsertShare(c) \/ CommitResolve(c)
    \/ Rollback(c)

Next == Statement \/ \E c \in Call : Arrive(c) \/ Continue(c)

Spec == Init /\ [][Next]_vars

-----------------------------------------------------------------------------
(***************************************************************************)
(* Properties.                                                              *)
(***************************************************************************)

\* Type invariant of the library and of the calls in flight.
TypeOK ==
    /\ folder \in [AllFolders -> FolderRow]
    /\ file \in [File -> FileRow]
    /\ record \in [File -> RecordRow]
    /\ share \in [Share -> ShareRow]
    /\ served \in [Share -> 0 .. MaxServed]
    /\ call \in [Call -> CallState]

\* Concurrent resolutions of a share never answer more often than its
\* max_downloads: the UPDATE of ResolveShare both tests and locks.
ServedWithinLimit == Limit # 0 => \A s \in Share : served[s] <= Limit

\* Once RevokeShare has returned, no resolution that is under way succeeds.
RevokedServesNothing ==
    [][\A s \in Share : share[s].status = "revoked" => served'[s] = served[s]]_<<share, served>>

\* What a user is promised: a purged file stays purged, and a file is purged
\* from the trash only.
LegalChange(old, new) ==
    /\ old = "purged" => new = "purged"
    /\ old = "active" => new \in {"active", "trashed"}

\* Restore and Purge take a record one at a time and reports come one at a
\* time: a file comes back after it was purged, or is purged after it was
\* restored, only where a report writes on the strength of a status that has
\* changed since ApplyLifecycleReport read it.
LegalLifecycle ==
    [][\A f \in File :
          \/ LegalChange(file[f].status, file'[f].status)
          \/ \E c \in Call : /\ call[c].op = "report" /\ call[c].file = f /\ call'[c] = Idle
                             /\ file[f].status # StatusFor(call[c].action)]_file

\* ErrInvalidState, "catalog file state does not allow this operation": the
\* same without the exception.  It does not hold beside the trash service,
\* which does not take the account's lock.
LifecycleAlwaysLegal == [][\A f \in File : LegalChange(file[f].status, file'[f].status)]_file

\* An entry is in the trash exactly when it has an open trash record, however
\* often it was restored: what is trashed can be restored and is purged.
TrashHasRecord ==
    \A f \in File : file[f].status = "trashed" <=> record[f].status = "trashed"

\* A move of several files moves all of them or none, whatever else runs.
\* Otherwise only Restore puts an entry into a folder, the one its record
\* names.
MovesWhole ==
    [][\A f \in File : (file[f].status # "none" /\ file'[f].in # file[f].in) =>
          \/ \E c \in Call : /\ call[c].op = "move"
                             /\ \A i \in DOMAIN call[c].files : file'[call[c].files[i]].in = call[c].to
          \/ file[f].status = "trashed" /\ file'[f].status = "active" /\ file'[f].in = record[f].in]_file

\* "Restore restores a trashed file entry back to its original folder": the
\* folder it was trashed in.  Not when ApplyLifecycleReport trashed it again,
\* whose ON CONFLICT keeps the folder of the first time.
RestoreGoesBack ==
    [][\A f \in File : (file[f].status = "trashed" /\ file'[f].status = "active") => file'[f].in = file[f].in]_file

\* "Delete an empty folder" (folder not empty is an error): no file and no
\* folder is left behind in a deleted one.  It can be: the folder that a move
\* or a new folder was checked against may be deleted before they commit.
OnlyEmptyFoldersGo ==
    /\ \A f \in File : file[f].status \in {"active", "trashed"} => folder[file[f].in].status = "active"
    /\ \A q \in Folder : folder[q].status = "active" => folder[folder[q].parent].status = "active"
================================================================================
