---------------------------- MODULE LibraryProofs ----------------------------
(***************************************************************************)
(* Proofs about Library for every number of calls, folders, files, names    *)
(* and shares and every limit.                                              *)
(***************************************************************************)
EXTENDS Library, TLAPS

(***************************************************************************)
(* The inductive invariant.                                                 *)
(***************************************************************************)

\* The two parts of the type invariant: the tables and the calls in flight.
Tables ==
    /\ folder \in [AllFolders -> FolderRow]
    /\ file \in [File -> FileRow]
    /\ record \in [File -> RecordRow]
    /\ share \in [Share -> ShareRow]
    /\ served \in [Share -> 0 .. MaxServed]

CallsTyped == call \in [Call -> CallState]

\* A share is being resolved by one call at most; until that call ends it can
\* be neither revoked nor used up.  What was served was counted.
Resolving ==
    /\ \A c, d \in Call : \A s \in Share : ShareHeld(c, s) /\ ShareHeld(d, s) => c = d
    /\ \A c \in Call : \A s \in Share : ShareHeld(c, s) =>
          /\ share[s].status \in {"active", "expired"}
          /\ Limit = 0 \/ share[s].count < Limit
          /\ served[s] < MaxServed
    /\ \A s \in Share : served[s] = share[s].count
    /\ \A s \in Share : Limit # 0 => share[s].count <= Limit
    /\ \A s \in Share : share[s].status = "none" => share[s].count = 0

\* A record is held by one call at most and stays open until that call ends;
\* the call that restores it knows the folder that it names.
Records ==
    /\ TrashHasRecord
    /\ \A c, d \in Call : \A f \in File : RecordHeld(c, f) /\ RecordHeld(d, f) => c = d
    /\ \A c \in Call : \A f \in File : RecordHeld(c, f) => record[f].status = "trashed"
    /\ \A c \in Call : call[c].op = "restore" =>
          call[c].locked = {call[c].file} /\ call[c].to = record[call[c].file].in

\* The entries a move has updated stay active until it ends, and it has not
\* gone past the end of its list.
Moves ==
    \A c \in Call : call[c].op = "move" =>
        /\ call[c].next <= Len(call[c].files) + 1
        /\ \A f \in Updated(c) : file[f].status = "active"

Inv == Tables /\ CallsTyped /\ Resolving /\ Records /\ Moves

-----------------------------------------------------------------------------
(***************************************************************************)
(* What the calls remember.                                                 *)
(***************************************************************************)

\* The fields of a call, by operation.
LEMMA CallFields ==
    ASSUME NEW x \in CallState
    PROVE  /\ x.op = "create" => x.parent \in AllFolders /\ x.name \in FolderName
           /\ x.op = "report" => x.file \in File /\ x.action \in Action /\ x.name \in Name \cup {NoName}
           /\ x.op = "move" => x \in [op : {"move"}, files : FileLists, to : AllFolders, next : 1 .. 3]
           /\ x.op = "restore" => x.locked \in SUBSET File /\ x.file \in File /\ x.to \in AllFolders
           /\ x.op = "purge" => x.locked \in SUBSET File
           /\ x.op = "share" => x.file \in File
           /\ x.op = "resolve" => x.share \in Share
           /\ x.op = "idle" => x = Idle
  BY DEF CallState, Idle

\* A list of files is a sequence of one or two of them.
LEMMA ListFacts ==
    ASSUME NEW fs \in FileLists
    PROVE  /\ Len(fs) \in 1 .. 2
           /\ DOMAIN fs = 1 .. Len(fs)
           /\ \A i \in 1 .. Len(fs) : fs[i] \in File
  <1>1. CASE \E f \in File : fs = <<f>>
    BY <1>1
  <1>2. CASE fs \in [1 .. 2 -> File]
    <2>1. PICK n \in Nat : n = 2
      OBVIOUS
    <2>2. fs \in [1 .. n -> File]
      BY <1>2, <2>1
    <2>3. fs \in Seq(File) /\ Len(fs) = n
      BY <2>2
    <2> QED
      BY <2>1, <2>2, <2>3
  <1> QED
    BY <1>1, <1>2 DEF FileLists

\* The entries that a move has updated, with what it remembers.
LEMMA MoveFacts ==
    ASSUME Inv, NEW c \in Call, call[c].op = "move"
    PROVE  /\ call[c].files \in FileLists
           /\ call[c].to \in AllFolders
           /\ call[c].next \in 1 .. 3
           /\ call[c].next <= Len(call[c].files) + 1
           /\ Updated(c) = {call[c].files[i] : i \in 1 .. call[c].next - 1}
           /\ Updated(c) \subseteq File
           /\ \A i \in 1 .. Len(call[c].files) : call[c].files[i] \in File
  <1>1. call[c] \in CallState
    BY DEF Inv, CallsTyped
  <1>2. call[c].files \in FileLists /\ call[c].to \in AllFolders /\ call[c].next \in 1 .. 3
    BY <1>1, CallFields
  <1>3. call[c].next <= Len(call[c].files) + 1
    BY DEF Inv, Moves
  <1>4. Len(call[c].files) \in 1 .. 2 /\ \A i \in 1 .. Len(call[c].files) : call[c].files[i] \in File
    BY <1>2, ListFacts
  <1>5. Updated(c) = {call[c].files[i] : i \in 1 .. call[c].next - 1}
    BY DEF Updated
  <1>6. Updated(c) \subseteq File
    BY <1>2, <1>3, <1>4, <1>5
  <1> QED
    BY <1>2, <1>3, <1>4, <1>5, <1>6

\* A call that ends releases its locks, and no other call changes.
LEMMA EndFacts ==
    ASSUME Inv, NEW c \in Call, End(c)
    PROVE  /\ CallsTyped'
           /\ \A d \in Call \ {c} : call'[d] = call[d]
           /\ call'[c] = Idle
           /\ \A d \in Call : Updated(d)' = IF d = c THEN {} ELSE Updated(d)
           /\ \A d \in Call : \A s \in Share : ShareHeld(d, s)' => d # c /\ ShareHeld(d, s)
           /\ \A d \in Call : \A f \in File : RecordHeld(d, f)' => d # c /\ RecordHeld(d, f)
  <1>1. Idle \in CallState /\ Idle.op = "idle"
    BY DEF Idle, CallState
  <1>2. call' \in [Call -> CallState] /\ call'[c] = Idle /\ \A d \in Call \ {c} : call'[d] = call[d]
    BY <1>1 DEF End, Inv, CallsTyped
  <1>3. \A d \in Call : Updated(d)' = IF d = c THEN {} ELSE Updated(d)
    BY <1>1, <1>2 DEF Updated
  <1>4. \A d \in Call : \A s \in Share : ShareHeld(d, s)' => d # c /\ ShareHeld(d, s)
    BY <1>1, <1>2 DEF ShareHeld
  <1>5. \A d \in Call : \A f \in File : RecordHeld(d, f)' => d # c /\ RecordHeld(d, f)
    BY <1>1, <1>2 DEF RecordHeld
  <1> QED
    BY <1>2, <1>3, <1>4, <1>5 DEF CallsTyped

\* What the invariant says of each call survives when the call is unchanged
\* or over.
LEMMA OthersKept ==
    ASSUME Inv, NEW c, call' = call \/ (c \in Call /\ End(c))
    PROVE  /\ CallsTyped'
           /\ \A d \in Call : call'[d] = call[d] \/ call'[d] = Idle
           /\ \A d \in Call : Updated(d)' \subseteq Updated(d)
           /\ \A d \in Call : \A s \in Share : ShareHeld(d, s)' => ShareHeld(d, s)
           /\ \A d \in Call : \A f \in File : RecordHeld(d, f)' => RecordHeld(d, f)
           /\ \A d, e \in Call : \A s \in Share : ShareHeld(d, s)' /\ ShareHeld(e, s)' => d = e
           /\ \A d, e \in Call : \A f \in File : RecordHeld(d, f)' /\ RecordHeld(e, f)' => d = e
  <1>1. CASE call' = call
    BY <1>1 DEF Inv, CallsTyped, Updated, ShareHeld, RecordHeld, Resolving, Records
  <1>2. CASE c \in Call /\ End(c)
    <2>1. /\ CallsTyped'
          /\ \A d \in Call \ {c} : call'[d] = call[d]
          /\ call'[c] = Idle
          /\ \A d \in Call : Updated(d)' = IF d = c THEN {} ELSE Updated(d)
          /\ \A d \in Call : \A s \in Share : ShareHeld(d, s)' => d # c /\ ShareHeld(d, s)
          /\ \A d \in Call : \A f \in File : RecordHeld(d, f)' => d # c /\ RecordHeld(d, f)
      BY <1>2, EndFacts
    <2> QED
      BY <2>1 DEF Inv, Resolving, Records
  <1> QED
    BY <1>1, <1>2

\* A step that leaves shares alone and starts no resolution keeps Resolving.
LEMMA ResolvingKept ==
    ASSUME Inv, share' = share, served' = served,
           \A d \in Call : \A s \in Share : ShareHeld(d, s)' => ShareHeld(d, s)
    PROVE  Resolving'
  BY DEF Inv, Resolving

\* A step that leaves entries and records alone and takes no record keeps
\* Records.
LEMMA RecordsKept ==
    ASSUME Inv, file' = file, record' = record,
           \A d \in Call : \A f \in File : RecordHeld(d, f)' => RecordHeld(d, f),
           \A d \in Call : call'[d] = call[d] \/ call'[d].op # "restore"
    PROVE  Records'
  BY DEF Inv, Records, TrashHasRecord

\* A step that moves on no move and leaves the entries under way active
\* keeps Moves.
LEMMA MovesKept ==
    ASSUME Inv, \A d \in Call : call'[d] = call[d] \/ call'[d].op # "move",
           \A d \in Call : \A f \in Updated(d) : file'[f].status = "active"
    PROVE  Moves'
  <1> SUFFICES ASSUME NEW d \in Call, call'[d].op = "move"
               PROVE  /\ call'[d].next <= Len(call'[d].files) + 1
                      /\ \A f \in Updated(d)' : file'[f].status = "active"
    BY DEF Moves
  <1>1. call'[d] = call[d]
    OBVIOUS
  <1>2. Updated(d)' = Updated(d)
    BY <1>1 DEF Updated
  <1> QED
    BY <1>1, <1>2 DEF Inv, Moves

-----------------------------------------------------------------------------
(***************************************************************************)
(* Every action keeps the invariant.                                        *)
(***************************************************************************)

\* A new call changes no other.
LEMMA BeginFacts ==
    ASSUME Inv, NEW c \in Call, NEW x \in CallState, Begin(c, x)
    PROVE  /\ CallsTyped'
           /\ call[c] = Idle
           /\ call'[c] = x
           /\ \A d \in Call \ {c} : call'[d] = call[d]
  BY DEF Inv, CallsTyped, Begin

\* A call that arrives without taking a lock and is no move.
LEMMA PlainArrival ==
    ASSUME Inv, NEW c \in Call, NEW x \in CallState, Begin(c, x),
           x.op \notin {"move", "restore", "purge", "resolve"},
           UNCHANGED <<folder, file, record, share, served>>
    PROVE  Inv'
  <1>1. /\ CallsTyped' /\ call'[c] = x /\ \A d \in Call \ {c} : call'[d] = call[d]
    BY BeginFacts
  <1>2. /\ \A d \in Call : \A s \in Share : ShareHeld(d, s)' => ShareHeld(d, s)
        /\ \A d \in Call : \A f \in File : RecordHeld(d, f)' => RecordHeld(d, f)
        /\ \A d \in Call : call'[d] = call[d] \/ call'[d].op \notin {"restore", "move"}
    BY <1>1 DEF ShareHeld, RecordHeld
  <1>3. \A d \in Call : \A f \in Updated(d) : file'[f].status = "active"
    BY DEF Inv, Moves, Updated
  <1>4. Tables'
    BY DEF Inv, Tables
  <1> QED
    BY <1>1, <1>2, <1>3, <1>4, ResolvingKept, RecordsKept, MovesKept DEF Inv

\* The entries under way are active.
LEMMA UnderWay ==
    ASSUME Inv, NEW d \in Call, NEW f \in Updated(d)
    PROVE  file[f].status = "active" /\ f \in File /\ call[d].op = "move"
  <1>1. call[d].op = "move"
    BY DEF Updated
  <1> QED
    BY <1>1, MoveFacts DEF Inv, Moves

\* A call arrives.
LEMMA ArriveKeepsInv ==
    ASSUME Inv, NEW c \in Call, Arrive(c)
    PROVE  Inv'
  <1>0. UNCHANGED <<folder, file, record, share, served>> /\ Tables'
    <2>1. UNCHANGED <<folder, file, record, share, served>>
      BY DEF Arrive, EnsureRootFolder, CreateFolder, MoveCatalogFiles, RestoreFileEntry, CreateShare,
             SelectPurge, ResolveShare, ApplyLifecycleReport
    <2> QED
      BY <2>1 DEF Inv, Tables
  <1>1. \A d \in Call : \A f \in Updated(d) : file'[f].status = "active"
    BY <1>0, UnderWay
  <1>2. CASE EnsureRootFolder(c)
    <2> DEFINE x == [op |-> "root"]
    <2>1. x \in CallState /\ x.op = "root" /\ Begin(c, x)
      BY <1>2 DEF CallState, EnsureRootFolder
    <2> HIDE DEF x
    <2> QED
      BY <1>0, <2>1, PlainArrival
  <1>3. ASSUME NEW p \in AllFolders, NEW n \in FolderName, CreateFolder(c, p, n) PROVE Inv'
    <2> DEFINE x == [op |-> "create", parent |-> p, name |-> n]
    <2>1. x \in CallState /\ x.op = "create" /\ Begin(c, x)
      BY <1>3 DEF CallState, CreateFolder
    <2> HIDE DEF x
    <2> QED
      BY <1>0, <2>1, PlainArrival
  <1>4. ASSUME NEW f \in File, CreateShare(c, f) PROVE Inv'
    <2> DEFINE x == [op |-> "share", file |-> f]
    <2>1. x \in CallState /\ x.op = "share" /\ Begin(c, x)
      BY <1>4 DEF CallState, CreateShare
    <2> HIDE DEF x
    <2> QED
      BY <1>0, <2>1, PlainArrival
  <1>5. ASSUME NEW p \in AllFolders, NEW fs \in FileLists, MoveCatalogFiles(c, fs, p) PROVE Inv'
    <2> DEFINE x == [op |-> "move", files |-> fs, to |-> p, next |-> 1]
    <2>1. x \in CallState /\ x.op = "move" /\ x.files = fs /\ x.next = 1 /\ Begin(c, x)
      BY <1>5 DEF CallState, MoveCatalogFiles
    <2> HIDE DEF x
    <2>2. /\ CallsTyped' /\ call'[c] = x /\ \A d \in Call \ {c} : call'[d] = call[d]
      BY <2>1, BeginFacts
    <2>3. /\ \A d \in Call : \A s \in Share : ShareHeld(d, s)' => ShareHeld(d, s)
          /\ \A d \in Call : \A f \in File : RecordHeld(d, f)' => RecordHeld(d, f)
          /\ \A d \in Call : call'[d] = call[d] \/ call'[d].op # "restore"
      BY <2>1, <2>2 DEF ShareHeld, RecordHeld
    <2>4. Moves'
      <3> SUFFICES ASSUME NEW d \in Call, call'[d].op = "move"
                   PROVE  /\ call'[d].next <= Len(call'[d].files) + 1
                          /\ \A f \in Updated(d)' : file'[f].status = "active"
        BY DEF Moves
      <3>1. CASE d = c
        <4>1. Updated(d)' = {}
          BY <2>1, <2>2, <3>1 DEF Updated
        <4>2. Len(fs) \in 1 .. 2
          BY ListFacts
        <4> QED
          BY <2>1, <2>2, <3>1, <4>1, <4>2
      <3>2. CASE d # c
        <4>1. call'[d] = call[d] /\ Updated(d)' = Updated(d)
          BY <2>2, <3>2 DEF Updated
        <4> QED
          BY <1>1, <4>1 DEF Inv, Moves
      <3> QED
        BY <3>1, <3>2
    <2> QED
      BY <1>0, <2>2, <2>3, <2>4, ResolvingKept, RecordsKept DEF Inv
  <1>6. ASSUME NEW f \in File, RestoreFileEntry(c, f) PROVE Inv'
    <2> DEFINE x == [op |-> "restore", locked |-> {f}, file |-> f, to |-> record[f].in]
    <2>0. record[f].in \in AllFolders /\ record[f].status = "trashed" /\ ~RecordLocked(c, f)
      BY <1>6 DEF Inv, Tables, RecordRow, RestoreFileEntry, Records
    <2>1. x \in CallState /\ x.op = "restore" /\ x.locked = {f} /\ x.file = f /\ x.to = record[f].in /\ Begin(c, x)
      BY <1>6, <2>0 DEF CallState, RestoreFileEntry
    <2> HIDE DEF x
    <2>2. /\ CallsTyped' /\ call'[c] = x /\ \A d \in Call \ {c} : call'[d] = call[d]
      BY <2>1, BeginFacts
    <2>3. /\ \A d \in Call : \A s \in Share : ShareHeld(d, s)' => ShareHeld(d, s)
          /\ \A d \in Call : call'[d] = call[d] \/ call'[d].op # "move"
      BY <2>1, <2>2 DEF ShareHeld
    <2>4. \A d \in Call : \A g \in File : RecordHeld(d, g)' => (RecordHeld(d, g) /\ d # c) \/ (d = c /\ g = f)
      BY <2>1, <2>2 DEF RecordHeld
    <2>5. \A d \in Call \ {c} : ~RecordHeld(d, f)
      BY <2>0 DEF RecordLocked
    <2>6. \A d \in Call : call'[d].op = "restore" =>
              call'[d].locked = {call'[d].file} /\ call'[d].to = record'[call'[d].file].in
      BY <1>0, <2>0, <2>1, <2>2 DEF Inv, Records
    <2>7. Records'
      BY <1>0, <2>0, <2>4, <2>5, <2>6 DEF Inv, Records, TrashHasRecord
    <2> QED
      BY <1>0, <1>1, <2>2, <2>3, <2>7, ResolvingKept, MovesKept DEF Inv
  <1>7. ASSUME NEW fs \in SUBSET File, SelectPurge(c, fs) PROVE Inv'
    <2> DEFINE x == [op |-> "purge", locked |-> fs]
    <2>0. \A f \in fs : record[f].status = "trashed" /\ ~RecordLocked(c, f)
      BY <1>7 DEF SelectPurge
    <2>1. x \in CallState /\ x.op = "purge" /\ x.locked = fs /\ Begin(c, x)
      BY <1>7 DEF CallState, SelectPurge
    <2> HIDE DEF x
    <2>2. /\ CallsTyped' /\ call'[c] = x /\ \A d \in Call \ {c} : call'[d] = call[d]
      BY <2>1, BeginFacts
    <2>3. /\ \A d \in Call : \A s \in Share : ShareHeld(d, s)' => ShareHeld(d, s)
          /\ \A d \in Call : call'[d] = call[d] \/ call'[d].op # "move"
          /\ \A d \in Call : call'[d] = call[d] \/ call'[d].op # "restore"
      BY <2>1, <2>2 DEF ShareHeld
    <2>4. \A d \in Call : \A g \in File : RecordHeld(d, g)' => (RecordHeld(d, g) /\ d # c) \/ (d = c /\ g \in fs)
      BY <2>1, <2>2 DEF RecordHeld
    <2>5. \A d \in Call \ {c} : \A g \in fs : ~RecordHeld(d, g)
      BY <2>0 DEF RecordLocked
    <2>6. \A d \in Call : call'[d].op = "restore" =>
              call'[d].locked = {call'[d].file} /\ call'[d].to = record'[call'[d].file].in
      BY <1>0, <2>3 DEF Inv, Records
    <2>7. Records'
      BY <1>0, <2>0, <2>4, <2>5, <2>6 DEF Inv, Records, TrashHasRecord
    <2> QED
      BY <1>0, <1>1, <2>2, <2>3, <2>7, ResolvingKept, MovesKept DEF Inv
  <1>8. ASSUME NEW s \in Share, ResolveShare(c, s) PROVE Inv'
    <2> DEFINE x == [op |-> "resolve", share |-> s]
    <2>1. x \in CallState /\ x.op = "resolve" /\ x.share = s /\ Begin(c, x)
      BY <1>8 DEF CallState, ResolveShare
    <2> HIDE DEF x
    <2>2. /\ CallsTyped' /\ call'[c] = x /\ \A d \in Call \ {c} : call'[d] = call[d]
      BY <2>1, BeginFacts
    <2>3. /\ \A d \in Call : \A f \in File : RecordHeld(d, f)' => RecordHeld(d, f)
          /\ \A d \in Call : call'[d] = call[d] \/ call'[d].op # "move"
          /\ \A d \in Call : call'[d] = call[d] \/ call'[d].op # "restore"
      BY <2>1, <2>2 DEF RecordHeld
    <2>4. \A d \in Call : \A t \in Share : ShareHeld(d, t)' => (ShareHeld(d, t) /\ d # c) \/ (d = c /\ t = s)
      BY <2>1, <2>2 DEF ShareHeld
    <2>5. \A d \in Call \ {c} : ~ShareHeld(d, s)
      BY <1>8 DEF ResolveShare, ShareLocked
    <2>6. share[s].status = "active" /\ (Limit = 0 \/ share[s].count < Limit) /\ served[s] < MaxServed
      BY <1>8 DEF ResolveShare, Resolvable
    <2>7. Resolving'
      BY <1>0, <2>4, <2>5, <2>6 DEF Inv, Resolving
    <2> QED
      BY <1>0, <1>1, <2>2, <2>3, <2>7, RecordsKept, MovesKept DEF Inv
  <1>9. ASSUME NEW f \in File, NEW action \in Action, NEW n \in Name \cup {NoName},
               ApplyLifecycleReport(c, f, action, n)
        PROVE  Inv'
    <2> DEFINE x == [op |-> "report", file |-> f, action |-> action, name |-> n]
    <2>1. x \in CallState /\ x.op = "report" /\ Begin(c, x)
      BY <1>9 DEF CallState, ApplyLifecycleReport
    <2> HIDE DEF x
    <2> QED
      BY <1>0, <2>1, PlainArrival
  <1> QED
    BY <1>2, <1>3, <1>4, <1>5, <1>6, <1>7, <1>8, <1>9 DEF Arrive

\* A statement that takes effect at once: no call changes.
LEMMA StatementKeepsInv ==
    ASSUME Inv, Statement
    PROVE  Inv'
  <1>0. call' = call
    BY DEF Statement, TrashFileEntry, RegisterVerifiedFile, DeleteManagedFolder, RenameManagedFolder,
           RevokeShare, ShareExpires
  <1>1. /\ CallsTyped'
        /\ \A d \in Call : call'[d] = call[d]
        /\ \A d \in Call : Updated(d)' = Updated(d)
        /\ \A d \in Call : \A s \in Share : ShareHeld(d, s)' <=> ShareHeld(d, s)
        /\ \A d \in Call : \A f \in File : RecordHeld(d, f)' <=> RecordHeld(d, f)
    BY <1>0 DEF Inv, CallsTyped, Updated, ShareHeld, RecordHeld
  <1>2. ASSUME NEW f \in File, TrashFileEntry(f) PROVE Inv'
    <2>1. /\ UNCHANGED <<folder, share, served>> /\ file[f].status = "active"
          /\ file' = [file EXCEPT ![f].status = "trashed"]
          /\ record' = [record EXCEPT ![f] = [status |-> "trashed", in |-> file[f].in]]
          /\ \A c \in Call : f \notin Updated(c) /\ ~RecordHeld(c, f)
      BY <1>2 DEF TrashFileEntry
    <2>2. file[f] \in FileRow /\ file \in [File -> FileRow] /\ record \in [File -> RecordRow]
      BY DEF Inv, Tables
    <2>3. /\ file' \in [File -> FileRow] /\ record' \in [File -> RecordRow]
          /\ file'[f].status = "trashed" /\ file'[f].in = file[f].in
          /\ record'[f].status = "trashed" /\ record'[f].in = file[f].in
          /\ \A g \in File \ {f} : file'[g] = file[g] /\ record'[g] = record[g]
      BY <2>1, <2>2 DEF FileRow, RecordRow
    <2>4. Tables'
      BY <2>1, <2>3 DEF Inv, Tables
    <2>5. Records'
      <3>1. TrashHasRecord'
        BY <2>3 DEF Inv, Records, TrashHasRecord
      <3>2. ASSUME NEW d \in Call, call[d].op = "restore"
            PROVE  call[d].locked = {call[d].file} /\ call[d].to = record'[call[d].file].in
        <4>1. call[d].file \in File /\ RecordHeld(d, call[d].file)
          BY <3>2, CallFields DEF Inv, CallsTyped, Records, RecordHeld
        <4> QED
          BY <2>1, <2>3, <3>2, <4>1 DEF Inv, Records
      <3> QED
        BY <1>0, <1>1, <2>1, <2>3, <3>1, <3>2 DEF Inv, Records
    <2>6. Resolving'
      BY <1>1, <2>1, ResolvingKept
    <2>7. \A d \in Call : \A g \in Updated(d) : file'[g].status = "active"
      BY <2>1, <2>3, UnderWay
    <2> QED
      BY <1>1, <2>4, <2>5, <2>6, <2>7, MovesKept DEF Inv
  <1>3. ASSUME NEW f \in File, NEW n \in Name, RegisterVerifiedFile(f, n) PROVE Inv'
    <2>1. /\ UNCHANGED <<record, share, served>> /\ file[f].status = "none"
          /\ file' = [file EXCEPT ![f] = [status |-> "active", in |-> Root, name |-> n]]
          /\ folder' = [folder EXCEPT ![Root].status = "active"]
      BY <1>3 DEF RegisterVerifiedFile
    <2>2. folder[Root] \in FolderRow /\ Root \in AllFolders
          /\ file \in [File -> FileRow] /\ folder \in [AllFolders -> FolderRow]
      BY DEF Inv, Tables, AllFolders
    <2>3. /\ file' \in [File -> FileRow] /\ file'[f].status = "active"
          /\ \A g \in File \ {f} : file'[g] = file[g]
      BY <2>1, <2>2 DEF FileRow
    <2>4. folder' \in [AllFolders -> FolderRow]
      BY <2>1, <2>2 DEF FolderRow
    <2>5. Tables'
      BY <2>1, <2>3, <2>4 DEF Inv, Tables
    <2>6. record[f].status # "trashed"
      BY <2>1 DEF Inv, Records, TrashHasRecord
    <2>7. Records'
      <3>1. TrashHasRecord'
        BY <2>1, <2>3, <2>6 DEF Inv, Records, TrashHasRecord
      <3>2. ASSUME NEW d \in Call, call[d].op = "restore"
            PROVE  call[d].locked = {call[d].file} /\ call[d].to = record'[call[d].file].in
        BY <2>1, <3>2 DEF Inv, Records
      <3> QED
        BY <1>0, <1>1, <2>1, <2>3, <2>6, <3>1, <3>2 DEF Inv, Records
    <2>8. Resolving'
      BY <1>1, <2>1, ResolvingKept
    <2>9. \A d \in Call : \A g \in Updated(d) : file'[g].status = "active"
      BY <2>1, <2>3, UnderWay
    <2> QED
      BY <1>1, <2>5, <2>7, <2>8, <2>9, MovesKept DEF Inv
  <1>4. ASSUME UNCHANGED <<file, record, share, served>>, folder' \in [AllFolders -> FolderRow] PROVE Inv'
    <2>1. Tables'
      BY <1>4 DEF Inv, Tables
    <2>2. \A d \in Call : \A g \in Updated(d) : file'[g].status = "active"
      BY <1>4, UnderWay
    <2> QED
      BY <1>1, <1>4, <2>1, <2>2, ResolvingKept, RecordsKept, MovesKept DEF Inv
  <1>5. ASSUME NEW q \in Folder, NEW n \in FolderName, RenameManagedFolder(q, n) PROVE Inv'
    <2>1. folder[q] \in FolderRow /\ q \in AllFolders /\ folder \in [AllFolders -> FolderRow]
      BY DEF Inv, Tables, AllFolders
    <2>2. folder' \in [AllFolders -> FolderRow]
      BY <1>5, <2>1 DEF FolderRow, RenameManagedFolder
    <2> QED
      BY <1>4, <1>5, <2>2 DEF RenameManagedFolder
  <1>6. ASSUME NEW q \in Folder, DeleteManagedFolder(q) PROVE Inv'
    <2>1. folder[q] \in FolderRow /\ q \in AllFolders /\ folder \in [AllFolders -> FolderRow]
      BY DEF Inv, Tables, AllFolders
    <2>2. folder' \in [AllFolders -> FolderRow]
      BY <1>6, <2>1 DEF FolderRow, DeleteManagedFolder
    <2> QED
      BY <1>4, <1>6, <2>2 DEF DeleteManagedFolder
  <1>7. ASSUME NEW s \in Share, RevokeShare(s) \/ ShareExpires(s) PROVE Inv'
    <2>1. UNCHANGED <<folder, file, record, served>> /\ share[s] \in ShareRow /\ share \in [Share -> ShareRow]
      BY <1>7 DEF RevokeShare, ShareExpires, Inv, Tables
    <2>2. /\ share' \in [Share -> ShareRow] /\ share'[s].count = share[s].count
          /\ share'[s].status # "none"
          /\ \A t \in Share \ {s} : share'[t] = share[t]
      <3>1. CASE RevokeShare(s)
        BY <2>1, <3>1 DEF RevokeShare, ShareRow
      <3>2. CASE ShareExpires(s)
        BY <2>1, <3>2 DEF ShareExpires, ShareRow
      <3> QED
        BY <1>7, <3>1, <3>2
    <2>3. share'[s].status \in {"active", "expired"} \/ \A c \in Call : ~ShareHeld(c, s)
      <3>1. CASE RevokeShare(s)
        BY <3>1 DEF RevokeShare
      <3>2. CASE ShareExpires(s)
        BY <2>1, <3>2 DEF ShareExpires, ShareRow
      <3> QED
        BY <1>7, <3>1, <3>2
    <2>4. Tables'
      BY <2>1, <2>2 DEF Inv, Tables
    <2>5. Resolving'
      BY <1>1, <2>1, <2>2, <2>3 DEF Inv, Resolving
    <2>6. \A d \in Call : \A g \in Updated(d) : file'[g].status = "active"
      BY <2>1, UnderWay
    <2> QED
      BY <1>1, <2>1, <2>4, <2>5, <2>6, RecordsKept, MovesKept DEF Inv
  <1> QED
    BY <1>2, <1>3, <1>5, <1>6, <1>7 DEF Statement

\* A call ends and changes neither entries nor records nor shares.
LEMMA QuietEnd ==
    ASSUME Inv, NEW c \in Call, End(c), UNCHANGED <<file, record, share, served>>,
           folder' \in [AllFolders -> FolderRow]
    PROVE  Inv'
  <1>1. /\ CallsTyped'
        /\ \A d \in Call : call'[d] = call[d] \/ call'[d] = Idle
        /\ \A d \in Call : \A s \in Share : ShareHeld(d, s)' => ShareHeld(d, s)
        /\ \A d \in Call : \A f \in File : RecordHeld(d, f)' => RecordHeld(d, f)
    BY OthersKept
  <1>2. Idle.op = "idle"
    BY DEF Idle
  <1>3. \A d \in Call : \A g \in Updated(d) : file'[g].status = "active"
    BY UnderWay
  <1>4. Tables'
    BY DEF Inv, Tables
  <1> QED
    BY <1>1, <1>2, <1>3, <1>4, ResolvingKept, RecordsKept, MovesKept DEF Inv

\* A call ends and closes records that it holds: their entries leave the
\* trash, and no other call has anything to do with them.
LEMMA RecordsClosed ==
    ASSUME Inv, NEW c \in Call, End(c), UNCHANGED <<folder, share, served>>,
           NEW fs \in SUBSET File,
           file' \in [File -> FileRow], record' \in [File -> RecordRow],
           \A f \in fs : RecordHeld(c, f) /\ record'[f].status = "purged" /\ file'[f].status # "trashed",
           \A f \in File \ fs : file'[f] = file[f] /\ record'[f] = record[f]
    PROVE  Inv'
  <1>1. /\ CallsTyped'
        /\ \A d \in Call : \A f \in File : RecordHeld(d, f)' => d # c /\ RecordHeld(d, f)
        /\ call'[c] = Idle /\ \A d \in Call \ {c} : call'[d] = call[d]
    BY EndFacts
  <1>2. /\ \A d \in Call : \A s \in Share : ShareHeld(d, s)' => ShareHeld(d, s)
        /\ \A d, e \in Call : \A f \in File : RecordHeld(d, f)' /\ RecordHeld(e, f)' => d = e
    BY OthersKept
  <1>3. Idle.op = "idle"
    BY DEF Idle
  <1>4. \A d \in Call \ {c} : \A f \in File : RecordHeld(d, f) => f \notin fs
    BY DEF Inv, Records
  <1>5. \A f \in fs : file[f].status = "trashed"
    BY DEF Inv, Records, TrashHasRecord
  <1>6. Records'
    <2>1. TrashHasRecord'
      BY DEF Inv, Records, TrashHasRecord
    <2>2. ASSUME NEW d \in Call, call'[d].op = "restore"
          PROVE  call'[d].locked = {call'[d].file} /\ call'[d].to = record'[call'[d].file].in
      <3>1. d # c /\ call'[d] = call[d]
        BY <1>1, <1>3, <2>2
      <3>2. call[d].file \in File /\ RecordHeld(d, call[d].file)
        BY <2>2, <3>1, CallFields DEF Inv, CallsTyped, Records, RecordHeld
      <3>3. record'[call[d].file] = record[call[d].file]
        BY <1>4, <3>1, <3>2
      <3> QED
        BY <2>2, <3>1, <3>3 DEF Inv, Records
    <2>3. \A d \in Call : \A f \in File : RecordHeld(d, f)' => record'[f].status = "trashed"
      BY <1>1, <1>4 DEF Inv, Records
    <2> QED
      BY <1>2, <2>1, <2>2, <2>3 DEF Records
  <1>7. \A d \in Call : \A g \in Updated(d) : file'[g].status = "active"
    BY <1>5, UnderWay
  <1>8. Tables'
    BY DEF Inv, Tables
  <1> QED
    BY <1>1, <1>2, <1>3, <1>6, <1>7, <1>8, ResolvingKept, MovesKept DEF Inv

\* A report ends and writes an entry that no move has under way, and a record
\* that no other call holds.
LEMMA EntryWritten ==
    ASSUME Inv, NEW c \in Call, End(c), UNCHANGED <<folder, share, served>>, call[c].op = "report",
           NEW f \in File, \A d \in Call \ {c} : f \notin Updated(d),
           file' \in [File -> FileRow], record' \in [File -> RecordRow],
           file'[f].status = "trashed" <=> record'[f].status = "trashed",
           record'[f] = record[f] \/ \A d \in Call \ {c} : ~RecordHeld(d, f),
           \A g \in File \ {f} : file'[g] = file[g] /\ record'[g] = record[g]
    PROVE  Inv'
  <1>1. /\ CallsTyped'
        /\ \A d \in Call : \A g \in File : RecordHeld(d, g)' => d # c /\ RecordHeld(d, g)
        /\ call'[c] = Idle /\ \A d \in Call \ {c} : call'[d] = call[d]
    BY EndFacts
  <1>2. /\ \A d \in Call : \A s \in Share : ShareHeld(d, s)' => ShareHeld(d, s)
        /\ \A d, e \in Call : \A g \in File : RecordHeld(d, g)' /\ RecordHeld(e, g)' => d = e
    BY OthersKept
  <1>3. Idle.op = "idle"
    BY DEF Idle
  <1>4. \A d \in Call \ {c} : \A g \in File : RecordHeld(d, g) => record'[g] = record[g]
    OBVIOUS
  <1>5. Records'
    <2>1. TrashHasRecord'
      BY DEF Inv, Records, TrashHasRecord
    <2>2. ASSUME NEW d \in Call, call'[d].op = "restore"
          PROVE  call'[d].locked = {call'[d].file} /\ call'[d].to = record'[call'[d].file].in
      <3>1. d # c /\ call'[d] = call[d]
        BY <1>1, <1>3, <2>2
      <3>2. call[d].file \in File /\ RecordHeld(d, call[d].file)
        BY <2>2, <3>1, CallFields DEF Inv, CallsTyped, Records, RecordHeld
      <3>3. record'[call[d].file] = record[call[d].file]
        BY <1>4, <3>1, <3>2
      <3> QED
        BY <2>2, <3>1, <3>3 DEF Inv, Records
    <2>3. \A d \in Call : \A g \in File : RecordHeld(d, g)' => record'[g].status = "trashed"
      BY <1>1, <1>4 DEF Inv, Records
    <2> QED
      BY <1>2, <2>1, <2>2, <2>3 DEF Records
  <1>6. \A d \in Call : \A g \in Updated(d) : file'[g].status = "active"
    <2> SUFFICES ASSUME NEW d \in Call, NEW g \in Updated(d) PROVE file'[g].status = "active"
      OBVIOUS
    <2>1. file[g].status = "active" /\ g \in File /\ call[d].op = "move"
      BY UnderWay
    <2> QED
      BY <2>1
  <1>7. Tables'
    BY DEF Inv, Tables
  <1> QED
    BY <1>1, <1>2, <1>3, <1>5, <1>6, <1>7, ResolvingKept, MovesKept DEF Inv

\* What a report writes is a row.
LEMMA ReportedRows ==
    ASSUME NEW x \in CallState, x.op = "report", NEW row \in FileRow, NEW rec \in RecordRow,
           NEW at \in AllFolders, row.status = "trashed" <=> rec.status = "trashed",
           x.action = "rename" => x.name \in Name \cup {NoName}
    PROVE  /\ Reported(x, row) \in FileRow /\ ReportedRecord(x, rec, at) \in RecordRow
           /\ Reported(x, row).status = "trashed" <=> ReportedRecord(x, rec, at).status = "trashed"
           /\ Reported(x, row).in = row.in
           /\ x.action = "rename" => ReportedRecord(x, rec, at) = rec
  <1>0. x.action \in Action /\ Root \in AllFolders
    BY CallFields DEF AllFolders
  <1>1. CASE x.action = "rename"
    BY <1>1 DEF Reported, ReportedRecord, FileRow
  <1>2. CASE x.action = "trash"
    BY <1>2 DEF Reported, ReportedRecord, FileRow, RecordRow
  <1>3. CASE x.action = "restore"
    BY <1>0, <1>3 DEF Reported, ReportedRecord, FileRow, RecordRow
  <1>4. CASE x.action = "purge"
    BY <1>4 DEF Reported, ReportedRecord, FileRow, RecordRow
  <1> QED
    BY <1>0, <1>1, <1>2, <1>3, <1>4 DEF Action

\* A call goes on.
LEMMA ContinueKeepsInv ==
    ASSUME Inv, NEW c \in Call, Continue(c)
    PROVE  Inv'
  <1> DEFINE x == call[c]
  <1>0. /\ folder \in [AllFolders -> FolderRow] /\ file \in [File -> FileRow]
        /\ record \in [File -> RecordRow] /\ share \in [Share -> ShareRow]
        /\ served \in [Share -> 0 .. MaxServed] /\ x \in CallState /\ Idle.op = "idle"
    BY DEF Inv, Tables, CallsTyped, Idle
  <1>1. CASE EnsureRootFolderDB(c)
    <2>1. folder[Root] \in FolderRow /\ Root \in AllFolders
      BY <1>0 DEF AllFolders
    <2>2. folder' \in [AllFolders -> FolderRow]
      BY <1>0, <1>1, <2>1 DEF EnsureRootFolderDB, FolderRow
    <2> QED
      BY <1>1, <2>2, QuietEnd DEF EnsureRootFolderDB
  <1>2. CASE CreateManagedFolder(c)
    <2>1. x.parent \in AllFolders /\ x.name \in FolderName
      BY <1>0, <1>2, CallFields DEF CreateManagedFolder
    <2>2. folder' \in [AllFolders -> FolderRow]
      BY <1>0, <1>2, <2>1 DEF CreateManagedFolder, FolderRow
    <2> QED
      BY <1>2, <2>2, QuietEnd DEF CreateManagedFolder
  <1>3. CASE MoveFiles(c)
    <2>0. UNCHANGED <<folder, file, record, share, served>> /\ x.op = "move" /\ x.next <= Len(x.files)
      BY <1>3 DEF MoveFiles
    <2>1. CASE End(c)
      BY <1>0, <2>0, <2>1, QuietEnd
    <2>2. CASE ~End(c)
      <3>1. /\ call' = [call EXCEPT ![c].next = @ + 1] /\ file[x.files[x.next]].status = "active"
        BY <1>3, <2>2 DEF MoveFiles
      <3>2. x \in [op : {"move"}, files : FileLists, to : AllFolders, next : 1 .. 3]
        BY <1>0, <2>0, CallFields
      <3> DEFINE y == [x EXCEPT !.next = @ + 1]
      <3>3. Len(x.files) \in 1 .. 2
        BY <3>2, ListFacts
      <3>4. /\ y \in [op : {"move"}, files : FileLists, to : AllFolders, next : 1 .. 3]
            /\ y.op = "move" /\ y.files = x.files /\ y.next = x.next + 1
        <4>0. x.next \in 1 .. 3 /\ x.next <= Len(x.files)
          BY <2>0, <3>2
        <4>1. \A k \in 1 .. 3, n \in 1 .. 2 : k <= n => k + 1 \in 1 .. 3
          OBVIOUS
        <4>2. x.next + 1 \in 1 .. 3
          <5> HIDE DEF x
          <5> QED
            BY <3>3, <4>0, <4>1
        <4> HIDE DEF x
        <4> QED
          BY <3>2, <4>2
      <3>5. call' = [call EXCEPT ![c] = y]
        BY <3>1
      <3>6. y \in CallState
        BY <3>4 DEF CallState
      <3> HIDE DEF y
      <3>7. CallsTyped' /\ call'[c] = y /\ \A d \in Call \ {c} : call'[d] = call[d]
        BY <3>5, <3>6 DEF Inv, CallsTyped
      <3>8. /\ \A d \in Call : \A s \in Share : ShareHeld(d, s)' => ShareHeld(d, s)
            /\ \A d \in Call : \A f \in File : RecordHeld(d, f)' => RecordHeld(d, f)
            /\ \A d \in Call : call'[d] = call[d] \/ call'[d].op # "restore"
        BY <3>4, <3>7 DEF ShareHeld, RecordHeld
      <3>9. Moves'
        <4> SUFFICES ASSUME NEW d \in Call, call'[d].op = "move"
                     PROVE  /\ call'[d].next <= Len(call'[d].files) + 1
                            /\ \A f \in Updated(d)' : file'[f].status = "active"
          BY DEF Moves
        <4>1. CASE d = c
          <5>1. Updated(c)' = {x.files[i] : i \in 1 .. x.next}
            BY <3>2, <3>4, <3>7 DEF Updated
          <5>2. Updated(c) = {x.files[i] : i \in 1 .. x.next - 1}
            BY <2>0 DEF Updated
          <5>3. \A f \in Updated(c) : file[f].status = "active"
            BY UnderWay
          <5>4. \A i \in 1 .. x.next : i \in 1 .. x.next - 1 \/ i = x.next
            BY <3>2
          <5>5. \A f \in Updated(c)' : file[f].status = "active"
            BY <3>1, <5>1, <5>2, <5>3, <5>4
          <5> QED
            BY <2>0, <3>2, <3>3, <3>4, <3>7, <4>1, <5>5
        <4>2. CASE d # c
          <5>1. call'[d] = call[d] /\ Updated(d)' = Updated(d)
            BY <3>7, <4>2 DEF Updated
          <5> QED
            BY <2>0, <5>1 DEF Inv, Moves
        <4> QED
          BY <4>1, <4>2
      <3>10. Tables'
        BY <2>0 DEF Inv, Tables
      <3> QED
        BY <2>0, <3>7, <3>8, <3>9, <3>10, ResolvingKept, RecordsKept DEF Inv
    <2> QED
      BY <2>1, <2>2
  <1>4. CASE CommitMove(c)
    <2>0. End(c) /\ UNCHANGED <<folder, record, share, served>> /\ x.op = "move"
      BY <1>4 DEF CommitMove
    <2>1. x.to \in AllFolders /\ \A f \in Updated(c) : file[f].status = "active" /\ f \in File
      BY <2>0, MoveFacts, UnderWay
    <2>2. \A f \in File : file'[f] = IF f \in Updated(c) THEN [file[f] EXCEPT !.in = x.to] ELSE file[f]
      BY <1>4 DEF CommitMove
    <2>3. /\ file' \in [File -> FileRow]
          /\ \A f \in File : file'[f].status = file[f].status
          /\ \A f \in File \ Updated(c) : file'[f] = file[f]
      <3>1. ASSUME NEW f \in File
            PROVE  file'[f] \in FileRow /\ file'[f].status = file[f].status
        BY <1>0, <2>1, <2>2 DEF FileRow
      <3>2. file' \in [File -> FileRow]
        BY <1>4, <3>1 DEF CommitMove
      <3> QED
        BY <2>2, <3>1, <3>2
    <2>4. /\ CallsTyped'
          /\ \A d \in Call : call'[d] = call[d] \/ call'[d] = Idle
          /\ \A d \in Call : \A s \in Share : ShareHeld(d, s)' => ShareHeld(d, s)
          /\ \A d \in Call : \A f \in File : RecordHeld(d, f)' => RecordHeld(d, f)
          /\ \A d, e \in Call : \A f \in File : RecordHeld(d, f)' /\ RecordHeld(e, f)' => d = e
      BY <2>0, OthersKept
    <2>6. Records'
      <3>1. TrashHasRecord'
        BY <2>0, <2>3 DEF Inv, Records, TrashHasRecord
      <3>2. ASSUME NEW d \in Call, call'[d].op = "restore"
            PROVE  call'[d].locked = {call'[d].file} /\ call'[d].to = record'[call'[d].file].in
        <4>1. call'[d] = call[d]
          BY <1>0, <2>4, <3>2
        <4> QED
          BY <2>0, <3>2, <4>1 DEF Inv, Records
      <3> QED
        BY <2>0, <2>4, <3>1, <3>2 DEF Inv, Records
    <2>7. \A d \in Call : \A g \in Updated(d) : file'[g].status = "active"
      BY <2>3, UnderWay
    <2>8. Tables'
      BY <2>0, <2>3 DEF Inv, Tables
    <2> QED
      BY <1>0, <2>0, <2>4, <2>6, <2>7, <2>8, ResolvingKept, MovesKept DEF Inv
  <1>5. CASE InsertShare(c)
    <2>0. End(c) /\ UNCHANGED <<folder, file, record, served>> /\ x.file \in File
      BY <1>0, <1>5, CallFields DEF InsertShare
    <2>1. PICK s \in Share :
            /\ share[s].status = "none"
            /\ share' = [share EXCEPT ![s] = [status |-> "active", file |-> x.file, count |-> 0]]
      BY <1>5 DEF InsertShare
    <2> DEFINE row == [status |-> "active", file |-> x.file, count |-> 0]
    <2>2. row \in ShareRow /\ row.status = "active" /\ row.count = 0
      BY <2>0 DEF ShareRow
    <2>3. share' = [share EXCEPT ![s] = row]
      BY <2>1
    <2> HIDE DEF row
    <2>4. share' \in [Share -> ShareRow] /\ share'[s] = row /\ \A t \in Share \ {s} : share'[t] = share[t]
      BY <1>0, <2>2, <2>3
    <2>5. /\ CallsTyped'
          /\ \A d \in Call : call'[d] = call[d] \/ call'[d] = Idle
          /\ \A d \in Call : \A t \in Share : ShareHeld(d, t)' => ShareHeld(d, t)
          /\ \A d \in Call : \A f \in File : RecordHeld(d, f)' => RecordHeld(d, f)
      BY <2>0, OthersKept
    <2>6. Resolving'
      <3>1. served[s] = 0 /\ \A d \in Call : ~ShareHeld(d, s)
        BY <2>1 DEF Inv, Resolving
      <3>2. \A d \in Call : \A t \in Share : ShareHeld(d, t)' => t # s
        BY <2>5, <3>1
      <3> QED
        BY <2>0, <2>2, <2>4, <2>5, <3>1, <3>2, LibraryAssumption DEF Inv, Resolving
    <2>7. \A d \in Call : \A g \in Updated(d) : file'[g].status = "active"
      BY <2>0, UnderWay
    <2>8. Tables'
      BY <2>0, <2>4 DEF Inv, Tables
    <2> QED
      BY <1>0, <2>0, <2>5, <2>6, <2>7, <2>8, RecordsKept, MovesKept DEF Inv
  <1>6. CASE CommitResolve(c)
    <2> DEFINE s == x.share
    <2>0. End(c) /\ UNCHANGED <<folder, file, record>> /\ s \in Share /\ ShareHeld(c, s)
      BY <1>0, <1>6, CallFields DEF CommitResolve, ShareHeld
    <2>1. CASE file[share[s].file].status = "active"
      <3>0. /\ share' = [share EXCEPT ![s].count = @ + 1]
            /\ served' = [served EXCEPT ![s] = @ + 1]
        BY <1>6, <2>1 DEF CommitResolve
      <3> HIDE DEF s
      <3>1. /\ share[s].status \in {"active", "expired"} /\ (Limit = 0 \/ share[s].count < Limit) /\ served[s] < MaxServed
            /\ served[s] = share[s].count /\ share[s] \in ShareRow
        BY <1>0, <2>0 DEF Inv, Resolving
      <3>2. /\ share' \in [Share -> ShareRow] /\ share'[s].count = share[s].count + 1
            /\ share'[s].status = share[s].status
            /\ \A t \in Share \ {s} : share'[t] = share[t]
        BY <1>0, <2>0, <3>0, <3>1 DEF ShareRow
      <3>3. /\ served' \in [Share -> 0 .. MaxServed] /\ served'[s] = served[s] + 1
            /\ \A t \in Share \ {s} : served'[t] = served[t]
        BY <1>0, <2>0, <3>0, <3>1, LibraryAssumption
      <3>4. /\ CallsTyped'
            /\ \A d \in Call : \A t \in Share : ShareHeld(d, t)' => d # c /\ ShareHeld(d, t)
        BY <2>0, EndFacts
      <3>5. /\ \A d \in Call : call'[d] = call[d] \/ call'[d] = Idle
            /\ \A d \in Call : \A f \in File : RecordHeld(d, f)' => RecordHeld(d, f)
        BY <2>0, OthersKept
      <3>6. \A d \in Call : \A t \in Share : ShareHeld(d, t)' => t # s
        BY <2>0, <3>4 DEF Inv, Resolving
      <3>7. share[s].count \in Nat
        BY <3>1 DEF ShareRow
      <3>8. Resolving'
        BY <3>1, <3>2, <3>3, <3>4, <3>6, <3>7, LibraryAssumption DEF Inv, Resolving
      <3>9. \A d \in Call : \A g \in Updated(d) : file'[g].status = "active"
        BY <2>0, UnderWay
      <3>10. Tables'
        BY <2>0, <3>2, <3>3 DEF Inv, Tables
      <3> QED
        BY <1>0, <2>0, <3>4, <3>5, <3>8, <3>9, <3>10, RecordsKept, MovesKept DEF Inv
    <2>2. CASE file[share[s].file].status # "active"
      BY <1>0, <1>6, <2>0, <2>2, QuietEnd DEF CommitResolve
    <2> QED
      BY <2>1, <2>2
  <1>7. CASE Restore(c)
    <2> DEFINE f == x.file
    <2>0. End(c) /\ UNCHANGED <<folder, share, served>> /\ f \in File /\ x.to \in AllFolders /\ x.locked = {f}
          /\ RecordHeld(c, f)
      BY <1>0, <1>7, CallFields DEF Restore, RecordHeld, Inv, Records
    <2>1. CASE EntryNameTaken(f, x.to, file[f].name)
      BY <1>0, <1>7, <2>0, <2>1, QuietEnd DEF Restore
    <2>2. CASE ~EntryNameTaken(f, x.to, file[f].name)
      <3>1. /\ file' = [file EXCEPT ![f].status = "active", ![f].in = x.to]
            /\ record' = [record EXCEPT ![f].status = "purged"]
        BY <1>7, <2>2 DEF Restore
      <3> HIDE DEF f
      <3>2. file[f] \in FileRow /\ record[f] \in RecordRow
        BY <1>0, <2>0
      <3>3. /\ file' \in [File -> FileRow] /\ file'[f].status = "active"
            /\ \A g \in File \ {f} : file'[g] = file[g]
        BY <1>0, <2>0, <3>1, <3>2 DEF FileRow
      <3>4. /\ record' \in [File -> RecordRow] /\ record'[f].status = "purged"
            /\ \A g \in File \ {f} : record'[g] = record[g]
        BY <1>0, <2>0, <3>1, <3>2 DEF RecordRow
      <3> DEFINE fs == {f}
      <3>5. /\ fs \in SUBSET File
            /\ \A g \in fs : RecordHeld(c, g) /\ record'[g].status = "purged" /\ file'[g].status # "trashed"
            /\ \A g \in File \ fs : file'[g] = file[g] /\ record'[g] = record[g]
        BY <2>0, <3>3, <3>4
      <3> HIDE DEF fs
      <3> QED
        BY <2>0, <3>3, <3>4, <3>5, RecordsClosed
    <2> QED
      BY <2>1, <2>2
  <1>8. CASE Purge(c)
    <2> DEFINE fs == x.locked
    <2>0. End(c) /\ UNCHANGED <<folder, share, served>> /\ fs \in SUBSET File /\ x.op = "purge"
      BY <1>0, <1>8, CallFields DEF Purge
    <2>1. /\ file' = [f \in File |-> IF f \in fs THEN [file[f] EXCEPT !.status = "purged"] ELSE file[f]]
          /\ record' = [f \in File |-> IF f \in fs THEN [record[f] EXCEPT !.status = "purged"] ELSE record[f]]
      BY <1>8 DEF Purge
    <2>2. \A g \in fs : RecordHeld(c, g)
      BY <2>0 DEF RecordHeld
    <2> HIDE DEF fs
    <2>3. ASSUME NEW f \in File
          PROVE  /\ file'[f] \in FileRow /\ record'[f] \in RecordRow
                 /\ f \in fs => record'[f].status = "purged" /\ file'[f].status = "purged"
                 /\ f \notin fs => file'[f] = file[f] /\ record'[f] = record[f]
      BY <1>0, <2>1 DEF FileRow, RecordRow
    <2>4. file' \in [File -> FileRow] /\ record' \in [File -> RecordRow]
      BY <2>1, <2>3
    <2>5. /\ \A g \in fs : RecordHeld(c, g) /\ record'[g].status = "purged" /\ file'[g].status # "trashed"
          /\ \A g \in File \ fs : file'[g] = file[g] /\ record'[g] = record[g]
      BY <2>0, <2>2, <2>3
    <2> QED
      BY <2>0, <2>4, <2>5, RecordsClosed
  <1>9. CASE Rollback(c)
    BY <1>0, <1>9, QuietEnd DEF Rollback
  <1>10. CASE CommitReport(c)
    <2> DEFINE f == x.file
               row == Reported(x, file[f])
               rec == ReportedRecord(x, record[f], file[f].in)
    <2>0. /\ End(c) /\ UNCHANGED <<folder, share, served>> /\ x.op = "report"
          /\ f \in File /\ x.action \in Action /\ x.name \in Name \cup {NoName}
      BY <1>0, <1>10, CallFields DEF CommitReport
    <2>1. CASE UNCHANGED <<file, record>>
      BY <1>0, <2>0, <2>1, QuietEnd
    <2>2. CASE ~UNCHANGED <<file, record>>
      <3>1. /\ file' = [file EXCEPT ![f] = row]
            /\ record' = [record EXCEPT ![f] = rec]
        BY <1>10, <2>2 DEF CommitReport
      <3>2. file[f] \in FileRow /\ record[f] \in RecordRow /\ file[f].in \in AllFolders
            /\ (file[f].status = "trashed" <=> record[f].status = "trashed")
        BY <1>0, <2>0 DEF FileRow, Inv, Records, TrashHasRecord
      <3>3. /\ row \in FileRow /\ rec \in RecordRow
            /\ row.status = "trashed" <=> rec.status = "trashed"
            /\ x.action = "rename" => rec = record[f]
        BY <1>0, <2>0, <3>2, ReportedRows
      <3>4. /\ \A d \in Call \ {c} : f \notin Updated(d)
            /\ x.action # "rename" => \A d \in Call \ {c} : ~RecordHeld(d, f)
        BY <1>10 DEF CommitReport, EntryLocked, RecordLocked
      <3> HIDE DEF f, row, rec
      <3>5. /\ file' \in [File -> FileRow] /\ record' \in [File -> RecordRow]
            /\ file'[f] = row /\ record'[f] = rec
            /\ \A g \in File \ {f} : file'[g] = file[g] /\ record'[g] = record[g]
        BY <1>0, <2>0, <3>1, <3>3
      <3> QED
        BY <2>0, <3>3, <3>4, <3>5, EntryWritten
    <2> QED
      BY <2>1, <2>2
  <1> QED
    BY <1>1, <1>2, <1>3, <1>4, <1>5, <1>6, <1>7, <1>8, <1>9, <1>10 DEF Continue

-----------------------------------------------------------------------------
(***************************************************************************)
(* The theorems.                                                            *)
(***************************************************************************)

\* The invariant holds at first.
LEMMA InitInv == Init => Inv
  <1> SUFFICES ASSUME Init PROVE Inv
    OBVIOUS
  <1>1. Tables
    BY LibraryAssumption DEF Init, Tables, AllFolders, FolderRow, FileRow, RecordRow, ShareRow
  <1>2. \A c \in Call : call[c] = Idle /\ call[c].op = "idle"
    BY DEF Init, Idle
  <1>3. CallsTyped
    BY DEF Init, CallsTyped, CallState, Idle
  <1>4. Resolving
    BY <1>2, LibraryAssumption DEF Init, Resolving, ShareHeld
  <1>5. Records
    BY <1>2 DEF Init, Records, TrashHasRecord, RecordHeld
  <1>6. Moves
    BY <1>2 DEF Moves
  <1> QED
    BY <1>1, <1>3, <1>4, <1>5, <1>6 DEF Inv

\* Every step keeps it.
LEMMA NextInv == Inv /\ [Next]_vars => Inv'
  <1> SUFFICES ASSUME Inv, [Next]_vars PROVE Inv'
    OBVIOUS
  <1>1. CASE UNCHANGED vars
    BY <1>1 DEF vars, Inv, Tables, CallsTyped, Resolving, Records, Moves, TrashHasRecord, ShareHeld,
                RecordHeld, Updated
  <1>2. CASE Statement
    BY <1>2, StatementKeepsInv
  <1>3. ASSUME NEW c \in Call, Arrive(c) PROVE Inv'
    BY <1>3, ArriveKeepsInv
  <1>4. ASSUME NEW c \in Call, Continue(c) PROVE Inv'
    BY <1>4, ContinueKeepsInv
  <1> QED
    BY <1>1, <1>2, <1>3, <1>4 DEF Next

\* The invariant holds throughout.
LEMMA LibraryInv == Spec => []Inv
  BY InitInv, NextInv, PTL DEF Spec

\* The tables and the calls in flight keep their types, whatever calls run at
\* once.
THEOREM LibraryTyped == Spec => []TypeOK
  <1>1. Inv => TypeOK
    BY DEF Inv, Tables, CallsTyped, TypeOK
  <1> QED
    BY <1>1, LibraryInv, PTL

\* No share is served more often than max_downloads, whatever calls of
\* ResolveShare overlap.
THEOREM ShareLimitSafe == Spec => []ServedWithinLimit
  <1>1. Inv => ServedWithinLimit
    BY DEF Inv, Resolving, ServedWithinLimit
  <1> QED
    BY <1>1, LibraryInv, PTL

\* What is in the trash has an open record, and an open record an entry in
\* the trash.
THEOREM TrashSafe == Spec => []TrashHasRecord
  <1>1. Inv => TrashHasRecord
    BY DEF Inv, Records
  <1> QED
    BY <1>1, LibraryInv, PTL

\* No resolution that is under way when RevokeShare returns succeeds: the
\* share it holds is active.
THEOREM RevocationSafe == Spec => RevokedServesNothing
  <1> DEFINE A == \A s \in Share : share[s].status = "revoked" => served'[s] = served[s]
  <1>1. Inv /\ [Next]_vars => [A]_<<share, served>>
    <2> SUFFICES ASSUME Inv, [Next]_vars PROVE A
      OBVIOUS
    <2>1. CASE UNCHANGED served
      BY <2>1
    <2>2. ASSUME NEW c \in Call, CommitResolve(c) PROVE A
      <3> DEFINE s == call[c].share
      <3>1. s \in Share /\ ShareHeld(c, s)
        BY <2>2, CallFields DEF CommitResolve, ShareHeld, Inv, CallsTyped
      <3>2. share[s].status # "revoked"
        BY <3>1 DEF Inv, Resolving
      <3>3. \A t \in Share \ {s} : served'[t] = served[t]
        BY <2>2 DEF CommitResolve, Inv, Tables
      <3> QED
        BY <3>2, <3>3
    <2> QED
      BY <2>1, <2>2 DEF Next, vars, Statement, TrashFileEntry, RegisterVerifiedFile, DeleteManagedFolder,
             RenameManagedFolder, RevokeShare, ShareExpires, Arrive, EnsureRootFolder, CreateFolder,
             MoveCatalogFiles, RestoreFileEntry, CreateShare, SelectPurge, ResolveShare, ApplyLifecycleReport, Continue,
             EnsureRootFolderDB, CreateManagedFolder, MoveFiles, CommitMove, Restore, Purge, InsertShare,
             CommitReport, Rollback
  <1> QED
    BY <1>1, LibraryInv, PTL DEF Spec, RevokedServesNothing

\* The actions that write file_entries.
LEMMA FileWriters ==
    ASSUME [Next]_vars
    PROVE  \/ UNCHANGED file
           \/ \E f \in File : TrashFileEntry(f) \/ \E n \in Name : RegisterVerifiedFile(f, n)
           \/ \E c \in Call : CommitMove(c) \/ Restore(c) \/ Purge(c) \/ CommitReport(c)
  BY DEF Next, vars, Statement, DeleteManagedFolder, RenameManagedFolder, RevokeShare, ShareExpires,
         Arrive, EnsureRootFolder, CreateFolder, MoveCatalogFiles, RestoreFileEntry, CreateShare,
         SelectPurge, ResolveShare, ApplyLifecycleReport, Continue, EnsureRootFolderDB, CreateManagedFolder, MoveFiles,
         InsertShare, CommitResolve, Rollback

\* What a restore works on: an entry in the trash that goes to the folder its
\* record names.
LEMMA RestoreFacts ==
    ASSUME Inv, NEW c \in Call, Restore(c)
    PROVE  /\ call[c].file \in File
           /\ file[call[c].file].status = "trashed"
           /\ file \in [File -> FileRow]
           /\ file' = file \/ /\ file'[call[c].file].status = "active"
                              /\ file'[call[c].file].in = record[call[c].file].in
                              /\ \A f \in File \ {call[c].file} : file'[f] = file[f]
  <1> DEFINE x == call[c]
             f == x.file
  <1>1. file \in [File -> FileRow] /\ x \in CallState /\ x.op = "restore"
    BY DEF Inv, Tables, CallsTyped, Restore
  <1>2. f \in File /\ x.locked = {f} /\ x.to = record[f].in
    BY <1>1, CallFields DEF Inv, Records
  <1>3. RecordHeld(c, f)
    BY <1>1, <1>2 DEF RecordHeld
  <1>4. file[f].status = "trashed"
    BY <1>2, <1>3 DEF Inv, Records, TrashHasRecord
  <1>5. file' = file \/ file' = [file EXCEPT ![f].status = "active", ![f].in = x.to]
    BY DEF Restore
  <1> HIDE DEF f, x
  <1>6. CASE file' = file
    BY <1>1, <1>2, <1>4, <1>6 DEF f, x
  <1>7. CASE file' = [file EXCEPT ![f].status = "active", ![f].in = x.to]
    <2>1. file[f] \in FileRow
      BY <1>1, <1>2
    <2>2. /\ file'[f].status = "active" /\ file'[f].in = x.to
          /\ \A g \in File \ {f} : file'[g] = file[g]
      BY <1>1, <1>2, <1>7, <2>1 DEF FileRow
    <2> QED
      BY <1>1, <1>2, <1>4, <2>2 DEF f, x
  <1> QED
    BY <1>5, <1>6, <1>7

\* What a report writes is what LegalLifecycle allows it: with the status it
\* has read its change is legal.
LEMMA ReportLegal ==
    ASSUME Inv, NEW c \in Call, CommitReport(c), NEW f \in File
    PROVE  \/ LegalChange(file[f].status, file'[f].status)
           \/ /\ call[c].op = "report" /\ call[c].file = f /\ call'[c] = Idle
              /\ file[f].status # StatusFor(call[c].action)
  <1> DEFINE x == call[c]
             row == Reported(x, file[x.file])
  <1>1. /\ file \in [File -> FileRow] /\ x \in CallState /\ x.op = "report" /\ call'[c] = Idle
    BY EndFacts DEF Inv, Tables, CallsTyped, CommitReport
  <1>2. x.file \in File /\ x.action \in Action
    BY <1>1, CallFields
  <1>3. UNCHANGED file \/ file' = [file EXCEPT ![x.file] = row]
    BY DEF CommitReport
  <1>4. CASE file'[f] = file[f]
    BY <1>1, <1>4 DEF FileRow, LegalChange
  <1>5. CASE file'[f] # file[f]
    <2>1. x.file = f /\ file'[f] = row
      BY <1>1, <1>2, <1>3, <1>5
    <2>2. CASE file[f].status = StatusFor(x.action)
      <3>1. file[f] \in FileRow
        BY <1>1
      <3>2. CASE x.action = "rename"
        BY <2>1, <2>2, <3>1, <3>2 DEF Reported, StatusFor, LegalChange, FileRow
      <3>3. CASE x.action = "trash"
        BY <2>1, <2>2, <3>1, <3>3 DEF Reported, StatusFor, LegalChange, FileRow
      <3>4. CASE x.action \in {"restore", "purge"}
        BY <2>1, <2>2, <3>1, <3>4 DEF Reported, StatusFor, LegalChange, FileRow
      <3> QED
        BY <1>2, <3>2, <3>3, <3>4 DEF Action
    <2> QED
      BY <1>1, <2>1, <2>2
  <1> QED
    BY <1>4, <1>5

\* A file comes back after it was purged, or is purged after it was restored,
\* only where a report writes after the status it read has changed, whatever
\* restores, purges, moves and reports overlap.
THEOREM LifecycleSafe == Spec => LegalLifecycle
  <1> DEFINE A == \A f \in File :
          \/ LegalChange(file[f].status, file'[f].status)
          \/ \E c \in Call : /\ call[c].op = "report" /\ call[c].file = f /\ call'[c] = Idle
                             /\ file[f].status # StatusFor(call[c].action)
  <1>1. Inv /\ [Next]_vars => A
    <2> SUFFICES ASSUME Inv, [Next]_vars PROVE A
      OBVIOUS
    <2>0. file \in [File -> FileRow]
      BY DEF Inv, Tables
    <2>1. CASE UNCHANGED file
      BY <2>0, <2>1 DEF FileRow, LegalChange
    <2>2. ASSUME NEW f \in File, TrashFileEntry(f) PROVE A
      BY <2>0, <2>2 DEF TrashFileEntry, FileRow, LegalChange
    <2>3. ASSUME NEW f \in File, NEW n \in Name, RegisterVerifiedFile(f, n) PROVE A
      BY <2>0, <2>3 DEF RegisterVerifiedFile, FileRow, LegalChange
    <2>4. ASSUME NEW c \in Call, CommitMove(c) PROVE A
      BY <2>0, <2>4 DEF CommitMove, FileRow, LegalChange
    <2>5. ASSUME NEW c \in Call, Restore(c) PROVE A
      BY <2>0, <2>5, RestoreFacts DEF FileRow, LegalChange
    <2>6. ASSUME NEW c \in Call, Purge(c) PROVE A
      <3>1. call[c].locked \in SUBSET File
        BY <2>6, CallFields DEF Purge, Inv, CallsTyped
      <3>2. \A f \in call[c].locked : file[f].status = "trashed"
        BY <2>6, <3>1 DEF Purge, RecordHeld, Inv, Records, TrashHasRecord
      <3> QED
        BY <2>0, <2>6, <3>2 DEF Purge, FileRow, LegalChange
    <2>7. ASSUME NEW c \in Call, CommitReport(c) PROVE A
      BY <2>7, ReportLegal
    <2> QED
      BY <2>1, <2>2, <2>3, <2>4, <2>5, <2>6, <2>7, FileWriters
  <1> QED
    BY <1>1, LibraryInv, PTL DEF Spec, LegalLifecycle

\* A report leaves every entry in its folder.
LEMMA ReportStays ==
    ASSUME Inv, NEW c \in Call, CommitReport(c), NEW g \in File
    PROVE  file'[g].in = file[g].in
  <1> DEFINE x == call[c]
             f == x.file
             row == Reported(x, file[f])
  <1>1. file \in [File -> FileRow] /\ record \in [File -> RecordRow] /\ x \in CallState /\ x.op = "report"
    BY DEF Inv, Tables, CallsTyped, CommitReport
  <1>2. f \in File /\ x.name \in Name \cup {NoName}
    BY <1>1, CallFields
  <1>3. UNCHANGED file \/ file' = [file EXCEPT ![f] = row]
    BY DEF CommitReport
  <1>4. /\ file[f] \in FileRow /\ record[f] \in RecordRow /\ file[f].in \in AllFolders
        /\ file[f].status = "trashed" <=> record[f].status = "trashed"
    BY <1>1, <1>2 DEF FileRow, Inv, Records, TrashHasRecord
  <1>5. row.in = file[f].in
    BY <1>1, <1>2, <1>4, ReportedRows
  <1> HIDE DEF row, f
  <1> QED
    BY <1>1, <1>2, <1>3, <1>5

\* A move of several files moves all of them or none: an entry that changes
\* folder does so in the commit of a move that has updated its whole list, or
\* in a restore that takes it to the folder of its record.
THEOREM MovesSafe == Spec => MovesWhole
  <1> DEFINE A == \A f \in File : (file[f].status # "none" /\ file'[f].in # file[f].in) =>
          \/ \E c \in Call : /\ call[c].op = "move"
                             /\ \A i \in DOMAIN call[c].files : file'[call[c].files[i]].in = call[c].to
          \/ file[f].status = "trashed" /\ file'[f].status = "active" /\ file'[f].in = record[f].in
  <1>1. Inv /\ [Next]_vars => A
    <2> SUFFICES ASSUME Inv, [Next]_vars PROVE A
      OBVIOUS
    <2>0. file \in [File -> FileRow]
      BY DEF Inv, Tables
    <2>1. CASE UNCHANGED file
      BY <2>1
    <2>2. ASSUME NEW f \in File, TrashFileEntry(f) PROVE A
      <3>1. \A g \in File : file'[g].in = file[g].in
        BY <2>0, <2>2 DEF TrashFileEntry, FileRow
      <3> QED
        BY <3>1
    <2>3. ASSUME NEW f \in File, NEW n \in Name, RegisterVerifiedFile(f, n) PROVE A
      <3>1. file[f].status = "none" /\ \A g \in File \ {f} : file'[g] = file[g]
        BY <2>0, <2>3 DEF RegisterVerifiedFile
      <3> QED
        BY <3>1
    <2>4. ASSUME NEW c \in Call, CommitMove(c) PROVE A
      <3>0. call[c].op = "move" /\ call[c].next > Len(call[c].files)
        BY <2>4 DEF CommitMove
      <3>1. /\ call[c].files \in FileLists /\ call[c].next \in 1 .. 3
            /\ Updated(c) = {call[c].files[i] : i \in 1 .. call[c].next - 1}
            /\ \A i \in 1 .. Len(call[c].files) : call[c].files[i] \in File
        BY <3>0, MoveFacts
      <3>2. DOMAIN call[c].files = 1 .. Len(call[c].files) /\ Len(call[c].files) \in 1 .. 2
        BY <3>1, ListFacts
      <3>3. \A i \in DOMAIN call[c].files : call[c].files[i] \in Updated(c) /\ call[c].files[i] \in File
        BY <3>0, <3>1, <3>2
      <3>4. \A f \in File : f \in Updated(c) => file'[f].in = call[c].to
        BY <2>0, <2>4 DEF CommitMove, FileRow
      <3> QED
        BY <3>0, <3>3, <3>4
    <2>5. ASSUME NEW c \in Call, Restore(c) PROVE A
      BY <2>5, RestoreFacts
    <2>6. ASSUME NEW c \in Call, Purge(c) PROVE A
      <3>1. \A g \in File : file'[g].in = file[g].in
        BY <2>0, <2>6 DEF Purge, FileRow
      <3> QED
        BY <3>1
    <2>7. ASSUME NEW c \in Call, CommitReport(c) PROVE A
      <3>1. \A g \in File : file'[g].in = file[g].in
        BY <2>7, ReportStays
      <3> QED
        BY <3>1
    <2> QED
      BY <2>1, <2>2, <2>3, <2>4, <2>5, <2>6, <2>7, FileWriters
  <1> QED
    BY <1>1, LibraryInv, PTL DEF Spec, MovesWhole
=============================================================================
