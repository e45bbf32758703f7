# Share Disk: TLA+ verification

Share Disk keeps a household's files on its own devices. A **control server**
(Go, PostgreSQL) knows the account, its devices, which file is where and which
replica should be made next. On each device an **Agent** (Go, SQLite, a
content-addressed object directory) stores the bytes, serves them on the LAN and
does what the server schedules. This directory models the parts in which several
actors, faults and restarts meet, checks them with TLC and proves their
safety properties with TLAPS. Paths below are relative to `src/`.

## Inventory

| Component | State | Operations | Interacts with | What makes it correct |
|---|---|---|---|---|
| Transfer scheduler `server/internal/transfer` | `transfer_tasks`, `transfer_sources` | CreateTask, CreateReplicaTask, AcquireLease, ClaimNext, UpdateState, CompleteReplica, FailAttempt, CancelTask | reads replicas, entries, devices; called by every Agent | one live task per object and target; reports fenced by lease and version; terminal is terminal; ready tasks are served |
| Agent executor `client/ubuntu/internal/agentsync` | locals of one goroutine, `transfer_runs`, `.part` files | claim, report, download, import, complete, fail, cancel | HTTP to the server and to the source Agent; object store | a recorded replica has its bytes; stale reports are refused; a task ends; a cancellation holds |
| Object store and files `client/ubuntu/internal/storage` | `local_objects`, object files, `lan_files` | Import, Verify, Create/Rename/Trash/Restore, purge saga, startup recovery | called from IPC, LAN API, ticker, coordinator concurrently | READY has a file; only purged files go; names unique; a purge finishes; crash anywhere is recoverable |
| Outbox `client/ubuntu/internal/localapi`, `agentsync` | `outgoing_ops` | enqueue (in the mutation's transaction), deliver head first, retry, recover, reconcileExisting | catalog of the server | order; each report applies once; the outbox drains |
| Catalog and lifecycle `server/internal/catalog` | `file_entries`, `file_objects`, `replicas`, idempotency keys | RegisterVerifiedFile, ApplyLifecycleReport, ApplyCatalogActions | outbox, device commands, scheduler | the catalog follows the origin; purged is final |
| Device commands `catalog/commands.go`, `agentsync` | `device_commands` | queue, claim with lease, apply, finish | catalog, store | each command is executed or given up |
| Identity and sessions `server/internal/identity` | users, devices, sessions | bootstrap, login, enrol, register, refresh rotation, logout, deregister, password change | every authenticated route | one live token per family; a dead family stays dead |
| Agent credentials `agentsync` | `settings` | Provision, Enroll, persistAuth, refresh | identity | an Agent is locked out only for a reason |
| Folders and shares `catalog/browser.go`, `shares.go` | `folders`, `shares`, `file_entries.folder_id` | create, rename, delete, move, share, resolve, revoke | catalog | moves are whole; a share serves no more than its limit and nothing after its revocation |
| Server trash `server/internal/trash` | `trash_records`, `file_entries.status` | TrashFileEntry, Restore, Purge | lifecycle reports, which write the same rows | trashed means recorded; no state after purged |
| Event log `server/internal/sync`, `catalog/unified.go` | `account_events` | PublishEventTx, appendEvent, DeltaSync | catalog transactions, clients | an append-only log of which each client has a prefix |
| Notification hub `controlapi/websocket` | map of clients, send channels | Run, readPump, writePump, BroadcastToUser | browser connections | no panic; no gap in what a peer receives; connections end |
| Migrations `internal/database`, `cmd/db-migrate`, `health` | `schema_migrations`, advisory lock | MigrateUp, readiness check | every server start | scripts once and in order; no dirty row; ready means migrated |
| Control API, LAN API, local API, desktop UI, CLI, Android, discovery | none of their own | routing, decoding, upload and range transfer | all of the above | forwarders |

`PROJECT.json` lists every component with its status, and under `hazards` each
place where this code is hard to test, with its line.

The hard behaviours: requests that time out at the client and are served later;
replies lost after a commit; leases (600 s, never renewed) that expire under
work; sagas over SQLite and the file system that several goroutines run without
a lock and a crash may cut anywhere; a report that must wait for a saga;
READ COMMITTED transactions that test in one statement and act in another;
channels that several goroutines close, fill and drain.

## Modules

### TransferService

The scheduler. `task` is the table `transfer_tasks`, a record per row with the
columns the code tests; `ready`, `listed` and `enrolled` are the rows of
`replicas`, `file_entries` and `devices` its queries join with, changed by
coarse actions for the rest of the server. A transaction that takes its row's
lock is one action. `CreateReplicaTask` reads before it inserts and locks
nothing, so it is two (`CreateReplicaTaskCheck`, `CreateReplicaTaskInsert`, with
`checked` the requests in between). `ClaimNext` takes the rows other
transactions hold locked as a parameter (`SKIP LOCKED`). Any enrolled device may
send any request with any version at any time. `CreateTask` and `AcquireLease` are exported by
the package's `Service` but have no route at this commit; they are modelled
because the invariants must not depend on that.

Time only ever decides `lease_until <= NOW()`, so a lease is `running` until
`LeaseLapses`. The retry delay lives in the same column, hence the same value.

### TransferExecutor

EXTENDS TransferService with the Agents that execute tasks. `agent[d].pc` names
the request the goroutine sends next or the local work it does next. A request
is answered (`Answer`), served with its reply lost (`LostReply`), or given up
while on its way (`Timeout`, then `LateArrives` at any later time). `run` is
`transfer_runs` (states that nothing distinguishes are `open`), `part` the
partial download by length and correctness, `stored` the imported files.
`Import` stands for the hash comparison, the object store's Import and
CreateLANFile; their own interleavings are LocalStore's subject.

### LocalStore

The Agent's store: `rec` and `disk` are the record and the file of each content,
`file` is `lan_files`, `ops` is `outgoing_ops`. A `Worker` is a goroutine inside
Import or purgeLANFile; each SQLite statement or transaction and each file
operation is a step. `CrashRestart` is a crash and the whole of the start after
it: startupRecovery, cleanupStaleObjects (any subset of the stale records: which
of them are an hour old is not kept) and Recover. SQLite statements are assumed
not to fail; renames and unlinks may (`RenameFails`, `UnlinkFails`). `unstored` is
history: the contents whose last rename into place failed. After that the record
is IMPORTING without a file, and an import of the same content that was already
past its own rename, whose file a purge has removed since, may still write READY.

### Sessions

One account with its devices, its sessions and the credentials each Agent keeps.
A `Request` is a slot of the server: a rotation is two steps (lock the row and
read it; write and commit), a revocation of many rows is two (the rows it
matched are remembered, rows inserted meanwhile are not seen), and login,
deregistration and password change are split where they read outside their
transaction. An Agent waits for at most one reply (its mutex); the reply may be
lost, and the request of an Agent that gave up is still served. A token is the
number of its session, since hashes are unique and both tokens of a session are
stored in one transaction. `epoch` and `excused` are history: how often a device
was reactivated, and whether an Agent has lost a refresh reply or had its
sessions ended on purpose.

### Catalog

The server's entries, replicas, idempotency keys and commands, and the outbox,
the files and the loop of each Agent. `UserChange` (create, rename, trash,
restore) enqueues its report with the change; `Deliver` sends the head; a
report whose sender gave up is in `late` and may arrive at any time.
A purge is a saga of its own (`purge`): `BeginPurge` enqueues a report that is
`processing`, `DeleteObject` removes the bytes and the row, `ActivateOutgoing`
releases the report. A failed unlink or an ended context (`PurgeFails`) leaves
the report as it is, at the head of the outbox sooner or later, and a new purge
brings a new report; only `Restart`, which releases whatever is `processing`,
frees it. `Restart` also ends the loop, the purges and an enrolment under way.
RegisterVerifiedFile and ApplyLifecycleReport hold the account's advisory lock
and are one step. ApplyCatalogActions handles its files one after another and
queues the origin's command in a separate statement, so a request is a small
process that may fail between any two (`action`). Commands are claimed under a
lease, applied and finished in separate steps, the purge of a command in two.

`phase` is how far an Agent's enrolment is. An Agent in `Fresh` starts with
files in its list or its trash of which nothing was reported (it had no
`LANAdvertiseURL` yet). `PersistAuth` stores the credentials and reads the
files, reconcileExisting runs statement by statement, the UPDATE that adds the
`operation_id` included, and `MarkReconciled` sets the marker. An error or a
restart in between (`ReconcileFails`, `Restart`) leaves what was enqueued, and
the next enrolment begins again. The files are taken in any order (`Listings`),
which covers the order of creation. Enrolling again would register copies as
files of the Agent's own; an Agent that holds some does not enrol in the model.
Files have contents of their own and are in the root folder.

### Library

Folders, shares, the server's trash and the lifecycle reports that write the
same rows, under READ COMMITTED. `call` holds the
calls in flight; a call is split at every statement whose result a later one
relies on. `FOR UPDATE` and written rows are locks the other calls wait for,
the unique indexes are guards that turn into errors. `ApplyLifecycleReport`
takes the account's advisory lock and reads the entry's status without locking
the row; `CommitReport` updates it by id, whatever its status is by then. The
trash service does not take the account's lock.

### AppendLog and EventLog

`AppendLog` says what an account's events promise: a log that grows only at its
end, readers that have prefixes of it. `EventLog` is the code: a transaction
takes one of two locks (the account's row in PublishEventTx, the advisory lock
of the catalog's transactions around appendEvent), reads MAX(seq), inserts,
waits for or collides with a row of the same number, commits or rolls back;
a client pages with DeltaSync. The mapping is `log <- the events of the rows`,
`seen <- what each client has received`.

### Hub

Run's select cases, the two pumps of each connection, BroadcastToUser and the
ping answers. Channels are unbuffered except `send`, whose buffer is `Capacity`.
A second close or a send on a closed channel is the channel state `panic`.
`due` is what Run took in for a client, `got` what was written to its socket.
A read may fail at any time (deadline, size limit, bad frame), while writePump
can still write; on a closed connection it must.

### Migrations

db-migrate processes, possibly of several releases, that take the session's
advisory lock, may lose it with its connection, and apply each script in a
transaction of its own; readiness checks of servers that expect some version.

### MC modules, proofs

The `MC` modules add bounds, symmetry sets and the functions a cfg cannot write.
`TransferProofs` (scheduler and executor), `LocalStoreProofs`, `SessionsProofs`,
`CatalogProofs`, `LibraryProofs`, `EventLogProofs`, `HubProofs` and
`MigrationsProofs` hold the theorems. Definitions introduced as "Variant" are plausible bugs that
`PROJECT.json` pairs with the property that catches each of them.

## Runs

| Run | Checks | Bounds |
|---|---|---|
| `transfer_service` | TypeOK, OneLiveTask, LeaseMatchesState, VersionFencesRow, OnlyTheHolderReports | 2 devices (symmetric), 1 object, 2 tasks, versions up to 7 and 3: one task lives through a whole attempt and its aftermath while the other competes for the same replica |
| `transfer_executor` | ExecTypeOK, ReplicaIsStored, StaleReportsRejected, LocalEndIsReal, TerminalIsFinal, TransferEnds | 1 Agent, 1 source, 1 task, limit of 2 attempts, 2 faults, 1 change in the environment |
| `local_store` | StoreTypeOK, ActiveNamesUnique, ReadyHasFile, PurgeFinishes | 2 files of the same content, 2 names, 2 goroutines, 1 report, 1 fault (a crash, or a rename, unlink or delivery that fails) |
| `sessions` | TypeOK, OneLivePerFamily, LockoutHasCause, DeadFamilyStaysDead | 1 Agent, 1 phone, 2 requests at once, 4 sessions, 2 revocations, expiries or changes |
| `catalog` | TypeOK, CatalogFollowsOrigin | 2 Agents with a file each, 2 names (symmetric), 1 Agent enrolling with or without a file, 2 changes, no action of a client, 1 fault, 1 attempt per command |
| `catalog_liveness` | AppliedOnce, PurgedIsFinal, ReportsEnd, CommandsEnd | 2 enrolled Agents with a file each, 1 name, 2 changes, 1 action, 2 faults, 2 attempts per command |
| `library` | TypeOK, ServedWithinLimit, TrashHasRecord, RevokedServesNothing, LegalLifecycle, MovesWhole | 2 calls at once, 1 folder beside the root, 2 files, 2 names, 1 share of 1 download |
| `event_log` | CollisionIsAcrossLocks, ImplementsLog, EventsArrive | 3 writers, 1 reader, 4 events of 2 kinds, pages of 2 |
| `hub` | NoPanic, NoGaps, ConnectionsEnd | 2 connections of two accounts, 1 publisher, buffers of 1, 3 messages |
| `migrations` | AppliedOnceInOrder, NeverDirty, ReadyHasSchema | 4 processes with 2 or 3 scripts, servers that expect 2 and 3 |
| `claim_blocked` | ReadyTaskIsServed, violated | 2 objects, 2 tasks, no faults, 1 trashed entry |
| `only_purged_files_go` | OnlyPurgedFilesGo, violated | 2 files of the same content, 2 goroutines, no faults |

Why the bounds are enough for the cases meant:

* `transfer_executor`: attempts and faults bound the behaviour, the version
  bound (30) is never reached. Two faults and a limit of two reach both ends:
  a task that is given up after as many faults, and one that recovers.
* `local_store`: two goroutines and two files of one content are what every
  known interference needs, since it is about one shared object. A second
  content only multiplies independent states.
* `sessions`: four rows are two rotations of one family beside another family;
  two requests are a race, and the Agent's abandoned request takes part in it.
* `catalog`: CatalogFollowsOrigin excepts the files a client acts on, so the
  run leaves clients out and spends its states on enrolment: every state of the
  file an Agent enrols with, a failure or restart at every statement, the
  enrolment again, and two changes or a purge beside it. `catalog_liveness` has
  the actions: two changes and one action put a trash, a restore, a purge and a
  command of the same file in every order, with a lost reply or a late duplicate
  and one more failure, which is what a second claim of a command needs.
* `library`: two calls are a race between any two operations, reports included;
  a share of one download is at its limit after the first.
* `event_log`: three writers are two of one lock and one of the other; four
  events with pages of two make `has_more` true, false and wrong by a race.
* `hub`: a buffer of one is full after one message, and three messages are one
  written, one buffered and one that does not fit.
* `migrations`: four processes let a later release overtake an earlier one that
  has lost its lock, twice.

Deadlock checking is off where the system may rest: in `local_store` ids are
used once; in `sessions`, `catalog`, `catalog_liveness`, `library`, `event_log` and `hub` the bounded
events are used up and every request has been answered.

What the violations show (quotations under `findings`):

* **claim_blocked.** ClaimNext selects a task without looking at its file entry
  and then fails on the join with it. A trashed entry's task blocks its device.
* **only_purged_files_go.** "Last reference" is decided in one transaction and
  acted upon in later ones; a file created in between disappears.

### Counterexamples kept beside the runs

These configurations each check one sentence of the code or its contracts that
the code does not keep; TLC prints the trace.

| Configuration, module | Property | What is said, what happens |
|---|---|---|
| `TerminalRevived.cfg`, MCTransferService | TerminalIsFinal | `server/internal/transfer/transfer.go:44`: "Terminal states (completed, canceled, failed_permanent) have no outgoing edges." UpdateState to `canceled` leaves the lease in place and FailAttempt does not test the state, so a canceled task goes back to `retry_wait`. Along the shipped Agent's own requests it does not happen: `transfer_executor` checks the same property |
| `CancelConfirmed.cfg`, MCTransferExecutor | ConfirmedCancelHolds | `contracts/proto/sharedisk/v1/local.proto:184`: "Whether the transfer was canceled." The local API answers `canceled: true` when it has only set a flag, which nobody reads after the `verifying` report |
| `ReportFollowsPurge.cfg`, MCLocalStore | ReportFollowsPurge | `client/ubuntu/internal/storage/sqlite_object_store.go:353`: the report is "blocked until the local filesystem/SQLite purge saga has completed". Recover frees it together with interrupted deliveries |
| `ReadyAlwaysHasFile.cfg`, MCLocalStore | ReadyAlwaysHasFile | `sqlite_object_store.go:127`: "SQLite never claims READY for an object that no longer exists on disk". Two imports of one content beside the purge of its last reference: the purge removes the file, one import's rename fails, and the other, past its own rename, writes READY. Found by the proof of ReadyHasFile, which excepts a failed rename |
| `QuarantineHolds.cfg`, MCLocalStore | QuarantineHolds | `sqlite_object_store.go:86`: "Quarantine it; never auto-mark it READY." A quarantined orphan becomes READY one restart later |
| `SessionsSurvive.cfg`, MCSessions | ReactivationStartsAfresh | `server/internal/identity/device.go:167`: "Existing sessions remain revoked". A login that read the device before its deregistration inserts its session after it, and that session is live again when the device is reactivated |
| `ActionsAreAuthoritative.cfg`, MCCatalog | ActionsAreAuthoritative | `contracts/openapi/openapi.yaml:443`: "Apply an authoritative lifecycle action and queue it to every replica". A command queued before the origin's own later change is applied after it and not reported: catalog and origin stay different |
| `OutboxDrains.cfg`, MCCatalog | OutboxDrains | `client/ubuntu/internal/agentsync/client.go:277`: "Run processes operations FIFO. One operation is completed before the next begins". The report of a purge that failed stays `processing` at the head, and what comes after it waits until a restart. `catalog_liveness` checks that nothing else stops an outbox |
| `LifecycleAlwaysLegal.cfg`, MCLibrary | LifecycleAlwaysLegal | `server/internal/catalog/unified.go:21`: "catalog file state does not allow this operation". A report has read `trashed` and updates by id; the trash service purged or restored the file in between, and the report takes a purged file back or purges an active one |
| `RestoreGoesBack.cfg`, MCLibrary | RestoreGoesBack | `server/internal/trash/trash.go:199`: "Restore restores a trashed file entry back to its original folder." A file that was restored by the trash service, moved, and trashed again by a report goes back to the folder of the first time: the report's ON CONFLICT keeps `original_folder_id` |
| `OnlyEmptyFoldersGo.cfg`, MCLibrary | OnlyEmptyFoldersGo | `openapi.yaml:525`: "Delete an empty folder". The folder that a move or a new folder was checked against may be deleted before they commit |

`server/internal/sync/sync.go:32` says of event numbers that concurrent writers
cannot collide. They cannot within one lock (CollisionIsAcrossLocks, proved);
across the two locks they do, the primary key ends one of the transactions, and
the log is not harmed (ImplementsLog, proved).

### Fairness

* `ExecFairness`: the Agent's loop keeps running (a ticker drives it and each
  request has a timeout) and a lease or retry delay that nobody works under runs
  out. Nothing is assumed of users, faults, late requests or the environment.
* `StoreFairness`: a goroutine inside a saga goes on (weak), and the hourly ticker
  purges what is in `purging` again and again (strong, because a goroutine may be
  busy at each single tick but not at all of them: the ticker is a goroutine of its
  own, which the model draws from the shared pool).
* Catalog's `Fairness`: each Agent's loop goes on, for the same reason, and so do
  the calls it has begun (an enrolment's statements, a purge); the server serves
  what has reached it, goes on with the actions it has begun and lets leases
  lapse. Users and clients are free, whether they enrol an Agent, change a file
  or repeat a request, and so are timeouts, failures and restarts: nothing makes
  anyone restart an Agent whose outbox is blocked.
* EventLog: a client keeps calling DeltaSync. Writers need not do anything.
* Hub: Run serves every goroutine that waits for it, because none of its cases
  blocks and select chooses at random; the pumps run, and ping ticker and write
  deadline end a write to a dead connection. Reads are fair on a closed
  connection only (`ReadsClosed`): a read of an open one need not fail.

## Proofs

Every theorem holds for all values of the constants that satisfy the named
assumption of each module it is about.

**TransferProofs**, the scheduler (TypeCorrect, LiveTaskUnique, LeaseAgreesWithState,
VersionFence, HolderReports). Every operation but creation rewrites one existing
row and leaves object, target and priority alone. A lemma states that once (each
of the operations is a `WriteRow` or the lapse of a lease), and each invariant
then needs two cases, a rewrite and a creation. `TypeOK` is inductive by itself.
`OneLiveTask` is inductive relative to `TypeOK`: a rewrite that keeps a live row
live cannot clash, and the two that can make a row live (creation, FailAttempt on
an ended row) are guarded by the index. `LeaseMatchesState` is inductive
relative to `TypeOK` too; it is the strengthening that connects the state with
the lease columns, and its second and third conjuncts are what lets the first
survive a failed attempt. The two action properties follow from the same case
split.

The executor (ExecTyped, ReplicaSafe, LocalEndSafe, StaleSafe, TerminalSafe,
ServerRefines, ServerSafe). The invariant relates what an Agent remembers, and
what a request it gave up carries, to the row: the version is at most the row's,
and equal only with the same attempt (`Fenced`). With it go that an ended row has
no owner, so that no report is accepted for it, that a completion is only
reported of what is stored, and the two invariants themselves. No part is
inductive without the others: ReplicaIsStored needs that a late completion is of
something stored, StaleReportsRejected that equal versions mean equal attempts.
Each step is a part of the server, which carries the invariant over (versions
grow, ended rows stay), and a part of the Agent, which adds what it changes.
`ServerRefines` is the refinement: seen from the server's tables, Agents, faults
and late requests do nothing but steps of the scheduler, so its theorems hold
with them (`ServerSafe`).

**EventLogProofs** (TypeCorrect, NoCollisionWithinLock, Implementation). The
invariant: committed numbers are `1 .. Latest`; a number a transaction has
computed is at most the next one, and once its row is inserted it is the next
one and nobody else's; each lock has one holder; what was committed since a
transaction took its number was committed under the other lock; each client has
exactly the events up to its cursor. Without the second part contiguity is not
inductive (two inserted rows with one number), without the fourth a collision
could be within a lock. `Implementation` is the refinement `Spec =>
Log!Spec`: a commit is `Publish`, a page `Catch`, every other step a stutter.

**HubProofs** (TypeCorrect, PanicFree, Gapless). The map holds open channels
only, and a handler that waits to register has an open channel outside the map:
then no close is a second one. For `Gapless` the strengthening says of each
connection that what was written followed by what is buffered is a prefix of
what was due, all of it as long as the client is in the map, and that nothing
precedes the registration. `TypeCorrect` contains that no buffer exceeds its
capacity.

**MigrationsProofs** (TypeCorrect, Serialised, Clean, Ready). A process at work
comes to an applied version or to the next one; with its row inserted it is at
the next one, and alone. That is enough for all three properties and does not
mention the advisory lock: the primary key serialises the scripts, the lock only
saves a process the failure.

**LocalStoreProofs** (StoreTyped, NamesSafe, ReadySafe). The sagas hold no lock,
so the invariant has to say what each goroutine still owes. `BytesFollow`: when
the bytes of an object are gone and its record is READY, or a goroutine is past
its rename and will write READY, then another goroutine is about to rename bytes
into place or to delete the record. A crash forgets every goroutine, and the
startup recovery is what restores the clause then. The attempt to prove it
without exception failed on a rename that fails (`ReadyAlwaysHasFile.cfg`);
objects whose last rename failed, until the next start (`unstored`), are excepted.
ActiveNamesUnique is inductive relative to the types: no index guards the names,
each transaction that makes one active looks for it first, and SQLite runs one
writing transaction at a time.

**SessionsProofs** (SessionsTyped, FamilySafe, DeadFamilySafe, LockoutSafe).
OneLivePerFamily rests on the row lock: a row is locked by one transaction, and
the row a rotation has read as usable stays so until it commits; families are
numbered by their first session, so a new one is nobody's. For LockoutHasCause
the invariant follows an Agent's call through the server: sessions, exchanges,
revocations and grants stay within one device, a family that enrolment grants is
known to no other request, and an Agent that nothing has excused holds a usable
token, or its next one is on the way, and nobody but its own call exchanges a
token of that family.

**LibraryProofs** (LibraryTyped, ShareLimitSafe, TrashSafe, RevocationSafe,
LifecycleSafe, MovesSafe). A share that is being resolved is locked by one call,
active and below its limit until that call ends, and what was served was counted;
a trash record is held by one call and stays open, so that a restore finds the
record as it read it, the folder included; what a move has updated stays active
until it ends; one call at a time holds the account's lock, so a report is
overtaken by the trash service only. Entry and record are always written
together, which keeps TrashHasRecord beside stale reports too; LegalLifecycle
says that those reports are the only way to an illegal change.

**CatalogProofs** (CatalogTypeCorrect, OnceSafe, PurgedSafe, OriginSafe).
AppliedOnce: whatever changed the catalog left its completed idempotency key, or,
for a registration, which has none, the entry it created. CatalogFollowsOrigin is
the long one, because a report may be retried, time out and arrive late, be held
back by a purge, or be overtaken by a registration of the same file. Let h be the
states a file goes through, one per report the origin has enqueued (`Replays`).
Then the catalog's entry is h[q] for some q (`Shown`); q covers every report that
was answered and at most one more, the one under way, and a completed idempotency
key marks exactly the lifecycle reports that q covers (`TakenIn`); the last h is
the row of the origin, or a state that the statements enrolment has still to run
make it (`Standing`, `Due`). A report already taken in changes nothing, the next
one moves q by one. Around it the invariant says that reports are sent one at a
time behind answered ones (`SentInOrder`, `LateInOrder`), that an Agent registers
only files of its own (`OwnFiles`), that what `reconcileExisting` has read is
still so unless a change raced with it, which the property excepts
(`ReadIsCurrent`), that a purge under way has its report to itself and unsent
(`PurgesHold`), and that the origin has a command on its file only when a client
asked (`OriginCommands`). A repeated enrolment enqueues registrations and trash
reports of files that h already shows, on which `Effect` is idempotent; a repeated
purge enqueues a second purge report, likewise.

The type invariants of EventLog, Hub and Migrations are proved and not in a run.
Every invariant and every action property of the passing runs is proved. Only
model-checked are the liveness properties (TransferEnds, PurgeFinishes,
ReportsEnd, CommandsEnd, EventsArrive, ConnectionsEnd): fairness and ENABLED are
out of the prover's reach. The bounds of the models (numbers of faults, changes,
sessions, versions) are constants, so the theorems hold whatever they are. No
module uses recursion.

## Not modelled

* Name normalisation and hashing: names and contents are model values. Two
  entries that share an object on one device are LocalStore's subject, not
  Catalog's.
* HTTP, tus and range parsing, request decoding, read-only routes, the desktop
  UI, CLI, discovery and the Android client: I/O around the modelled operations.
* Token signing, configuration, generated code.
* Code that no program reaches: the `replica` and `p2p` packages, the unused
  functions of `catalog.go`, `session.Rotate`, `MigrateDown`, tombstones.
  `trash`, `websocket` and the `sync` service are not wired at this commit
  either; they are modelled because they work on rows and channels that others
  share (`trash` on those of the lifecycle reports, `sync` on the events of the
  catalog), and what they do beside them is what a test would not show.
* An Agent that enrols again while it holds copies of other Agents' files, which
  reconcileExisting would register as files of its own.
* The Agent's shutdown (socket removal, process lock), and an SQLite statement
  that fails between an unlink and the record's deletion.

## Plan

1. Compose TransferExecutor's import with LocalStore (name conflicts, purge of a
   replica while it is reported).
2. Shared contents in Catalog; the Agent process (start, shutdown, second
   instance) as a module.
3. Theorems beside the runs: that a purge's steps only ever go forward, and that
   a device command is applied at most once per claim.
