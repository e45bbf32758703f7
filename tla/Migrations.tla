------------------------------- MODULE Migrations ------------------------------
(***************************************************************************)
(* Schema migrations: internal/database/migrate.go as db-migrate runs it,    *)
(* and the schema check of the control server's and the worker's readiness.  *)
(*                                                                          *)
(* db-migrate takes a session-level advisory lock on one connection of its   *)
(* pool and migrates on whichever connection the pool gives it: when the     *)
(* first one breaks the lock is gone and the process goes on.  A migration   *)
(* is one transaction: its row in schema_migrations and its script's effect  *)
(* appear together, and the primary key makes an INSERT wait for an open     *)
(* transaction with the same version.                                       *)
(***************************************************************************)
EXTENDS Integers, Sequences

CONSTANTS
    Process,    \* runs of db-migrate
    Ships,      \* [Process -> Nat]: the last migration on its disk
    Server,     \* processes that check the schema
    Expected,   \* [Server -> Nat]: LatestVersion of their disk
    Nobody      \* the lock is free

ASSUME MigrationsAssumption ==
    /\ Ships \in [Process -> Nat]
    /\ Expected \in [Server -> Nat]
    /\ Nobody \notin Process

VARIABLES
    rows,       \* committed schema_migrations: [version -> is it dirty]
    schema,     \* the scripts whose effect is committed, in order
    lock,       \* the session that holds the advisory lock
    pc,         \* where each process is
    todo,       \* the version each process comes to next
    health      \* the last answer of each server's readiness check

vars == <<rows, schema, lock, pc, todo, health>>

\* A process has a transaction open in which it has inserted its row.
InTransaction(p) == pc[p] \in {"dirty", "applied", "clean"}

At(p, where) == pc' = [pc EXCEPT ![p] = where]

-----------------------------------------------------------------------------
(***************************************************************************)
(* db-migrate.                                                              *)
(***************************************************************************)

\* pg_try_advisory_lock: a process that does not get it ends.
TryLock(p) ==
    /\ pc[p] = "new"
    /\ \/ lock = Nobody /\ lock' = p /\ At(p, "locked")
       \/ lock # Nobody /\ At(p, "ended") /\ UNCHANGED lock
    /\ UNCHANGED <<rows, schema, todo, health>>

\* The connection that holds the lock breaks.
LoseLock(p) ==
    /\ lock = p
    /\ lock' = Nobody
    /\ UNCHANGED <<rows, schema, pc, todo, health>>

\* The scripts on the disk of a process: numbered from 1 without a gap, each
\* with an up script.
LoadMigrations(p) == 1 .. Ships[p]

\* ORDER BY version DESC LIMIT 1, of what is committed; 0 without a row.
Newest == IF DOMAIN rows = {} THEN 0 ELSE CHOOSE v \in DOMAIN rows : \A u \in DOMAIN rows : u <= v

\* The newest row is dirty: GetCurrentVersion is an error.
Wedged == DOMAIN rows # {} /\ rows[Newest] = "dirty"

\* MigrateUpTo: load the scripts, make sure of the table, read the version.
GetCurrentVersion(p) ==
    /\ pc[p] = "locked"
    /\ \/ ~Wedged /\ At(p, "loop") /\ todo' = [todo EXCEPT ![p] = Newest + 1]
       \/ Wedged /\ At(p, "failed") /\ UNCHANGED todo
    /\ UNCHANGED <<rows, schema, lock, health>>

\* Variant of InsertDirty: ON CONFLICT DO NOTHING.
InsertDirtyOrNot(p) ==
    /\ pc[p] = "loop" /\ todo[p] \in LoadMigrations(p)
    /\ \A q \in Process \ {p} : ~(InTransaction(q) /\ todo[q] = todo[p])
    /\ At(p, "dirty")
    /\ UNCHANGED <<rows, schema, lock, todo, health>>

\* Variant of InsertDirty: the row is committed at once.
InsertDirtyFirst(p) ==
    /\ pc[p] = "loop" /\ todo[p] \in LoadMigrations(p)
    /\ \A q \in Process \ {p} : ~(InTransaction(q) /\ todo[q] = todo[p])
    /\ \/ /\ todo[p] \notin DOMAIN rows /\ At(p, "dirty")
          /\ rows' = [v \in DOMAIN rows \cup {todo[p]} |-> IF v = todo[p] THEN "dirty" ELSE rows[v]]
       \/ todo[p] \in DOMAIN rows /\ At(p, "failed") /\ UNCHANGED rows
    /\ UNCHANGED <<schema, lock, todo, health>>

\* BEGIN; INSERT (version, TRUE), or a primary key violation.
InsertDirty(p) ==
    /\ pc[p] = "loop" /\ todo[p] \in LoadMigrations(p)
    /\ \A q \in Process \ {p} : ~(InTransaction(q) /\ todo[q] = todo[p])
    /\ At(p, IF todo[p] \in DOMAIN rows THEN "failed" ELSE "dirty")
    /\ UNCHANGED <<rows, schema, lock, todo, health>>

\* The script, then dirty = FALSE.
ApplyUp(p) == pc[p] = "dirty" /\ At(p, "applied") /\ UNCHANGED <<rows, schema, lock, todo, health>>

MarkClean(p) == pc[p] = "applied" /\ At(p, "clean") /\ UNCHANGED <<rows, schema, lock, todo, health>>

\* COMMIT, and on to the next script.
Commit(p) ==
    /\ pc[p] = "clean"
    /\ rows' = [v \in DOMAIN rows \cup {todo[p]} |-> IF v = todo[p] THEN "clean" ELSE rows[v]]
    /\ schema' = Append(schema, todo[p])
    /\ todo' = [todo EXCEPT ![p] = @ + 1]
    /\ At(p, "loop")
    /\ UNCHANGED <<lock, health>>

\* A statement fails, or the process or its connection dies: a transaction
\* that is open is rolled back.
Fail(p) ==
    /\ pc[p] \in {"locked", "loop", "dirty", "applied", "clean"}
    /\ At(p, "failed")
    /\ UNCHANGED <<rows, schema, lock, todo, health>>

\* The process ends, and with it its session.
Exit(p) ==
    /\ pc[p] = "failed" \/ (pc[p] = "loop" /\ todo[p] \notin LoadMigrations(p))
    /\ At(p, "ended")
    /\ lock' = IF lock = p THEN Nobody ELSE lock
    /\ UNCHANGED <<rows, schema, todo, health>>

-----------------------------------------------------------------------------
\* Variant of SchemaChecker: without a row the schema counts as up to date.
SchemaCheckerEmpty(s) == ~Wedged /\ (DOMAIN rows = {} \/ Newest >= Expected[s])

\* The schema check of a server: the current version can be read and is at
\* least the one it expects.
SchemaChecker(s) == ~Wedged /\ Newest >= Expected[s]

\* The answer of a readiness check: the database check may fail at any time.
ReadyzHandler(s) ==
    /\ \E pinged \in BOOLEAN : health' = [health EXCEPT ![s] = IF pinged /\ SchemaChecker(s) THEN "UP" ELSE "DOWN"]
    /\ UNCHANGED <<rows, schema, lock, pc, todo>>

-----------------------------------------------------------------------------
Init ==
    /\ rows = [v \in 1 .. 0 |-> "clean"]
    /\ schema = <<>>
    /\ lock = Nobody
    /\ pc = [p \in Process |-> "new"]
    /\ todo = [p \in Process |-> 1]
    /\ health = [s \in Server |-> "DOWN"]

Migrate(p) ==
    \/ TryLock(p) \/ GetCurrentVersion(p) \/ InsertDirty(p) \/ ApplyUp(p) \/ MarkClean(p)
    \/ Commit(p) \/ Exit(p)

Next ==
    \/ \E p \in Process : Migrate(p) \/ LoseLock(p) \/ Fail(p)
    \/ \E s \in Server : ReadyzHandler(s)

Spec == Init /\ [][Next]_vars

-----------------------------------------------------------------------------
(***************************************************************************)
(* Properties.                                                              *)
(***************************************************************************)

\* Type invariant of the migrations: versions start at 1.
TypeOK ==
    /\ DOMAIN rows \subseteq Nat \ {0}
    /\ rows \in [DOMAIN rows -> {"clean", "dirty"}]
    /\ schema \in Seq(Nat \ {0})
    /\ lock \in Process \cup {Nobody}
    /\ pc \in [Process -> {"new", "locked", "loop", "dirty", "applied", "clean", "failed", "ended"}]
    /\ todo \in [Process -> Nat \ {0}]
    /\ health \in [Server -> {"UP", "DOWN"}]

\* Every script takes effect once and in its order, and the table says which
\* have: also when the lock is lost and several processes with different
\* scripts migrate at once, and whichever of them fail half-way.
AppliedOnceInOrder ==
    /\ DOMAIN rows = 1 .. Len(schema)
    /\ \A i \in 1 .. Len(schema) : schema[i] = i

\* No failure leaves "database is in dirty state", which nothing repairs.
NeverDirty == \A v \in DOMAIN rows : rows[v] = "clean"

\* A server that is ready has every migration it expects.
ReadyHasSchema ==
    \A s \in Server : health[s] = "UP" => \A v \in 1 .. Expected[s] : \E i \in 1 .. Len(schema) : schema[i] = v
================================================================================
