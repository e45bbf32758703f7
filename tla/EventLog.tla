-------------------------------- MODULE EventLog -------------------------------
(***************************************************************************)
(* account_events: how server/internal/sync and the catalog's transactions   *)
(* number an account's events, and how DeltaSync pages through them.        *)
(*                                                                          *)
(* Both writers take MAX(seq) + 1 of the committed rows; the primary key     *)
(* (user_id, seq) makes an INSERT wait for an uncommitted row with the same  *)
(* number and fail if that row is committed.  They serialise themselves by   *)
(* different locks: PublishEventTx by the account's row, appendEvent by the  *)
(* advisory lock its caller holds.                                          *)
(***************************************************************************)
EXTENDS Integers, FiniteSets

CONSTANTS
    Event,      \* events
    Writer,     \* transactions that publish an event
    Reader,     \* clients that synchronise
    MaxEvents,  \* bound: no transaction begins once there are as many
    Page,       \* the limit of DeltaSync
    NoEvent     \* the event of an idle writer

ASSUME EventLogAssumption ==
    /\ Page \in Nat \ {0}
    /\ NoEvent \notin Event
    /\ MaxEvents \in Nat

VARIABLES
    rows,       \* committed account_events: [seq -> event, lock of its writer]
    writer,     \* the transactions
    reader,     \* the clients: cursor, and where they are in DeltaSync
    got         \* the events each client has received, by seq

vars == <<rows, writer, reader, got>>

Lock == {"account", "advisory"}
Nothing == [i \in 1 .. 0 |-> 0]
IdleWriter == [pc |-> "idle", lock |-> "account", event |-> NoEvent, seq |-> 0]

\* COALESCE(MAX(seq), 0).
Latest == IF DOMAIN rows = {} THEN 0 ELSE CHOOSE m \in DOMAIN rows : \A s \in DOMAIN rows : s <= m

-----------------------------------------------------------------------------
(***************************************************************************)
(* Writers.                                                                 *)
(***************************************************************************)

\* Variant of Begin: no lock is taken.
BeginUnlocked(w, k, e) ==
    /\ writer[w].pc = "idle"
    /\ Latest < MaxEvents
    /\ writer' = [writer EXCEPT ![w] = [pc |-> "begun", lock |-> k, event |-> e, seq |-> 0]]
    /\ UNCHANGED <<rows, reader, got>>

\* The transaction gets its lock: SELECT 1 FROM users ... FOR UPDATE, or
\* pg_advisory_xact_lock.
Begin(w, k, e) ==
    /\ writer[w].pc = "idle"
    /\ Latest < MaxEvents
    /\ \A v \in Writer : writer[v].pc # "idle" => writer[v].lock # k
    /\ writer' = [writer EXCEPT ![w] = [pc |-> "begun", lock |-> k, event |-> e, seq |-> 0]]
    /\ UNCHANGED <<rows, reader, got>>

\* Variant of SelectMax: numbers are dealt out before they are committed.
SelectMaxDealt(w) ==
    /\ writer[w].pc = "begun"
    /\ \E n \in 1 .. Latest + Cardinality(Writer) :
          /\ \A v \in Writer : writer[v].seq < n
          /\ Latest < n
          /\ n = Latest + 1 \/ \E v \in Writer : writer[v].seq = n - 1
          /\ writer' = [writer EXCEPT ![w].pc = "numbered", ![w].seq = n]
    /\ UNCHANGED <<rows, reader, got>>

\* SELECT COALESCE(MAX(seq), 0) + 1.
SelectMax(w) ==
    /\ writer[w].pc = "begun"
    /\ writer' = [writer EXCEPT ![w].pc = "numbered", ![w].seq = Latest + 1]
    /\ UNCHANGED <<rows, reader, got>>

\* INSERT INTO account_events, or a unique violation that ends the
\* transaction.
InsertEvent(w) ==
    LET n == writer[w].seq IN
    /\ writer[w].pc = "numbered"
    /\ \A v \in Writer : ~(writer[v].pc = "inserted" /\ writer[v].seq = n)
    /\ writer' = [writer EXCEPT ![w] =
           IF n \in DOMAIN rows THEN IdleWriter ELSE [@ EXCEPT !.pc = "inserted"]]
    /\ UNCHANGED <<rows, reader, got>>

\* COMMIT: the event appears together with the change it tells of.
Commit(w) ==
    LET n == writer[w].seq IN
    /\ writer[w].pc = "inserted"
    /\ rows' = [s \in DOMAIN rows \cup {n} |->
           IF s = n THEN [event |-> writer[w].event, lock |-> writer[w].lock] ELSE rows[s]]
    /\ writer' = [writer EXCEPT ![w] = IdleWriter]
    /\ UNCHANGED <<reader, got>>

\* Another statement of the transaction fails, or the server stops.
Rollback(w) ==
    /\ writer[w].pc # "idle"
    /\ writer' = [writer EXCEPT ![w] = IdleWriter]
    /\ UNCHANGED <<rows, reader, got>>

-----------------------------------------------------------------------------
(***************************************************************************)
(* Readers.                                                                 *)
(***************************************************************************)

\* WHERE seq > since ORDER BY seq LIMIT Page.
PageAfter(since) ==
    {s \in DOMAIN rows : s > since /\ Cardinality({t \in DOMAIN rows : since < t /\ t <= s}) <= Page}

LastOf(page, since) == IF page = {} THEN since ELSE CHOOSE m \in page : \A s \in page : s <= m

\* Variant of GetEvents: the cursor goes to the latest event of all.
GetEventsToLatest(r) ==
    LET page == PageAfter(reader[r].cursor) IN
    /\ reader[r].pc = "idle"
    /\ got' = [got EXCEPT ![r] =
           [s \in DOMAIN got[r] \cup page |-> IF s \in page THEN rows[s].event ELSE got[r][s]]]
    /\ reader' = [reader EXCEPT ![r] =
           [pc |-> "latest", cursor |-> Latest, full |-> Cardinality(page) = Page]]
    /\ UNCHANGED <<rows, writer>>

\* GetEvents; the client keeps the events and moves its cursor to the last.
GetEvents(r) ==
    LET page == PageAfter(reader[r].cursor) IN
    /\ reader[r].pc = "idle"
    /\ got' = [got EXCEPT ![r] =
           [s \in DOMAIN got[r] \cup page |-> IF s \in page THEN rows[s].event ELSE got[r][s]]]
    /\ reader' = [reader EXCEPT ![r] =
           [pc |-> "latest", cursor |-> LastOf(page, reader[r].cursor), full |-> Cardinality(page) = Page]]
    /\ UNCHANGED <<rows, writer>>

\* GetLatestSeq, a second query: has_more says whether to ask again at once.
DeltaSync(r) ==
    /\ reader[r].pc = "latest"
    /\ reader' = [reader EXCEPT ![r].pc =
           IF reader[r].full /\ reader[r].cursor < Latest THEN "idle" ELSE "done"]
    /\ UNCHANGED <<rows, writer, got>>

\* The next time the client synchronises.
SyncAgain(r) ==
    /\ reader[r].pc = "done"
    /\ reader' = [reader EXCEPT ![r].pc = "idle"]
    /\ UNCHANGED <<rows, writer, got>>

-----------------------------------------------------------------------------
Init ==
    /\ rows = Nothing
    /\ writer = [w \in Writer |-> IdleWriter]
    /\ reader = [r \in Reader |-> [pc |-> "idle", cursor |-> 0, full |-> FALSE]]
    /\ got = [r \in Reader |-> Nothing]

WriterStep(w) ==
    \/ \E k \in Lock, e \in Event : Begin(w, k, e)
    \/ SelectMax(w) \/ InsertEvent(w) \/ Commit(w) \/ Rollback(w)

ReaderStep(r) == GetEvents(r) \/ DeltaSync(r) \/ SyncAgain(r)

Next == (\E w \in Writer : WriterStep(w)) \/ (\E r \in Reader : ReaderStep(r))

Spec == Init /\ [][Next]_vars

\* Clients keep synchronising; writers need not do anything.
LiveSpec == Spec /\ \A r \in Reader : WF_vars(ReaderStep(r))

-----------------------------------------------------------------------------
(***************************************************************************)
(* Properties.                                                              *)
(***************************************************************************)

\* Type invariant of the event log.
TypeOK ==
    /\ DOMAIN rows \subseteq Nat \ {0}
    /\ rows \in [DOMAIN rows -> [event : Event, lock : Lock]]
    /\ writer \in [Writer -> [pc : {"idle", "begun", "numbered", "inserted"}, lock : Lock,
                              event : Event \cup {NoEvent}, seq : Nat]]
    /\ reader \in [Reader -> [pc : {"idle", "latest", "done"}, cursor : Nat, full : BOOLEAN]]

\* A transaction that holds one of the locks finds its number taken only by a
\* transaction that held the other: among themselves, the writers of either
\* lock never collide.
CollisionIsAcrossLocks ==
    \A w \in Writer :
        (writer[w].pc = "numbered" /\ writer[w].seq \in DOMAIN rows) => rows[writer[w].seq].lock # writer[w].lock

\* The events as an append-only log of which every client has a prefix: no
\* client that pages with its cursor misses an event that is committed late
\* or sees one number twice.
Log == INSTANCE AppendLog WITH
    log <- [s \in DOMAIN rows |-> rows[s].event],
    seen <- got

ImplementsLog == Log!Spec

\* A client that keeps synchronising receives every event: has_more never
\* stops it for good.
EventsArrive == \A r \in Reader : []<>(DOMAIN got[r] = DOMAIN rows)
================================================================================
