----------------------------- MODULE EventLogProofs ----------------------------
(***************************************************************************)
(* Proofs about EventLog: numbers are contiguous whatever the writers do, so *)
(* the event table implements an append-only log for any number of writers,  *)
(* readers and events and any page size.                                    *)
(***************************************************************************)
EXTENDS EventLog, FiniteSetTheorems, TLAPS

-----------------------------------------------------------------------------
(***************************************************************************)
(* The inductive invariant.                                                 *)
(***************************************************************************)

\* The committed numbers are 1 .. Latest.
Contiguous == Latest \in Nat /\ DOMAIN rows = 1 .. Latest

\* A number that was taken from MAX(seq) is at most the next one; an inserted
\* row still is the next one, and only one transaction can have it.
Numbered ==
    \A w \in Writer :
        /\ writer[w].pc # "idle" => writer[w].event \in Event
        /\ writer[w].pc \in {"numbered", "inserted"} => writer[w].seq \in 1 .. Latest + 1
        /\ writer[w].pc = "inserted" => writer[w].seq = Latest + 1

OneInserted ==
    \A v, w \in Writer : (writer[v].pc = "inserted" /\ writer[w].pc = "inserted") => v = w

\* Each lock has at most one holder.
Exclusive ==
    \A v, w \in Writer : (writer[v].pc # "idle" /\ writer[w].pc # "idle" /\ v # w) => writer[v].lock # writer[w].lock

\* What was committed since a transaction took its number was committed
\* under the other lock.
SinceNumbered ==
    \A w \in Writer : writer[w].pc = "numbered" =>
        \A s \in DOMAIN rows : s >= writer[w].seq => rows[s].lock # writer[w].lock

\* A client has exactly the events up to its cursor.
HasPrefix ==
    /\ \A r \in Reader : reader[r].cursor \in 0 .. Latest
    /\ got = [r \in Reader |-> [s \in 1 .. reader[r].cursor |-> rows[s].event]]

Inv == TypeOK /\ Contiguous /\ Numbered /\ OneInserted /\ Exclusive /\ SinceNumbered /\ HasPrefix

-----------------------------------------------------------------------------
(***************************************************************************)
(* Operators.                                                               *)
(***************************************************************************)

\* MAX of the numbers 1 .. n is n.
LEMMA MaxOfInterval ==
    ASSUME NEW n \in Nat, NEW D, D = 1 .. n
    PROVE  (IF D = {} THEN 0 ELSE CHOOSE m \in D : \A s \in D : s <= m) = n
<1>1. CASE n = 0
  BY <1>1
<1>2. CASE n # 0
  <2>1. n \in D /\ \A s \in D : s <= n
    BY <1>2
  <2>2. \A m \in D : (\A s \in D : s <= m) => m = n
    BY <2>1
  <2> QED
    BY <2>1, <2>2
<1> QED
  BY <1>1, <1>2

\* So the newest number of a contiguous table is its length.
LEMMA LatestOfInterval ==
    ASSUME NEW n \in Nat, DOMAIN rows = 1 .. n
    PROVE  Latest = n
BY MaxOfInterval DEF Latest

\* A page of a contiguous table is the interval that follows the cursor.
LEMMA PageIsInterval ==
    ASSUME Contiguous, NEW c \in 0 .. Latest
    PROVE  \E m \in c .. Latest : PageAfter(c) = c + 1 .. m /\ LastOf(PageAfter(c), c) = m
<1> DEFINE n == Latest
           m == IF n < c + Page THEN n ELSE c + Page
<1>0. n \in Nat /\ c \in Nat /\ Page \in Nat /\ Page > 0 /\ m \in c .. n /\ DOMAIN rows = 1 .. n
  BY EventLogAssumption DEF Contiguous
<1>1. \A s \in 1 .. n : s > c => Cardinality({t \in DOMAIN rows : c < t /\ t <= s}) = s - c
  <2> SUFFICES ASSUME NEW s \in 1 .. n, s > c
               PROVE  Cardinality({t \in DOMAIN rows : c < t /\ t <= s}) = s - c
    OBVIOUS
  <2>1. {t \in DOMAIN rows : c < t /\ t <= s} = c + 1 .. s
    BY <1>0
  <2>2. Cardinality(c + 1 .. s) = s - (c + 1) + 1
    BY <1>0, FS_Interval
  <2>3. s - (c + 1) + 1 = s - c
    BY <1>0
  <2> QED
    BY <2>1, <2>2, <2>3
<1>2. PageAfter(c) = {s \in 1 .. n : s > c /\ s - c <= Page}
  BY <1>0, <1>1 DEF PageAfter
<1>3. {s \in 1 .. n : s > c /\ s - c <= Page} = c + 1 .. m
  BY <1>0
<1>4. LastOf(c + 1 .. m, c) = m
  <2>1. CASE m = c
    BY <2>1, <1>0 DEF LastOf
  <2>2. CASE m # c
    <3>1. m \in c + 1 .. m /\ \A s \in c + 1 .. m : s <= m
      BY <2>2, <1>0
    <3>2. \A k \in c + 1 .. m : (\A s \in c + 1 .. m : s <= k) => k = m
      BY <3>1, <1>0
    <3> QED
      BY <3>1, <3>2 DEF LastOf
  <2> QED
    BY <2>1, <2>2
<1> QED
  BY <1>0, <1>2, <1>3, <1>4

-----------------------------------------------------------------------------
\* The empty table, with nobody writing or reading.
LEMMA InitInv == Init => Inv
<1> SUFFICES ASSUME Init PROVE Inv
  OBVIOUS
<1>1. DOMAIN rows = 1 .. 0 /\ Latest = 0
  BY LatestOfInterval DEF Init, Nothing
<1>2. TypeOK
  BY <1>1 DEF Init, TypeOK, Nothing, IdleWriter, Lock
<1>3. Contiguous /\ HasPrefix
  BY <1>1 DEF Init, Contiguous, HasPrefix, Nothing
<1>4. Numbered /\ OneInserted /\ Exclusive /\ SinceNumbered
  BY DEF Init, Numbered, OneInserted, Exclusive, SinceNumbered, IdleWriter
<1> QED
  BY <1>2, <1>3, <1>4 DEF Inv

\* A step that leaves the table and the readers alone preserves what is said
\* of them.
LEMMA TableUnchanged ==
    ASSUME Inv, UNCHANGED <<rows, reader, got>>
    PROVE  Latest' = Latest /\ Contiguous' /\ HasPrefix'
<1>1. Latest' = Latest
  BY DEF Latest
<1> QED
  BY <1>1 DEF Inv, Contiguous, HasPrefix

\* What a publishing transaction does, up to its commit or its failure.
LEMMA WriterStepInv ==
    ASSUME Inv, NEW w \in Writer, WriterStep(w)
    PROVE  Inv'
<1> USE DEF Inv
<1>1. ASSUME NEW k \in Lock, NEW e \in Event, Begin(w, k, e) PROVE Inv'
  <2>1. Latest' = Latest /\ Contiguous' /\ HasPrefix'
    BY <1>1, TableUnchanged DEF Begin
  <2>2. TypeOK'
    BY <1>1 DEF Begin, TypeOK
  <2>3. Numbered' /\ OneInserted' /\ Exclusive'
    BY <1>1, <2>1 DEF Begin, TypeOK, Numbered, OneInserted, Exclusive
  <2>4. SinceNumbered'
    BY <1>1 DEF Begin, TypeOK, SinceNumbered
  <2> QED
    BY <2>1, <2>2, <2>3, <2>4
<1>2. CASE SelectMax(w)
  <2>1. Latest' = Latest /\ Contiguous' /\ HasPrefix'
    BY <1>2, TableUnchanged DEF SelectMax
  <2>2. TypeOK'
    <3>1. PICK n \in Nat : n = Latest + 1
      BY DEF Contiguous
    <3>2. writer' = [writer EXCEPT ![w] = [writer[w] EXCEPT !.pc = "numbered", !.seq = n]]
      <4>1. writer' = [writer EXCEPT ![w].pc = "numbered", ![w].seq = n]
        BY <1>2, <3>1 DEF SelectMax
      <4> QED
        BY <4>1 DEF TypeOK
    <3>3. writer' \in [Writer -> [pc : {"idle", "begun", "numbered", "inserted"}, lock : Lock,
                                  event : Event \cup {NoEvent}, seq : Nat]]
      <4>1. PICK x : x = [writer[w] EXCEPT !.pc = "numbered", !.seq = n]
        OBVIOUS
      <4> HIDE DEF Inv
      <4>a. writer[w] \in [pc : {"idle", "begun", "numbered", "inserted"}, lock : Lock,
                           event : Event \cup {NoEvent}, seq : Nat]
        BY DEF Inv, TypeOK
      <4>2. x \in [pc : {"idle", "begun", "numbered", "inserted"}, lock : Lock,
                   event : Event \cup {NoEvent}, seq : Nat]
        BY <4>a, <4>1, <3>1
      <4>3. writer' = [writer EXCEPT ![w] = x]
        BY <3>2, <4>1
      <4> QED
        BY <4>2, <4>3 DEF Inv, TypeOK
    <3>4. UNCHANGED <<rows, reader>>
      BY <1>2 DEF SelectMax
    <3> QED
      BY <3>3, <3>4 DEF TypeOK
  <2>3. Numbered' /\ OneInserted' /\ Exclusive'
    BY <1>2, <2>1 DEF SelectMax, TypeOK, Numbered, OneInserted, Exclusive, Contiguous
  <2>4. SinceNumbered'
    BY <1>2 DEF SelectMax, TypeOK, SinceNumbered, Contiguous
  <2> QED
    BY <2>1, <2>2, <2>3, <2>4
<1>3. CASE InsertEvent(w)
  <2>1. Latest' = Latest /\ Contiguous' /\ HasPrefix'
    BY <1>3, TableUnchanged DEF InsertEvent
  <2>2. TypeOK'
    BY <1>3 DEF InsertEvent, TypeOK, IdleWriter, Lock
  <2>3. Numbered'
    BY <1>3, <2>1 DEF InsertEvent, TypeOK, Numbered, Contiguous, IdleWriter
  <2>4. OneInserted'
    BY <1>3 DEF InsertEvent, TypeOK, OneInserted, Numbered, Contiguous, IdleWriter
  <2>5. Exclusive' /\ SinceNumbered'
    BY <1>3 DEF InsertEvent, TypeOK, Exclusive, SinceNumbered, IdleWriter
  <2> QED
    BY <2>1, <2>2, <2>3, <2>4, <2>5
<1>4. CASE Commit(w)
  <2>0. PICK n \in Nat : n = Latest
    BY DEF Contiguous
  <2>1. writer[w].seq = n + 1 /\ n \in Nat /\ DOMAIN rows = 1 .. n /\ DOMAIN rows' = 1 .. n + 1
    BY <1>4, <2>0 DEF Commit, Numbered, Contiguous
  <2>2. Latest' = n + 1 /\ Contiguous'
    <3>1. (n + 1) \in Nat
      BY <2>1
    <3>2. Latest' = n + 1
      <4>1. \A D : D = 1 .. (n + 1) =>
              (IF D = {} THEN 0 ELSE CHOOSE m \in D : \A s \in D : s <= m) = n + 1
        BY <3>1, MaxOfInterval, Zenon
      <4>2. DOMAIN rows' = 1 .. (n + 1)
        BY <2>1
      <4> QED
        BY <4>1, <4>2, Zenon DEF Latest
    <3> QED
      BY <3>1, <3>2, <2>1 DEF Contiguous
  <2>3. TypeOK'
    BY <1>4, <2>1 DEF Commit, TypeOK, Numbered, IdleWriter, Lock
  <2>4. Numbered' /\ OneInserted' /\ Exclusive'
    BY <1>4, <2>0, <2>1, <2>2 DEF Commit, TypeOK, Numbered, OneInserted, Exclusive, IdleWriter
  <2>5. SinceNumbered'
    BY <1>4, <2>1 DEF Commit, TypeOK, SinceNumbered, Exclusive, IdleWriter
  <2>6. HasPrefix'
    BY <1>4, <2>0, <2>1, <2>2 DEF Commit, HasPrefix
  <2> QED
    BY <2>2, <2>3, <2>4, <2>5, <2>6
<1>5. CASE Rollback(w)
  <2>1. Latest' = Latest /\ Contiguous' /\ HasPrefix'
    BY <1>5, TableUnchanged DEF Rollback
  <2>2. TypeOK' /\ Numbered' /\ OneInserted' /\ Exclusive' /\ SinceNumbered'
    BY <1>5, <2>1 DEF Rollback, TypeOK, Numbered, OneInserted, Exclusive, SinceNumbered, IdleWriter, Lock
  <2> QED
    BY <2>1, <2>2
<1> QED
  BY <1>1, <1>2, <1>3, <1>4, <1>5 DEF WriterStep

\* What GetEvents does to a client that has the events up to its cursor.
LEMMA GetEventsExtends ==
    ASSUME Inv, NEW r \in Reader, GetEvents(r)
    PROVE  \E m \in reader[r].cursor .. Latest :
              /\ got' = [got EXCEPT ![r] = [s \in 1 .. m |-> rows[s].event]]
              /\ reader' = [reader EXCEPT ![r] = [pc |-> "latest", cursor |-> m, full |-> reader'[r].full]]
              /\ reader'[r].full \in BOOLEAN
<1> DEFINE c == reader[r].cursor
<1>1. c \in 0 .. Latest /\ Contiguous /\ DOMAIN got[r] = 1 .. c /\ \A s \in 1 .. c : got[r][s] = rows[s].event
  BY DEF Inv, HasPrefix
<1>2. PICK m \in c .. Latest : PageAfter(c) = c + 1 .. m /\ LastOf(PageAfter(c), c) = m
  BY <1>1, PageIsInterval
<1>3. DOMAIN got[r] \cup PageAfter(c) = 1 .. m
  BY <1>1, <1>2 DEF Contiguous
<1>4. [s \in DOMAIN got[r] \cup PageAfter(c) |-> IF s \in PageAfter(c) THEN rows[s].event ELSE got[r][s]]
        = [s \in 1 .. m |-> rows[s].event]
  BY <1>1, <1>2, <1>3 DEF Contiguous
<1>5. got' = [got EXCEPT ![r] = [s \in 1 .. m |-> rows[s].event]]
  BY <1>4 DEF GetEvents
<1>6. reader' = [reader EXCEPT ![r] = [pc |-> "latest", cursor |-> m, full |-> Cardinality(PageAfter(c)) = Page]]
  BY <1>2 DEF GetEvents
<1>7. reader'[r].full = (Cardinality(PageAfter(c)) = Page)
  BY <1>6 DEF Inv, TypeOK
<1> QED
  BY <1>2, <1>5, <1>6, <1>7

\* What a client that pages through DeltaSync does.
LEMMA ReaderStepInv ==
    ASSUME Inv, NEW r \in Reader, ReaderStep(r)
    PROVE  Inv'
<1> USE DEF Inv
<1>0. rows' = rows /\ writer' = writer
  BY DEF ReaderStep, GetEvents, DeltaSync, SyncAgain
<1>1. Latest' = Latest /\ Contiguous' /\ Numbered' /\ OneInserted' /\ Exclusive' /\ SinceNumbered'
  <2>1. Latest' = Latest
    BY <1>0 DEF Latest
  <2> QED
    BY <1>0, <2>1 DEF Contiguous, Numbered, OneInserted, Exclusive, SinceNumbered
<1>2. CASE GetEvents(r)
  <2>1. PICK m \in reader[r].cursor .. Latest :
              /\ got' = [got EXCEPT ![r] = [s \in 1 .. m |-> rows[s].event]]
              /\ reader' = [reader EXCEPT ![r] = [pc |-> "latest", cursor |-> m, full |-> reader'[r].full]]
              /\ reader'[r].full \in BOOLEAN
    BY <1>2, GetEventsExtends
  <2>2. m \in Nat /\ m \in 0 .. Latest
    BY DEF HasPrefix, Contiguous
  <2>3. TypeOK'
    BY <1>0, <2>1, <2>2 DEF TypeOK
  <2>4. HasPrefix'
    <3>1. \A q \in Reader : reader'[q].cursor = IF q = r THEN m ELSE reader[q].cursor
      BY <2>1 DEF TypeOK
    <3>2. got' = [q \in Reader |-> [s \in 1 .. reader'[q].cursor |-> rows[s].event]]
      BY <2>1, <3>1 DEF HasPrefix
    <3> QED
      BY <1>0, <1>1, <2>2, <3>1, <3>2 DEF HasPrefix
  <2> QED
    BY <1>1, <2>3, <2>4
<1>3. CASE DeltaSync(r) \/ SyncAgain(r)
  <2>1. got' = got /\ \A q \in Reader : reader'[q].cursor = reader[q].cursor
    BY <1>3 DEF DeltaSync, SyncAgain, TypeOK
  <2>2. TypeOK'
    BY <1>0, <1>3 DEF DeltaSync, SyncAgain, TypeOK
  <2>3. HasPrefix'
    BY <1>0, <1>1, <2>1 DEF HasPrefix
  <2> QED
    BY <1>1, <2>2, <2>3
<1> QED
  BY <1>2, <1>3 DEF ReaderStep

\* The invariant holds in every reachable state.
THEOREM Invariance == Spec => []Inv
<1>1. Init => Inv
  BY InitInv
<1>2. Inv /\ [Next]_vars => Inv'
  <2> SUFFICES ASSUME Inv, [Next]_vars PROVE Inv'
    OBVIOUS
  <2>1. CASE UNCHANGED vars
    BY <2>1 DEF vars, Inv, TypeOK, Contiguous, Latest, Numbered, OneInserted, Exclusive, SinceNumbered, HasPrefix
  <2>2. CASE Next
    BY <2>2, WriterStepInv, ReaderStepInv DEF Next
  <2> QED
    BY <2>1, <2>2
<1> QED
  BY <1>1, <1>2, PTL DEF Spec

\* Every reachable state of the table, of the transactions and of the clients
\* is well typed: in particular no event has the number 0.
THEOREM TypeCorrect == Spec => []TypeOK
BY Invariance, PTL DEF Inv

\* Two transactions that hold the same lock never compute the same number
\* (PublishEvent's claim, for each of the two locks).
THEOREM NoCollisionWithinLock == Spec => []CollisionIsAcrossLocks
<1>1. Inv => CollisionIsAcrossLocks
  BY DEF Inv, CollisionIsAcrossLocks, SinceNumbered, TypeOK, Contiguous
<1> QED
  BY <1>1, Invariance, PTL

-----------------------------------------------------------------------------
\* A commit is Publish of the abstract log.
LEMMA CommitPublishes ==
    ASSUME Inv, NEW w \in Writer, Commit(w)
    PROVE  Log!Next
<1> DEFINE n == Latest
           e == writer[w].event
           alog == [s \in DOMAIN rows |-> rows[s].event]
<1>1. /\ n \in Nat /\ DOMAIN rows = 1 .. n /\ writer[w].seq = n + 1 /\ e \in Event
  BY DEF Inv, Contiguous, Numbered, Commit
<1>2. DOMAIN rows' = 1 .. n + 1
  BY <1>1 DEF Commit
<1>3. [s \in DOMAIN rows' |-> rows'[s].event] = [i \in 1 .. n + 1 |-> IF i = n + 1 THEN e ELSE alog[i]]
  BY <1>1, <1>2 DEF Commit
<1>4. Log!Publish(n, e)
  BY <1>1, <1>3 DEF Log!Publish, Commit
<1>5. n \in {0} \cup DOMAIN alog
  BY <1>1
<1> QED
  <2>1. \E k \in {0} \cup DOMAIN alog : \E x \in Event : Log!Publish(k, x)
    BY <1>1, <1>4, <1>5 DEF Log!Publish
  <2> QED
    BY <2>1 DEF Log!Next

\* A page received is Catch of the abstract log.
LEMMA GetEventsCatches ==
    ASSUME Inv, NEW r \in Reader, GetEvents(r)
    PROVE  Log!Next
<1> DEFINE alog == [s \in DOMAIN rows |-> rows[s].event]
           c == reader[r].cursor
<1>1. PICK m \in c .. Latest : got' = [got EXCEPT ![r] = [s \in 1 .. m |-> rows[s].event]]
  BY GetEventsExtends
<1>2. c \in Nat /\ m \in Nat /\ c <= m /\ m <= Latest /\ Latest \in Nat /\ DOMAIN rows = 1 .. Latest
      /\ DOMAIN got[r] = 1 .. c
  BY DEF Inv, HasPrefix, Contiguous
<1>3. [s \in 1 .. m |-> rows[s].event] = [i \in 1 .. m |-> alog[i]]
  BY <1>2
<1>4. Log!Catch(r, m)
  <2>1. 1 .. m \subseteq DOMAIN alog /\ DOMAIN got[r] \subseteq 1 .. m
    BY <1>2
  <2>2. got' = [got EXCEPT ![r] = [i \in 1 .. m |-> alog[i]]]
    BY <1>1, <1>3
  <2>3. rows' = rows
    BY DEF GetEvents
  <2> QED
    BY <2>1, <2>2, <2>3 DEF Log!Catch, Log!Prefix
<1>5. m \in {0} \cup DOMAIN alog
  BY <1>2
<1> QED
  BY <1>4, <1>5 DEF Log!Next

\* The event table and its readers implement an append-only log whose readers
\* each have a prefix: no event is missed, skipped or renumbered.
THEOREM Implementation == Spec => ImplementsLog
<1>1. Init => Log!Init
  BY DEF Init, Log!Init, Nothing
<1>2. Inv /\ [Next]_vars => [Log!Next]_(Log!vars)
  <2> SUFFICES ASSUME Inv, [Next]_vars PROVE Log!Next \/ UNCHANGED Log!vars
    OBVIOUS
  <2>1. ASSUME NEW w \in Writer, WriterStep(w), ~Commit(w) PROVE UNCHANGED Log!vars
    BY <2>1 DEF WriterStep, Begin, SelectMax, InsertEvent, Rollback, Log!vars
  <2>2. ASSUME NEW r \in Reader, ReaderStep(r), ~GetEvents(r) PROVE UNCHANGED Log!vars
    BY <2>2 DEF ReaderStep, DeltaSync, SyncAgain, Log!vars
  <2>3. CASE UNCHANGED vars
    BY <2>3 DEF vars, Log!vars
  <2> QED
    BY <2>1, <2>2, <2>3, CommitPublishes, GetEventsCatches DEF Next
<1> QED
  BY <1>1, <1>2, Invariance, PTL DEF Spec, ImplementsLog, Log!Spec
================================================================================
