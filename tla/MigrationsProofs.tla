--------------------------- MODULE MigrationsProofs ----------------------------
(***************************************************************************)
(* Proofs about Migrations, for any number of processes and servers and any  *)
(* releases: the lock is not needed for any of it.                          *)
(***************************************************************************)
EXTENDS Migrations, SequenceTheorems, TLAPS

\* A process at work comes to a version that is applied, or to the next one;
\* with its row inserted it is at the next one, and it is alone.
Position ==
    /\ \A p \in Process : pc[p] \in {"loop", "dirty", "applied", "clean"} => todo[p] \in 1 .. Len(schema) + 1
    /\ \A p \in Process : InTransaction(p) => todo[p] = Len(schema) + 1
    /\ \A p, q \in Process : InTransaction(p) /\ InTransaction(q) => p = q

\* A server that is UP has found enough rows.
Checked == \A s \in Server : health[s] = "UP" => Expected[s] <= Len(schema)

Inv == TypeOK /\ AppliedOnceInOrder /\ NeverDirty /\ Position /\ Checked

-----------------------------------------------------------------------------
\* MAX(version) of contiguous rows is their number.
LEMMA NewestOfInterval ==
    ASSUME NEW n \in Nat, DOMAIN rows = 1 .. n
    PROVE  Newest = n
<1>1. CASE n = 0
  BY <1>1 DEF Newest
<1>2. CASE n # 0
  <2>1. n \in DOMAIN rows /\ \A s \in DOMAIN rows : s <= n
    BY <1>2
  <2>2. \A m \in DOMAIN rows : (\A s \in DOMAIN rows : s <= m) => m = n
    BY <2>1
  <2> QED
    BY <2>1, <2>2 DEF Newest
<1> QED
  BY <1>1, <1>2

\* So the newest version is the number of scripts applied, and no row is dirty.
LEMMA NewestIsLength ==
    ASSUME Inv
    PROVE  Len(schema) \in Nat /\ Newest = Len(schema) /\ ~Wedged
<1>1. Len(schema) \in Nat /\ DOMAIN rows = 1 .. Len(schema)
  BY DEF Inv, TypeOK, AppliedOnceInOrder
<1>2. Newest = Len(schema)
  BY <1>1, NewestOfInterval
<1>3. ~Wedged
  BY <1>1, <1>2 DEF Wedged, Inv, NeverDirty
<1> QED
  BY <1>1, <1>2, <1>3

\* The empty database.
LEMMA InitInv == Init => Inv
<1> SUFFICES ASSUME Init PROVE Inv
  OBVIOUS
<1>1. schema = <<>> /\ Len(schema) = 0 /\ DOMAIN rows = 1 .. 0
  BY DEF Init
<1>2. TypeOK
  BY <1>1 DEF Init, TypeOK
<1>3. AppliedOnceInOrder /\ NeverDirty
  BY <1>1 DEF Init, AppliedOnceInOrder, NeverDirty
<1>4. Position /\ Checked
  BY DEF Init, Position, Checked, InTransaction
<1> QED
  BY <1>2, <1>3, <1>4 DEF Inv

\* Steps that touch neither the table nor the schema.
LEMMA MigrateInv ==
    ASSUME Inv, NEW p \in Process, Migrate(p) \/ LoseLock(p) \/ Fail(p), ~Commit(p)
    PROVE  Inv'
<1> USE DEF Inv, At
<1>0. Len(schema) \in Nat /\ Newest = Len(schema) /\ ~Wedged
  BY NewestIsLength
<1>1. UNCHANGED <<rows, schema, health>>
  BY DEF Migrate, TryLock, GetCurrentVersion, InsertDirty, ApplyUp, MarkClean, Exit, LoseLock, Fail
<1>2. AppliedOnceInOrder' /\ NeverDirty' /\ Checked'
  BY <1>1 DEF AppliedOnceInOrder, NeverDirty, Checked
<1>3. CASE GetCurrentVersion(p)
  <2>1. PICK n \in Nat : n = Newest
    BY <1>0
  <2>2. todo' = [todo EXCEPT ![p] = n + 1] /\ pc' = [pc EXCEPT ![p] = "loop"] /\ lock' = lock
    BY <1>0, <1>3, <2>1 DEF GetCurrentVersion
  <2>3. TypeOK'
    BY <1>1, <2>2 DEF TypeOK
  <2>4. Position'
    BY <1>0, <1>1, <1>3, <2>1, <2>2 DEF GetCurrentVersion, Position, InTransaction, TypeOK
  <2> QED
    BY <1>2, <2>3, <2>4
<1>4. CASE InsertDirty(p)
  <2>1. TypeOK'
    BY <1>1, <1>4 DEF InsertDirty, TypeOK
  <2>2. CASE todo[p] \in DOMAIN rows
    <3>1. pc' = [pc EXCEPT ![p] = "failed"] /\ todo' = todo
      BY <1>4, <2>2 DEF InsertDirty
    <3>2. Position'
      BY <1>1, <3>1 DEF Position, InTransaction, TypeOK
    <3> QED
      BY <1>2, <2>1, <3>2
  <2>3. CASE todo[p] \notin DOMAIN rows
    <3>1. pc' = [pc EXCEPT ![p] = "dirty"] /\ todo' = todo /\ pc[p] = "loop"
      BY <1>4, <2>3 DEF InsertDirty
    <3>2. todo[p] = Len(schema) + 1
      BY <1>0, <2>3, <3>1 DEF Position, AppliedOnceInOrder
    <3>3. \A q \in Process \ {p} : ~InTransaction(q)
      BY <1>4, <3>2 DEF InsertDirty, Position
    <3>4. Position'
      BY <1>0, <1>1, <3>1, <3>2, <3>3 DEF Position, InTransaction, TypeOK
    <3> QED
      BY <1>2, <2>1, <3>4
  <2> QED
    BY <2>2, <2>3
<1>5. CASE TryLock(p) \/ ApplyUp(p) \/ MarkClean(p) \/ Exit(p) \/ LoseLock(p) \/ Fail(p)
  <2>1. TypeOK'
    BY <1>1, <1>5 DEF TryLock, ApplyUp, MarkClean, Exit, LoseLock, Fail, TypeOK
  <2>2. todo' = todo /\ \A q \in Process : q # p => pc'[q] = pc[q]
    BY <1>5 DEF TryLock, ApplyUp, MarkClean, Exit, LoseLock, Fail, TypeOK
  <2>3. pc'[p] \in {"dirty", "applied", "clean"} => pc[p] \in {"dirty", "applied", "clean"}
    BY <1>5 DEF TryLock, ApplyUp, MarkClean, Exit, LoseLock, Fail, TypeOK
  <2>4. pc'[p] = "loop" => pc[p] = "loop"
    BY <1>5 DEF TryLock, ApplyUp, MarkClean, Exit, LoseLock, Fail, TypeOK
  <2>5. Position'
    BY <1>1, <2>2, <2>3, <2>4 DEF Position, InTransaction
  <2> QED
    BY <1>2, <2>1, <2>5
<1> QED
  BY <1>3, <1>4, <1>5 DEF Migrate

\* The one step that changes the table and the schema.
LEMMA CommitInv ==
    ASSUME Inv, NEW p \in Process, Commit(p)
    PROVE  Inv'
<1> USE DEF Inv
<1>1. PICK n \in Nat : n = Len(schema)
  BY NewestIsLength
<1>2. todo[p] = n + 1 /\ DOMAIN rows = 1 .. n /\ pc[p] = "clean" /\ n + 1 \in Nat \ {0}
  BY <1>1 DEF Commit, Position, InTransaction, AppliedOnceInOrder
<1>3. schema' = Append(schema, n + 1) /\ schema \in Seq(Nat \ {0})
  BY <1>2 DEF Commit, TypeOK
<1>4. schema' \in Seq(Nat \ {0}) /\ Len(schema') = n + 1
  BY <1>1, <1>2, <1>3, AppendProperties
<1>5. \A i \in 1 .. n + 1 : schema'[i] = i
  <2>1. \A i \in 1 .. n : schema'[i] = schema[i]
    BY <1>1, <1>2, <1>3, AppendProperties
  <2>2. schema'[n + 1] = n + 1
    BY <1>1, <1>2, <1>3, AppendProperties
  <2> QED
    BY <1>1, <2>1, <2>2 DEF AppliedOnceInOrder
<1>6. DOMAIN rows' = 1 .. n + 1 /\ NeverDirty' /\ rows' \in [DOMAIN rows' -> {"clean", "dirty"}]
  <2>1. rows' = [v \in 1 .. n + 1 |-> IF v = n + 1 THEN "clean" ELSE rows[v]]
    BY <1>2 DEF Commit
  <2>2. \A v \in 1 .. n : rows[v] = "clean"
    BY <1>2 DEF NeverDirty, TypeOK
  <2>3. rows' = [v \in 1 .. n + 1 |-> "clean"]
    BY <2>1, <2>2
  <2> QED
    BY <2>3 DEF NeverDirty
<1>7. AppliedOnceInOrder'
  BY <1>4, <1>5, <1>6 DEF AppliedOnceInOrder
<1>8. TypeOK'
  <2>1. todo' = [todo EXCEPT ![p] = n + 2] /\ pc' = [pc EXCEPT ![p] = "loop"]
    BY <1>2 DEF Commit, At
  <2>2. n + 2 \in Nat \ {0}
    OBVIOUS
  <2>3. todo' \in [Process -> Nat \ {0}]
    BY <2>1, <2>2 DEF TypeOK
  <2> QED
    BY <1>2, <1>4, <1>6, <2>1, <2>3 DEF Commit, TypeOK
<1>9. Position'
  <2>1. \A q \in Process : q # p => ~InTransaction(q)
    BY <1>2 DEF Position, InTransaction
  <2>2. todo'[p] = n + 2 /\ \A q \in Process : q # p => todo'[q] = todo[q]
    BY <1>2 DEF Commit, TypeOK
  <2>3. pc'[p] = "loop" /\ \A q \in Process : q # p => pc'[q] = pc[q]
    BY DEF Commit, TypeOK, At
  <2>4. \A q \in Process : ~InTransaction(q)'
    BY <2>1, <2>3 DEF InTransaction
  <2>5. \A q \in Process : pc'[q] \in {"loop", "dirty", "applied", "clean"} => todo'[q] \in 1 .. n + 2
    BY <1>1, <2>2, <2>3 DEF Position
  <2> QED
    BY <1>1, <1>4, <2>4, <2>5 DEF Position
<1>10. Checked'
  BY <1>1, <1>4, MigrationsAssumption DEF Commit, Checked
<1> QED
  BY <1>6, <1>7, <1>8, <1>9, <1>10

\* A readiness check looks at the newest version only; the rows are contiguous.
LEMMA ReadyzHandlerInv ==
    ASSUME Inv, NEW s \in Server, ReadyzHandler(s)
    PROVE  Inv'
<1> USE DEF Inv
<1>1. PICK n \in Nat : n = Len(schema) /\ n = Newest /\ ~Wedged
  BY NewestIsLength
<1>2. health' \in [Server -> {"UP", "DOWN"}]
  BY DEF ReadyzHandler, SchemaChecker, TypeOK
<1>3. Checked'
  <2>1. health'[s] = "UP" => Expected[s] <= n
    <3>1. CASE n < Expected[s]
      BY <1>1, <3>1 DEF ReadyzHandler, SchemaChecker, TypeOK
    <3>2. CASE ~(n < Expected[s])
      BY <3>2, MigrationsAssumption
    <3> QED
      BY <3>1, <3>2
  <2>2. \A t \in Server : t # s => health'[t] = health[t]
    BY DEF ReadyzHandler, SchemaChecker, TypeOK
  <2> QED
    BY <1>1, <2>1, <2>2 DEF ReadyzHandler, SchemaChecker, Checked
<1> QED
  BY <1>2, <1>3 DEF ReadyzHandler, SchemaChecker, TypeOK, AppliedOnceInOrder, NeverDirty, Position, InTransaction

\* The invariant holds in every reachable state.
THEOREM Invariance == Spec => []Inv
<1>1. Init => Inv
  BY InitInv
<1>2. Inv /\ [Next]_vars => Inv'
  <2> SUFFICES ASSUME Inv, [Next]_vars PROVE Inv'
    OBVIOUS
  <2>1. CASE UNCHANGED vars
    BY <2>1 DEF vars, Inv, TypeOK, AppliedOnceInOrder, NeverDirty, Position, InTransaction, Checked
  <2>2. CASE Next
    BY <2>2, MigrateInv, CommitInv, ReadyzHandlerInv DEF Next
  <2> QED
    BY <2>1, <2>2
<1> QED
  BY <1>1, <1>2, PTL DEF Spec

\* Every reachable state is well typed; versions start at 1.
THEOREM TypeCorrect == Spec => []TypeOK
BY Invariance, PTL DEF Inv

\* MigrateUp applies each script once and in order, whoever else runs it.
THEOREM Serialised == Spec => []AppliedOnceInOrder
BY Invariance, PTL DEF Inv

\* The "dirty state" error of GetCurrentVersion never happens.
THEOREM Clean == Spec => []NeverDirty
BY Invariance, PTL DEF Inv

\* A readiness check that is UP speaks of every migration, not of the last.
THEOREM Ready == Spec => []ReadyHasSchema
<1>1. Inv => ReadyHasSchema
  BY NewestIsLength, MigrationsAssumption DEF Inv, ReadyHasSchema, Checked, AppliedOnceInOrder
<1> QED
  BY <1>1, Invariance, PTL
================================================================================
