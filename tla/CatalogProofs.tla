---------------------------- MODULE CatalogProofs ----------------------------
(***************************************************************************)
(* Proofs about Catalog, for every set of Agents, files and names and every *)
(* bound.                                                                   *)
(***************************************************************************)
EXTENDS Catalog, SequenceTheorems, FiniteSetTheorems, TLAPS

(***************************************************************************)
(* The inductive invariant.                                                 *)
(***************************************************************************)

\* What the loop does at each place.
reporting == {"sent", "accepted", "rejected"}
executing == {"command", "purging", "done", "refused"}

LoopType == [at : {"rest"} \cup reporting \cup executing, item : Nat]

ItemType == [file : File, name : Name \cup {NoName}, trashed : BOOLEAN,
             step : {"register", "trash", "identify"}, item : Nat]

RequestType == [files : FileLists, act : lifecycle, name : Name \cup {NoName},
                i : {1, 2}, at : {"apply", "queue", "answered", "error"}]

\* The types of the variables TypeOK leaves out.
PartsTyped ==
    /\ loop \in [Device -> LoopType]
    /\ reconcile \in [Device -> Seq(ItemType)]
    /\ action \in Seq(RequestType)
    /\ \A w \in 1 .. Len(action) : action[w].i \in DOMAIN action[w].files

\* The loop works on a report or a command that exists, and so do
\* reconcileExisting and the purges.
ItemsExist ==
    /\ \A d \in Device :
          /\ loop[d].at \in reporting => loop[d].item \in 1 .. Len(outbox[d])
          /\ loop[d].at \in executing => loop[d].item \in 1 .. Len(command[d])
          /\ \A i \in 1 .. Len(reconcile[d]) :
                reconcile[d][i].step = "identify" => reconcile[d][i].item \in 1 .. Len(outbox[d])
    /\ \A p \in purge : p.item \in 1 .. Len(outbox[p.device])

\* A late request is a copy of a report, as far as the server tells reports
\* apart: by sender, number, kind and file.
CopyOf(x) ==
    /\ x \in Device \X Nat \X Report
    /\ x[2] \in 1 .. Len(outbox[x[1]])
    /\ x[3].kind = outbox[x[1]][x[2]].kind
    /\ x[3].file = outbox[x[1]][x[2]].file

LateSent == \A x \in late : CopyOf(x)

\* A command is claimed again only after its Agent gave it back, which it does
\* fewer than MaxAttempts times, or after a loss.
Working(d, c) == loop[d].at \in executing /\ loop[d].item = c

AttemptsBounded ==
    \A d \in Device : \A c \in 1 .. Len(command[d]) :
        LET x == command[d][c] IN
        /\ x.attempt <= MaxAttempts + losses
        /\ x.state = "queued" => x.attempt < MaxAttempts
        /\ x.state = "leased" /\ ~Working(d, c) => x.attempt < MaxAttempts + losses

\* The report op of an Agent, by its kind.
ReportOp(op) == op.by \in Device /\ op.i = 0 /\ op.n \in 1 .. Len(outbox[op.by])

LifecycleOp(op) ==
    \/ op.by = Client
    \/ ReportOp(op) /\ outbox[op.by][op.n].kind \in lifecycle

RegisterOp(op) == ReportOp(op) /\ outbox[op.by][op.n].kind = "register"

\* Only lifecycle operations leave a completed key; whatever changed the
\* catalog left its key, or the entry that a registration creates.
KeysAreLifecycle == \A op \in done : LifecycleOp(op)

EffectsRecorded ==
    \A i \in 1 .. Len(effects) :
        \/ effects[i] \in done
        \/ /\ RegisterOp(effects[i])
           /\ entry[outbox[effects[i].by][effects[i].n].file].status # "none"

Inv ==
    /\ TypeOK
    /\ PartsTyped
    /\ ItemsExist
    /\ LateSent
    /\ AttemptsBounded
    /\ KeysAreLifecycle
    /\ EffectsRecorded
    /\ AppliedOnce

-----------------------------------------------------------------------------
(***************************************************************************)
(* Updates of a function to sequences, and the invariant after a step,      *)
(* clause by clause.                                                        *)
(***************************************************************************)

\* One element of one sequence changes.
LEMMA SeqUpdate ==
    ASSUME NEW S, NEW g \in [Device -> Seq(S)], NEW d \in Device,
           NEW k \in 1 .. Len(g[d]), NEW e \in S,
           NEW h, h = [g EXCEPT ![d] = [g[d] EXCEPT ![k] = e]]
    PROVE  /\ h \in [Device -> Seq(S)]
           /\ \A a \in Device : Len(h[a]) = Len(g[a])
           /\ \A a \in Device : \A j \in 1 .. Len(g[a]) :
                 h[a][j] = IF a = d /\ j = k THEN e ELSE g[a][j]
  <1> DEFINE s == [g[d] EXCEPT ![k] = e]
  <1>1. /\ s \in Seq(S) /\ Len(s) = Len(g[d])
        /\ \A j \in 1 .. Len(g[d]) : s[j] = IF j = k THEN e ELSE g[d][j]
    BY ExceptSeq
  <1> HIDE DEF s
  <1>2. h = [g EXCEPT ![d] = s]
    BY DEF s
  <1>3. h \in [Device -> Seq(S)] /\ \A a \in Device : h[a] = IF a = d THEN s ELSE g[a]
    BY <1>1, <1>2
  <1> QED
    BY <1>1, <1>3

\* One sequence gets one more element.
LEMMA SeqAppend ==
    ASSUME NEW S, NEW g \in [Device -> Seq(S)], NEW d \in Device, NEW e \in S,
           NEW h, h = [g EXCEPT ![d] = Append(g[d], e)]
    PROVE  /\ h \in [Device -> Seq(S)]
           /\ \A a \in Device : \A j \in 1 .. Len(g[a]) : j \in 1 .. Len(h[a]) /\ h[a][j] = g[a][j]
           /\ Len(h[d]) = Len(g[d]) + 1 /\ h[d][Len(g[d]) + 1] = e
           /\ \A a \in Device : a # d => h[a] = g[a]
  <1> DEFINE s == Append(g[d], e)
  <1>1. /\ s \in Seq(S) /\ Len(s) = Len(g[d]) + 1 /\ s[Len(g[d]) + 1] = e
        /\ \A j \in 1 .. Len(g[d]) : s[j] = g[d][j]
    BY AppendProperties
  <1> HIDE DEF s
  <1>2. h = [g EXCEPT ![d] = s]
    BY DEF s
  <1>3. h \in [Device -> Seq(S)] /\ \A a \in Device : h[a] = IF a = d THEN s ELSE g[a]
    BY <1>1, <1>2
  <1>4. \A a \in Device : Len(g[a]) \in Nat
    BY LenProperties
  <1> QED
    BY <1>1, <1>3, <1>4

\* The types, by the variables a step changes together.
EntryType == [status : Statuses, name : Name \cup {NoName}]

CatalogTyped ==
    /\ entry \in [File -> EntryType]
    /\ replica \in [File -> [Device -> {"none", "ready", "deleted"}]]
    /\ done \subseteq Operation
    /\ effects \in Seq(Operation)

RowType == [status : LocalStatuses, name : Name \cup {NoName}]

LocalTyped ==
    /\ local \in [Device -> [File -> RowType]]
    /\ raced \subseteq File

RequestsTyped ==
    /\ action \in Seq(RequestType)
    /\ \A w \in 1 .. Len(action) : action[w].i \in DOMAIN action[w].files

\* Reports are added, and what identifies a report stays.
OutboxMoves ==
    /\ outbox' \in [Device -> Seq(Report)]
    /\ \A d \in Device : \A k \in 1 .. Len(outbox[d]) :
          /\ k \in 1 .. Len(outbox'[d])
          /\ outbox'[d][k].kind = outbox[d][k].kind
          /\ outbox'[d][k].file = outbox[d][k].file

\* Commands are added.
CommandsGrow ==
    /\ command' \in [Device -> Seq(Command)]
    /\ \A d \in Device : \A c \in 1 .. Len(command[d]) : c \in 1 .. Len(command'[d])

LoopMoves ==
    /\ loop' \in [Device -> LoopType]
    /\ \A d \in Device :
          \/ loop'[d] = loop[d]
          \/ /\ loop'[d].at \in reporting => loop'[d].item \in 1 .. Len(outbox'[d])
             /\ loop'[d].at \in executing => loop'[d].item \in 1 .. Len(command'[d])

\* Enrolments and purges name reports that exist.
AgentMoves ==
    /\ reconcile' \in [Device -> Seq(ItemType)] /\ phase' \in [Device -> Phases] /\ purge' \subseteq Purge
    /\ \A d \in Device : \A i \in 1 .. Len(reconcile'[d]) :
          reconcile'[d][i].step = "identify" => reconcile'[d][i].item \in 1 .. Len(outbox'[d])
    /\ \A p \in purge' : p.item \in 1 .. Len(outbox'[p.device])

CopyNext(x) ==
    /\ x \in Device \X Nat \X Report
    /\ x[2] \in 1 .. Len(outbox'[x[1]])
    /\ x[3].kind = outbox'[x[1]][x[2]].kind
    /\ x[3].file = outbox'[x[1]][x[2]].file

\* The file of a report op.
FileOf(op) == outbox[op.by][op.n].file

\* At most one operation takes effect, and leaves its mark.
EffectMoves ==
    /\ \A f \in File : entry[f].status # "none" => entry'[f].status # "none"
    /\ \/ effects' = effects /\ done' = done
       \/ \E op \in Operation :
            /\ LifecycleOp(op) /\ op \notin done /\ done' = done \cup {op}
            /\ effects' = effects \/ effects' = Append(effects, op)
       \/ \E op \in Operation :
            /\ RegisterOp(op) /\ entry[FileOf(op)].status = "none" /\ entry'[FileOf(op)].status # "none"
            /\ done' = done /\ effects' = Append(effects, op)

\* LifecycleOp and EffectsRecorded, read in the next state.
LifecycleNext(op) ==
    \/ op.by = Client
    \/ /\ op.by \in Device /\ op.i = 0 /\ op.n \in 1 .. Len(outbox'[op.by])
       /\ outbox'[op.by][op.n].kind \in lifecycle

RecordedNext(op) ==
    \/ op \in done'
    \/ /\ op.by \in Device /\ op.i = 0 /\ op.n \in 1 .. Len(outbox'[op.by])
       /\ outbox'[op.by][op.n].kind = "register"
       /\ entry'[outbox'[op.by][op.n].file].status # "none"

\* What one operation adds to the history is new, so nothing takes effect
\* twice.
LEMMA OnceKept ==
    ASSUME Inv, OutboxMoves, EffectMoves
    PROVE  KeysAreLifecycle' /\ EffectsRecorded' /\ AppliedOnce'
  <1>0. /\ KeysAreLifecycle /\ EffectsRecorded /\ AppliedOnce
        /\ effects \in Seq(Operation) /\ done \subseteq Operation /\ Len(effects) \in Nat
        /\ outbox \in [Device -> Seq(Report)]
    BY LenProperties DEF Inv, TypeOK
  <1>N. Client \notin Device /\ "register" \notin lifecycle
    BY CatalogAssumption DEF lifecycle
  <1>1. ASSUME NEW op, LifecycleOp(op) PROVE LifecycleNext(op)
    BY <1>1 DEF LifecycleOp, ReportOp, OutboxMoves, LifecycleNext
  <1>2. ASSUME NEW op, RegisterOp(op) PROVE FileOf(op) \in File
    <2>1. outbox[op.by] \in Seq(Report) /\ op.n \in 1 .. Len(outbox[op.by])
      BY <1>0, <1>2 DEF RegisterOp, ReportOp
    <2>2. outbox[op.by][op.n] \in Report
      BY <2>1, ElementOfSeq
    <2> QED
      BY <2>2 DEF Report, FileOf
  <1>3. ASSUME NEW op, RegisterOp(op), entry'[FileOf(op)].status # "none" PROVE RecordedNext(op)
    BY <1>3 DEF RegisterOp, ReportOp, FileOf, OutboxMoves, RecordedNext
  <1>4. ASSUME NEW i \in 1 .. Len(effects), done \subseteq done' PROVE RecordedNext(effects[i])
    <2>1. PICK op : op = effects[i]
      OBVIOUS
    <2>2. op \in done \/ (RegisterOp(op) /\ entry[FileOf(op)].status # "none")
      BY <1>0, <2>1 DEF EffectsRecorded, FileOf
    <2>3. RecordedNext(op)
      <3>1. CASE op \in done
        BY <1>4, <3>1 DEF RecordedNext
      <3>2. CASE RegisterOp(op) /\ entry[FileOf(op)].status # "none"
        BY <1>2, <1>3, <3>2 DEF EffectMoves
      <3> QED
        BY <2>2, <3>1, <3>2
    <2> QED
      BY <2>1, <2>3
  <1>5. ASSUME NEW op, op \notin done, ~RegisterOp(op) \/ entry[FileOf(op)].status = "none", NEW i \in 1 .. Len(effects)
        PROVE  effects[i] # op
    BY <1>0, <1>5 DEF EffectsRecorded, FileOf
  <1>6. ASSUME done \subseteq done', \A op \in done' : op \in done \/ LifecycleNext(op),
               \/ effects' = effects
               \/ \E op \in Operation : /\ effects' = Append(effects, op) /\ RecordedNext(op)
                                        /\ \A i \in 1 .. Len(effects) : effects[i] # op
        PROVE  KeysAreLifecycle' /\ EffectsRecorded' /\ AppliedOnce'
    <2>1. \A op \in done' : LifecycleNext(op)
      BY <1>0, <1>1, <1>6 DEF KeysAreLifecycle
    <2>2. KeysAreLifecycle'
      BY <2>1 DEF KeysAreLifecycle, LifecycleNext, LifecycleOp, ReportOp
    <2>3. (\A i \in 1 .. Len(effects') : RecordedNext(effects'[i])) /\ AppliedOnce'
      <3>1. CASE effects' = effects
        BY <1>0, <1>4, <1>6, <3>1 DEF AppliedOnce
      <3>2. ASSUME NEW op \in Operation, effects' = Append(effects, op), RecordedNext(op),
                   \A i \in 1 .. Len(effects) : effects[i] # op
            PROVE  (\A i \in 1 .. Len(effects') : RecordedNext(effects'[i])) /\ AppliedOnce'
        <4>1. /\ Len(effects') = Len(effects) + 1 /\ effects'[Len(effects) + 1] = op
              /\ \A j \in 1 .. Len(effects) : effects'[j] = effects[j]
          BY <1>0, <3>2, AppendProperties
        <4>2. ASSUME NEW i \in 1 .. Len(effects') PROVE RecordedNext(effects'[i])
          <5>1. PICK x : x = effects'[i]
            OBVIOUS
          <5>2. x = op \/ \E j \in 1 .. Len(effects) : x = effects[j]
            BY <1>0, <4>1, <5>1
          <5>3. RecordedNext(x)
            BY <1>4, <1>6, <3>2, <5>2
          <5> QED
            BY <5>1, <5>3
        <4>3. AppliedOnce'
          BY <1>0, <3>2, <4>1 DEF AppliedOnce
        <4> QED
          BY <4>2, <4>3
      <3> QED
        BY <1>6, <3>1, <3>2
    <2>4. EffectsRecorded'
      BY <2>3 DEF EffectsRecorded, RecordedNext, RegisterOp, ReportOp
    <2> QED
      BY <2>2, <2>3, <2>4
  <1>7. CASE effects' = effects /\ done' = done
    BY <1>6, <1>7
  <1>8. ASSUME NEW op \in Operation, LifecycleOp(op), op \notin done, done' = done \cup {op},
               effects' = effects \/ effects' = Append(effects, op)
        PROVE  KeysAreLifecycle' /\ EffectsRecorded' /\ AppliedOnce'
    <2>1. ~RegisterOp(op)
      BY <1>N, <1>8 DEF LifecycleOp, RegisterOp, ReportOp
    <2>2. RecordedNext(op) /\ LifecycleNext(op)
      BY <1>1, <1>8 DEF RecordedNext
    <2> QED
      BY <1>5, <1>6, <1>8, <2>1, <2>2
  <1>9. ASSUME NEW op \in Operation, RegisterOp(op), entry[FileOf(op)].status = "none",
               entry'[FileOf(op)].status # "none", done' = done, effects' = Append(effects, op)
        PROVE  KeysAreLifecycle' /\ EffectsRecorded' /\ AppliedOnce'
    <2>1. op \notin done
      BY <1>0, <1>N, <1>9 DEF KeysAreLifecycle, LifecycleOp, RegisterOp, ReportOp
    <2>2. RecordedNext(op)
      BY <1>3, <1>9
    <2> QED
      BY <1>5, <1>6, <1>9, <2>1, <2>2
  <1> QED
    BY <1>7, <1>8, <1>9 DEF EffectMoves

\* The clauses together make the invariant.
LEMMA Recombined ==
    ASSUME Inv, CatalogTyped', LocalTyped', RequestsTyped',
           losses' \in 0 .. MaxLosses, changes' \in 0 .. MaxChanges, AgentMoves,
           OutboxMoves, CommandsGrow, LoopMoves, AttemptsBounded', EffectMoves,
           \A x \in late' : x \in late \/ CopyNext(x)
    PROVE  Inv'
  <1>1. TypeOK'
    BY DEF TypeOK, CatalogTyped, LocalTyped, EntryType, RowType, OutboxMoves, CommandsGrow, AgentMoves
  <1>2. PartsTyped'
    BY DEF PartsTyped, RequestsTyped, LoopMoves, AgentMoves
  <1>3. ItemsExist'
    <2>1. \A d \in Device :
             /\ loop'[d].at \in reporting => loop'[d].item \in 1 .. Len(outbox'[d])
             /\ loop'[d].at \in executing => loop'[d].item \in 1 .. Len(command'[d])
      BY DEF Inv, ItemsExist, LoopMoves, OutboxMoves, CommandsGrow
    <2> QED
      BY <2>1 DEF ItemsExist, AgentMoves
  <1>4. LateSent'
    <2>1. ASSUME NEW x \in late' PROVE CopyNext(x)
      <3>1. CASE x \in late
        <4>1. CopyOf(x)
          BY <3>1 DEF Inv, LateSent
        <4>2. x[1] \in Device /\ x[2] \in 1 .. Len(outbox[x[1]])
          BY <4>1 DEF CopyOf
        <4> QED
          BY <4>1, <4>2 DEF CopyOf, CopyNext, OutboxMoves
      <3> QED
        BY <3>1
    <2> QED
      BY <2>1 DEF LateSent, CopyOf, CopyNext
  <1>5. KeysAreLifecycle' /\ EffectsRecorded' /\ AppliedOnce'
    BY OnceKept
  <1> QED
    BY <1>1, <1>2, <1>3, <1>4, <1>5 DEF Inv

\* The clauses that a step leaves alone.
LEMMA InvTypes ==
    ASSUME Inv
    PROVE  /\ CatalogTyped /\ LocalTyped /\ RequestsTyped
           /\ losses \in 0 .. MaxLosses /\ changes \in 0 .. MaxChanges
           /\ losses < MaxLosses => losses + 1 \in 0 .. MaxLosses
           /\ changes < MaxChanges => changes + 1 \in 0 .. MaxChanges
           /\ reconcile \in [Device -> Seq(ItemType)] /\ phase \in [Device -> Phases] /\ purge \subseteq Purge
           /\ outbox \in [Device -> Seq(Report)] /\ command \in [Device -> Seq(Command)]
           /\ loop \in [Device -> LoopType]
           /\ LateSent /\ ItemsExist /\ AttemptsBounded
           /\ \A d \in Device : Len(outbox[d]) \in Nat /\ Len(command[d]) \in Nat
  <1>1. /\ losses \in 0 .. MaxLosses /\ changes \in 0 .. MaxChanges
        /\ losses < MaxLosses => losses + 1 \in 0 .. MaxLosses
        /\ changes < MaxChanges => changes + 1 \in 0 .. MaxChanges
    BY CatalogAssumption DEF Inv, TypeOK
  <1>2. CatalogTyped /\ LocalTyped /\ RequestsTyped /\ LateSent /\ ItemsExist /\ AttemptsBounded
    BY DEF Inv, TypeOK, PartsTyped, CatalogTyped, LocalTyped, RequestsTyped, EntryType, RowType
  <1>3. /\ reconcile \in [Device -> Seq(ItemType)] /\ phase \in [Device -> Phases] /\ purge \subseteq Purge
        /\ outbox \in [Device -> Seq(Report)] /\ command \in [Device -> Seq(Command)]
        /\ loop \in [Device -> LoopType]
    BY DEF Inv, TypeOK, PartsTyped
  <1>4. \A d \in Device : Len(outbox[d]) \in Nat /\ Len(command[d]) \in Nat
    BY <1>3, LenProperties
  <1> QED
    BY <1>1, <1>2, <1>3, <1>4

\* The reports as they were.
LEMMA OutboxSame == ASSUME Inv, UNCHANGED outbox PROVE OutboxMoves
  BY InvTypes DEF OutboxMoves

\* Enrolments and purges as they were.
LEMMA AgentsSame ==
    ASSUME Inv, OutboxMoves, UNCHANGED <<reconcile, phase, purge>>
    PROVE  AgentMoves
  <1>1. \A d \in Device : Len(reconcile[d]) \in Nat
    BY InvTypes, LenProperties
  <1>2. \A p \in purge : p.device \in Device /\ p.item \in 1 .. Len(outbox[p.device])
    BY InvTypes DEF Purge, ItemsExist
  <1> QED
    BY <1>1, <1>2, InvTypes DEF AgentMoves, ItemsExist, OutboxMoves

\* The loops as they were.
LEMMA LoopSame == ASSUME Inv, UNCHANGED loop PROVE LoopMoves
  BY InvTypes DEF LoopMoves

\* The catalog as it was.
LEMMA EffectsSame == ASSUME UNCHANGED <<entry, done, effects>> PROVE EffectMoves
  BY DEF EffectMoves

\* A loop goes on to an item that exists.
LEMMA AtMoves ==
    ASSUME Inv, NEW d \in Device, NEW where \in {"rest"} \cup reporting \cup executing, NEW k \in Nat,
           where \in reporting => k \in 1 .. Len(outbox'[d]),
           where \in executing => k \in 1 .. Len(command'[d]),
           At(d, where, k)
    PROVE  LoopMoves
  <1>1. PICK x : x = [at |-> where, item |-> k]
    OBVIOUS
  <1>2. x \in LoopType /\ x.at = where /\ x.item = k
    BY <1>1 DEF LoopType
  <1>3. loop' = [loop EXCEPT ![d] = x]
    BY <1>1 DEF At
  <1>4. loop' \in [Device -> LoopType] /\ \A e \in Device : loop'[e] = IF e = d THEN x ELSE loop[e]
    BY <1>2, <1>3, InvTypes
  <1> QED
    BY <1>2, <1>4 DEF LoopMoves

\* A report gets another status.
LEMMA MarkMoves ==
    ASSUME Inv, NEW d \in Device, NEW k \in 1 .. Len(outbox[d]),
           NEW st \in {"pending", "processing", "completed", "failed"}, Mark(d, k, st)
    PROVE  OutboxMoves /\ \A a \in Device : Len(outbox'[a]) = Len(outbox[a])
  <1>1. outbox \in [Device -> Seq(Report)] /\ outbox[d] \in Seq(Report)
    BY InvTypes
  <1>2. outbox[d][k] \in Report
    BY <1>1, ElementOfSeq
  <1>3. PICK e : e = [outbox[d][k] EXCEPT !.status = st]
    OBVIOUS
  <1>4. e \in Report /\ e.kind = outbox[d][k].kind /\ e.file = outbox[d][k].file
    BY <1>2, <1>3 DEF Report
  <1>5. PICK h : h = outbox'
    OBVIOUS
  <1>6. h = [outbox EXCEPT ![d] = [outbox[d] EXCEPT ![k] = e]]
    BY <1>3, <1>5 DEF Mark
  <1>7. /\ h \in [Device -> Seq(Report)]
        /\ \A a \in Device : Len(h[a]) = Len(outbox[a])
        /\ \A a \in Device : \A j \in 1 .. Len(outbox[a]) :
              h[a][j] = IF a = d /\ j = k THEN e ELSE outbox[a][j]
    BY <1>1, <1>4, <1>6, SeqUpdate
  <1> QED
    BY <1>4, <1>5, <1>7 DEF OutboxMoves

\* A report is added.
LEMMA EnqueueMoves ==
    ASSUME Inv, NEW d \in Device, NEW k \in lifecycle \cup {"register"}, NEW f \in File,
           NEW n \in Name \cup {NoName}, NEW ident \in BOOLEAN,
           NEW st \in {"pending", "processing"}, EnqueueWithStatus(d, k, f, n, ident, st)
    PROVE  OutboxMoves /\ Len(outbox[d]) + 1 \in 1 .. Len(outbox'[d])
  <1>1. outbox \in [Device -> Seq(Report)]
    BY InvTypes
  <1>2. PICK e : e = [kind |-> k, file |-> f, name |-> n, identified |-> ident, status |-> st]
    OBVIOUS
  <1>3. e \in Report
    BY <1>2 DEF Report
  <1>4. PICK h : h = outbox'
    OBVIOUS
  <1>5. h = [outbox EXCEPT ![d] = Append(outbox[d], e)]
    BY <1>2, <1>4 DEF EnqueueWithStatus
  <1>6. /\ h \in [Device -> Seq(Report)]
        /\ \A a \in Device : \A j \in 1 .. Len(outbox[a]) : j \in 1 .. Len(h[a]) /\ h[a][j] = outbox[a][j]
        /\ Len(h[d]) = Len(outbox[d]) + 1
    BY <1>1, <1>3, <1>5, SeqAppend
  <1> QED
    BY <1>4, <1>6, InvTypes DEF OutboxMoves

\* The bound on attempts does not depend on the rest, as long as an Agent
\* that drops a command counts as a loss.
CommandsAppended ==
    /\ command' \in [Device -> Seq(Command)]
    /\ \A d \in Device : \A c \in 1 .. Len(command[d]) : c \in 1 .. Len(command'[d])
    /\ \A d \in Device : \A c \in 1 .. Len(command'[d]) :
          \/ c \in 1 .. Len(command[d]) /\ command'[d][c] = command[d][c]
          \/ command'[d][c].state = "queued" /\ command'[d][c].attempt = 0

\* Adding commands keeps the bound.
LEMMA BoundKept ==
    ASSUME Inv, CommandsAppended, losses' = losses \/ losses' = losses + 1,
           \A d \in Device : \/ loop'[d] = loop[d] \/ loop[d].at \notin executing
                             \/ losses' = losses + 1
                             \/ (loop'[d].at \in executing /\ loop'[d].item = loop[d].item)
    PROVE  AttemptsBounded' /\ CommandsGrow
  <1>1. CommandsGrow
    BY DEF CommandsAppended, CommandsGrow
  <1>2. losses \in Nat /\ losses' \in Nat /\ MaxAttempts \in Nat \ {0}
    BY InvTypes, CatalogAssumption
  <1>3. ASSUME NEW d \in Device, NEW c \in 1 .. Len(command'[d])
        PROVE  /\ command'[d][c].attempt <= MaxAttempts + losses'
               /\ command'[d][c].state = "queued" => command'[d][c].attempt < MaxAttempts
               /\ command'[d][c].state = "leased" /\ ~(loop'[d].at \in executing /\ loop'[d].item = c) =>
                     command'[d][c].attempt < MaxAttempts + losses'
    <2>1. CASE command'[d][c].state = "queued" /\ command'[d][c].attempt = 0
      BY <1>2, <2>1
    <2>2. CASE c \in 1 .. Len(command[d]) /\ command'[d][c] = command[d][c]
      <3>1. PICK x : x = command[d][c]
        OBVIOUS
      <3>2. command[d] \in Seq(Command)
        BY InvTypes
      <3>3. x \in Command
        BY <2>2, <3>1, <3>2, ElementOfSeq
      <3>4. x.attempt \in Int
        BY <3>3 DEF Command
      <3>5. /\ x.attempt <= MaxAttempts + losses
            /\ x.state = "queued" => x.attempt < MaxAttempts
            /\ x.state = "leased" /\ ~(loop[d].at \in executing /\ loop[d].item = c) => x.attempt < MaxAttempts + losses
        BY <2>2, <3>1, InvTypes DEF AttemptsBounded, Working
      <3> QED
        BY <1>2, <2>2, <3>1, <3>4, <3>5
    <2> QED
      BY <2>1, <2>2 DEF CommandsAppended
  <1>4. AttemptsBounded'
    BY <1>3 DEF AttemptsBounded, Working
  <1> QED
    BY <1>1, <1>4

\* Nothing is added.
LEMMA NoCommands == ASSUME Inv, UNCHANGED command PROVE CommandsAppended
  BY InvTypes DEF CommandsAppended

-----------------------------------------------------------------------------
(* Users of an Agent *)

\* A row of lan_files changes.
LEMMA SetLocalTyped ==
    ASSUME Inv, NEW d \in Device, NEW f \in File, NEW st \in LocalStatuses, NEW n \in Name \cup {NoName},
           SetLocal(d, f, st, n)
    PROVE  local' \in [Device -> [File -> RowType]]
  <1>1. PICK x : x = [status |-> st, name |-> n]
    OBVIOUS
  <1>2. x \in RowType
    BY <1>1 DEF RowType
  <1>3. local' = [local EXCEPT ![d] = [local[d] EXCEPT ![f] = x]]
    BY <1>1 DEF SetLocal
  <1>4. local \in [Device -> [File -> RowType]]
    BY InvTypes DEF LocalTyped
  <1> QED
    BY <1>2, <1>3, <1>4

\* A change of a file with its report, and perhaps the purge that it begins.
LEMMA ChangeKeeps ==
    ASSUME Inv, NEW d \in Device, NEW f \in File, NEW k \in lifecycle \cup {"register"},
           NEW st \in LocalStatuses, NEW n \in Name \cup {NoName}, NEW reported \in {"pending", "processing"},
           Change(d, f, k, st, n, reported),
           \/ UNCHANGED purge
           \/ purge' = purge \cup {[device |-> d, file |-> f, item |-> Len(outbox[d]) + 1, at |-> "delete"]}
    PROVE  Inv'
  <1>1. UNCHANGED <<entry, replica, done, command, effects, loop, phase, reconcile, late, action, losses>>
    BY DEF Change, catalogVars
  <1>2. LocalTyped'
    <2>1. raced' \subseteq File
      BY InvTypes DEF Change, LocalTyped
    <2> QED
      BY <2>1, SetLocalTyped DEF Change, LocalTyped
  <1>3. changes' \in 0 .. MaxChanges
    BY InvTypes DEF Change
  <1>4. OutboxMoves /\ Len(outbox[d]) + 1 \in 1 .. Len(outbox'[d])
    <2>1. PICK m \in Name \cup {NoName}, b \in BOOLEAN :
             m = (IF k \in {"register", "rename"} THEN n ELSE NoName) /\ b = TRUE
      OBVIOUS
    <2>2. EnqueueWithStatus(d, k, f, m, b, reported)
      BY <2>1 DEF Change
    <2> QED
      BY ONLY Inv, <2>2, EnqueueMoves, d \in Device, f \in File, m \in Name \cup {NoName}, b \in BOOLEAN,
              k \in lifecycle \cup {"register"}, reported \in {"pending", "processing"}
  <1>5. CommandsAppended /\ LoopMoves /\ EffectMoves
    BY <1>1, NoCommands, LoopSame, EffectsSame
  <1>6. CommandsGrow /\ AttemptsBounded'
    BY <1>1, <1>5, BoundKept
  <1>7. CatalogTyped' /\ RequestsTyped'
    BY <1>1, InvTypes DEF CatalogTyped, RequestsTyped
  <1>8. AgentMoves
    <2>1. PICK p : p = [device |-> d, file |-> f, item |-> Len(outbox[d]) + 1, at |-> "delete"]
      OBVIOUS
    <2>2. p \in Purge /\ p.device = d /\ p.item \in 1 .. Len(outbox'[d])
      BY <1>4, <2>1, InvTypes DEF Purge
    <2>3. \A q \in purge : q.device \in Device /\ q.item \in 1 .. Len(outbox'[q.device])
      BY <1>4, InvTypes DEF Purge, ItemsExist, OutboxMoves
    <2>4. \A q \in purge' : q \in purge \/ q = p
      BY <2>1
    <2>5. purge' \subseteq Purge /\ \A q \in purge' : q.item \in 1 .. Len(outbox'[q.device])
      BY <2>2, <2>3, <2>4, InvTypes
    <2> QED
      BY <1>1, <1>4, <2>5, InvTypes DEF AgentMoves, ItemsExist, OutboxMoves
  <1> QED
    BY <1>1, <1>2, <1>3, <1>4, <1>5, <1>6, <1>7, <1>8, InvTypes, Recombined

\* Every change a user makes.
LEMMA UserKeeps ==
    ASSUME Inv, UserStep, ~\E d \in Device : PersistAuth(d)
    PROVE  Inv'
  <1>N. /\ lifecycle = {"rename", "trash", "restore", "purge"}
        /\ "active" \in LocalStatuses /\ "trashed" \in LocalStatuses /\ "purging" \in LocalStatuses
    BY DEF lifecycle, Statuses, LocalStatuses
  <1>L. \A d \in Device, f \in File : local[d][f].name \in Name \cup {NoName}
    BY InvTypes DEF LocalTyped, RowType
  <1>R. PICK pending \in {"pending", "processing"}, processing \in {"pending", "processing"} :
           pending = "pending" /\ processing = "processing"
    OBVIOUS
  <1>1. ASSUME NEW f \in File, NEW n \in Name, Upload(f, n) PROVE Inv'
    <2>1. PICK d \in Device : d = Origin[f]
      BY CatalogAssumption
    <2>2. PICK k \in lifecycle \cup {"register"}, st \in LocalStatuses : k = "register" /\ st = "active"
      BY <1>N
    <2>3. Change(d, f, k, st, n, pending) /\ UNCHANGED purge
      BY <1>1, <1>R, <2>1, <2>2 DEF Upload, UserChange
    <2> QED
      BY <2>3, ChangeKeeps
  <1>2. ASSUME NEW d \in Device, NEW f \in File, NEW n \in Name, RenameFile(d, f, n) PROVE Inv'
    <2>1. PICK k \in lifecycle \cup {"register"}, st \in LocalStatuses : k = "rename" /\ st = "active"
      BY <1>N
    <2>2. Change(d, f, k, st, n, pending) /\ UNCHANGED purge
      BY <1>2, <1>R, <2>1 DEF RenameFile, UserChange
    <2> QED
      BY <2>2, ChangeKeeps
  <1>3. ASSUME NEW d \in Device, NEW f \in File, TrashFile(d, f) \/ RestoreFile(d, f) PROVE Inv'
    <2>1. PICK n \in Name \cup {NoName} : n = local[d][f].name
      BY <1>L
    <2>2. PICK k \in lifecycle \cup {"register"}, st \in LocalStatuses :
             Change(d, f, k, st, n, pending) /\ UNCHANGED purge
      BY <1>3, <1>N, <1>R, <2>1 DEF TrashFile, RestoreFile, UserChange
    <2> QED
      BY <2>2, ChangeKeeps
  <1>4. ASSUME NEW d \in Device, NEW f \in File, BeginPurge(d, f) PROVE Inv'
    <2>1. PICK n \in Name \cup {NoName} : n = local[d][f].name
      BY <1>L
    <2>2. PICK k \in lifecycle \cup {"register"}, st \in LocalStatuses : k = "purge" /\ st = "purging"
      BY <1>N
    <2>3. /\ Change(d, f, k, st, n, processing)
          /\ purge' = purge \cup {[device |-> d, file |-> f, item |-> Len(outbox[d]) + 1, at |-> "delete"]}
      BY <1>4, <1>R, <2>1, <2>2 DEF BeginPurge
    <2> QED
      BY <2>3, ChangeKeeps
  <1>5. ASSUME NEW d \in Device, NEW f \in File, Replicate(d, f) PROVE Inv'
    <2>1. UNCHANGED <<entry, done, command, effects, outbox, loop, phase, reconcile, purge, late, action,
                      losses, changes, raced>>
      BY <1>5 DEF Replicate
    <2>2. PICK n \in Name \cup {NoName}, st \in LocalStatuses : n = entry[f].name /\ st = "active"
      BY <1>N, InvTypes DEF CatalogTyped, EntryType
    <2>3. SetLocal(d, f, st, n)
      BY <1>5, <2>2 DEF Replicate
    <2>4. LocalTyped'
      BY <2>1, <2>3, SetLocalTyped, InvTypes DEF LocalTyped
    <2>5. CatalogTyped'
      <3>1. replica \in [File -> [Device -> {"none", "ready", "deleted"}]]
        BY InvTypes DEF CatalogTyped
      <3>2. replica' \in [File -> [Device -> {"none", "ready", "deleted"}]]
        BY <1>5, <3>1 DEF Replicate
      <3> QED
        BY <2>1, <3>2, InvTypes DEF CatalogTyped
    <2>6. CommandsAppended /\ LoopMoves /\ EffectMoves /\ OutboxMoves
      BY <2>1, NoCommands, LoopSame, EffectsSame, OutboxSame
    <2>7. CommandsGrow /\ AttemptsBounded' /\ AgentMoves
      BY <2>1, <2>6, BoundKept, AgentsSame
    <2>8. RequestsTyped'
      BY <2>1, InvTypes DEF RequestsTyped
    <2> QED
      BY <2>1, <2>4, <2>5, <2>6, <2>7, <2>8, InvTypes, Recombined
  <1> QED
    BY <1>1, <1>2, <1>3, <1>4, <1>5 DEF UserStep

-----------------------------------------------------------------------------
(* The Agent's loop: reports *)

\* A step that only marks a report and moves the loop.
LEMMA ReportStepKeeps ==
    ASSUME Inv, NEW d \in Device, NEW k \in 1 .. Len(outbox[d]),
           NEW st \in {"pending", "processing", "completed", "failed"},
           NEW where \in {"rest", "sent"}, NEW j \in Nat, where = "sent" => j = k,
           Mark(d, k, st), At(d, where, j), loop[d].at \notin executing,
           UNCHANGED <<catalogVars, otherVars>>,
           losses' = losses \/ (losses < MaxLosses /\ losses' = losses + 1),
           \A x \in late' : x \in late \/ CopyNext(x)
    PROVE  Inv'
  <1>1. UNCHANGED <<entry, replica, done, command, effects, local, phase, reconcile, purge, action, changes, raced>>
    BY DEF catalogVars, otherVars
  <1>2. OutboxMoves /\ Len(outbox'[d]) = Len(outbox[d])
    BY MarkMoves
  <1>3. LoopMoves
    <2>1. where \in {"rest"} \cup reporting \cup executing /\ where \notin executing
      BY DEF reporting, executing
    <2>2. where \in reporting => j \in 1 .. Len(outbox'[d])
      BY <1>2 DEF reporting
    <2> QED
      BY <2>1, <2>2, AtMoves
  <1>4. CommandsAppended /\ EffectMoves
    BY <1>1, NoCommands, EffectsSame
  <1>5. \A e \in Device : loop'[e] = loop[e] \/ loop[e].at \notin executing
    BY InvTypes DEF At
  <1>6. CommandsGrow /\ AttemptsBounded'
    BY <1>4, <1>5, BoundKept
  <1>7. CatalogTyped' /\ RequestsTyped' /\ LocalTyped' /\ losses' \in 0 .. MaxLosses /\ AgentMoves
    BY <1>1, <1>2, InvTypes, AgentsSame DEF CatalogTyped, RequestsTyped, LocalTyped
  <1> QED
    BY <1>1, <1>2, <1>3, <1>4, <1>6, <1>7, InvTypes, Recombined

\* Sending a report and hearing of its fate, or not.
LEMMA DeliverKeeps ==
    ASSUME Inv, NEW d \in Device,
           Deliver(d) \/ MarkOpCompleted(d) \/ MarkOpFailed(d) \/ MarkOpRetryable(d)
    PROVE  Inv'
  <1>N. /\ "rest" \notin executing /\ \A a \in reporting : a \notin executing
        /\ "sent" \in reporting /\ "accepted" \in reporting /\ "rejected" \in reporting
    BY DEF reporting, executing
  <1>1. CASE Deliver(d)
    <2>1. PICK k \in 1 .. Len(outbox[d]) : Mark(d, k, "processing") /\ At(d, "sent", k)
      BY <1>1 DEF Deliver
    <2>2. PICK st \in {"pending", "processing", "completed", "failed"}, where \in {"rest", "sent"} :
             st = "processing" /\ where = "sent"
      OBVIOUS
    <2>3. Mark(d, k, st) /\ At(d, where, k)
      BY <2>1, <2>2
    <2>4. /\ loop[d].at \notin executing /\ late' = late /\ losses' = losses
          /\ UNCHANGED <<catalogVars, otherVars>>
      BY <1>1, <1>N DEF Deliver, AtRest
    <2>5. k \in Nat
      BY InvTypes
    <2> QED
      BY <2>3, <2>4, <2>5, ReportStepKeeps
  <1>2. ASSUME MarkOpCompleted(d) \/ MarkOpFailed(d) \/ MarkOpRetryable(d) PROVE Inv'
    <2>1. loop[d].at \in reporting
      BY <1>2, <1>N DEF MarkOpCompleted, MarkOpFailed, MarkOpRetryable
    <2>2. PICK k \in 1 .. Len(outbox[d]) : k = loop[d].item
      BY <2>1, InvTypes DEF ItemsExist
    <2>3. PICK where \in {"rest", "sent"}, j \in Nat : where = "rest" /\ j = 0
      OBVIOUS
    <2>4. PICK st \in {"pending", "processing", "completed", "failed"} : Mark(d, k, st)
      BY <1>2, <2>2 DEF MarkOpCompleted, MarkOpFailed, MarkOpRetryable
    <2>5. At(d, where, j)
      BY <1>2, <2>3 DEF MarkOpCompleted, MarkOpFailed, MarkOpRetryable
    <2>6. /\ UNCHANGED <<catalogVars, otherVars>>
          /\ losses' = losses \/ (losses < MaxLosses /\ losses' = losses + 1)
          /\ late' = late \/ late' = late \cup {<<d, k, outbox[d][k]>>}
      BY <1>2, <2>2 DEF MarkOpCompleted, MarkOpFailed, MarkOpRetryable
    <2>7. OutboxMoves
      BY <2>4, MarkMoves
    <2>8. CopyNext(<<d, k, outbox[d][k]>>)
      <3>1. outbox[d] \in Seq(Report) /\ k \in Nat
        BY InvTypes
      <3>2. outbox[d][k] \in Report
        BY <3>1, ElementOfSeq
      <3> QED
        BY <2>7, <3>1, <3>2 DEF CopyNext, OutboxMoves
    <2>9. \A x \in late' : x \in late \/ CopyNext(x)
      BY <2>6, <2>8
    <2> QED
      BY <1>N, <2>1, <2>3, <2>4, <2>5, <2>6, <2>9, ReportStepKeeps
  <1> QED
    BY <1>1, <1>2

-----------------------------------------------------------------------------
(* Enrolment *)

\* What reconcileExisting reads is a finite list of items.
LEMMA ExistingListed ==
    ASSUME Inv, NEW d \in Device, NEW s \in Listings(Existing(d))
    PROVE  s \in Seq(ItemType) /\ \A i \in 1 .. Len(s) : s[i].step = "register"
  <1> DEFINE F == {g \in File : local[d][g].status \in {"active", "trashed"}}
             e(f) == [file |-> f, name |-> local[d][f].name,
                      trashed |-> local[d][f].status = "trashed", step |-> "register", item |-> 0]
  <1>1. IsFiniteSet(F)
    BY FS_Subset, CatalogAssumption
  <1>2. PICK g : g = [f \in F |-> e(f)]
    OBVIOUS
  <1>3. g \in Surjection(F, Existing(d))
    BY <1>2 DEF Surjection, Existing
  <1>4. IsFiniteSet(Existing(d))
    BY <1>1, <1>3, FS_Surjection DEF ExistsSurjection
  <1>5. \A f \in File : local[d][f].name \in Name \cup {NoName}
    BY InvTypes DEF LocalTyped, RowType
  <1>6. ASSUME NEW f \in F PROVE e(f) \in ItemType
    <2>1. PICK b \in BOOLEAN : b = (local[d][f].status = "trashed")
      BY Zenon
    <2>2. e(f) = [file |-> f, name |-> local[d][f].name, trashed |-> b, step |-> "register", item |-> 0]
      BY <2>1
    <2> QED
      BY <1>5, <2>1, <2>2 DEF ItemType
  <1>7. Existing(d) \subseteq ItemType /\ \A x \in Existing(d) : x.step = "register"
    BY <1>6 DEF Existing
  <1>8. Cardinality(Existing(d)) \in Nat
    BY <1>4, FS_CardinalityType
  <1>9. s \in [1 .. Cardinality(Existing(d)) -> Existing(d)]
    BY DEF Listings
  <1>10. s \in [1 .. Cardinality(Existing(d)) -> ItemType]
    BY <1>7, <1>9
  <1>11. s \in Seq(ItemType) /\ Len(s) = Cardinality(Existing(d))
    BY <1>8, <1>10
  <1> QED
    BY <1>7, <1>9, <1>11

\* A step of enrolment leaves the catalog, the files and the commands alone.
LEMMA EnrolStepKeeps ==
    ASSUME Inv, OutboxMoves, AgentMoves, losses' \in {losses, losses + 1}, losses' \in 0 .. MaxLosses,
           UNCHANGED <<catalogVars, local, loop, late, action, changes, raced>>
    PROVE  Inv'
  <1>1. UNCHANGED <<entry, replica, done, command, effects>>
    BY DEF catalogVars
  <1>2. CommandsAppended /\ EffectMoves /\ LoopMoves
    BY <1>1, NoCommands, EffectsSame, LoopSame
  <1>3. CommandsGrow /\ AttemptsBounded'
    BY <1>2, BoundKept
  <1>4. CatalogTyped' /\ RequestsTyped' /\ LocalTyped'
    BY <1>1, InvTypes DEF CatalogTyped, RequestsTyped, LocalTyped
  <1> QED
    BY <1>2, <1>3, <1>4, InvTypes, Recombined

\* What reconcileExisting has still to do changes, and how far it is.
LEMMA EnrolMoves ==
    ASSUME Inv, OutboxMoves, UNCHANGED purge, NEW d \in Device, NEW q \in Seq(ItemType), NEW ph \in Phases,
           reconcile' = [reconcile EXCEPT ![d] = q], phase' = [phase EXCEPT ![d] = ph],
           \A i \in 1 .. Len(q) : q[i].step = "identify" => q[i].item \in 1 .. Len(outbox'[d])
    PROVE  AgentMoves
  <1>1. /\ reconcile' \in [Device -> Seq(ItemType)] /\ phase' \in [Device -> Phases]
        /\ \A a \in Device : reconcile'[a] = IF a = d THEN q ELSE reconcile[a]
    BY InvTypes
  <1>2. ASSUME NEW a \in Device, NEW i \in 1 .. Len(reconcile'[a]), reconcile'[a][i].step = "identify"
        PROVE  reconcile'[a][i].item \in 1 .. Len(outbox'[a])
    <2>1. CASE a = d
      BY <1>1, <1>2, <2>1
    <2>2. CASE a # d
      <3>1. reconcile'[a] = reconcile[a] /\ i \in 1 .. Len(reconcile[a])
        BY <1>1, <2>2
      <3>2. reconcile[a][i].item \in 1 .. Len(outbox[a])
        BY <1>2, <3>1, InvTypes DEF ItemsExist
      <3> QED
        BY <3>1, <3>2 DEF OutboxMoves
    <2> QED
      BY <2>1, <2>2
  <1>3. \A p \in purge : p.device \in Device /\ p.item \in 1 .. Len(outbox'[p.device])
    BY InvTypes DEF Purge, ItemsExist, OutboxMoves
  <1> QED
    BY <1>1, <1>2, <1>3, InvTypes DEF AgentMoves

\* The credentials are stored and the files are read.
LEMMA PersistAuthKeeps ==
    ASSUME Inv, NEW d \in Device, PersistAuth(d)
    PROVE  Inv'
  <1>1. PICK s \in Listings(Existing(d)) : reconcile' = [reconcile EXCEPT ![d] = s]
    BY DEF PersistAuth
  <1>2. s \in Seq(ItemType) /\ \A i \in 1 .. Len(s) : s[i].step # "identify"
    BY ExistingListed
  <1>3. PICK ph \in Phases : ph = "reconciling" /\ phase' = [phase EXCEPT ![d] = ph]
    BY DEF PersistAuth, Phases
  <1>4. OutboxMoves /\ UNCHANGED purge
    BY OutboxSame DEF PersistAuth
  <1>5. AgentMoves
    BY <1>1, <1>2, <1>3, <1>4, EnrolMoves
  <1> QED
    BY <1>4, <1>5, InvTypes, EnrolStepKeeps DEF PersistAuth

\* The head of a list of statements is replaced by one, or by none.
LEMMA ItemReplaced ==
    ASSUME Inv, NEW d \in Device, reconcile[d] # <<>>, NEW rest, rest = Tail(reconcile[d]),
           NEW y \in ItemType
    PROVE  /\ rest \in Seq(ItemType) /\ <<y>> \o rest \in Seq(ItemType)
           /\ \A i \in 1 .. Len(rest) : i + 1 \in 1 .. Len(reconcile[d]) /\ rest[i] = reconcile[d][i + 1]
           /\ \A i \in 1 .. Len(<<y>> \o rest) :
                 \/ i = 1 /\ (<<y>> \o rest)[i] = y
                 \/ i \in 1 .. Len(reconcile[d]) /\ (<<y>> \o rest)[i] = reconcile[d][i]
  <1>1. reconcile[d] \in Seq(ItemType) /\ Len(reconcile[d]) \in Nat
    BY InvTypes, LenProperties
  <1>2. rest \in Seq(ItemType) /\ Len(rest) = Len(reconcile[d]) - 1
        /\ \A i \in 1 .. Len(rest) : rest[i] = reconcile[d][i + 1]
    BY <1>1
  <1>3. Len(reconcile[d]) >= 1 /\ Len(rest) \in Nat
    BY <1>1, <1>2, LenProperties
  <1>4. <<y>> \in Seq(ItemType) /\ Len(<<y>>) = 1 /\ <<y>>[1] = y
    OBVIOUS
  <1>5. PICK q : q = <<y>> \o rest
    OBVIOUS
  <1>6. q \in Seq(ItemType) /\ Len(q) = 1 + Len(rest)
        /\ \A i \in 1 .. Len(q) : q[i] = IF i <= 1 THEN <<y>>[i] ELSE rest[i - 1]
    BY <1>2, <1>4, <1>5, ConcatProperties
  <1>7. ASSUME NEW i \in 1 .. Len(q)
        PROVE  (i = 1 /\ q[i] = y) \/ (i \in 1 .. Len(reconcile[d]) /\ q[i] = reconcile[d][i])
    <2>1. CASE i = 1
      BY <1>4, <1>6, <2>1
    <2>2. CASE i # 1
      <3>1. i - 1 \in 1 .. Len(rest) /\ q[i] = rest[i - 1]
        BY <1>3, <1>6, <2>2
      <3>2. rest[i - 1] = reconcile[d][(i - 1) + 1] /\ (i - 1) + 1 = i
        BY <1>2, <3>1
      <3> QED
        BY <1>2, <1>3, <1>6, <3>1, <3>2
    <2> QED
      BY <2>1, <2>2
  <1> QED
    BY <1>1, <1>2, <1>3, <1>5, <1>6, <1>7

\* The report of an enrolment gets its operation_id.
LEMMA IdentifyMoves ==
    ASSUME Inv, NEW d \in Device, NEW k \in 1 .. Len(outbox[d]),
           outbox' = [outbox EXCEPT ![d][k].identified = TRUE]
    PROVE  /\ OutboxMoves
           /\ \A a \in Device : Len(outbox'[a]) = Len(outbox[a])
           /\ \A a \in Device : \A j \in 1 .. Len(outbox[a]) :
                 outbox'[a][j] = IF a = d /\ j = k THEN [outbox[d][k] EXCEPT !.identified = TRUE]
                                 ELSE outbox[a][j]
  <1>1. outbox \in [Device -> Seq(Report)] /\ outbox[d] \in Seq(Report)
    BY InvTypes
  <1>2. outbox[d][k] \in Report
    BY <1>1, ElementOfSeq
  <1>3. PICK e : e = [outbox[d][k] EXCEPT !.identified = TRUE]
    OBVIOUS
  <1>4. PICK b \in BOOLEAN : b = TRUE
    OBVIOUS
  <1>5. e = [outbox[d][k] EXCEPT !.identified = b]
    BY <1>3, <1>4
  <1>6. e \in Report /\ e.kind = outbox[d][k].kind /\ e.file = outbox[d][k].file
    BY <1>2, <1>5 DEF Report
  <1>7. PICK h : h = outbox'
    OBVIOUS
  <1>8. h = [outbox EXCEPT ![d] = [outbox[d] EXCEPT ![k] = e]]
    BY <1>3, <1>7
  <1>9. /\ h \in [Device -> Seq(Report)]
        /\ \A a \in Device : Len(h[a]) = Len(outbox[a])
        /\ \A a \in Device : \A j \in 1 .. Len(outbox[a]) :
              h[a][j] = IF a = d /\ j = k THEN e ELSE outbox[a][j]
    BY <1>1, <1>6, <1>8, SeqUpdate
  <1> QED
    BY <1>3, <1>6, <1>7, <1>9 DEF OutboxMoves

\* One statement of reconcileExisting.
LEMMA ReconcileKeeps ==
    ASSUME Inv, NEW d \in Device, ReconcileExisting(d)
    PROVE  Inv'
  <1>1. reconcile[d] \in Seq(ItemType) /\ reconcile[d] # <<>> /\ Len(reconcile[d]) \in Nat
    BY InvTypes, LenProperties DEF ReconcileExisting
  <1>2. PICK x \in ItemType, rest \in Seq(ItemType) :
           x = Head(reconcile[d]) /\ rest = Tail(reconcile[d]) /\ x = reconcile[d][1] /\ 1 \in 1 .. Len(reconcile[d])
    <2>1. Head(reconcile[d]) \in ItemType /\ Tail(reconcile[d]) \in Seq(ItemType)
      BY <1>1, HeadTailProperties
    <2>2. Head(reconcile[d]) = reconcile[d][1]
      BY <1>1
    <2>3. Len(reconcile[d]) >= 1
      BY <1>1, EmptySeq
    <2>4. 1 \in 1 .. Len(reconcile[d])
      BY <1>1, <2>3
    <2> QED
      BY <2>1, <2>2, <2>4
  <1>3. PICK y1, y2 : /\ y1 = [x EXCEPT !.step = "trash"]
                      /\ y2 = [x EXCEPT !.step = "identify", !.item = Len(outbox[d]) + 1]
    OBVIOUS
  <1>4. PICK m \in Nat : m = Len(outbox[d]) + 1
    BY InvTypes
  <1>5. /\ x.file \in File /\ x.name \in Name \cup {NoName}
        /\ y1 \in ItemType /\ y1.step = "trash" /\ y2 \in ItemType /\ y2.item = m
    <2>1. y2 = [x EXCEPT !.step = "identify", !.item = m]
      BY <1>3, <1>4
    <2> QED
      BY <1>3, <2>1 DEF ItemType
  <1>6. UNCHANGED <<catalogVars, local, loop, phase, purge, late, action, losses, changes, raced>>
    BY DEF ReconcileExisting
  <1>7. ASSUME OutboxMoves, NEW q \in Seq(ItemType), reconcile' = [reconcile EXCEPT ![d] = q],
               \A i \in 1 .. Len(q) : \/ q[i].step = "identify" => q[i].item \in 1 .. Len(outbox'[d])
                                      \/ \E j \in 1 .. Len(reconcile[d]) : q[i] = reconcile[d][j]
        PROVE  Inv'
    <2>0. \A j \in 1 .. Len(reconcile[d]) :
             reconcile[d][j].step = "identify" => reconcile[d][j].item \in 1 .. Len(outbox'[d])
      BY <1>7, InvTypes DEF ItemsExist, OutboxMoves
    <2>1. \A i \in 1 .. Len(q) : q[i].step = "identify" => q[i].item \in 1 .. Len(outbox'[d])
      BY <1>7, <2>0
    <2>2. PICK ph \in Phases : ph = phase[d]
      BY InvTypes
    <2>3. phase' = [phase EXCEPT ![d] = ph]
      BY <1>6, <2>2, InvTypes
    <2>4. AgentMoves
      BY <1>6, <1>7, <2>1, <2>3, EnrolMoves
    <2> QED
      BY <1>6, <1>7, <2>4, InvTypes, EnrolStepKeeps
  <1>N. PICK yes \in BOOLEAN, no \in BOOLEAN, pending \in {"pending", "processing"} :
           yes = TRUE /\ no = FALSE /\ pending = "pending"
    OBVIOUS
  <1>8. CASE /\ x.step = "register"
             /\ Enqueue(d, "register", x.file, x.name, TRUE)
             /\ reconcile' = [reconcile EXCEPT ![d] = IF x.trashed THEN <<y1>> \o rest ELSE rest]
    <2>1. PICK k \in lifecycle \cup {"register"} : k = "register"
      OBVIOUS
    <2>2. EnqueueWithStatus(d, k, x.file, x.name, yes, pending)
      BY <1>8, <1>N, <2>1 DEF Enqueue
    <2>3. OutboxMoves
      BY <1>5, <2>2, EnqueueMoves
    <2>4. CASE reconcile' = [reconcile EXCEPT ![d] = <<y1>> \o rest]
      <3>1. PICK q : q = <<y1>> \o rest
        OBVIOUS
      <3>2. /\ q \in Seq(ItemType)
            /\ \A i \in 1 .. Len(q) : (i = 1 /\ q[i] = y1) \/ (i \in 1 .. Len(reconcile[d]) /\ q[i] = reconcile[d][i])
        BY <1>1, <1>2, <1>5, <3>1, ItemReplaced
      <3> QED
        BY <1>5, <1>7, <2>3, <2>4, <3>1, <3>2
    <2>5. CASE reconcile' = [reconcile EXCEPT ![d] = rest]
      <3>1. \A i \in 1 .. Len(rest) : i + 1 \in 1 .. Len(reconcile[d]) /\ rest[i] = reconcile[d][i + 1]
        BY <1>1, <1>2, <1>5, ItemReplaced
      <3> QED
        BY <1>7, <2>3, <2>5, <3>1
    <2> QED
      BY <1>8, <2>4, <2>5
  <1>9. CASE /\ x.step = "trash"
             /\ Enqueue(d, "trash", x.file, NoName, FALSE)
             /\ reconcile' = [reconcile EXCEPT ![d] = <<y2>> \o rest]
    <2>1. PICK k \in lifecycle \cup {"register"}, n \in Name \cup {NoName} : k = "trash" /\ n = NoName
      BY DEF lifecycle
    <2>2. EnqueueWithStatus(d, k, x.file, n, no, pending)
      BY <1>9, <1>N, <2>1 DEF Enqueue
    <2>3. OutboxMoves /\ m \in 1 .. Len(outbox'[d])
      BY <1>4, <1>5, <2>2, EnqueueMoves
    <2>4. PICK q : q = <<y2>> \o rest
      OBVIOUS
    <2>5. /\ q \in Seq(ItemType)
          /\ \A i \in 1 .. Len(q) : (i = 1 /\ q[i] = y2) \/ (i \in 1 .. Len(reconcile[d]) /\ q[i] = reconcile[d][i])
      BY <1>1, <1>2, <1>5, <2>4, ItemReplaced
    <2> QED
      BY <1>5, <1>7, <1>9, <2>3, <2>4, <2>5
  <1>10. CASE /\ x.step = "identify"
              /\ outbox' = [outbox EXCEPT ![d][x.item].identified = TRUE]
              /\ reconcile' = [reconcile EXCEPT ![d] = rest]
    <2>1. x.item \in 1 .. Len(outbox[d])
      BY <1>2, <1>10, InvTypes DEF ItemsExist
    <2>2. OutboxMoves
      BY <1>10, <2>1, IdentifyMoves
    <2>3. \A i \in 1 .. Len(rest) : i + 1 \in 1 .. Len(reconcile[d]) /\ rest[i] = reconcile[d][i + 1]
      BY <1>1, <1>2, <1>5, ItemReplaced
    <2> QED
      BY <1>7, <1>10, <2>2, <2>3
  <1> QED
    BY <1>2, <1>3, <1>8, <1>9, <1>10, Zenon DEF ReconcileExisting

\* The marker is set, or the rest is given up.
LEMMA ReconcileEndKeeps ==
    ASSUME Inv, NEW d \in Device, MarkReconciled(d) \/ ReconcileFails(d)
    PROVE  Inv'
  <1>1. OutboxMoves /\ UNCHANGED purge
    BY OutboxSame DEF MarkReconciled, ReconcileFails
  <1>2. PICK q \in Seq(ItemType) : q = <<>>
    BY EmptySeq
  <1>3. reconcile' = [reconcile EXCEPT ![d] = q]
    BY <1>2, InvTypes DEF MarkReconciled, ReconcileFails
  <1>4. PICK ph \in Phases : phase' = [phase EXCEPT ![d] = ph]
    BY DEF MarkReconciled, ReconcileFails, Phases
  <1>5. AgentMoves
    <2>1. Len(q) = 0
      BY <1>2, EmptySeq
    <2>2. \A i \in 1 .. Len(q) : q[i].step = "identify" => q[i].item \in 1 .. Len(outbox'[d])
      BY <2>1
    <2> QED
      BY <1>1, <1>3, <1>4, <2>2, EnrolMoves
  <1>6. losses' \in {losses, losses + 1} /\ losses' \in 0 .. MaxLosses
    BY InvTypes DEF MarkReconciled, ReconcileFails
  <1> QED
    BY <1>1, <1>5, <1>6, EnrolStepKeeps DEF MarkReconciled, ReconcileFails

-----------------------------------------------------------------------------
(* The Agent's loop: commands *)

\* Facts about a command that exists.
LEMMA CommandFacts ==
    ASSUME Inv, NEW d \in Device, NEW c \in 1 .. Len(command[d])
    PROVE  /\ command[d] \in Seq(Command) /\ command[d][c] \in Command
           /\ command[d][c].attempt \in Nat
           /\ command[d][c].attempt <= MaxAttempts + losses
           /\ command[d][c].state = "queued" => command[d][c].attempt < MaxAttempts
           /\ command[d][c].state = "leased" /\ ~Working(d, c) => command[d][c].attempt < MaxAttempts + losses
           /\ c \in Nat
  <1>1. command[d] \in Seq(Command) /\ c \in Nat
    BY InvTypes
  <1>2. command[d][c] \in Command
    BY <1>1, ElementOfSeq
  <1>3. command[d][c].attempt \in Nat
    BY <1>2, CatalogAssumption DEF Command
  <1> QED
    BY <1>1, <1>2, <1>3, InvTypes DEF AttemptsBounded

\* One command changes.
LEMMA CommandUpdate ==
    ASSUME Inv, NEW d \in Device, NEW c \in 1 .. Len(command[d]), NEW e \in Command,
           command' = [command EXCEPT ![d] = [command[d] EXCEPT ![c] = e]],
           losses' \in {losses, losses + 1}, losses' \in 0 .. MaxLosses,
           \A a \in Device : a # d => loop'[a] = loop[a],
           \A b \in Nat : Working(d, b) => \/ b = c \/ losses' = losses + 1
                                          \/ (loop'[d].at \in executing /\ loop'[d].item = b),
           e.attempt <= MaxAttempts + losses',
           e.state = "queued" => e.attempt < MaxAttempts,
           e.state = "leased" /\ ~(loop'[d].at \in executing /\ loop'[d].item = c) => e.attempt < MaxAttempts + losses'
    PROVE  CommandsGrow /\ AttemptsBounded'
  <1>0. losses \in Nat /\ losses' \in Nat /\ MaxAttempts \in Nat /\ command \in [Device -> Seq(Command)]
    BY InvTypes, CatalogAssumption
  <1>1. PICK h : h = command'
    OBVIOUS
  <1>2. /\ h \in [Device -> Seq(Command)]
        /\ \A a \in Device : Len(h[a]) = Len(command[a])
        /\ \A a \in Device : \A j \in 1 .. Len(command[a]) :
              h[a][j] = IF a = d /\ j = c THEN e ELSE command[a][j]
    BY <1>0, <1>1, SeqUpdate
  <1>3. CommandsGrow
    BY <1>1, <1>2 DEF CommandsGrow
  <1>4. ASSUME NEW a \in Device, NEW j \in 1 .. Len(h[a])
        PROVE  /\ h[a][j].attempt <= MaxAttempts + losses'
               /\ h[a][j].state = "queued" => h[a][j].attempt < MaxAttempts
               /\ h[a][j].state = "leased" /\ ~(loop'[a].at \in executing /\ loop'[a].item = j) =>
                     h[a][j].attempt < MaxAttempts + losses'
    <2>1. CASE a = d /\ j = c
      BY <1>2, <2>1
    <2>2. CASE ~(a = d /\ j = c)
      <3>1. j \in 1 .. Len(command[a]) /\ h[a][j] = command[a][j]
        BY <1>2, <2>2
      <3>2. /\ command[a][j].attempt \in Nat
            /\ command[a][j].attempt <= MaxAttempts + losses
            /\ command[a][j].state = "queued" => command[a][j].attempt < MaxAttempts
            /\ command[a][j].state = "leased" /\ ~Working(a, j) => command[a][j].attempt < MaxAttempts + losses
            /\ j \in Nat
        BY <3>1, CommandFacts
      <3>3. CASE a # d
        <4>1. loop'[a] = loop[a]
          BY <3>3
        <4> QED
          BY <1>0, <3>1, <3>2, <4>1 DEF Working
      <3>4. CASE a = d
        <4>1. Working(d, j) => losses' = losses + 1 \/ (loop'[d].at \in executing /\ loop'[d].item = j)
          BY <2>2, <3>2, <3>4
        <4> QED
          BY <1>0, <3>1, <3>2, <3>4, <4>1
      <3> QED
        BY <3>3, <3>4
    <2> QED
      BY <2>1, <2>2
  <1>5. AttemptsBounded'
    BY <1>1, <1>4 DEF AttemptsBounded, Working
  <1> QED
    BY <1>3, <1>5

\* A step on commands leaves the entries, the reports and the requests alone.
LEMMA CommandStepKeeps ==
    ASSUME Inv, CommandsGrow, AttemptsBounded', LoopMoves, losses' \in 0 .. MaxLosses,
           replica' \in [File -> [Device -> {"none", "ready", "deleted"}]], LocalTyped',
           UNCHANGED <<entry, done, effects, outbox, phase, reconcile, purge, changes, late, action>>
    PROVE  Inv'
  <1>1. OutboxMoves /\ EffectMoves /\ AgentMoves
    BY OutboxSame, EffectsSame, AgentsSame
  <1>2. CatalogTyped' /\ RequestsTyped'
    BY InvTypes DEF CatalogTyped, RequestsTyped
  <1> QED
    BY <1>1, <1>2, InvTypes, Recombined

\* A claim changes the command's lease and its count of attempts.
LEMMA ClaimUpdates ==
    ASSUME Inv, NEW d \in Device, NEW c \in 1 .. Len(command[d]), ClaimDeviceCommand(d, c), NEW e,
           e = [command[d][c] EXCEPT !.state = "leased", !.lapsed = FALSE, !.attempt = command[d][c].attempt + 1]
    PROVE  command' = [command EXCEPT ![d] = [command[d] EXCEPT ![c] = e]]
  <1>1. command \in [Device -> Seq(Command)]
    BY InvTypes
  <1>2. command[d] \in Seq(Command) /\ command[d][c] \in Command /\ command[d][c].attempt \in Nat
    BY CommandFacts
  <1>3. command' = [command EXCEPT ![d][c].state = "leased", ![d][c].lapsed = FALSE, ![d][c].attempt = @ + 1]
    BY DEF ClaimDeviceCommand
  <1> QED
    BY <1>1, <1>2, <1>3 DEF Command

\* The server leases a command, and the Agent hears of it or not.
LEMMA ClaimKeeps ==
    ASSUME Inv, NEW d \in Device, NEW c \in 1 .. Len(command[d]), ClaimDeviceCommand(d, c)
    PROVE  Inv'
  <1>0. losses \in Nat /\ MaxAttempts \in Nat /\ MaxLosses \in Nat /\ losses <= MaxLosses
    BY InvTypes, CatalogAssumption
  <1>1. loop[d].at = "rest" /\ loop[d].at \notin executing
    BY DEF ClaimDeviceCommand, AtRest, executing
  <1>2. PICK e : e = [command[d][c] EXCEPT !.state = "leased", !.lapsed = FALSE, !.attempt = command[d][c].attempt + 1]
    OBVIOUS
  <1>3. /\ command[d] \in Seq(Command) /\ command[d][c] \in Command
        /\ command[d][c].attempt \in Nat
        /\ command[d][c].state = "queued" => command[d][c].attempt < MaxAttempts
        /\ command[d][c].state = "leased" => command[d][c].attempt < MaxAttempts + losses
        /\ c \in Nat
    BY <1>1, CommandFacts DEF Working
  <1>4. command[d][c].state \in {"queued", "leased"}
    BY DEF ClaimDeviceCommand, Selected, Claimable
  <1>5. PICK t \in Nat : t = command[d][c].attempt + 1
    BY <1>3
  <1>6. t <= MaxAttempts + losses
    BY <1>0, <1>3, <1>4, <1>5
  <1>7. e \in Command /\ e.state = "leased" /\ e.attempt = t
    <2>1. t \in 0 .. MaxAttempts + MaxLosses
      BY <1>0, <1>6
    <2>2. e = [command[d][c] EXCEPT !.state = "leased", !.lapsed = FALSE, !.attempt = t]
      BY <1>2, <1>5
    <2> QED
      BY <1>3, <2>1, <2>2 DEF Command
  <1>8. command' = [command EXCEPT ![d] = [command[d] EXCEPT ![c] = e]]
    BY <1>2, ClaimUpdates
  <1>9. \A a \in Device : a # d => loop'[a] = loop[a]
    BY InvTypes DEF ClaimDeviceCommand, At
  <1>10. CASE At(d, "command", c) /\ UNCHANGED losses
    <2>1. loop'[d].at \in executing /\ loop'[d].item = c
      BY <1>10, InvTypes DEF At, executing
    <2>2. CommandsGrow /\ AttemptsBounded'
      BY <1>0, <1>1, <1>6, <1>7, <1>8, <1>9, <1>10, <2>1, InvTypes, CommandUpdate DEF Working
    <2>3. c \in 1 .. Len(command'[d])
      BY <2>2 DEF CommandsGrow
    <2>4. PICK where \in {"rest"} \cup reporting \cup executing : where = "command" /\ where \notin reporting
      BY DEF reporting, executing
    <2>5. LoopMoves
      BY <1>3, <1>10, <2>3, <2>4, AtMoves
    <2> QED
      BY <1>10, <2>2, <2>5, InvTypes, CommandStepKeeps DEF ClaimDeviceCommand, agentVars, LocalTyped, CatalogTyped
  <1>11. CASE losses < MaxLosses /\ losses' = losses + 1 /\ UNCHANGED loop
    <2>1. t < MaxAttempts + losses' /\ t <= MaxAttempts + losses'
      BY <1>0, <1>6, <1>11
    <2>2. CommandsGrow /\ AttemptsBounded'
      BY <1>0, <1>1, <1>7, <1>8, <1>11, <2>1, InvTypes, CommandUpdate DEF Working
    <2>3. LoopMoves
      BY <1>11, LoopSame
    <2> QED
      BY <1>11, <2>2, <2>3, InvTypes, CommandStepKeeps DEF ClaimDeviceCommand, agentVars, LocalTyped, CatalogTyped
  <1> QED
    BY <1>10, <1>11 DEF ClaimDeviceCommand

\* A lease that nobody works under ends.
LEMMA LapseKeeps ==
    ASSUME Inv, NEW d \in Device, NEW c \in 1 .. Len(command[d]), LeaseLapses(d, c)
    PROVE  Inv'
  <1>1. PICK b \in BOOLEAN : b = TRUE
    OBVIOUS
  <1>2. PICK e : e = [command[d][c] EXCEPT !.lapsed = b]
    OBVIOUS
  <1>3. /\ command[d] \in Seq(Command) /\ command[d][c] \in Command
        /\ command[d][c].attempt <= MaxAttempts + losses
        /\ command[d][c].state = "queued" => command[d][c].attempt < MaxAttempts
        /\ command[d][c].state = "leased" /\ ~Working(d, c) => command[d][c].attempt < MaxAttempts + losses
    BY CommandFacts
  <1>4. e \in Command /\ e.state = command[d][c].state /\ e.attempt = command[d][c].attempt
    BY <1>2, <1>3 DEF Command
  <1>5. command' = [command EXCEPT ![d] = [command[d] EXCEPT ![c] = e]]
    BY <1>1, <1>2, <1>3, InvTypes DEF LeaseLapses, Command
  <1>6. UNCHANGED <<entry, replica, done, effects, local, outbox, phase, reconcile, purge, raced, changes, loop,
                    late, action, losses>>
    BY DEF LeaseLapses, agentVars
  <1>7. ~Working(d, c)
    BY DEF LeaseLapses, Working, executing
  <1>8. \A b2 \in Nat : Working(d, b2) => loop'[d].at \in executing /\ loop'[d].item = b2
    BY <1>6 DEF Working
  <1>9. CommandsGrow /\ AttemptsBounded'
    BY <1>3, <1>4, <1>5, <1>6, <1>7, <1>8, InvTypes, CommandUpdate
  <1>10. LoopMoves /\ LocalTyped' /\ replica' \in [File -> [Device -> {"none", "ready", "deleted"}]]
    BY <1>6, LoopSame, InvTypes DEF LocalTyped, CatalogTyped
  <1> QED
    BY <1>6, <1>9, <1>10, InvTypes, CommandStepKeeps

\* The Agent applies the command, finds it applied, or refuses it.
LEMMA ApplyKeeps ==
    ASSUME Inv, NEW d \in Device, ApplyDeviceCommand(d)
    PROVE  Inv'
  <1>1. /\ loop[d].at = "command"
        /\ UNCHANGED <<entry, replica, done, command, effects, outbox, phase, reconcile, purge, late, action, losses, changes>>
    BY DEF ApplyDeviceCommand, catalogVars
  <1>2. PICK i \in 1 .. Len(command[d]) : i = loop[d].item
    BY <1>1, InvTypes DEF ItemsExist, executing
  <1>3. PICK c \in Command : c = command[d][i]
    BY CommandFacts
  <1>4. c.file \in File /\ c.name \in Name \cup {NoName} /\ c.act \in lifecycle
    BY DEF Command
  <1>5. PICK where \in {"rest"} \cup reporting \cup executing :
           where \in executing /\ where \notin reporting /\ At(d, where, i)
    BY <1>2 DEF ApplyDeviceCommand, reporting, executing
  <1>6. i \in Nat
    BY InvTypes
  <1>7. LoopMoves
    BY <1>1, <1>5, <1>6, AtMoves
  <1>8. \A a \in Device : loop'[a] = loop[a] \/ (loop'[a].at \in executing /\ loop'[a].item = loop[a].item)
    BY <1>2, <1>5, InvTypes DEF At
  <1>9. CommandsGrow /\ AttemptsBounded'
    BY <1>1, <1>8, NoCommands, BoundKept
  <1>10. LocalTyped'
    <2>1. CASE UNCHANGED <<local, raced>>
      BY <2>1, InvTypes DEF LocalTyped
    <2>2. CASE /\ SetLocal(d, c.file, IF c.act = "purge" THEN "purging" ELSE NewStatus(c.act),
                           IF c.act = "rename" THEN c.name ELSE local[d][c.file].name)
               /\ raced' = IF Reconciling(d, c.file) THEN raced \cup {c.file} ELSE raced
      <3>1. PICK st \in LocalStatuses : st = IF c.act = "purge" THEN "purging" ELSE NewStatus(c.act)
        BY <1>4 DEF NewStatus, Statuses, LocalStatuses, lifecycle
      <3>2. PICK n \in Name \cup {NoName} : n = IF c.act = "rename" THEN c.name ELSE local[d][c.file].name
        BY <1>4, InvTypes DEF LocalTyped, RowType
      <3>3. SetLocal(d, c.file, st, n)
        BY <2>2, <3>1, <3>2
      <3>4. raced' \subseteq File
        BY <1>4, <2>2, InvTypes DEF LocalTyped
      <3> QED
        BY <1>4, <3>3, <3>4, SetLocalTyped DEF LocalTyped
    <2> QED
      BY <1>2, <1>3, <2>1, <2>2 DEF ApplyDeviceCommand
  <1> QED
    BY <1>1, <1>7, <1>9, <1>10, InvTypes, CommandStepKeeps DEF CatalogTyped

\* The Agent reports the outcome.
LEMMA FinishKeeps ==
    ASSUME Inv, NEW d \in Device, FinishDeviceCommand(d)
    PROVE  Inv'
  <1>1. /\ loop[d].at \in executing
        /\ UNCHANGED <<entry, done, effects, local, outbox, phase, reconcile, purge, raced, changes, late, action, losses>>
    BY DEF FinishDeviceCommand, agentVars, executing
  <1>2. PICK i \in 1 .. Len(command[d]) : i = loop[d].item
    BY <1>1, InvTypes DEF ItemsExist
  <1>3. /\ command[d] \in Seq(Command) /\ command[d][i] \in Command
        /\ command[d][i].attempt \in Nat
        /\ command[d][i].attempt <= MaxAttempts + losses
    BY CommandFacts
  <1>4. PICK st : st = IF loop[d].at = "done" THEN "completed"
                       ELSE IF command[d][i].attempt >= MaxAttempts THEN "failed" ELSE "queued"
    OBVIOUS
  <1>5. PICK e : e = [command[d][i] EXCEPT !.state = st]
    OBVIOUS
  <1>6. /\ e \in Command /\ e.state = st /\ e.attempt = command[d][i].attempt
        /\ st # "leased" /\ (st = "queued" => e.attempt < MaxAttempts)
    <2>1. st \in {"completed", "failed", "queued"} /\ (st = "queued" => command[d][i].attempt < MaxAttempts)
      BY <1>3, <1>4, CatalogAssumption
    <2>2. e \in Command /\ e.state = st /\ e.attempt = command[d][i].attempt
      BY <1>3, <1>5, <2>1 DEF Command
    <2> QED
      BY <2>1, <2>2
  <1>7. command' = [command EXCEPT ![d] = [command[d] EXCEPT ![i] = e]]
    BY <1>2, <1>3, <1>4, <1>5, InvTypes DEF FinishDeviceCommand, Command
  <1>8. PICK where \in {"rest"} \cup reporting \cup executing, k \in Nat :
           where = "rest" /\ k = 0 /\ where \notin reporting /\ where \notin executing
    BY DEF reporting, executing
  <1>9. At(d, where, k)
    BY <1>8 DEF FinishDeviceCommand
  <1>10. LoopMoves
    BY <1>8, <1>9, AtMoves
  <1>11. \A a \in Device : a # d => loop'[a] = loop[a]
    BY <1>9, InvTypes DEF At
  <1>12. \A b \in Nat : Working(d, b) => b = i
    BY <1>2 DEF Working
  <1>13. CommandsGrow /\ AttemptsBounded'
    BY <1>1, <1>3, <1>6, <1>7, <1>11, <1>12, InvTypes, CommandUpdate
  <1>14. replica' \in [File -> [Device -> {"none", "ready", "deleted"}]]
    <2>1. replica \in [File -> [Device -> {"none", "ready", "deleted"}]]
      BY InvTypes DEF CatalogTyped
    <2>2. replica' = replica \/ replica' = [replica EXCEPT ![command[d][i].file][d] = "deleted"]
      BY <1>2 DEF FinishDeviceCommand
    <2> QED
      BY <2>1, <2>2
  <1>15. LocalTyped'
    BY <1>1, InvTypes DEF LocalTyped
  <1> QED
    BY <1>1, <1>10, <1>13, <1>14, <1>15, InvTypes, CommandStepKeeps

\* The deletion that a command begins ends well, or is refused.
LEMMA DeleteCommandedKeeps ==
    ASSUME Inv, NEW d \in Device, DeleteCommanded(d)
    PROVE  Inv'
  <1>1. /\ loop[d].at = "purging"
        /\ UNCHANGED <<entry, replica, done, command, effects, outbox, phase, reconcile, purge, late, action,
                       losses, changes, raced>>
    BY DEF DeleteCommanded, catalogVars
  <1>2. PICK i \in 1 .. Len(command[d]) : i = loop[d].item
    BY <1>1, InvTypes DEF ItemsExist, executing
  <1>3. PICK c \in Command : c = command[d][i]
    BY CommandFacts
  <1>4. PICK where \in {"rest"} \cup reporting \cup executing :
           where \in executing /\ where \notin reporting /\ At(d, where, i)
    BY <1>2 DEF DeleteCommanded, reporting, executing
  <1>5. i \in Nat
    BY InvTypes
  <1>6. LoopMoves
    BY <1>1, <1>4, <1>5, AtMoves
  <1>7. \A a \in Device : loop'[a] = loop[a] \/ (loop'[a].at \in executing /\ loop'[a].item = loop[a].item)
    BY <1>2, <1>4, InvTypes DEF At
  <1>8. CommandsGrow /\ AttemptsBounded'
    BY <1>1, <1>7, NoCommands, BoundKept
  <1>9. LocalTyped'
    <2>1. CASE UNCHANGED local
      BY <1>1, <2>1, InvTypes DEF LocalTyped
    <2>2. CASE SetLocal(d, c.file, "purged", local[d][c.file].name)
      <3>1. PICK st \in LocalStatuses, n \in Name \cup {NoName} : st = "purged" /\ n = local[d][c.file].name
        BY InvTypes DEF LocalTyped, RowType, LocalStatuses, Statuses, Command
      <3>2. c.file \in File /\ SetLocal(d, c.file, st, n)
        BY <2>2, <3>1 DEF Command
      <3> QED
        BY <1>1, <3>2, SetLocalTyped, InvTypes DEF LocalTyped
    <2> QED
      BY <1>2, <1>3, <2>1, <2>2 DEF DeleteCommanded
  <1> QED
    BY <1>1, <1>6, <1>8, <1>9, InvTypes, CommandStepKeeps DEF CatalogTyped

\* The outcome is lost, or the deletion fails.
LEMMA CommandLostKeeps ==
    ASSUME Inv, NEW d \in Device, CommandLost(d) \/ DeleteCommandedFails(d)
    PROVE  Inv'
  <1>1. /\ losses' = losses + 1 /\ losses' \in 0 .. MaxLosses
        /\ UNCHANGED <<entry, replica, done, command, effects, local, outbox, phase, reconcile, purge, raced,
                       changes, late, action>>
    BY InvTypes DEF CommandLost, DeleteCommandedFails, catalogVars, agentVars
  <1>2. PICK where \in {"rest"} \cup reporting \cup executing, k \in Nat :
           /\ where \notin reporting /\ At(d, where, k)
           /\ where \in executing => k \in 1 .. Len(command[d])
    <2>1. CASE CommandLost(d)
      BY <2>1 DEF CommandLost, reporting, executing
    <2>2. CASE DeleteCommandedFails(d)
      <3>1. loop[d].item \in 1 .. Len(command[d])
        BY <2>2, InvTypes DEF DeleteCommandedFails, ItemsExist, executing
      <3>2. loop[d].item \in Nat
        BY <3>1, InvTypes
      <3> QED
        BY <2>2, <3>1, <3>2 DEF DeleteCommandedFails, reporting, executing
    <2> QED
      BY <2>1, <2>2
  <1>3. LoopMoves
    BY <1>1, <1>2, AtMoves
  <1>4. CommandsGrow /\ AttemptsBounded'
    BY <1>1, NoCommands, BoundKept
  <1>5. LocalTyped' /\ replica' \in [File -> [Device -> {"none", "ready", "deleted"}]]
    BY <1>1, InvTypes DEF LocalTyped, CatalogTyped
  <1> QED
    BY <1>1, <1>3, <1>4, <1>5, CommandStepKeeps

-----------------------------------------------------------------------------
(* The catalog's transactions *)

\* A command is added to a device's queue once per operation.
LEMMA QueuedFacts ==
    ASSUME Inv, NEW d \in Device, NEW f \in File, NEW op \in Operation, NEW a \in lifecycle,
           NEW n \in Name \cup {NoName}, NEW q, q = Queued(d, f, op, a, n)
    PROVE  /\ q \in Seq(Command)
           /\ \A c \in 1 .. Len(command[d]) : c \in 1 .. Len(q)
           /\ \A c \in 1 .. Len(q) : \/ c \in 1 .. Len(command[d]) /\ q[c] = command[d][c]
                                     \/ q[c].state = "queued" /\ q[c].attempt = 0 /\ q[c].file = f
  <1>1. command[d] \in Seq(Command) /\ Len(command[d]) \in Nat
    BY InvTypes
  <1>2. PICK e : e = [file |-> f, op |-> op, act |-> a, name |-> n,
                      state |-> "queued", lapsed |-> FALSE, attempt |-> 0]
    OBVIOUS
  <1>3. e \in Command /\ e.state = "queued" /\ e.attempt = 0 /\ e.file = f
    BY <1>2, CatalogAssumption DEF Command
  <1>4. CASE q = command[d]
    BY <1>1, <1>4
  <1>5. CASE q = Append(command[d], e)
    <2>1. /\ q \in Seq(Command) /\ Len(q) = Len(command[d]) + 1 /\ q[Len(command[d]) + 1] = e
          /\ \A c \in 1 .. Len(command[d]) : q[c] = command[d][c]
      BY <1>1, <1>3, <1>5, AppendProperties
    <2> QED
      BY <1>1, <1>3, <2>1
  <1> QED
    BY <1>2, <1>4, <1>5 DEF Queued

\* An entry that gets a new status and name.
LEMMA EntryUpdate ==
    ASSUME Inv, NEW f \in File, NEW st \in Statuses, st # "none", NEW n \in Name \cup {NoName},
           entry' = [entry EXCEPT ![f] = [status |-> st, name |-> n]]
    PROVE  /\ entry' \in [File -> EntryType] /\ entry'[f].status = st
           /\ \A g \in File : g # f => entry'[g] = entry[g]
           /\ \A g \in File : entry[g].status # "none" => entry'[g].status # "none"
  <1>1. PICK x : x = [status |-> st, name |-> n]
    OBVIOUS
  <1>2. x \in EntryType /\ x.status = st
    BY <1>1 DEF EntryType
  <1>3. entry \in [File -> EntryType]
    BY InvTypes DEF CatalogTyped
  <1>4. entry' = [entry EXCEPT ![f] = x]
    BY <1>1
  <1> QED
    BY <1>2, <1>3, <1>4

\* A report's effect.
LEMMA ChangeFacts ==
    ASSUME Inv, NEW f \in File, NEW op \in Operation, NEW a \in lifecycle,
           NEW n \in Name \cup {NoName}, ChangeEntry(f, op, a, n)
    PROVE  /\ entry' \in [File -> EntryType] /\ effects' \in Seq(Operation)
           /\ replica' \in [File -> [Device -> {"none", "ready", "deleted"}]]
           /\ \A g \in File : entry[g].status # "none" => entry'[g].status # "none"
           /\ \A g \in File : g # f => entry'[g] = entry[g]
           /\ effects' = Append(effects, op)
           /\ CommandsAppended
  <1>0. /\ entry \in [File -> EntryType] /\ effects \in Seq(Operation)
        /\ replica \in [File -> [Device -> {"none", "ready", "deleted"}]]
    BY InvTypes DEF CatalogTyped
  <1>1. PICK st \in Statuses : st = NewStatus(a) /\ st # "none"
    BY DEF NewStatus, Statuses, lifecycle
  <1>2. PICK m \in Name \cup {NoName} : m = IF a = "rename" THEN n ELSE entry[f].name
    BY <1>0 DEF EntryType
  <1>3. entry' = [entry EXCEPT ![f] = [status |-> st, name |-> m]]
    BY <1>1, <1>2 DEF ChangeEntry
  <1>4. /\ entry' \in [File -> EntryType]
        /\ \A g \in File : entry[g].status # "none" => entry'[g].status # "none"
        /\ \A g \in File : g # f => entry'[g] = entry[g]
    BY <1>1, <1>3, EntryUpdate
  <1>5. effects' = Append(effects, op) /\ effects' \in Seq(Operation)
    BY <1>0, AppendProperties DEF ChangeEntry
  <1>6. replica' \in [File -> [Device -> {"none", "ready", "deleted"}]]
    <2>1. replica' = replica \/ replica' = [replica EXCEPT ![f][Origin[f]] = "deleted"]
      BY DEF ChangeEntry
    <2> QED
      BY <1>0, <2>1
  <1>7. CommandsAppended
    <2>1. command \in [Device -> Seq(Command)]
      BY InvTypes
    <2>2. /\ DOMAIN command' = Device
          /\ \A d \in Device : command'[d] = command[d] \/ command'[d] = Queued(d, f, op, a, n)
          /\ command' = [d \in Device |-> command'[d]]
      BY DEF ChangeEntry, enqueueLifecycleCommands
    <2>3. ASSUME NEW d \in Device
          PROVE  /\ command'[d] \in Seq(Command)
                 /\ \A c \in 1 .. Len(command[d]) : c \in 1 .. Len(command'[d])
                 /\ \A c \in 1 .. Len(command'[d]) :
                       \/ c \in 1 .. Len(command[d]) /\ command'[d][c] = command[d][c]
                       \/ command'[d][c].state = "queued" /\ command'[d][c].attempt = 0
      <3>1. PICK q : q = command'[d]
        OBVIOUS
      <3>2. CASE q = command[d]
        BY <2>1, <3>1, <3>2
      <3>3. CASE q = Queued(d, f, op, a, n)
        BY <3>1, <3>3, QueuedFacts
      <3> QED
        BY <2>2, <3>1, <3>2, <3>3
    <2>4. command' \in [Device -> Seq(Command)]
      BY <2>2, <2>3
    <2> QED
      BY <2>3, <2>4 DEF CommandsAppended
  <1> QED
    BY <1>4, <1>5, <1>6, <1>7

\* ApplyLifecycleReport commits.
LEMMA AppliedFacts ==
    ASSUME Inv, NEW f \in File, NEW op \in Operation, NEW a \in lifecycle,
           NEW n \in Name \cup {NoName}, LifecycleOp(op), Applied(f, op, a, n)
    PROVE  CatalogTyped' /\ EffectMoves /\ CommandsAppended
  <1>0. CatalogTyped
    BY InvTypes
  <1>1. CASE UNCHANGED catalogVars
    BY <1>0, <1>1, EffectsSame, NoCommands DEF CatalogTyped, catalogVars
  <1>2. CASE op \notin done /\ done' = done \cup {op} /\ UNCHANGED <<entry, replica, command, effects>>
    BY <1>0, <1>2, NoCommands DEF CatalogTyped, EffectMoves
  <1>3. CASE op \notin done /\ done' = done \cup {op} /\ ChangeEntry(f, op, a, n)
    <2>1. /\ entry' \in [File -> EntryType] /\ effects' \in Seq(Operation)
          /\ replica' \in [File -> [Device -> {"none", "ready", "deleted"}]]
          /\ \A g \in File : entry[g].status # "none" => entry'[g].status # "none"
          /\ effects' = Append(effects, op)
          /\ CommandsAppended
      BY <1>3, ChangeFacts
    <2> QED
      BY <1>0, <1>3, <2>1 DEF CatalogTyped, EffectMoves
  <1> QED
    BY <1>1, <1>2, <1>3 DEF Applied

\* RegisterVerifiedFile commits.
LEMMA RegisteredFacts ==
    ASSUME Inv, NEW f \in File, NEW op \in Operation, NEW n \in Name \cup {NoName},
           RegisterOp(op), FileOf(op) = f, Registered(f, op, n)
    PROVE  CatalogTyped' /\ EffectMoves /\ CommandsAppended
  <1>0. CatalogTyped
    BY InvTypes
  <1>1. CASE UNCHANGED catalogVars
    BY <1>0, <1>1, EffectsSame, NoCommands DEF CatalogTyped, catalogVars
  <1>2. CASE /\ entry[f].status = "none"
             /\ entry' = [entry EXCEPT ![f] = [status |-> "active", name |-> n]]
             /\ replica' = [replica EXCEPT ![f][Origin[f]] = "ready"]
             /\ effects' = Append(effects, op)
             /\ UNCHANGED <<done, command>>
    <2>1. PICK st \in Statuses : st = "active" /\ st # "none"
      BY DEF Statuses
    <2>2. entry' = [entry EXCEPT ![f] = [status |-> st, name |-> n]]
      BY <1>2, <2>1
    <2>3. /\ entry' \in [File -> EntryType] /\ entry'[f].status = st
          /\ \A g \in File : entry[g].status # "none" => entry'[g].status # "none"
      BY <2>1, <2>2, EntryUpdate
    <2>4. effects' \in Seq(Operation)
      BY <1>0, <1>2, AppendProperties DEF CatalogTyped
    <2>5. replica' \in [File -> [Device -> {"none", "ready", "deleted"}]]
      BY <1>0, <1>2 DEF CatalogTyped
    <2>6. CatalogTyped'
      BY <1>0, <1>2, <2>3, <2>4, <2>5 DEF CatalogTyped
    <2>7. EffectMoves
      BY <1>2, <2>1, <2>3 DEF EffectMoves
    <2> QED
      BY <1>2, <2>6, <2>7, NoCommands
  <1> QED
    BY <1>1, <1>2 DEF Registered

\* The server answers a report, the one at hand or a late copy.
LEMMA AnswerFacts ==
    ASSUME Inv, NEW d \in Device, NEW k \in 1 .. Len(outbox[d]), NEW r \in Report,
           r.kind = outbox[d][k].kind, r.file = outbox[d][k].file, NEW op, op = OpOf(d, k),
           Accepted(d, op, r) \/ Rejected(d, op, r)
    PROVE  CatalogTyped' /\ EffectMoves /\ CommandsAppended
  <1>1. k \in Nat
    BY InvTypes
  <1>2. op \in Operation /\ op.by = d /\ op.n = k /\ op.i = 0
    BY <1>1 DEF OpOf, Operation
  <1>3. r.file \in File /\ r.name \in Name \cup {NoName} /\ ReportOp(op) /\ FileOf(op) = r.file
    BY <1>2 DEF Report, ReportOp, FileOf
  <1>4. CASE RegisterCatalogFile(d, op, r)
    <2>1. RegisterOp(op) /\ Registered(r.file, op, r.name)
      BY <1>2, <1>3, <1>4 DEF RegisterCatalogFile, RegisterOp
    <2> QED
      BY <1>2, <1>3, <2>1, RegisteredFacts
  <1>5. CASE ReportCatalogLifecycle(d, op, r)
    <2>1. LifecycleOp(op) /\ r.kind \in lifecycle /\ Applied(r.file, op, r.kind, r.name)
      BY <1>2, <1>3, <1>5 DEF ReportCatalogLifecycle, LifecycleOp
    <2> QED
      BY <1>2, <1>3, <2>1, AppliedFacts
  <1>6. CASE Rejected(d, op, r)
    <2>1. UNCHANGED <<entry, replica, done, command, effects>>
      BY <1>6 DEF Rejected, catalogVars
    <2> QED
      BY <2>1, InvTypes, EffectsSame, NoCommands DEF CatalogTyped
  <1> QED
    BY <1>4, <1>5, <1>6 DEF Accepted

\* A transaction of the server leaves the Agents' files and reports alone.
LEMMA ServerStepKeeps ==
    ASSUME Inv, CatalogTyped', EffectMoves, CommandsAppended, LoopMoves, RequestsTyped',
           \A d \in Device : loop'[d] = loop[d] \/ loop[d].at \notin executing,
           UNCHANGED <<agentVars, losses>>, late' \subseteq late
    PROVE  Inv'
  <1>1. UNCHANGED <<local, outbox, phase, reconcile, purge, raced, changes>>
    BY DEF agentVars
  <1>2. OutboxMoves /\ AgentMoves
    BY <1>1, OutboxSame, AgentsSame
  <1>3. CommandsGrow /\ AttemptsBounded'
    BY BoundKept
  <1>4. LocalTyped'
    BY <1>1, InvTypes DEF LocalTyped
  <1> QED
    BY <1>1, <1>2, <1>3, <1>4, InvTypes, Recombined

\* The server answers the report at hand.
LEMMA ServeKeeps ==
    ASSUME Inv, NEW d \in Device, Serve(d)
    PROVE  Inv'
  <1>1. loop[d].at \in reporting /\ loop[d].at \notin executing
    BY DEF Serve, reporting, executing
  <1>2. PICK k \in 1 .. Len(outbox[d]) : k = loop[d].item
    BY <1>1, InvTypes DEF ItemsExist
  <1>3. outbox[d] \in Seq(Report) /\ k \in Nat
    BY InvTypes
  <1>4. PICK r \in Report : r = outbox[d][k]
    BY <1>3, ElementOfSeq
  <1>5. PICK op : op = OpOf(d, k)
    OBVIOUS
  <1>6. /\ Accepted(d, op, r) \/ Rejected(d, op, r)
        /\ At(d, "accepted", k) \/ At(d, "rejected", k)
        /\ UNCHANGED <<agentVars, late, action, losses>>
    BY <1>2, <1>4, <1>5, Zenon DEF Serve
  <1>7. CatalogTyped' /\ EffectMoves /\ CommandsAppended
    BY <1>4, <1>5, <1>6, AnswerFacts
  <1>8. PICK where \in {"rest"} \cup reporting \cup executing :
           where \in reporting /\ where \notin executing /\ At(d, where, k)
    BY <1>6 DEF reporting, executing
  <1>9. k \in 1 .. Len(outbox'[d])
    BY <1>6 DEF agentVars
  <1>10. LoopMoves
    BY <1>3, <1>8, <1>9, AtMoves
  <1>11. \A a \in Device : loop'[a] = loop[a] \/ loop[a].at \notin executing
    BY <1>1, <1>8, InvTypes DEF At
  <1>12. RequestsTyped'
    BY <1>6, InvTypes DEF RequestsTyped
  <1> QED
    BY <1>6, <1>7, <1>10, <1>11, <1>12, ServerStepKeeps

\* The server answers a late copy.
LEMMA ServeLateKeeps ==
    ASSUME Inv, NEW x \in late, ServeLate(x)
    PROVE  Inv'
  <1>1. CopyOf(x)
    BY InvTypes DEF LateSent
  <1>2. PICK d \in Device, k \in Nat, r \in Report :
           /\ d = x[1] /\ k = x[2] /\ r = x[3] /\ k \in 1 .. Len(outbox[d])
           /\ r.kind = outbox[d][k].kind /\ r.file = outbox[d][k].file
    BY <1>1 DEF CopyOf
  <1>3. PICK op : op = OpOf(d, k)
    OBVIOUS
  <1>4. /\ Accepted(d, op, r) \/ Rejected(d, op, r)
        /\ late' \subseteq late
        /\ UNCHANGED <<agentVars, loop, action, losses>>
    BY <1>2, <1>3, Zenon DEF ServeLate
  <1>5. CatalogTyped' /\ EffectMoves /\ CommandsAppended
    BY <1>2, <1>3, <1>4, AnswerFacts
  <1>6. LoopMoves /\ RequestsTyped'
    BY <1>4, LoopSame, InvTypes DEF RequestsTyped
  <1> QED
    BY <1>4, <1>5, <1>6, ServerStepKeeps

-----------------------------------------------------------------------------
(* A client acts on the catalog *)

\* A request goes on, or a new one comes in.
LEMMA RequestsMove ==
    ASSUME Inv, NEW w \in 1 .. Len(action) + 1, NEW y \in RequestType, y.i \in DOMAIN y.files,
           action' = IF w > Len(action) THEN Append(action, y) ELSE [action EXCEPT ![w] = y]
    PROVE  RequestsTyped'
  <1>1. action \in Seq(RequestType) /\ Len(action) \in Nat
        /\ \A v \in 1 .. Len(action) : action[v].i \in DOMAIN action[v].files
    BY InvTypes, LenProperties DEF RequestsTyped
  <1>2. PICK h : h = action'
    OBVIOUS
  <1>3. CASE w > Len(action)
    <2>1. h = Append(action, y)
      BY <1>2, <1>3
    <2>2. /\ h \in Seq(RequestType) /\ Len(h) = Len(action) + 1 /\ h[Len(action) + 1] = y
          /\ \A v \in 1 .. Len(action) : h[v] = action[v]
      BY <1>1, <2>1, AppendProperties
    <2>3. \A v \in 1 .. Len(h) : v = Len(action) + 1 \/ v \in 1 .. Len(action)
      BY <1>1, <2>2
    <2>4. \A v \in 1 .. Len(h) : h[v].i \in DOMAIN h[v].files
      BY <1>1, <2>2, <2>3
    <2> QED
      BY <1>2, <2>2, <2>4 DEF RequestsTyped
  <1>4. CASE ~(w > Len(action))
    <2>1. h = [action EXCEPT ![w] = y] /\ w \in 1 .. Len(action)
      BY <1>1, <1>2, <1>4
    <2>2. /\ h \in Seq(RequestType) /\ Len(h) = Len(action)
          /\ \A v \in 1 .. Len(action) : h[v] = IF v = w THEN y ELSE action[v]
      BY <1>1, <2>1, ExceptSeq
    <2>3. \A v \in 1 .. Len(h) : h[v].i \in DOMAIN h[v].files
      BY <1>1, <2>2
    <2> QED
      BY <1>2, <2>2, <2>3 DEF RequestsTyped
  <1> QED
    BY <1>3, <1>4

\* A client names one file or two.
LEMMA FileListed ==
    ASSUME NEW fs \in FileLists
    PROVE  Len(fs) \in {1, 2} /\ DOMAIN fs = 1 .. Len(fs) /\ \A i \in 1 .. Len(fs) : fs[i] \in File
  <1>1. ASSUME NEW f \in File, fs = <<f>>
        PROVE  Len(fs) \in {1, 2} /\ DOMAIN fs = 1 .. Len(fs) /\ \A i \in 1 .. Len(fs) : fs[i] \in File
    <2>1. Len(fs) = 1 /\ fs[1] = f /\ fs \in Seq(File)
      BY <1>1
    <2>2. \A i \in 1 .. 1 : i = 1
      OBVIOUS
    <2> QED
      BY <2>1, <2>2, LenProperties
  <1>2. ASSUME fs \in [1 .. 2 -> File]
        PROVE  Len(fs) \in {1, 2} /\ DOMAIN fs = 1 .. Len(fs) /\ \A i \in 1 .. Len(fs) : fs[i] \in File
    <2>1. PICK m \in Nat : m = 2
      OBVIOUS
    <2>2. fs \in [1 .. m -> File]
      BY <1>2, <2>1
    <2>3. fs \in Seq(File) /\ Len(fs) = m
      BY <2>2
    <2> QED
      BY <1>2, <2>1, <2>3, LenProperties
  <1> QED
    BY <1>1, <1>2 DEF FileLists

\* What a request holds.
LEMMA RequestFacts ==
    ASSUME NEW w \in Nat, NEW x \in RequestType, x.i \in DOMAIN x.files
    PROVE  /\ x.files[x.i] \in File /\ x.act \in lifecycle /\ x.name \in Name \cup {NoName}
           /\ ClientOp(w, x) \in Operation /\ LifecycleOp(ClientOp(w, x))
  <1>1. /\ x.files \in FileLists /\ x.i \in {1, 2} /\ x.act \in lifecycle /\ x.name \in Name \cup {NoName}
    BY DEF RequestType
  <1>2. x.files[x.i] \in File
    BY <1>1, FileListed
  <1>3. ClientOp(w, x) \in Operation /\ ClientOp(w, x).by = Client
    BY <1>1 DEF ClientOp, Operation
  <1> QED
    BY <1>1, <1>2, <1>3 DEF LifecycleOp

\* One file of a request.
LEMMA ApplyFileKeeps ==
    ASSUME Inv, NEW w \in 1 .. Len(action) + 1, NEW x \in RequestType, x.i \in DOMAIN x.files,
           ApplyFile(w, x)
    PROVE  Inv'
  <1>0. w \in Nat
    BY InvTypes, LenProperties DEF RequestsTyped
  <1>1. PICK f \in File, op \in Operation, a \in lifecycle, n \in Name \cup {NoName} :
           f = x.files[x.i] /\ op = ClientOp(w, x) /\ a = x.act /\ n = x.name /\ LifecycleOp(op)
    BY <1>0, RequestFacts
  <1>2. Applied(f, op, a, n) \/ UNCHANGED catalogVars
    BY <1>1, Zenon DEF ApplyFile
  <1>3. CatalogTyped' /\ EffectMoves /\ CommandsAppended
    <2>1. CASE Applied(f, op, a, n)
      BY <1>1, <2>1, AppliedFacts
    <2>2. CASE UNCHANGED catalogVars
      BY <2>2, InvTypes, EffectsSame, NoCommands DEF CatalogTyped, catalogVars
    <2> QED
      BY <1>2, <2>1, <2>2
  <1>4. PICK at \in {"queue", "error"} :
           LET y == [x EXCEPT !.at = at] IN
           action' = IF w > Len(action) THEN Append(action, y) ELSE [action EXCEPT ![w] = y]
    BY Zenon DEF ApplyFile
  <1>5. PICK y : y = [x EXCEPT !.at = at]
    OBVIOUS
  <1>6. y \in RequestType /\ y.i = x.i /\ y.files = x.files
    BY <1>5 DEF RequestType
  <1>7. action' = IF w > Len(action) THEN Append(action, y) ELSE [action EXCEPT ![w] = y]
    BY <1>4, <1>5
  <1>8. RequestsTyped'
    BY <1>6, <1>7, RequestsMove
  <1>9. UNCHANGED <<agentVars, loop, late, losses>>
    BY DEF ApplyFile
  <1>10. LoopMoves
    BY <1>9, LoopSame
  <1> QED
    BY <1>3, <1>8, <1>9, <1>10, ServerStepKeeps

\* A new request, and the later files of one under way.
LEMMA ApplyActionsKeeps ==
    ASSUME Inv, \/ \E fs \in FileLists, a \in lifecycle, n \in Name \cup {NoName} : ApplyCatalogActions(fs, a, n)
                \/ \E w \in 1 .. Len(action) : ApplyNext(w)
    PROVE  Inv'
  <1>0. /\ action \in Seq(RequestType) /\ Len(action) \in Nat
        /\ \A v \in 1 .. Len(action) : action[v].i \in DOMAIN action[v].files
    BY InvTypes, LenProperties DEF RequestsTyped
  <1>1. ASSUME NEW fs \in FileLists, NEW a \in lifecycle, NEW n \in Name \cup {NoName}, ApplyCatalogActions(fs, a, n)
        PROVE  Inv'
    <2>1. PICK x : x = [files |-> fs, act |-> a, name |-> n, i |-> 1, at |-> "apply"]
      OBVIOUS
    <2>2. x \in RequestType /\ x.files = fs /\ x.i = 1
      BY <2>1 DEF RequestType
    <2>3. x.i \in DOMAIN x.files
      BY <2>2, FileListed
    <2>4. PICK w \in 1 .. Len(action) + 1 : w = Len(action) + 1
      BY <1>0
    <2>5. ApplyFile(w, x)
      BY <1>1, <2>1, <2>4 DEF ApplyCatalogActions
    <2> QED
      BY <2>2, <2>3, <2>5, ApplyFileKeeps
  <1>2. ASSUME NEW w \in 1 .. Len(action), ApplyNext(w)
        PROVE  Inv'
    <2>1. PICK x \in RequestType : x = action[w]
      BY <1>0, ElementOfSeq
    <2>2. ApplyFile(w, x) /\ x.i \in DOMAIN x.files /\ w \in 1 .. Len(action) + 1
      BY <1>0, <1>2, <2>1 DEF ApplyNext
    <2> QED
      BY <2>2, ApplyFileKeeps
  <1> QED
    BY <1>1, <1>2

\* The command for the origin.
LEMMA QueueKeeps ==
    ASSUME Inv, NEW w \in 1 .. Len(action), QueueOriginLifecycleCommand(w)
    PROVE  Inv'
  <1>0. /\ action \in Seq(RequestType) /\ Len(action) \in Nat /\ w \in Nat
        /\ \A v \in 1 .. Len(action) : action[v].i \in DOMAIN action[v].files
    BY InvTypes, LenProperties DEF RequestsTyped
  <1>1. PICK x \in RequestType : x = action[w] /\ x.i \in DOMAIN x.files
    BY <1>0, ElementOfSeq
  <1>2. PICK f \in File, op \in Operation, a \in lifecycle, n \in Name \cup {NoName} :
           f = x.files[x.i] /\ op = ClientOp(w, x) /\ a = x.act /\ n = x.name
    BY <1>0, <1>1, RequestFacts
  <1>3. PICK d \in Device : d = Origin[f]
    BY CatalogAssumption
  <1>4. PICK q : q = Queued(d, f, op, a, n)
    OBVIOUS
  <1>5. command' = [command EXCEPT ![d] = q]
    BY <1>1, <1>2, <1>3, <1>4, Zenon DEF QueueOriginLifecycleCommand
  <1>6. /\ q \in Seq(Command)
        /\ \A c \in 1 .. Len(command[d]) : c \in 1 .. Len(q)
        /\ \A c \in 1 .. Len(q) : \/ c \in 1 .. Len(command[d]) /\ q[c] = command[d][c]
                                  \/ q[c].state = "queued" /\ q[c].attempt = 0
    BY <1>4, QueuedFacts
  <1>7. command' \in [Device -> Seq(Command)] /\ \A b \in Device : command'[b] = IF b = d THEN q ELSE command[b]
    BY <1>5, <1>6, InvTypes
  <1>8. CommandsAppended
    BY <1>6, <1>7 DEF CommandsAppended
  <1>9. PICK y : y = IF x.i < Len(x.files) THEN [x EXCEPT !.i = x.i + 1, !.at = "apply"]
                     ELSE [x EXCEPT !.at = "answered"]
    OBVIOUS
  <1>10. y \in RequestType /\ y.i \in DOMAIN y.files
    <2>1. /\ x.files \in FileLists /\ x.i \in {1, 2} /\ Len(x.files) \in {1, 2}
          /\ DOMAIN x.files = 1 .. Len(x.files)
      BY FileListed DEF RequestType
    <2>2. CASE x.i < Len(x.files)
      <3>0. x.i = 1 /\ Len(x.files) = 2
        <4>1. PICK i \in {1, 2}, m \in {1, 2} : i = x.i /\ m = Len(x.files)
          BY <2>1
        <4>2. i < m
          BY <2>2, <4>1
        <4>3. i = 1 /\ m = 2
          BY <4>2
        <4> QED
          BY <4>1, <4>3
      <3>1. PICK j \in {1, 2} : j = x.i + 1 /\ j \in DOMAIN x.files
        BY <2>1, <3>0
      <3>2. y = [x EXCEPT !.i = j, !.at = "apply"]
        BY <1>9, <2>2, <3>1
      <3>3. y \in RequestType /\ y.i = j /\ y.files = x.files
        BY <3>2 DEF RequestType
      <3> QED
        BY <3>1, <3>3
    <2>3. CASE ~(x.i < Len(x.files))
      <3>1. y = [x EXCEPT !.at = "answered"]
        BY <1>9, <2>3
      <3>2. y \in RequestType /\ y.i = x.i /\ y.files = x.files
        BY <3>1 DEF RequestType
      <3> QED
        BY <1>1, <3>2
    <2> QED
      BY <2>2, <2>3
  <1>11. action' = [action EXCEPT ![w] = y] /\ ~(w > Len(action)) /\ w \in 1 .. Len(action) + 1
    <2>1. action' = [action EXCEPT ![w] = IF x.i < Len(x.files) THEN [x EXCEPT !.i = x.i + 1, !.at = "apply"]
                                          ELSE [x EXCEPT !.at = "answered"]]
      BY <1>1 DEF QueueOriginLifecycleCommand
    <2> QED
      BY <1>0, <1>9, <2>1
  <1>12. RequestsTyped'
    BY <1>10, <1>11, RequestsMove
  <1>13. UNCHANGED <<entry, replica, done, effects, agentVars, loop, late, losses>>
    BY DEF QueueOriginLifecycleCommand
  <1>14. CatalogTyped' /\ EffectMoves /\ LoopMoves
    BY <1>13, InvTypes, EffectsSame, LoopSame DEF CatalogTyped
  <1> QED
    BY <1>8, <1>12, <1>13, <1>14, ServerStepKeeps

\* A request is cut short.
LEMMA RequestFailsKeeps ==
    ASSUME Inv, NEW w \in 1 .. Len(action), RequestFails(w)
    PROVE  Inv'
  <1>0. /\ action \in Seq(RequestType) /\ Len(action) \in Nat
        /\ \A v \in 1 .. Len(action) : action[v].i \in DOMAIN action[v].files
    BY InvTypes, LenProperties DEF RequestsTyped
  <1>1. PICK x \in RequestType : x = action[w] /\ x.i \in DOMAIN x.files
    BY <1>0, ElementOfSeq
  <1>2. PICK y : y = [x EXCEPT !.at = "error"]
    OBVIOUS
  <1>3. y \in RequestType /\ y.i = x.i /\ y.files = x.files
    BY <1>2 DEF RequestType
  <1>4. action' = [action EXCEPT ![w] = y] /\ ~(w > Len(action)) /\ w \in 1 .. Len(action) + 1
    BY <1>0, <1>1, <1>2 DEF RequestFails
  <1>5. RequestsTyped'
    BY <1>1, <1>3, <1>4, RequestsMove
  <1>6. /\ losses' = losses + 1 /\ losses' \in 0 .. MaxLosses
        /\ UNCHANGED <<entry, replica, done, command, effects, local, outbox, phase, reconcile, purge, raced, changes,
                       loop, late>>
    BY InvTypes DEF RequestFails, catalogVars, agentVars
  <1>7. OutboxMoves /\ LoopMoves /\ EffectMoves /\ CommandsAppended
    BY <1>6, OutboxSame, LoopSame, EffectsSame, NoCommands
  <1>8. CommandsGrow /\ AttemptsBounded' /\ AgentMoves
    BY <1>6, <1>7, BoundKept, AgentsSame
  <1>9. CatalogTyped' /\ LocalTyped'
    BY <1>6, InvTypes DEF CatalogTyped, LocalTyped
  <1> QED
    BY <1>5, <1>6, <1>7, <1>8, <1>9, InvTypes, Recombined

\* A request is sent again.
LEMMA RepeatKeeps ==
    ASSUME Inv, NEW w \in 1 .. Len(action), RepeatAction(w)
    PROVE  Inv'
  <1>0. action \in Seq(RequestType) /\ Len(action) \in Nat
    BY InvTypes, LenProperties DEF RequestsTyped
  <1>1. PICK x \in RequestType : x = action[w]
    BY <1>0, ElementOfSeq
  <1>2. PICK y : y = [x EXCEPT !.i = 1, !.at = "apply"]
    OBVIOUS
  <1>3. y \in RequestType /\ y.i = 1 /\ y.files = x.files /\ x.files \in FileLists
    BY <1>2 DEF RequestType
  <1>4. y.i \in DOMAIN y.files
    BY <1>3, FileListed
  <1>5. action' = [action EXCEPT ![w] = y] /\ ~(w > Len(action)) /\ w \in 1 .. Len(action) + 1
    BY <1>0, <1>1, <1>2 DEF RepeatAction, RequestType
  <1>6. RequestsTyped'
    BY <1>3, <1>4, <1>5, RequestsMove
  <1>7. UNCHANGED <<catalogVars, agentVars, loop, late, losses>>
    BY DEF RepeatAction
  <1>8. CatalogTyped' /\ EffectMoves /\ LoopMoves /\ CommandsAppended
    BY <1>7, InvTypes, EffectsSame, LoopSame, NoCommands DEF CatalogTyped, catalogVars
  <1> QED
    BY <1>6, <1>7, <1>8, ServerStepKeeps

-----------------------------------------------------------------------------
(* Purges and restarts *)

\* A step that leaves the server and the requests alone.
LEMMA AgentStepKeeps ==
    ASSUME Inv, LocalTyped', OutboxMoves, AgentMoves, LoopMoves,
           losses' \in {losses, losses + 1}, losses' \in 0 .. MaxLosses,
           \A e \in Device : loop'[e] = loop[e] \/ losses' = losses + 1,
           \A x \in late' : x \in late \/ CopyNext(x),
           UNCHANGED <<catalogVars, action, changes>>
    PROVE  Inv'
  <1>1. UNCHANGED <<entry, replica, done, command, effects>>
    BY DEF catalogVars
  <1>2. CommandsAppended /\ EffectMoves
    BY <1>1, NoCommands, EffectsSame
  <1>3. CommandsGrow /\ AttemptsBounded'
    BY <1>2, BoundKept
  <1>4. CatalogTyped' /\ RequestsTyped'
    BY <1>1, InvTypes DEF CatalogTyped, RequestsTyped
  <1> QED
    BY <1>2, <1>3, <1>4, InvTypes, Recombined

\* A purge goes on, or it ends.
LEMMA PurgesMove ==
    ASSUME Inv, OutboxMoves, NEW p \in purge, NEW S,
           S \subseteq {[p EXCEPT !.at = "activate"]}, purge' = (purge \ {p}) \cup S,
           UNCHANGED <<reconcile, phase>>
    PROVE  AgentMoves
  <1>1. p \in Purge /\ purge \subseteq Purge
    BY InvTypes
  <1>2. PICK q : q = [p EXCEPT !.at = "activate"]
    OBVIOUS
  <1>3. q \in Purge /\ q.device = p.device /\ q.item = p.item
    BY <1>1, <1>2 DEF Purge
  <1>4. \A r \in purge : r.device \in Device /\ r.item \in 1 .. Len(outbox'[r.device])
    BY <1>1, InvTypes DEF Purge, ItemsExist, OutboxMoves
  <1>5. \A r \in purge' : r \in purge \/ r = q
    BY <1>2
  <1>6. purge' \subseteq Purge /\ \A r \in purge' : r.item \in 1 .. Len(outbox'[r.device])
    BY <1>1, <1>3, <1>4, <1>5
  <1>7. \A d \in Device : Len(reconcile[d]) \in Nat
    BY InvTypes, LenProperties
  <1> QED
    BY <1>6, <1>7, InvTypes DEF AgentMoves, ItemsExist, OutboxMoves

\* The object is deleted, or was.
LEMMA DeleteObjectKeeps ==
    ASSUME Inv, NEW p \in purge, DeleteObject(p)
    PROVE  Inv'
  <1>1. /\ UNCHANGED <<outbox, reconcile, phase, loop, raced, losses, late>>
        /\ UNCHANGED <<catalogVars, action, changes>>
    BY DEF DeleteObject
  <1>2. OutboxMoves /\ LoopMoves
    BY <1>1, OutboxSame, LoopSame
  <1>3. PICK S : S \subseteq {[p EXCEPT !.at = "activate"]} /\ purge' = (purge \ {p}) \cup S
    <2>1. CASE purge' = (purge \ {p}) \cup {[p EXCEPT !.at = "activate"]}
      BY <2>1
    <2>2. CASE purge' = purge \ {p}
      <3>1. purge' = (purge \ {p}) \cup {}
        BY <2>2
      <3> QED
        BY <3>1
    <2> QED
      BY <2>1, <2>2 DEF DeleteObject
  <1>4. AgentMoves
    BY <1>1, <1>2, <1>3, PurgesMove
  <1>5. LocalTyped'
    <2>1. p.device \in Device /\ p.file \in File
      BY InvTypes DEF Purge
    <2>2. PICK st \in LocalStatuses, n \in Name \cup {NoName} : st = "purged" /\ n = local[p.device][p.file].name
      BY <2>1, InvTypes DEF LocalTyped, RowType, LocalStatuses, Statuses
    <2>3. UNCHANGED local \/ SetLocal(p.device, p.file, st, n)
      BY <2>2 DEF DeleteObject
    <2> QED
      BY <1>1, <2>1, <2>3, SetLocalTyped, InvTypes DEF LocalTyped
  <1> QED
    BY <1>1, <1>2, <1>4, <1>5, InvTypes, AgentStepKeeps

\* The report is released, or it never will be.
LEMMA PurgeEndKeeps ==
    ASSUME Inv, NEW p \in purge, ActivateOutgoing(p) \/ PurgeFails(p)
    PROVE  Inv'
  <1>1. /\ UNCHANGED <<local, raced, reconcile, phase, loop, late>>
        /\ UNCHANGED <<catalogVars, action, changes>>
    BY DEF ActivateOutgoing, PurgeFails
  <1>2. OutboxMoves
    <2>1. CASE ActivateOutgoing(p)
      <3>0. PICK d \in Device : d = p.device
        BY InvTypes DEF Purge
      <3>1. PICK k \in 1 .. Len(outbox[d]) : k = p.item
        BY <3>0, InvTypes DEF ItemsExist
      <3>2. PICK st \in {"pending", "processing", "completed", "failed"} : st = "pending"
        OBVIOUS
      <3>3. Mark(d, k, st)
        BY <2>1, <3>0, <3>1, <3>2 DEF ActivateOutgoing, Mark
      <3> QED
        BY <3>3, MarkMoves
    <2>2. CASE PurgeFails(p)
      BY <2>2, OutboxSame DEF PurgeFails
    <2> QED
      BY <2>1, <2>2
  <1>3. purge' = (purge \ {p}) \cup {} /\ losses' \in {losses, losses + 1} /\ losses' \in 0 .. MaxLosses
    BY InvTypes DEF ActivateOutgoing, PurgeFails
  <1>4. AgentMoves
    BY <1>1, <1>2, <1>3, PurgesMove
  <1>5. LoopMoves /\ LocalTyped'
    BY <1>1, LoopSame, InvTypes DEF LocalTyped
  <1> QED
    BY <1>1, <1>2, <1>3, <1>4, <1>5, AgentStepKeeps

\* What a restart makes of the reports and the rows.
LEMMA RestartFacts ==
    ASSUME Inv, NEW d \in Device, Restart(d)
    PROVE  /\ outbox' \in [Device -> Seq(Report)]
           /\ \A a \in Device : a # d => outbox'[a] = outbox[a]
           /\ Len(outbox'[d]) = Len(outbox[d])
           /\ \A j \in 1 .. Len(outbox[d]) :
                 /\ outbox'[d][j].kind = outbox[d][j].kind /\ outbox'[d][j].file = outbox[d][j].file
                 /\ outbox'[d][j].name = outbox[d][j].name
                 /\ outbox'[d][j].identified = outbox[d][j].identified
                 /\ outbox'[d][j].status = IF outbox[d][j].status = "processing" THEN "pending"
                                           ELSE outbox[d][j].status
           /\ local' \in [Device -> [File -> RowType]]
           /\ \A a \in Device : a # d => local'[a] = local[a]
           /\ \A f \in File : /\ local'[d][f].name = local[d][f].name
                              /\ \/ local'[d][f] = local[d][f]
                                 \/ local[d][f].status = "purging" /\ local'[d][f].status = "purged"
  <1>0. /\ outbox \in [Device -> Seq(Report)] /\ outbox[d] \in Seq(Report) /\ Len(outbox[d]) \in Nat
        /\ local \in [Device -> [File -> RowType]]
    BY InvTypes DEF LocalTyped
  <1> DEFINE new(r) == IF r.status = "processing" THEN [r EXCEPT !.status = "pending"] ELSE r
             q == [j \in 1 .. Len(outbox[d]) |-> new(outbox[d][j])]
  <1>1. ASSUME NEW r \in Report
        PROVE  /\ new(r) \in Report /\ new(r).kind = r.kind /\ new(r).file = r.file /\ new(r).name = r.name
               /\ new(r).identified = r.identified
               /\ new(r).status = IF r.status = "processing" THEN "pending" ELSE r.status
    BY DEF Report
  <1>2. \A j \in 1 .. Len(outbox[d]) : outbox[d][j] \in Report
    BY <1>0, ElementOfSeq
  <1>3. outbox' = [outbox EXCEPT ![d] = q]
    BY DEF Restart
  <1> HIDE DEF new
  <1>4. q \in [1 .. Len(outbox[d]) -> Report] /\ \A j \in 1 .. Len(outbox[d]) : q[j] = new(outbox[d][j])
    BY <1>1, <1>2
  <1>5. q \in Seq(Report) /\ Len(q) = Len(outbox[d])
    BY <1>0, <1>4
  <1> HIDE DEF q
  <1>6. outbox' \in [Device -> Seq(Report)] /\ \A a \in Device : outbox'[a] = IF a = d THEN q ELSE outbox[a]
    BY <1>0, <1>3, <1>5
  <1>7. /\ local' \in [Device -> [File -> RowType]]
        /\ \A a \in Device : a # d => local'[a] = local[a]
        /\ \A f \in File : /\ local'[d][f].name = local[d][f].name
                           /\ \/ local'[d][f] = local[d][f]
                              \/ local[d][f].status = "purging" /\ local'[d][f].status = "purged"
    <2>1. PICK S \in SUBSET {f \in File : local[d][f].status = "purging"} :
             local' = [local EXCEPT ![d] = [f \in File |->
                 IF f \in S THEN [local[d][f] EXCEPT !.status = "purged"] ELSE local[d][f]]]
      BY DEF Restart
    <2> DEFINE t == [f \in File |->
                 IF f \in S THEN [local[d][f] EXCEPT !.status = "purged"] ELSE local[d][f]]
    <2>2. ASSUME NEW f \in File
          PROVE  /\ t[f] \in RowType /\ t[f].name = local[d][f].name
                 /\ t[f] = local[d][f] \/ (local[d][f].status = "purging" /\ t[f].status = "purged")
      <3>1. PICK r \in RowType : r = local[d][f]
        BY <1>0
      <3>2. CASE f \in S
        <4>1. t[f] = [r EXCEPT !.status = "purged"] /\ r.status = "purging"
          BY <3>1, <3>2
        <4> HIDE DEF t
        <4> QED
          BY <3>1, <4>1 DEF RowType, LocalStatuses, Statuses
      <3>3. CASE f \notin S
        BY <3>1, <3>3
      <3> QED
        BY <3>2, <3>3
    <2>3. t \in [File -> RowType] /\ local' = [local EXCEPT ![d] = t]
      BY <2>1, <2>2
    <2> HIDE DEF t
    <2>4. local' \in [Device -> [File -> RowType]] /\ \A a \in Device : local'[a] = IF a = d THEN t ELSE local[a]
      BY <1>0, <2>3
    <2> QED
      BY <2>2, <2>4
  <1> QED
    BY <1>1, <1>2, <1>4, <1>5, <1>6, <1>7

\* The Agent stops and starts.
LEMMA RestartKeeps ==
    ASSUME Inv, NEW d \in Device, Restart(d)
    PROVE  Inv'
  <1>1. /\ outbox' \in [Device -> Seq(Report)]
        /\ \A a \in Device : a # d => outbox'[a] = outbox[a]
        /\ Len(outbox'[d]) = Len(outbox[d])
        /\ \A j \in 1 .. Len(outbox[d]) :
              outbox'[d][j].kind = outbox[d][j].kind /\ outbox'[d][j].file = outbox[d][j].file
        /\ local' \in [Device -> [File -> RowType]]
    BY RestartFacts
  <1>2. OutboxMoves
    <2>1. ASSUME NEW a \in Device, NEW k \in 1 .. Len(outbox[a])
          PROVE  /\ k \in 1 .. Len(outbox'[a]) /\ outbox'[a][k].kind = outbox[a][k].kind
                 /\ outbox'[a][k].file = outbox[a][k].file
      BY <1>1
    <2> QED
      BY <1>1, <2>1 DEF OutboxMoves
  <1>3. losses' = losses + 1 /\ losses' \in 0 .. MaxLosses /\ UNCHANGED <<catalogVars, action, changes, raced>>
    BY InvTypes DEF Restart
  <1>4. LocalTyped'
    BY <1>1, <1>3, InvTypes DEF LocalTyped
  <1>5. LoopMoves
    <2>1. PICK where \in {"rest"} \cup reporting \cup executing, k \in Nat :
             where = "rest" /\ k = 0 /\ where \notin reporting /\ where \notin executing
      BY DEF reporting, executing
    <2>2. At(d, where, k)
      BY <2>1 DEF Restart
    <2> QED
      BY <2>1, <2>2, AtMoves
  <1>6. AgentMoves
    <2>1. phase' \in [Device -> Phases]
      BY InvTypes DEF Restart, Phases
    <2>2. reconcile' \in [Device -> Seq(ItemType)] /\ \A a \in Device : reconcile'[a] = IF a = d THEN <<>> ELSE reconcile[a]
      BY InvTypes DEF Restart
    <2>3. \A a \in Device : Len(reconcile[a]) \in Nat
      BY InvTypes, LenProperties
    <2>4. \A a \in Device : \A i \in 1 .. Len(reconcile'[a]) : a # d /\ reconcile'[a] = reconcile[a]
      BY <2>2
    <2>5. \A a \in Device : \A i \in 1 .. Len(reconcile'[a]) :
             reconcile'[a][i].step = "identify" => reconcile'[a][i].item \in 1 .. Len(outbox'[a])
      BY <1>1, <2>4, InvTypes DEF ItemsExist
    <2>6. \A p \in purge : p.device \in Device /\ p.item \in 1 .. Len(outbox'[p.device])
      BY <1>2, InvTypes DEF Purge, ItemsExist, OutboxMoves
    <2>7. purge' \subseteq purge
      BY DEF Restart
    <2> QED
      BY <2>1, <2>2, <2>5, <2>6, <2>7, InvTypes DEF AgentMoves
  <1>7. \A x \in late' : x \in late \/ CopyNext(x)
    <2>1. CASE UNCHANGED late
      BY <2>1
    <2>2. CASE loop[d].at = "sent" /\ late' = late \cup {<<d, loop[d].item, outbox[d][loop[d].item]>>}
      <3>1. PICK k \in 1 .. Len(outbox[d]) : k = loop[d].item
        BY <2>2, InvTypes DEF ItemsExist, reporting
      <3>2. outbox[d] \in Seq(Report) /\ k \in Nat
        BY InvTypes
      <3>3. outbox[d][k] \in Report
        BY <3>2, ElementOfSeq
      <3>4. CopyNext(<<d, k, outbox[d][k]>>)
        BY <1>2, <3>2, <3>3 DEF CopyNext, OutboxMoves
      <3> QED
        BY <2>2, <3>1, <3>4
    <2> QED
      BY <2>1, <2>2 DEF Restart
  <1> QED
    BY <1>2, <1>3, <1>4, <1>5, <1>6, <1>7, AgentStepKeeps

-----------------------------------------------------------------------------
(***************************************************************************)
(* The invariant holds, and what it implies.                                *)
(***************************************************************************)

\* Initially there are no entries, reports, commands or requests.
LEMMA InvStart == Init => Inv
  <1> SUFFICES ASSUME Init PROVE Inv
    OBVIOUS
  <1>1. /\ entry \in [File -> EntryType]
        /\ replica \in [File -> [Device -> {"none", "ready", "deleted"}]]
    BY DEF Init, Absent, EntryType, Statuses
  <1>L. local \in [Device -> [File -> RowType]]
    <2>1. PICK held \in [File -> Held] :
             local = [d \in Device |-> [f \in File |-> IF d = Origin[f] THEN held[f] ELSE Absent]]
      BY DEF Init
    <2>2. Held \subseteq RowType /\ Absent \in RowType
      BY DEF Held, Absent, RowType, LocalStatuses, Statuses
    <2> QED
      BY <2>1, <2>2
  <1>2. /\ command \in [Device -> Seq(Command)] /\ outbox \in [Device -> Seq(Report)]
        /\ reconcile \in [Device -> Seq(ItemType)] /\ effects \in Seq(Operation)
        /\ action \in Seq(RequestType) /\ Len(effects) = 0 /\ Len(action) = 0
        /\ \A d \in Device : Len(command[d]) = 0 /\ Len(reconcile[d]) = 0
        /\ phase \in [Device -> Phases]
    BY DEF Init, Phases
  <1>3. loop \in [Device -> LoopType] /\ \A d \in Device : loop[d].at \notin reporting /\ loop[d].at \notin executing
    BY DEF Init, AtRest, LoopType, reporting, executing
  <1>4. losses \in 0 .. MaxLosses /\ changes \in 0 .. MaxChanges
    BY CatalogAssumption DEF Init
  <1>5. done = {} /\ late = {} /\ raced = {} /\ purge = {}
    BY DEF Init
  <1>6. TypeOK
    BY <1>1, <1>L, <1>2, <1>4, <1>5 DEF TypeOK, EntryType, RowType
  <1>7. PartsTyped
    BY <1>2, <1>3 DEF PartsTyped
  <1>8. ItemsExist /\ LateSent /\ KeysAreLifecycle
    BY <1>2, <1>3, <1>5 DEF ItemsExist, LateSent, KeysAreLifecycle
  <1>9. AttemptsBounded
    BY <1>2 DEF AttemptsBounded
  <1>10. EffectsRecorded /\ AppliedOnce
    BY <1>2 DEF EffectsRecorded, AppliedOnce
  <1> QED
    BY <1>6, <1>7, <1>8, <1>9, <1>10 DEF Inv

\* A step that changes nothing.
LEMMA StutterKeeps == ASSUME Inv, UNCHANGED vars PROVE Inv'
  <1>1. UNCHANGED <<entry, replica, done, command, local, outbox, loop, phase, reconcile, purge,
                    late, action, losses, changes, effects, raced>>
    BY DEF vars
  <1>2. OutboxMoves /\ LoopMoves /\ EffectMoves /\ CommandsAppended
    BY <1>1, OutboxSame, LoopSame, EffectsSame, NoCommands
  <1>3. CatalogTyped' /\ RequestsTyped' /\ UNCHANGED <<agentVars, losses>> /\ late' \subseteq late
    BY <1>1, InvTypes DEF CatalogTyped, RequestsTyped, agentVars
  <1> QED
    BY <1>1, <1>2, <1>3, ServerStepKeeps

\* Every step keeps the invariant.
LEMMA InvStep == Inv /\ [Next]_vars => Inv'
  <1> SUFFICES ASSUME Inv, [Next]_vars PROVE Inv'
    OBVIOUS
  <1>1. CASE UserStep
    BY <1>1, UserKeeps, PersistAuthKeeps
  <1>2. CASE ClientStep
    BY <1>2, ApplyActionsKeeps, RepeatKeeps, RequestFailsKeeps DEF ClientStep
  <1>3. CASE ServerStep
    BY <1>3, ApplyActionsKeeps, QueueKeeps, ServeLateKeeps, ServeKeeps, LapseKeeps
       DEF ServerStep, Answers, ServesLate, Lapses
  <1>4. ASSUME NEW d \in Device, AgentStep(d) PROVE Inv'
    <2>1. CASE ReconcileStep(d)
      BY <2>1, ReconcileKeeps, ReconcileEndKeeps DEF ReconcileStep
    <2>2. CASE PurgesGoOn(d)
      BY <2>2, DeleteObjectKeeps, PurgeEndKeeps DEF PurgesGoOn, PurgeStep
    <2>3. CASE LoopStep(d)
      BY <2>3, DeliverKeeps, ClaimKeeps, ApplyKeeps, DeleteCommandedKeeps, FinishKeeps DEF LoopStep
    <2> QED
      BY <1>4, <2>1, <2>2, <2>3 DEF AgentStep
  <1>5. ASSUME NEW d \in Device, Fault(d) PROVE Inv'
    BY <1>5, DeliverKeeps, CommandLostKeeps, ReconcileEndKeeps, RestartKeeps, PurgeEndKeeps DEF Fault
  <1>6. CASE UNCHANGED vars
    BY <1>6, StutterKeeps
  <1> QED
    BY <1>1, <1>2, <1>3, <1>4, <1>5, <1>6 DEF Next

\* The catalog, the Agents' tables and the counters keep their types; in
\* particular a command is never attempted more than MaxAttempts times and
\* once more for every failure.
THEOREM CatalogTypeCorrect == Spec => []TypeOK
  <1>1. Inv => TypeOK
    BY DEF Inv
  <1> QED
    BY <1>1, InvStart, InvStep, PTL DEF Spec

\* However often a report or an action arrives, in time or late, it changes
\* the catalog at most once: a lifecycle operation leaves its idempotency key,
\* a registration the entry that it creates, and either is in the way of a
\* second effect (ApplyLifecycleReport, RegisterVerifiedFile).
THEOREM OnceSafe == Spec => []AppliedOnce
  <1>1. Inv => AppliedOnce
    BY DEF Inv
  <1> QED
    BY <1>1, InvStart, InvStep, PTL DEF Spec

-----------------------------------------------------------------------------
(* Purged entries *)

\* No entry leaves the status purged.
PurgedKept == \A f \in File : entry[f].status = "purged" => entry'[f].status = "purged"

\* No accepted report changes a purged entry.
LEMMA AppliedPurged ==
    ASSUME Inv, NEW f \in File, NEW op \in Operation, NEW a \in lifecycle,
           NEW n \in Name \cup {NoName}, Applied(f, op, a, n)
    PROVE  PurgedKept
  <1>1. CASE UNCHANGED entry
    BY <1>1 DEF PurgedKept
  <1>2. CASE ReportOK(f, a, n) /\ Changes(f, a) /\ ChangeEntry(f, op, a, n)
    <2>1. entry[f].status \in {"active", "trashed"}
      BY <1>2 DEF ReportOK, Changes
    <2>2. \A g \in File : g # f => entry'[g] = entry[g]
      BY <1>2, ChangeFacts
    <2> QED
      BY <2>1, <2>2 DEF PurgedKept
  <1> QED
    BY <1>1, <1>2 DEF Applied, catalogVars

\* No registration does.
LEMMA RegisteredPurged ==
    ASSUME Inv, NEW f \in File, NEW op, NEW n \in Name \cup {NoName}, Registered(f, op, n)
    PROVE  PurgedKept
  <1>1. CASE UNCHANGED entry
    BY <1>1 DEF PurgedKept
  <1>2. CASE entry[f].status = "none" /\ entry' = [entry EXCEPT ![f] = [status |-> "active", name |-> n]]
    <2>1. PICK x : x = [status |-> "active", name |-> n]
      OBVIOUS
    <2>2. entry' = [entry EXCEPT ![f] = x] /\ entry \in [File -> EntryType]
      BY <1>2, <2>1, InvTypes DEF CatalogTyped
    <2>3. \A g \in File : g # f => entry'[g] = entry[g]
      BY <2>2
    <2> QED
      BY <1>2, <2>3 DEF PurgedKept
  <1> QED
    BY <1>1, <1>2 DEF Registered, catalogVars

\* No answer to a report does.
LEMMA AnswerPurged ==
    ASSUME Inv, NEW d \in Device, NEW k \in Nat, NEW r \in Report, NEW op, op = OpOf(d, k),
           Accepted(d, op, r) \/ Rejected(d, op, r)
    PROVE  PurgedKept
  <1>1. op \in Operation /\ r.file \in File /\ r.name \in Name \cup {NoName}
    BY DEF OpOf, Operation, Report
  <1>2. CASE RegisterCatalogFile(d, op, r)
    BY <1>1, <1>2, RegisteredPurged DEF RegisterCatalogFile
  <1>3. CASE ReportCatalogLifecycle(d, op, r)
    BY <1>1, <1>3, AppliedPurged DEF ReportCatalogLifecycle
  <1>4. CASE Rejected(d, op, r)
    BY <1>4 DEF Rejected, catalogVars, PurgedKept
  <1> QED
    BY <1>2, <1>3, <1>4 DEF Accepted

\* No action of a client does.
LEMMA ApplyFilePurged ==
    ASSUME Inv, NEW w \in Nat, NEW x \in RequestType, x.i \in DOMAIN x.files, ApplyFile(w, x)
    PROVE  PurgedKept
  <1>1. PICK f \in File, op \in Operation, a \in lifecycle, n \in Name \cup {NoName} :
           f = x.files[x.i] /\ op = ClientOp(w, x) /\ a = x.act /\ n = x.name
    BY RequestFacts
  <1>2. Applied(f, op, a, n) \/ UNCHANGED catalogVars
    BY <1>1, Zenon DEF ApplyFile
  <1>3. CASE UNCHANGED catalogVars
    BY <1>3 DEF catalogVars, PurgedKept
  <1> QED
    BY <1>2, <1>3, AppliedPurged

\* No step does.
LEMMA PurgedStep == Inv /\ [Next]_vars => PurgedKept \/ UNCHANGED entry
  <1> SUFFICES ASSUME Inv, [Next]_vars PROVE PurgedKept \/ UNCHANGED entry
    OBVIOUS
  <1>0. /\ action \in Seq(RequestType) /\ Len(action) \in Nat
        /\ \A v \in 1 .. Len(action) : action[v].i \in DOMAIN action[v].files
    BY InvTypes, LenProperties DEF RequestsTyped
  <1>1. CASE UserStep
    <2>1. ASSUME NEW d, NEW f, NEW k, NEW st, NEW n, NEW r, Change(d, f, k, st, n, r) PROVE UNCHANGED entry
      BY <2>1 DEF Change, catalogVars
    <2>2. ASSUME NEW d, NEW f, Replicate(d, f) PROVE UNCHANGED entry
      BY <2>2 DEF Replicate
    <2>3. ASSUME NEW f, NEW n, Upload(f, n) PROVE UNCHANGED entry
      BY <2>1, <2>3 DEF Upload, UserChange
    <2>4. ASSUME NEW d, NEW f, NEW n, RenameFile(d, f, n) PROVE UNCHANGED entry
      BY <2>1, <2>4 DEF RenameFile, UserChange
    <2>5. ASSUME NEW d, NEW f, TrashFile(d, f) \/ RestoreFile(d, f) \/ BeginPurge(d, f) PROVE UNCHANGED entry
      BY <2>1, <2>5 DEF TrashFile, RestoreFile, BeginPurge, UserChange
    <2>6. ASSUME NEW d, PersistAuth(d) PROVE UNCHANGED entry
      BY <2>6 DEF PersistAuth, catalogVars
    <2> QED
      BY <1>1, <2>2, <2>3, <2>4, <2>5, <2>6 DEF UserStep
  <1>2. CASE ClientStep
    <2>1. ASSUME NEW fs \in FileLists, NEW a \in lifecycle, NEW n \in Name \cup {NoName}, ApplyCatalogActions(fs, a, n)
          PROVE  PurgedKept
      <3>1. PICK x : x = [files |-> fs, act |-> a, name |-> n, i |-> 1, at |-> "apply"]
        OBVIOUS
      <3>2. x \in RequestType /\ x.files = fs /\ x.i = 1
        BY <3>1 DEF RequestType
      <3>3. x.i \in DOMAIN x.files
        BY <3>2, FileListed
      <3>4. PICK w \in Nat : w = Len(action) + 1
        BY <1>0
      <3>5. ApplyFile(w, x)
        BY <2>1, <3>1, <3>4 DEF ApplyCatalogActions
      <3> QED
        BY <3>2, <3>3, <3>5, ApplyFilePurged
    <2>2. ASSUME NEW w \in 1 .. Len(action), RequestFails(w) \/ RepeatAction(w) PROVE UNCHANGED entry
      BY <2>2 DEF RequestFails, RepeatAction, catalogVars
    <2> QED
      BY <1>2, <2>1, <2>2 DEF ClientStep
  <1>3. CASE ServerStep
    <2>1. ASSUME NEW w \in 1 .. Len(action), ApplyNext(w) PROVE PurgedKept
      <3>1. PICK x \in RequestType : x = action[w]
        BY <1>0, ElementOfSeq
      <3>2. ApplyFile(w, x) /\ x.i \in DOMAIN x.files /\ w \in Nat
        BY <1>0, <2>1, <3>1 DEF ApplyNext
      <3> QED
        BY <3>2, ApplyFilePurged
    <2>2. ASSUME NEW w \in 1 .. Len(action), QueueOriginLifecycleCommand(w) PROVE UNCHANGED entry
      BY <2>2 DEF QueueOriginLifecycleCommand
    <2>3. ASSUME NEW x \in late, ServeLate(x) PROVE PurgedKept
      <3>1. PICK d \in Device, k \in Nat, r \in Report : d = x[1] /\ k = x[2] /\ r = x[3]
        BY InvTypes DEF LateSent, CopyOf
      <3>2. PICK op : op = OpOf(d, k)
        OBVIOUS
      <3>3. Accepted(d, op, r) \/ Rejected(d, op, r)
        BY <2>3, <3>1, <3>2, Zenon DEF ServeLate
      <3> QED
        BY <3>2, <3>3, AnswerPurged
    <2>4. ASSUME NEW d \in Device, Serve(d) PROVE PurgedKept
      <3>1. PICK k \in 1 .. Len(outbox[d]) : k = loop[d].item
        BY <2>4, InvTypes DEF Serve, ItemsExist, reporting
      <3>2. outbox[d] \in Seq(Report) /\ k \in Nat
        BY InvTypes
      <3>3. PICK r \in Report : r = outbox[d][k]
        BY <3>2, ElementOfSeq
      <3>4. PICK op : op = OpOf(d, k)
        OBVIOUS
      <3>5. Accepted(d, op, r) \/ Rejected(d, op, r)
        BY <2>4, <3>1, <3>3, <3>4, Zenon DEF Serve
      <3> QED
        BY <3>2, <3>4, <3>5, AnswerPurged
    <2>5. ASSUME NEW d \in Device, NEW c \in 1 .. Len(command[d]), LeaseLapses(d, c) PROVE UNCHANGED entry
      BY <2>5 DEF LeaseLapses
    <2> QED
      BY <1>3, <2>1, <2>2, <2>3, <2>4, <2>5 DEF ServerStep, Answers, ServesLate, Lapses
  <1>4. ASSUME NEW d \in Device, AgentStep(d) PROVE UNCHANGED entry
    <2>1. CASE ReconcileStep(d)
      BY <2>1 DEF ReconcileStep, ReconcileExisting, MarkReconciled, catalogVars
    <2>2. ASSUME NEW p, PurgeStep(p) PROVE UNCHANGED entry
      BY <2>2 DEF PurgeStep, DeleteObject, ActivateOutgoing, catalogVars
    <2>3. CASE Deliver(d) \/ MarkOpCompleted(d) \/ MarkOpFailed(d)
      BY <2>3 DEF Deliver, MarkOpCompleted, MarkOpFailed, catalogVars
    <2>4. ASSUME NEW c, ClaimDeviceCommand(d, c) PROVE UNCHANGED entry
      BY <2>4 DEF ClaimDeviceCommand
    <2>5. CASE ApplyDeviceCommand(d) \/ DeleteCommanded(d)
      BY <2>5 DEF ApplyDeviceCommand, DeleteCommanded, catalogVars
    <2>6. CASE FinishDeviceCommand(d)
      BY <2>6 DEF FinishDeviceCommand
    <2> QED
      BY <1>4, <2>1, <2>2, <2>3, <2>4, <2>5, <2>6 DEF AgentStep, PurgesGoOn, LoopStep
  <1>5. ASSUME NEW d \in Device, Fault(d) PROVE UNCHANGED entry
    <2>1. ASSUME NEW p, PurgeFails(p) PROVE UNCHANGED entry
      BY <2>1 DEF PurgeFails, catalogVars
    <2>2. CASE Restart(d)
      BY <2>2 DEF Restart, catalogVars
    <2>3. CASE MarkOpRetryable(d) \/ CommandLost(d) \/ DeleteCommandedFails(d) \/ ReconcileFails(d)
      BY <2>3 DEF MarkOpRetryable, CommandLost, DeleteCommandedFails, ReconcileFails, catalogVars
    <2> QED
      BY <1>5, <2>1, <2>2, <2>3 DEF Fault
  <1>6. CASE UNCHANGED vars
    BY <1>6 DEF vars
  <1> QED
    BY <1>1, <1>2, <1>3, <1>4, <1>5, <1>6 DEF Next

\* A purged entry stays purged, whatever is delivered late or asked for: no
\* transaction of the catalog takes an entry out of that state.
THEOREM PurgedSafe == Spec => PurgedIsFinal
  <1>1. Inv /\ [Next]_vars => [\A f \in File : entry[f].status = "purged" => entry'[f].status = "purged"]_entry
    BY PurgedStep DEF PurgedKept
  <1> QED
    BY <1>1, InvStart, InvStep, PTL DEF Spec, PurgedIsFinal

-----------------------------------------------------------------------------
(***************************************************************************)
(* The catalog follows the origin.                                          *)
(*                                                                          *)
(* As long as only the origin acts on a file and none of its reports is     *)
(* refused, the entry is the result of the first reports of the origin.  The *)
(* origin's row is the result of all of them, and of those that enrolment   *)
(* has still to add.                                                        *)
(***************************************************************************)

\* The state of a file after a report on it.
Effect(x, r) ==
    IF r.kind = "register"
    THEN IF x.status = "none" THEN [status |-> "active", name |-> r.name] ELSE x
    ELSE [status |-> NewStatus(r.kind), name |-> IF r.kind = "rename" THEN r.name ELSE x.name]

ended == {"completed", "failed"}

\* Reports are sent one by one: what is sent is 'processing', and what came
\* before it has its answer.
SentInOrder ==
    \A d \in Device : loop[d].at \in reporting =>
        /\ outbox[d][loop[d].item].status = "processing"
        /\ \A j \in 1 .. loop[d].item - 1 : outbox[d][j].status \in ended

LateInOrder ==
    \A x \in late :
        /\ x[3].name = outbox[x[1]][x[2]].name
        /\ \A j \in 1 .. x[2] - 1 : outbox[x[1]][j].status \in ended

\* An Agent registers only files that were created on it, and has statements
\* left only while it reconciles.
OwnFiles ==
    \A d \in Device :
        /\ \A i \in 1 .. Len(reconcile[d]) : Origin[reconcile[d][i].file] = d /\ phase[d] = "reconciling"
        /\ \A k \in 1 .. Len(outbox[d]) : outbox[d][k].kind = "register" => Origin[outbox[d][k].file] = d

\* What reconcileExisting read is still so, unless the file raced with it.
Current(x, row) ==
    /\ row.status \in {"active", "trashed"} /\ x.name = row.name
    /\ x.trashed <=> row.status = "trashed"
    /\ x.step # "register" => x.trashed

ReadIsCurrent ==
    \A d \in Device : \A i \in 1 .. Len(reconcile[d]) :
        reconcile[d][i].file \notin raced => Current(reconcile[d][i], local[d][reconcile[d][i].file])

\* A purge holds its report back: the report is 'processing', the loop has
\* not sent it, and no other purge has it.
PurgesHold ==
    \A p \in purge :
        /\ outbox[p.device][p.item].status = "processing"
        /\ ~(loop[p.device].at \in reporting /\ loop[p.device].item = p.item)
        /\ \A r \in purge : r.device = p.device /\ r.item = p.item => r = p

\* A client acts on f.
Asked(f) == \E w \in 1 .. Len(action) : \E i \in 1 .. Len(action[w].files) : action[w].files[i] = f

\* The origin has a command on its file only if a client asked for it.
OriginCommands ==
    \A d \in Device : \A c \in 1 .. Len(command[d]) :
        Origin[command[d][c].file] = d => Asked(command[d][c].file)

\* The states h of f after each report of its origin; the first report on f
\* makes it exist for good.
Replays(f, h) ==
    /\ h \in [0 .. Len(outbox[Origin[f]]) -> EntryType]
    /\ \A k \in 1 .. Len(outbox[Origin[f]]) :
          h[k] = IF outbox[Origin[f]][k].file = f THEN Effect(h[k - 1], outbox[Origin[f]][k]) ELSE h[k - 1]
    /\ \A k \in 1 .. Len(outbox[Origin[f]]) : outbox[Origin[f]][k].file = f =>
          \A j \in k .. Len(outbox[Origin[f]]) : h[j].status # "none"

\* The server has taken in the first q reports of f's origin: all that are
\* completed, and perhaps the one under way.
TakenIn(f, q) ==
    /\ q \in 0 .. Len(outbox[Origin[f]])
    /\ \A k \in 1 .. Len(outbox[Origin[f]]) : outbox[Origin[f]][k].status = "completed" => k <= q
    /\ \A k \in 1 .. q - 1 : outbox[Origin[f]][k].status = "completed"
    /\ loop[Origin[f]].at = "accepted" => loop[Origin[f]].item <= q
    /\ \A k \in 1 .. Len(outbox[Origin[f]]) :
          outbox[Origin[f]][k].file = f /\ outbox[Origin[f]][k].kind \in lifecycle =>
              (OpOf(Origin[f], k) \in done <=> k <= q)

\* The entry e shows the state x.  (A file that is not in the catalog has its
\* name on the origin only.)
Shown(e, x) == e = x \/ (e.status = "none" /\ x.status = "none")

\* Enrolment has a statement of one of these steps to run for f.
Due(f, steps) ==
    \/ phase[Origin[f]] \in {"configured", "enrolled"}
    \/ \E i \in 1 .. Len(reconcile[Origin[f]]) :
          reconcile[Origin[f]][i].file = f /\ reconcile[Origin[f]][i].step \in steps

\* The status the catalog is to show.
StatusOf(row) == IF row.status = "purging" THEN "purged" ELSE row.status

\* The reports lead to x: the origin's row, or a state that the statements
\* which are due make it.
Standing(f, x) ==
    /\ x.name = local[Origin[f]][f].name
    /\ \/ x.status = StatusOf(local[Origin[f]][f])
       \/ local[Origin[f]][f].status = "trashed" /\ Due(f, {"register", "trash"})
       \/ local[Origin[f]][f].status = "active" /\ x.status = "none" /\ Due(f, {"register"})

Following(f) ==
    \E h, q : /\ Replays(f, h)
              /\ TakenIn(f, q)
              /\ Shown(entry[f], h[q])
              /\ Standing(f, h[Len(outbox[Origin[f]])])

\* Only the origin acts on f, and none of its reports was refused.
Undisturbed(f) ==
    /\ f \notin raced
    /\ ~Asked(f)
    /\ \A k \in 1 .. Len(outbox[Origin[f]]) : outbox[Origin[f]][k].status # "failed"

Follows == \A f \in File : Undisturbed(f) => Following(f)

FollowInv ==
    /\ SentInOrder
    /\ LateInOrder
    /\ OwnFiles
    /\ ReadIsCurrent
    /\ PurgesHold
    /\ OriginCommands
    /\ Follows

\* What a step leaves of the reports and the requests.
ReportsStay ==
    \A d \in Device : \A k \in 1 .. Len(outbox[d]) :
        /\ k \in 1 .. Len(outbox'[d])
        /\ outbox'[d][k].kind = outbox[d][k].kind
        /\ outbox'[d][k].file = outbox[d][k].file
        /\ outbox'[d][k].name = outbox[d][k].name
        /\ outbox[d][k].status \in ended => outbox'[d][k].status = outbox[d][k].status

RequestsStay ==
    \A w \in 1 .. Len(action) : w \in 1 .. Len(action') /\ action'[w].files = action[w].files

\* A request in the next state.
AskedNext(f) == \E w \in 1 .. Len(action') : \E i \in 1 .. Len(action'[w].files) : action'[w].files[i] = f

\* Commands on a file come to its origin only by request.
CommandsCaused ==
    \A d \in Device : \A c \in 1 .. Len(command'[d]) :
        \/ c \in 1 .. Len(command[d]) /\ command'[d][c].file = command[d][c].file
        \/ Origin[command'[d][c].file] # d
        \/ AskedNext(command'[d][c].file)

\* What the reports led to is still right.
Stands(f) == \A x : Standing(f, x) => Standing(f, x)'

\* The rows of f's origin and the reports, as far as the replay reads them.
SameShape(f) ==
    /\ Len(outbox'[Origin[f]]) = Len(outbox[Origin[f]])
    /\ Stands(f)

-----------------------------------------------------------------------------
(* The clauses of FollowInv *)

\* What is sent stays sent.
LEMMA SentKept ==
    ASSUME Inv, SentInOrder, ReportsStay,
           \A d \in Device :
               \/ loop'[d].at \notin reporting
               \/ /\ loop[d].at \in reporting /\ loop'[d].item = loop[d].item
                  /\ outbox'[d][loop[d].item].status = outbox[d][loop[d].item].status
    PROVE  SentInOrder'
  <1> SUFFICES ASSUME NEW d \in Device, loop'[d].at \in reporting
               PROVE  /\ outbox'[d][loop'[d].item].status = "processing"
                      /\ \A j \in 1 .. loop'[d].item - 1 : outbox'[d][j].status \in ended
    BY DEF SentInOrder
  <1>1. PICK k \in 1 .. Len(outbox[d]) : k = loop[d].item /\ k = loop'[d].item
    BY InvTypes DEF ItemsExist
  <1>2. /\ outbox[d][k].status = "processing" /\ outbox'[d][k].status = outbox[d][k].status
        /\ \A j \in 1 .. k - 1 : outbox[d][j].status \in ended
    BY <1>1 DEF SentInOrder
  <1>3. \A j \in 1 .. k - 1 : j \in 1 .. Len(outbox[d])
    BY InvTypes
  <1> QED
    BY <1>1, <1>2, <1>3 DEF ReportsStay

\* LateInOrder, read in the next state.
LateNext(x) ==
    /\ x[3].name = outbox'[x[1]][x[2]].name
    /\ \A j \in 1 .. x[2] - 1 : outbox'[x[1]][j].status \in ended

\* Late requests stay behind what was answered.
LEMMA LateKept ==
    ASSUME Inv, LateInOrder, ReportsStay, \A x \in late' : x \in late \/ LateNext(x)
    PROVE  LateInOrder'
  <1>1. ASSUME NEW x \in late PROVE LateNext(x)
    <2>1. CopyOf(x)
      BY InvTypes DEF LateSent
    <2>2. PICK d \in Device, k \in Nat : d = x[1] /\ k = x[2] /\ k \in 1 .. Len(outbox[d])
      BY <2>1 DEF CopyOf
    <2>3. /\ x[3].name = outbox[d][k].name
          /\ \A j \in 1 .. k - 1 : outbox[d][j].status \in ended
      BY <2>2 DEF LateInOrder
    <2>4. \A j \in 1 .. k - 1 : j \in 1 .. Len(outbox[d])
      BY <2>2, InvTypes
    <2> QED
      BY <2>2, <2>3, <2>4 DEF ReportsStay, LateNext
  <1>2. \A x \in late' : LateNext(x)
    BY <1>1
  <1> QED
    BY <1>2 DEF LateInOrder, LateNext

\* What was read is still so: an expired purge is not among it.
LEMMA ReadKept ==
    ASSUME ReadIsCurrent, UNCHANGED reconcile, raced \subseteq raced',
           \A d \in Device : \A i \in 1 .. Len(reconcile[d]) :
               \/ reconcile[d][i].file \in raced'
               \/ local'[d][reconcile[d][i].file] = local[d][reconcile[d][i].file]
               \/ local[d][reconcile[d][i].file].status = "purging"
    PROVE  ReadIsCurrent'
  BY DEF ReadIsCurrent, Current

\* The purges that go on hold their reports back.
LEMMA PurgesKept ==
    ASSUME Inv, PurgesHold, purge' \subseteq purge,
           \A p \in purge' : outbox'[p.device][p.item].status = outbox[p.device][p.item].status,
           \A d \in Device : \/ loop'[d].at \notin reporting
                             \/ loop[d].at \in reporting /\ loop'[d].item = loop[d].item
                             \/ outbox[d][loop'[d].item].status # "processing"
    PROVE  PurgesHold'
  <1>1. ASSUME NEW p \in purge'
        PROVE  /\ outbox'[p.device][p.item].status = "processing"
               /\ ~(loop'[p.device].at \in reporting /\ loop'[p.device].item = p.item)
               /\ \A r \in purge' : r.device = p.device /\ r.item = p.item => r = p
    <2>1. p \in purge /\ p.device \in Device
      BY InvTypes DEF Purge
    <2> QED
      BY <2>1 DEF PurgesHold
  <1> QED
    BY <1>1 DEF PurgesHold

\* What is due and the origin's row stay, or more is due, or a purge ends.
LEMMA StandsKept ==
    ASSUME NEW f \in File, NEW d \in Device, d = Origin[f],
           \/ local'[d][f] = local[d][f]
           \/ /\ local'[d][f].name = local[d][f].name
              /\ local[d][f].status = "purging" /\ local'[d][f].status = "purged",
           \/ phase'[d] \in {"configured", "enrolled"}
           \/ phase'[d] = phase[d] /\ reconcile'[d] = reconcile[d]
    PROVE  Stands(f)
  <1>1. \A steps : Due(f, steps) => Due(f, steps)'
    BY DEF Due
  <1>2. /\ local'[d][f].name = local[d][f].name
        /\ StatusOf(local'[d][f]) = StatusOf(local[d][f])
        /\ local[d][f].status \in {"active", "trashed"} => local'[d][f].status = local[d][f].status
    BY DEF StatusOf
  <1>3. ASSUME NEW x, Standing(f, x) PROVE Standing(f, x)'
    BY <1>1, <1>2, <1>3 DEF Standing, StatusOf
  <1> QED
    BY <1>3 DEF Stands

\* A request names its files for good.
LEMMA AskedKept ==
    ASSUME RequestsStay, NEW f, Asked(f)
    PROVE  AskedNext(f)
  BY DEF RequestsStay, Asked, AskedNext

\* Commands of an origin have their cause.
LEMMA OriginKept ==
    ASSUME OriginCommands, RequestsStay, CommandsCaused
    PROVE  OriginCommands'
  <1>1. ASSUME NEW d \in Device, NEW c \in 1 .. Len(command'[d]), Origin[command'[d][c].file] = d
        PROVE  AskedNext(command'[d][c].file)
    <2>1. PICK f : f = command'[d][c].file
      OBVIOUS
    <2>2. CASE c \in 1 .. Len(command[d]) /\ f = command[d][c].file
      <3>1. Asked(f)
        BY <1>1, <2>1, <2>2 DEF OriginCommands
      <3> QED
        BY <2>1, <3>1, AskedKept
    <2>3. CASE AskedNext(f)
      BY <2>1, <2>3
    <2> QED
      BY <1>1, <2>1, <2>2, <2>3 DEF CommandsCaused
  <1> QED
    BY <1>1 DEF OriginCommands, Asked, AskedNext

\* A file that is undisturbed was so before.
LEMMA UndisturbedBefore ==
    ASSUME Inv, NEW f \in File, ReportsStay, RequestsStay, raced \subseteq raced', Undisturbed(f)'
    PROVE  Undisturbed(f)
  <1>1. f \notin raced
    BY DEF Undisturbed
  <1>2. ~AskedNext(f)
    BY DEF Undisturbed, Asked, AskedNext
  <1>3. ~Asked(f)
    BY <1>2, AskedKept
  <1>4. Origin[f] \in Device
    BY CatalogAssumption
  <1>5. \A k \in 1 .. Len(outbox[Origin[f]]) : outbox[Origin[f]][k].status # "failed"
    BY <1>4 DEF Undisturbed, ReportsStay, ended
  <1> QED
    BY <1>1, <1>3, <1>5 DEF Undisturbed

-----------------------------------------------------------------------------
(* The replay *)

\* A report on a file makes it exist.
LEMMA EffectTyped ==
    ASSUME NEW x \in EntryType, NEW r \in Report
    PROVE  Effect(x, r) \in EntryType /\ Effect(x, r).status # "none"
  <1>1. r.kind \in lifecycle \cup {"register"} /\ r.name \in Name \cup {NoName}
    BY DEF Report
  <1>2. x.status \in Statuses /\ x.name \in Name \cup {NoName} /\ x = [status |-> x.status, name |-> x.name]
    BY DEF EntryType
  <1>3. CASE r.kind = "register" /\ x.status = "none"
    BY <1>1, <1>3 DEF Effect, EntryType, Statuses
  <1>4. CASE r.kind = "register" /\ x.status # "none"
    BY <1>4 DEF Effect
  <1>5. CASE r.kind # "register"
    <2>1. PICK st : st = NewStatus(r.kind)
      OBVIOUS
    <2>2. st \in Statuses /\ st # "none"
      BY <1>1, <1>5, <2>1 DEF NewStatus, Statuses, lifecycle
    <2>3. PICK n \in Name \cup {NoName} : n = IF r.kind = "rename" THEN r.name ELSE x.name
      BY <1>1, <1>2
    <2>4. Effect(x, r) = [status |-> st, name |-> n]
      BY <1>5, <2>1, <2>3 DEF Effect
    <2> QED
      BY <2>2, <2>4 DEF EntryType
  <1> QED
    BY <1>3, <1>4, <1>5

\* The server has taken in as much as before.
LEMMA TakenKept ==
    ASSUME Inv, ReportsStay, NEW f \in File, NEW d \in Device, d = Origin[f], NEW q, TakenIn(f, q),
           Len(outbox'[d]) = Len(outbox[d]),
           \A k \in 1 .. Len(outbox[d]) : outbox'[d][k].status = "completed" => k <= q,
           loop'[d].at = "accepted" => loop'[d].item <= q,
           \A k \in 1 .. Len(outbox[d]) : outbox[d][k].file = f => (OpOf(d, k) \in done' <=> OpOf(d, k) \in done)
    PROVE  TakenIn(f, q)'
  <1>1. q \in 0 .. Len(outbox[d]) /\ Len(outbox[d]) \in Nat
    BY InvTypes DEF TakenIn
  <1>2. \A k \in 1 .. q - 1 : outbox'[d][k].status = "completed"
    <2>1. \A k \in 1 .. q - 1 : outbox[d][k].status = "completed"
      BY DEF TakenIn
    <2>2. \A k \in 1 .. q - 1 : k \in 1 .. Len(outbox[d])
      BY <1>1
    <2> QED
      BY <2>1, <2>2 DEF ReportsStay, ended
  <1>3. ASSUME NEW k \in 1 .. Len(outbox[d]), outbox'[d][k].file = f, outbox'[d][k].kind \in lifecycle
        PROVE  OpOf(d, k) \in done' <=> k <= q
    <2>1. outbox[d][k].file = f /\ outbox[d][k].kind \in lifecycle
      BY <1>3 DEF ReportsStay
    <2>2. OpOf(d, k) \in done <=> k <= q
      BY <2>1 DEF TakenIn
    <2> QED
      BY <2>1, <2>2
  <1> HIDE DEF OpOf
  <1>4. \A k \in 1 .. Len(outbox'[d]) :
           outbox'[d][k].file = f /\ outbox'[d][k].kind \in lifecycle => (OpOf(d, k) \in done' <=> k <= q)
    BY <1>3
  <1> QED
    BY <1>1, <1>2, <1>4 DEF TakenIn, OpOf

\* The reports are the same but for their status, and the entry is the result
\* of the first p of them.
LEMMA FollowingMoves ==
    ASSUME Inv, ReportsStay, NEW f \in File, NEW h, NEW p, SameShape(f), Replays(f, h),
           Standing(f, h[Len(outbox[Origin[f]])]),
           TakenIn(f, p)', Shown(entry'[f], h[p])
    PROVE  Following(f)'
  <1>0. Origin[f] \in Device
    BY CatalogAssumption
  <1>1. PICK o : o = outbox[Origin[f]]
    OBVIOUS
  <1>2. PICK b : b = outbox'[Origin[f]]
    OBVIOUS
  <1>3. /\ Len(b) = Len(o)
        /\ \A k \in 1 .. Len(o) : b[k].kind = o[k].kind /\ b[k].file = o[k].file /\ b[k].name = o[k].name
    BY <1>0, <1>1, <1>2 DEF ReportsStay, SameShape
  <1>4. \A k \in 1 .. Len(o) : Effect(h[k - 1], b[k]) = Effect(h[k - 1], o[k])
    BY <1>3 DEF Effect
  <1>5. Replays(f, h)'
    <2>1. h \in [0 .. Len(b) -> EntryType]
      BY <1>1, <1>3 DEF Replays
    <2>2. \A k \in 1 .. Len(b) : h[k] = IF b[k].file = f THEN Effect(h[k - 1], b[k]) ELSE h[k - 1]
      BY <1>1, <1>3, <1>4 DEF Replays
    <2>3. \A k \in 1 .. Len(b) : b[k].file = f => \A j \in k .. Len(b) : h[j].status # "none"
      BY <1>1, <1>3 DEF Replays
    <2> QED
      BY <1>2, <2>1, <2>2, <2>3 DEF Replays
  <1>6. PICK z : z = h[Len(b)]
    OBVIOUS
  <1>7. Standing(f, z)'
    BY <1>1, <1>3, <1>6 DEF SameShape, Stands
  <1>8. PICK y : y = h[p]
    OBVIOUS
  <1>9. Shown(entry[f], y)'
    BY <1>8 DEF Shown
  <1> QED
    BY <1>2, <1>5, <1>6, <1>7, <1>8, <1>9 DEF Following

\* Nothing that concerns f has changed, except that a report may have got
\* another status.
LEMMA FollowingKept ==
    ASSUME Inv, ReportsStay, NEW f \in File, NEW d \in Device, d = Origin[f], Following(f), SameShape(f),
           entry'[f] = entry[f],
           \A k \in 1 .. Len(outbox[d]) : outbox[d][k].file = f => (OpOf(d, k) \in done' <=> OpOf(d, k) \in done),
           \A k \in 1 .. Len(outbox[d]) : outbox'[d][k].status = "completed" =>
               outbox[d][k].status = "completed" \/ (loop[d].at = "accepted" /\ loop[d].item = k),
           loop'[d].at = "accepted" => loop'[d] = loop[d]
    PROVE  Following(f)'
  <1>1. PICK h, q : /\ Replays(f, h) /\ TakenIn(f, q) /\ Shown(entry[f], h[q])
                    /\ Standing(f, h[Len(outbox[Origin[f]])])
    BY DEF Following
  <1>2. Len(outbox'[d]) = Len(outbox[d])
    BY DEF SameShape
  <1>3. \A k \in 1 .. Len(outbox[d]) : outbox'[d][k].status = "completed" => k <= q
    BY <1>1 DEF TakenIn
  <1>4. loop'[d].at = "accepted" => loop'[d].item <= q
    BY <1>1 DEF TakenIn
  <1>5. TakenIn(f, q)'
    BY <1>1, <1>2, <1>3, <1>4, TakenKept
  <1> QED
    BY <1>1, <1>5, FollowingMoves

\* A report is added to an outbox.
Added(d, e) == outbox' = [outbox EXCEPT ![d] = Append(outbox[d], e)]

\* What an added report leaves.
LEMMA AddedStays ==
    ASSUME Inv, NEW d \in Device, NEW e \in Report, Added(d, e)
    PROVE  /\ ReportsStay
           /\ \A a \in Device : \A k \in 1 .. Len(outbox[a]) : outbox'[a][k] = outbox[a][k]
           /\ Len(outbox'[d]) = Len(outbox[d]) + 1 /\ outbox'[d][Len(outbox[d]) + 1] = e
           /\ \A a \in Device : a # d => outbox'[a] = outbox[a]
  <1>1. PICK b : b = outbox'
    OBVIOUS
  <1>2. b = [outbox EXCEPT ![d] = Append(outbox[d], e)] /\ outbox \in [Device -> Seq(Report)]
    BY <1>1, InvTypes DEF Added
  <1>3. /\ \A a \in Device : \A j \in 1 .. Len(outbox[a]) : j \in 1 .. Len(b[a]) /\ b[a][j] = outbox[a][j]
        /\ Len(b[d]) = Len(outbox[d]) + 1 /\ b[d][Len(outbox[d]) + 1] = e
        /\ \A a \in Device : a # d => b[a] = outbox[a]
    BY <1>2, SeqAppend
  <1> QED
    BY <1>1, <1>3 DEF ReportsStay

\* A change of the origin and its report.
LEMMA AddedFollows ==
    ASSUME Inv, NEW f \in File, NEW d \in Device, NEW e \in Report, Added(d, e), e.status # "completed",
           UNCHANGED <<entry, done, loop>>, Following(f),
           IF d = Origin[f] /\ e.file = f THEN \A x \in EntryType : Standing(f, x) => Standing(f, Effect(x, e))'
                                         ELSE Stands(f)
    PROVE  Following(f)'
  <1>0. Origin[f] \in Device
    BY CatalogAssumption
  <1>1. CASE d # Origin[f]
    <2>1. PICK a \in Device : a = Origin[f]
      BY <1>0
    <2>2. outbox'[a] = outbox[a] /\ SameShape(f) /\ ReportsStay
      BY <1>1, <2>1, AddedStays DEF SameShape
    <2> QED
      BY <2>1, <2>2, FollowingKept
  <1>2. CASE d = Origin[f]
    <2>1. PICK h, q : /\ Replays(f, h) /\ TakenIn(f, q) /\ Shown(entry[f], h[q])
                      /\ Standing(f, h[Len(outbox[d])])
      BY <1>2 DEF Following
    <2>2. PICK o : o = outbox[d]
      OBVIOUS
    <2>3. PICK b : b = outbox'[d]
      OBVIOUS
    <2>4. PICK m \in Nat : m = Len(o)
      BY <2>2, InvTypes
    <2>5. /\ Len(b) = m + 1 /\ b[m + 1] = e
          /\ \A k \in 1 .. m : b[k] = o[k]
      BY <2>2, <2>3, <2>4, AddedStays
    <2>6. /\ h \in [0 .. m -> EntryType]
          /\ \A k \in 1 .. m : h[k] = IF o[k].file = f THEN Effect(h[k - 1], o[k]) ELSE h[k - 1]
          /\ \A k \in 1 .. m : o[k].file = f => \A j \in k .. m : h[j].status # "none"
      BY <1>2, <2>1, <2>2, <2>4 DEF Replays
    <2>7. PICK x \in EntryType : x = IF e.file = f THEN Effect(h[m], e) ELSE h[m]
      BY <2>4, <2>6, EffectTyped
    <2>8. PICK g : g = [k \in 0 .. m + 1 |-> IF k = m + 1 THEN x ELSE h[k]]
      OBVIOUS
    <2>9. /\ g \in [0 .. m + 1 -> EntryType] /\ g[m + 1] = x
          /\ \A k \in 0 .. m : g[k] = h[k]
      BY <2>4, <2>6, <2>8
    <2>10. \A k \in 1 .. m + 1 : g[k] = IF b[k].file = f THEN Effect(g[k - 1], b[k]) ELSE g[k - 1]
      <3>1. ASSUME NEW k \in 1 .. m + 1 PROVE g[k] = IF b[k].file = f THEN Effect(g[k - 1], b[k]) ELSE g[k - 1]
        <4>1. CASE k = m + 1
          <5>1. PICK y : y = g[k - 1] /\ y = h[m]
            BY <2>4, <2>9, <4>1
          <5> QED
            BY <2>5, <2>7, <2>9, <4>1, <5>1
        <4>2. CASE k # m + 1
          <5>1. k \in 1 .. m /\ k - 1 \in 0 .. m
            BY <2>4, <4>2
          <5>2. PICK y : y = g[k - 1] /\ y = h[k - 1]
            BY <2>9, <5>1
          <5>3. g[k] = h[k] /\ b[k] = o[k]
            BY <2>5, <2>9, <5>1
          <5> QED
            BY <2>6, <5>1, <5>2, <5>3
        <4> QED
          BY <4>1, <4>2
      <3> QED
        BY <3>1
    <2>11. ASSUME NEW k \in 1 .. m + 1, b[k].file = f, NEW j \in k .. m + 1 PROVE g[j].status # "none"
      <3>1. CASE j = m + 1 /\ e.file = f
        <4>1. Effect(h[m], e).status # "none"
          BY <2>4, <2>6, EffectTyped
        <4> QED
          BY <2>7, <2>9, <3>1, <4>1
      <3>2. CASE j = m + 1 /\ e.file # f
        <4>1. k \in 1 .. m /\ m \in k .. m
          BY <2>4, <2>5, <2>11, <3>2
        <4>2. h[m].status # "none"
          BY <2>5, <2>6, <2>11, <4>1
        <4> QED
          BY <2>7, <2>9, <3>2, <4>2
      <3>3. CASE j # m + 1
        <4>1. k \in 1 .. m /\ j \in k .. m /\ j \in 0 .. m
          BY <2>4, <3>3
        <4> QED
          BY <2>5, <2>6, <2>9, <2>11, <4>1
      <3> QED
        BY <3>1, <3>2, <3>3
    <2>12. Replays(f, g)'
      BY <1>2, <2>3, <2>5, <2>9, <2>10, <2>11 DEF Replays
    <2>13. TakenIn(f, q)'
      <3>1. /\ q \in 0 .. m
            /\ \A k \in 1 .. m : o[k].status = "completed" => k <= q
            /\ \A k \in 1 .. q - 1 : o[k].status = "completed"
            /\ loop[d].at = "accepted" => loop[d].item <= q
            /\ \A k \in 1 .. m : o[k].file = f /\ o[k].kind \in lifecycle => (OpOf(d, k) \in done <=> k <= q)
        BY <1>2, <2>1, <2>2, <2>4 DEF TakenIn
      <3>2. OpOf(d, m + 1) \notin done
        <4>1. PICK op : op = OpOf(d, m + 1)
          OBVIOUS
        <4>2. op.by = d /\ op.n = m + 1
          BY <4>1 DEF OpOf
        <4>3. ~LifecycleOp(op)
          BY <2>2, <2>4, <4>2, CatalogAssumption DEF LifecycleOp, ReportOp
        <4> QED
          BY <4>1, <4>3 DEF Inv, KeysAreLifecycle
      <3>3. \A k \in 1 .. m + 1 : k = m + 1 \/ k \in 1 .. m
        BY <2>4
      <3>4. q \in 0 .. m + 1 /\ ~(m + 1 <= q)
        BY <2>4, <3>1
      <3>5. \A k \in 1 .. m + 1 : b[k].status = "completed" => k <= q
        BY <2>5, <3>1, <3>3
      <3>6. \A k \in 1 .. q - 1 : b[k].status = "completed"
        <4>1. \A k \in 1 .. q - 1 : k \in 1 .. m
          BY <2>4, <3>1
        <4> QED
          BY <2>5, <3>1, <4>1
      <3>7. ASSUME NEW k \in 1 .. m + 1, b[k].file = f, b[k].kind \in lifecycle PROVE OpOf(d, k) \in done <=> k <= q
        <4>1. CASE k = m + 1
          BY <3>2, <3>4, <4>1
        <4>2. CASE k \in 1 .. m
          BY <2>5, <3>1, <3>7, <4>2
        <4> QED
          BY <3>3, <4>1, <4>2
      <3> QED
        BY <1>2, <2>3, <2>5, <3>1, <3>4, <3>5, <3>6, <3>7 DEF TakenIn, OpOf
    <2>14. Shown(entry[f], h[q]) /\ h[q] = g[q]
      <3>1. q \in 0 .. m
        BY <1>2, <2>1, <2>2, <2>4 DEF TakenIn
      <3> QED
        BY <2>1, <2>9, <3>1
    <2>15. Standing(f, x)'
      <3>1. PICK z \in EntryType : z = h[m]
        BY <2>4, <2>6
      <3>2. Standing(f, z)
        BY <2>1, <2>2, <2>4, <3>1
      <3>3. CASE e.file = f
        <4>1. Standing(f, Effect(z, e))' /\ x = Effect(z, e)
          BY <1>2, <2>7, <3>1, <3>2, <3>3
        <4> QED
          BY <4>1
      <3>4. CASE e.file # f
        BY <2>7, <3>1, <3>2, <3>4 DEF Stands
      <3> QED
        BY <3>3, <3>4
    <2>16. Standing(f, g[Len(b)])'
      BY <2>5, <2>9, <2>15
    <2>17. PICK y : y = g[q]
      OBVIOUS
    <2>18. Shown(entry[f], y)'
      BY <2>14, <2>17 DEF Shown
    <2> QED
      BY <1>2, <2>3, <2>12, <2>13, <2>16, <2>17, <2>18 DEF Following
  <1> QED
    BY <1>1, <1>2

-----------------------------------------------------------------------------
(* The steps *)

\* The clauses of FollowInv together.
LEMMA FollowRecombined ==
    ASSUME Inv, FollowInv, ReportsStay, RequestsStay, CommandsCaused, raced \subseteq raced',
           SentInOrder', LateInOrder', OwnFiles', ReadIsCurrent', PurgesHold',
           \A f \in File : Undisturbed(f) /\ Undisturbed(f)' /\ Following(f) => Following(f)'
    PROVE  FollowInv'
  <1>1. OriginCommands'
    BY OriginKept DEF FollowInv
  <1>2. ASSUME NEW f \in File, Undisturbed(f)' PROVE Following(f)'
    <2>1. Undisturbed(f)
      BY <1>2, UndisturbedBefore
    <2>2. Following(f)
      BY <2>1 DEF FollowInv, Follows
    <2> QED
      BY <1>2, <2>1, <2>2
  <1>3. Follows'
    BY <1>2 DEF Follows
  <1> QED
    BY <1>1, <1>3 DEF FollowInv

\* A step of the server, which leaves the Agents' rows.
LEMMA ServerFollows ==
    ASSUME Inv, FollowInv, UNCHANGED <<local, outbox, phase, reconcile, purge, raced>>, late' \subseteq late,
           RequestsStay, CommandsCaused,
           \A d \in Device : \/ loop'[d] = loop[d]
                             \/ loop'[d].at \notin reporting
                             \/ loop[d].at \in reporting /\ loop'[d].at \in reporting /\ loop'[d].item = loop[d].item,
           \A f \in File : Undisturbed(f) /\ Undisturbed(f)' /\ Following(f) => Following(f)'
    PROVE  FollowInv'
  <1>1. ReportsStay
    BY DEF ReportsStay
  <1>2. SentInOrder'
    <2>1. \A d \in Device :
               \/ loop'[d].at \notin reporting
               \/ /\ loop[d].at \in reporting /\ loop'[d].item = loop[d].item
                  /\ outbox'[d][loop[d].item].status = outbox[d][loop[d].item].status
      OBVIOUS
    <2> QED
      BY <1>1, <2>1, SentKept DEF FollowInv
  <1>3. LateInOrder'
    BY <1>1, LateKept DEF FollowInv
  <1>4. OwnFiles'
    BY DEF FollowInv, OwnFiles
  <1>5. ReadIsCurrent'
    BY ReadKept DEF FollowInv
  <1>6. PurgesHold'
    <2>1. \A d \in Device : loop'[d].at \notin reporting \/ (loop[d].at \in reporting /\ loop'[d].item = loop[d].item)
      OBVIOUS
    <2> QED
      BY <2>1, PurgesKept DEF FollowInv
  <1> QED
    BY <1>1, <1>2, <1>3, <1>4, <1>5, <1>6, FollowRecombined

\* A step that touches neither the catalog nor the reports.
LEMMA QuietFollows ==
    ASSUME Inv, FollowInv, UNCHANGED <<entry, done, local, outbox, phase, reconcile, purge, late, raced>>,
           RequestsStay, CommandsCaused,
           \A d \in Device : loop'[d] = loop[d] \/ loop'[d].at \notin reporting
    PROVE  FollowInv'
  <1>1. ReportsStay
    BY DEF ReportsStay
  <1>2. ASSUME NEW f \in File, Following(f) PROVE Following(f)'
    <2>1. PICK d \in Device : d = Origin[f]
      BY CatalogAssumption
    <2>2. loop'[d].at = "accepted" => loop'[d] = loop[d]
      BY DEF reporting
    <2>3. SameShape(f)
      BY <2>1, StandsKept DEF SameShape
    <2> QED
      BY <1>1, <1>2, <2>1, <2>2, <2>3, FollowingKept
  <1> QED
    BY <1>2, ServerFollows

\* A command is changed, and not its file.
LEMMA CommandChanged ==
    ASSUME Inv, NEW d \in Device, NEW c \in 1 .. Len(command[d]), NEW e, e.file = command[d][c].file,
           command' = [command EXCEPT ![d] = [command[d] EXCEPT ![c] = e]]
    PROVE  CommandsCaused
  <1>1. command \in [Device -> Seq(Command)]
    BY InvTypes
  <1>2. PICK S : S = Command \cup {e}
    OBVIOUS
  <1>3. ASSUME NEW a \in Device PROVE command[a] \in Seq(S)
    BY <1>1, <1>2
  <1>4. PICK g \in [Device -> Seq(S)] : g = command
    BY <1>1, <1>3
  <1>5. PICK h : h = command'
    OBVIOUS
  <1>6. h = [g EXCEPT ![d] = [g[d] EXCEPT ![c] = e]] /\ e \in S
    BY <1>2, <1>4, <1>5
  <1>7. /\ \A a \in Device : Len(h[a]) = Len(g[a])
        /\ \A a \in Device : \A j \in 1 .. Len(g[a]) : h[a][j] = IF a = d /\ j = c THEN e ELSE g[a][j]
    BY <1>4, <1>6, SeqUpdate
  <1> QED
    BY <1>4, <1>5, <1>7 DEF CommandsCaused

\* The requests stay when they do not change.
LEMMA RequestsSame == ASSUME UNCHANGED action PROVE RequestsStay
  BY DEF RequestsStay

\* The same for the commands.
LEMMA CommandsSame == ASSUME UNCHANGED command PROVE CommandsCaused
  BY DEF CommandsCaused

\* A command is claimed.
LEMMA ClaimFollows ==
    ASSUME Inv, FollowInv, NEW d \in Device, NEW c \in 1 .. Len(command[d]), ClaimDeviceCommand(d, c)
    PROVE  FollowInv'
  <1>0. command \in [Device -> Seq(Command)] /\ loop \in [Device -> LoopType]
    BY InvTypes
  <1>1. PICK e : e = [command[d][c] EXCEPT !.state = "leased", !.lapsed = FALSE, !.attempt = command[d][c].attempt + 1]
    OBVIOUS
  <1>2. command[d] \in Seq(Command) /\ command[d][c] \in Command
    BY CommandFacts
  <1>3. e.file = command[d][c].file
    BY <1>1, <1>2 DEF Command
  <1>4. command' = [command EXCEPT ![d] = [command[d] EXCEPT ![c] = e]]
    BY <1>1, ClaimUpdates, Zenon
  <1>5. CommandsCaused
    BY <1>3, <1>4, CommandChanged
  <1>6. \A a \in Device : loop'[a] = loop[a] \/ loop'[a].at \notin reporting
    BY <1>0 DEF ClaimDeviceCommand, At, reporting
  <1>7. UNCHANGED <<entry, done, local, outbox, phase, reconcile, purge, late, raced, action>>
    BY DEF ClaimDeviceCommand, agentVars
  <1> QED
    BY <1>5, <1>6, <1>7, RequestsSame, QuietFollows

\* A lease ends.
LEMMA LapseFollows ==
    ASSUME Inv, FollowInv, NEW d \in Device, NEW c \in 1 .. Len(command[d]), LeaseLapses(d, c)
    PROVE  FollowInv'
  <1>0. command \in [Device -> Seq(Command)] /\ loop \in [Device -> LoopType]
    BY InvTypes
  <1>1. PICK e : e = [command[d][c] EXCEPT !.lapsed = TRUE]
    OBVIOUS
  <1>2. command[d] \in Seq(Command) /\ command[d][c] \in Command
    BY CommandFacts
  <1>3. e.file = command[d][c].file
    BY <1>1, <1>2 DEF Command
  <1>4. command' = [command EXCEPT ![d] = [command[d] EXCEPT ![c] = e]]
    BY <1>0, <1>1, <1>2 DEF LeaseLapses, Command
  <1>5. CommandsCaused
    BY <1>3, <1>4, CommandChanged
  <1>6. UNCHANGED <<entry, done, local, outbox, phase, reconcile, purge, late, raced, action, loop>>
    BY DEF LeaseLapses, agentVars
  <1> QED
    BY <1>5, <1>6, RequestsSame, QuietFollows

\* The outcome of a command is reported.
LEMMA FinishFollows ==
    ASSUME Inv, FollowInv, NEW d \in Device, FinishDeviceCommand(d)
    PROVE  FollowInv'
  <1>0. command \in [Device -> Seq(Command)] /\ loop \in [Device -> LoopType]
    BY InvTypes
  <1>1. loop[d].at \in executing
    BY DEF FinishDeviceCommand, executing
  <1>2. PICK c \in 1 .. Len(command[d]) : c = loop[d].item
    BY <1>1, InvTypes DEF ItemsExist
  <1>3. command[d] \in Seq(Command) /\ command[d][c] \in Command
    BY CommandFacts
  <1>4. PICK st : command' = [command EXCEPT ![d][c].state = st]
    BY <1>2 DEF FinishDeviceCommand
  <1>5. PICK e : e = [command[d][c] EXCEPT !.state = st]
    OBVIOUS
  <1>6. e.file = command[d][c].file
    BY <1>3, <1>5 DEF Command
  <1>7. command' = [command EXCEPT ![d] = [command[d] EXCEPT ![c] = e]]
    BY <1>0, <1>3, <1>4, <1>5 DEF Command
  <1>8. CommandsCaused
    BY <1>6, <1>7, CommandChanged
  <1>9. \A a \in Device : loop'[a] = loop[a] \/ loop'[a].at \notin reporting
    BY <1>0 DEF FinishDeviceCommand, At, reporting
  <1>10. UNCHANGED <<entry, done, local, outbox, phase, reconcile, purge, late, raced, action>>
    BY DEF FinishDeviceCommand, agentVars
  <1> QED
    BY <1>8, <1>9, <1>10, RequestsSame, QuietFollows

\* The outcome of a command is lost, or its purge fails.
LEMMA CommandLostFollows ==
    ASSUME Inv, FollowInv, NEW d \in Device, CommandLost(d) \/ DeleteCommandedFails(d)
    PROVE  FollowInv'
  <1>0. command \in [Device -> Seq(Command)] /\ loop \in [Device -> LoopType]
    BY InvTypes
  <1>1. \A a \in Device : loop'[a] = loop[a] \/ loop'[a].at \notin reporting
    BY <1>0 DEF CommandLost, DeleteCommandedFails, At, reporting
  <1>2. UNCHANGED <<entry, done, local, outbox, phase, reconcile, purge, late, raced, action, command>>
    BY DEF CommandLost, DeleteCommandedFails, catalogVars, agentVars
  <1> QED
    BY <1>1, <1>2, RequestsSame, CommandsSame, QuietFollows

\* A request goes on with its files, or a new one comes in.
LEMMA RequestsGoOn ==
    ASSUME Inv, NEW w \in 1 .. Len(action) + 1, NEW y \in RequestType,
           w \in 1 .. Len(action) => y.files = action[w].files,
           action' = IF w > Len(action) THEN Append(action, y) ELSE [action EXCEPT ![w] = y]
    PROVE  RequestsStay /\ w \in 1 .. Len(action') /\ action'[w] = y
  <1>1. action \in Seq(RequestType) /\ Len(action) \in Nat
    BY InvTypes, LenProperties DEF RequestsTyped
  <1>2. PICK h : h = action'
    OBVIOUS
  <1>3. CASE w > Len(action)
    <2>1. h = Append(action, y) /\ w = Len(action) + 1
      BY <1>1, <1>2, <1>3
    <2>2. /\ Len(h) = Len(action) + 1 /\ h[Len(action) + 1] = y
          /\ \A v \in 1 .. Len(action) : h[v] = action[v]
      BY <1>1, <2>1, AppendProperties
    <2> QED
      BY <1>1, <1>2, <2>1, <2>2 DEF RequestsStay
  <1>4. CASE ~(w > Len(action))
    <2>1. h = [action EXCEPT ![w] = y] /\ w \in 1 .. Len(action)
      BY <1>1, <1>2, <1>4
    <2>2. /\ Len(h) = Len(action)
          /\ \A v \in 1 .. Len(action) : h[v] = IF v = w THEN y ELSE action[v]
      BY <1>1, <2>1, ExceptSeq
    <2> QED
      BY <1>1, <1>2, <2>1, <2>2 DEF RequestsStay
  <1> QED
    BY <1>3, <1>4

\* A request is cut short, or sent again.
LEMMA RequestFailsFollows ==
    ASSUME Inv, FollowInv, NEW w \in 1 .. Len(action), RequestFails(w) \/ RepeatAction(w)
    PROVE  FollowInv'
  <1>0. action \in Seq(RequestType) /\ Len(action) \in Nat
    BY InvTypes, LenProperties DEF RequestsTyped
  <1>1. PICK x \in RequestType : x = action[w]
    BY <1>0, ElementOfSeq
  <1>2. PICK y : /\ y = [x EXCEPT !.at = "error"] \/ y = [x EXCEPT !.i = 1, !.at = "apply"]
                 /\ action' = [action EXCEPT ![w] = y]
    <2>1. CASE RequestFails(w)
      BY <1>0, <1>1, <2>1 DEF RequestFails
    <2>2. CASE RepeatAction(w)
      <3>1. PICK z : z = [x EXCEPT !.i = 1, !.at = "apply"]
        OBVIOUS
      <3>2. action' = [action EXCEPT ![w] = z]
        BY <1>0, <1>1, <2>2, <3>1 DEF RepeatAction, RequestType
      <3> QED
        BY <3>1, <3>2
    <2> QED
      BY <2>1, <2>2
  <1>3. y \in RequestType /\ y.files = x.files
    BY <1>2 DEF RequestType
  <1>4. action' = [action EXCEPT ![w] = y] /\ ~(w > Len(action)) /\ w \in 1 .. Len(action) + 1
    BY <1>0, <1>2
  <1>5. RequestsStay
    BY <1>1, <1>3, <1>4, RequestsGoOn
  <1>6. UNCHANGED <<entry, done, command, local, outbox, phase, reconcile, purge, raced, loop, late>>
    BY DEF RequestFails, RepeatAction, catalogVars, agentVars
  <1> QED
    BY <1>5, <1>6, CommandsSame, QuietFollows

\* The origin gets a command, on a file a client asked for.
LEMMA QueueFollows ==
    ASSUME Inv, FollowInv, NEW w \in 1 .. Len(action), QueueOriginLifecycleCommand(w)
    PROVE  FollowInv'
  <1>0. /\ action \in Seq(RequestType) /\ Len(action) \in Nat /\ w \in Nat
        /\ \A v \in 1 .. Len(action) : action[v].i \in DOMAIN action[v].files
    BY InvTypes, LenProperties DEF RequestsTyped
  <1>1. PICK x \in RequestType : x = action[w] /\ x.i \in DOMAIN x.files
    BY <1>0, ElementOfSeq
  <1>2. PICK f \in File, op \in Operation, a \in lifecycle, n \in Name \cup {NoName} :
           f = x.files[x.i] /\ op = ClientOp(w, x) /\ a = x.act /\ n = x.name
    BY <1>0, <1>1, RequestFacts
  <1>3. PICK d \in Device : d = Origin[f]
    BY CatalogAssumption
  <1>4. PICK q : q = Queued(d, f, op, a, n)
    OBVIOUS
  <1>5. command' = [command EXCEPT ![d] = q]
    BY <1>1, <1>2, <1>3, <1>4, Zenon DEF QueueOriginLifecycleCommand
  <1>6. \A c \in 1 .. Len(q) : \/ c \in 1 .. Len(command[d]) /\ q[c] = command[d][c]
                               \/ q[c].file = f
    BY <1>4, QueuedFacts
  <1>7. \A b \in Device : command'[b] = IF b = d THEN q ELSE command[b]
    BY <1>5, InvTypes
  <1>8. PICK y : y = IF x.i < Len(x.files) THEN [x EXCEPT !.i = x.i + 1, !.at = "apply"]
                     ELSE [x EXCEPT !.at = "answered"]
    OBVIOUS
  <1>9. y \in RequestType /\ y.files = x.files
    <2>1. /\ x.i \in {1, 2} /\ Len(x.files) \in {1, 2}
      BY FileListed DEF RequestType
    <2>2. CASE x.i < Len(x.files)
      <3>1. PICK i \in {1, 2}, m \in {1, 2} : i = x.i /\ m = Len(x.files)
        BY <2>1
      <3>2. i < m
        BY <2>2, <3>1
      <3>3. i = 1
        BY <3>2
      <3>4. PICK j \in {1, 2} : j = x.i + 1
        BY <3>1, <3>3
      <3>5. y = [x EXCEPT !.i = j, !.at = "apply"]
        BY <1>8, <2>2, <3>4
      <3> QED
        BY <3>5 DEF RequestType
    <2>3. CASE ~(x.i < Len(x.files))
      <3>1. y = [x EXCEPT !.at = "answered"]
        BY <1>8, <2>3
      <3> QED
        BY <3>1 DEF RequestType
    <2> QED
      BY <2>2, <2>3
  <1>10. action' = [action EXCEPT ![w] = y] /\ ~(w > Len(action)) /\ w \in 1 .. Len(action) + 1
    <2>1. action' = [action EXCEPT ![w] = IF x.i < Len(x.files) THEN [x EXCEPT !.i = x.i + 1, !.at = "apply"]
                                          ELSE [x EXCEPT !.at = "answered"]]
      BY <1>1 DEF QueueOriginLifecycleCommand
    <2> QED
      BY <1>0, <1>8, <2>1
  <1>11. RequestsStay /\ w \in 1 .. Len(action') /\ action'[w] = y
    BY <1>1, <1>9, <1>10, RequestsGoOn
  <1>12. AskedNext(f)
    <2>1. x.i \in 1 .. Len(x.files)
      BY <1>1, FileListed DEF RequestType
    <2> QED
      BY <1>2, <1>9, <1>11, <2>1 DEF AskedNext
  <1>13. CommandsCaused
    BY <1>6, <1>7, <1>12 DEF CommandsCaused
  <1>14. UNCHANGED <<entry, done, local, outbox, phase, reconcile, purge, raced, loop, late>>
    BY DEF QueueOriginLifecycleCommand, agentVars
  <1> QED
    BY <1>11, <1>13, <1>14, QuietFollows

\* A report's effect sends commands only to other Agents than the origin.
LEMMA ChangeCaused ==
    ASSUME Inv, NEW f \in File, NEW op \in Operation, NEW a \in lifecycle,
           NEW n \in Name \cup {NoName}, ChangeEntry(f, op, a, n)
    PROVE  CommandsCaused
  <1>1. \A d \in Device : command'[d] = command[d] \/ (d # Origin[f] /\ command'[d] = Queued(d, f, op, a, n))
    BY DEF ChangeEntry, enqueueLifecycleCommands
  <1>2. ASSUME NEW d \in Device, NEW c \in 1 .. Len(command'[d])
        PROVE  \/ c \in 1 .. Len(command[d]) /\ command'[d][c].file = command[d][c].file
               \/ Origin[command'[d][c].file] # d
    <2>1. PICK q : q = command'[d]
      OBVIOUS
    <2>2. CASE q = command[d]
      BY <2>1, <2>2
    <2>3. CASE d # Origin[f] /\ q = Queued(d, f, op, a, n)
      <3>1. \A b \in 1 .. Len(q) : (b \in 1 .. Len(command[d]) /\ q[b] = command[d][b]) \/ q[b].file = f
        BY <2>3, QueuedFacts
      <3> QED
        BY <2>1, <2>3, <3>1
    <2> QED
      BY <1>1, <2>1, <2>2, <2>3
  <1> QED
    BY <1>2 DEF CommandsCaused

\* What ApplyLifecycleReport does to an entry: the effect of the report if it
\* is new, and nothing if it is not.
LEMMA AppliedEffect ==
    ASSUME Inv, NEW f \in File, NEW op \in Operation, NEW a \in lifecycle,
           NEW n \in Name \cup {NoName}, Applied(f, op, a, n)
    PROVE  /\ done' = done \cup {op}
           /\ \A g \in File : g # f => entry'[g] = entry[g]
           /\ op \in done => entry' = entry
           /\ op \notin done => entry'[f] = [status |-> NewStatus(a),
                                             name |-> IF a = "rename" THEN n ELSE entry[f].name]
           /\ CommandsCaused
  <1>0. entry \in [File -> EntryType]
    BY InvTypes DEF CatalogTyped
  <1>1. CASE op \in done /\ UNCHANGED catalogVars
    BY <1>1, CommandsSame DEF catalogVars
  <1>2. CASE /\ op \notin done /\ ReportOK(f, a, n) /\ ~Changes(f, a)
             /\ done' = done \cup {op} /\ UNCHANGED <<entry, replica, command, effects>>
    <2>1. a # "rename" /\ entry[f].status = NewStatus(a)
      BY <1>2 DEF ReportOK, Changes, NewStatus, lifecycle
    <2>2. PICK x : x = entry[f]
      OBVIOUS
    <2>3. x = [status |-> x.status, name |-> x.name]
      BY <1>0, <2>2 DEF EntryType
    <2>4. entry'[f] = [status |-> NewStatus(a), name |-> IF a = "rename" THEN n ELSE entry[f].name]
      BY <1>2, <2>1, <2>2, <2>3
    <2> QED
      BY <1>2, <2>4, CommandsSame
  <1>3. CASE op \notin done /\ done' = done \cup {op} /\ ChangeEntry(f, op, a, n)
    <2>1. PICK x : x = [status |-> NewStatus(a), name |-> IF a = "rename" THEN n ELSE entry[f].name]
      OBVIOUS
    <2>2. entry' = [entry EXCEPT ![f] = x]
      BY <1>3, <2>1 DEF ChangeEntry
    <2>3. entry'[f] = x /\ \A g \in File : g # f => entry'[g] = entry[g]
      BY <1>0, <2>2
    <2> QED
      BY <1>3, <2>1, <2>3, ChangeCaused
  <1> QED
    BY <1>1, <1>2, <1>3 DEF Applied

\* A client's action changes only an entry that a client acts on.
LEMMA ApplyFileFollows ==
    ASSUME Inv, FollowInv, NEW w \in 1 .. Len(action) + 1, NEW x \in RequestType, x.i \in DOMAIN x.files,
           w \in 1 .. Len(action) => x.files = action[w].files, ApplyFile(w, x)
    PROVE  FollowInv'
  <1>0. w \in Nat
    BY InvTypes, LenProperties DEF RequestsTyped
  <1>1. PICK f \in File, op \in Operation, a \in lifecycle, n \in Name \cup {NoName} :
           f = x.files[x.i] /\ op = ClientOp(w, x) /\ a = x.act /\ n = x.name
    BY <1>0, RequestFacts
  <1>2. Applied(f, op, a, n) \/ UNCHANGED catalogVars
    BY <1>1, Zenon DEF ApplyFile
  <1>3. /\ done' = done \/ done' = done \cup {op}
        /\ \A g \in File : g # f => entry'[g] = entry[g]
        /\ CommandsCaused
    <2>1. CASE Applied(f, op, a, n)
      BY <2>1, AppliedEffect
    <2>2. CASE UNCHANGED catalogVars
      BY <2>2, CommandsSame DEF catalogVars
    <2> QED
      BY <1>2, <2>1, <2>2
  <1>4. PICK at \in {"queue", "error"} :
           LET y == [x EXCEPT !.at = at] IN
           action' = IF w > Len(action) THEN Append(action, y) ELSE [action EXCEPT ![w] = y]
    BY Zenon DEF ApplyFile
  <1>5. PICK y : y = [x EXCEPT !.at = at]
    OBVIOUS
  <1>6. y \in RequestType /\ y.files = x.files
    BY <1>5 DEF RequestType
  <1>7. action' = IF w > Len(action) THEN Append(action, y) ELSE [action EXCEPT ![w] = y]
    BY <1>4, <1>5
  <1>8. RequestsStay /\ w \in 1 .. Len(action') /\ action'[w] = y
    BY <1>6, <1>7, RequestsGoOn
  <1>9. AskedNext(f)
    <2>1. x.i \in 1 .. Len(x.files)
      BY FileListed DEF RequestType
    <2> QED
      BY <1>1, <1>6, <1>8, <2>1 DEF AskedNext
  <1>10. UNCHANGED <<local, outbox, phase, reconcile, purge, raced, loop, late>>
    BY DEF ApplyFile, agentVars
  <1>11. ASSUME NEW g \in File, Undisturbed(g)', Following(g) PROVE Following(g)'
    <2>1. g # f
      BY <1>9, <1>11 DEF Undisturbed, Asked, AskedNext
    <2>2. PICK d \in Device : d = Origin[g]
      BY CatalogAssumption
    <2>3. \A k : OpOf(d, k) # op
      BY <1>1, CatalogAssumption DEF OpOf, ClientOp
    <2>4. SameShape(g) /\ ReportsStay
      BY <1>10, <2>2, StandsKept DEF SameShape, ReportsStay
    <2>5. \A k \in 1 .. Len(outbox[d]) : outbox[d][k].file = g => (OpOf(d, k) \in done' <=> OpOf(d, k) \in done)
      BY <1>3, <2>3
    <2> QED
      BY <1>3, <1>10, <1>11, <2>1, <2>2, <2>4, <2>5, FollowingKept
  <1> QED
    BY <1>3, <1>8, <1>10, <1>11, ServerFollows

\* A new request, and the later files of one under way.
LEMMA ApplyActionsFollow ==
    ASSUME Inv, FollowInv,
           \/ \E fs \in FileLists, a \in lifecycle, n \in Name \cup {NoName} : ApplyCatalogActions(fs, a, n)
           \/ \E w \in 1 .. Len(action) : ApplyNext(w)
    PROVE  FollowInv'
  <1>0. /\ action \in Seq(RequestType) /\ Len(action) \in Nat
        /\ \A v \in 1 .. Len(action) : action[v].i \in DOMAIN action[v].files
    BY InvTypes, LenProperties DEF RequestsTyped
  <1>1. ASSUME NEW fs \in FileLists, NEW a \in lifecycle, NEW n \in Name \cup {NoName}, ApplyCatalogActions(fs, a, n)
        PROVE  FollowInv'
    <2>1. PICK x : x = [files |-> fs, act |-> a, name |-> n, i |-> 1, at |-> "apply"]
      OBVIOUS
    <2>2. x \in RequestType /\ x.files = fs /\ x.i = 1
      BY <2>1 DEF RequestType
    <2>3. x.i \in DOMAIN x.files
      BY <2>2, FileListed
    <2>4. PICK w \in 1 .. Len(action) + 1 : w = Len(action) + 1 /\ w \notin 1 .. Len(action)
      BY <1>0
    <2>5. ApplyFile(w, x)
      BY <1>1, <2>1, <2>4 DEF ApplyCatalogActions
    <2> QED
      BY <2>2, <2>3, <2>4, <2>5, ApplyFileFollows
  <1>2. ASSUME NEW w \in 1 .. Len(action), ApplyNext(w)
        PROVE  FollowInv'
    <2>1. PICK x \in RequestType : x = action[w]
      BY <1>0, ElementOfSeq
    <2>2. ApplyFile(w, x) /\ x.i \in DOMAIN x.files /\ w \in 1 .. Len(action) + 1
      BY <1>0, <1>2, <2>1 DEF ApplyNext
    <2> QED
      BY <2>1, <2>2, ApplyFileFollows
  <1> QED
    BY <1>1, <1>2

\* What an accepted report does: its effect on its file if it is new, nothing
\* if it is not.
LEMMA AcceptedEffect ==
    ASSUME Inv, NEW d \in Device, NEW k \in Nat, NEW r \in Report, NEW op, op = OpOf(d, k), Accepted(d, op, r)
    PROVE  /\ \A g \in File : g # r.file => entry'[g] = entry[g]
           /\ CommandsCaused
           /\ r.kind = "register" => done' = done /\ entry'[r.file] = Effect(entry[r.file], r)
           /\ r.kind # "register" =>
                 /\ Origin[r.file] = d /\ done' = done \cup {op}
                 /\ op \in done => entry' = entry
                 /\ op \notin done => entry'[r.file] = Effect(entry[r.file], r)
  <1>0. entry \in [File -> EntryType]
    BY InvTypes DEF CatalogTyped
  <1>1. op \in Operation /\ r.file \in File /\ r.name \in Name \cup {NoName}
    BY DEF OpOf, Operation, Report
  <1>2. CASE RegisterCatalogFile(d, op, r)
    <2>1. PICK f \in File, n \in Name \cup {NoName} : f = r.file /\ n = r.name
      BY <1>1
    <2>2. r.kind = "register" /\ Registered(f, op, n)
      BY <1>2, <2>1 DEF RegisterCatalogFile
    <2>3. CASE entry[f].status # "none" /\ UNCHANGED catalogVars
      <3>1. UNCHANGED <<entry, done, command>>
        BY <2>3 DEF catalogVars
      <3>2. Effect(entry[f], r) = entry[f]
        BY <2>2, <2>3 DEF Effect
      <3> QED
        BY <2>1, <2>2, <3>1, <3>2, CommandsSame
    <2>4. CASE /\ entry[f].status = "none"
               /\ entry' = [entry EXCEPT ![f] = [status |-> "active", name |-> n]]
               /\ UNCHANGED <<done, command>>
      <3>1. PICK x : x = [status |-> "active", name |-> n]
        OBVIOUS
      <3>2. Effect(entry[f], r) = x
        BY <2>1, <2>2, <2>4, <3>1 DEF Effect
      <3>3. entry' = [entry EXCEPT ![f] = x]
        BY <2>4, <3>1
      <3>4. entry'[f] = x /\ \A g \in File : g # f => entry'[g] = entry[g]
        BY <1>0, <3>3
      <3> QED
        BY <2>1, <2>2, <2>4, <3>2, <3>4, CommandsSame
    <2> QED
      BY <2>2, <2>3, <2>4 DEF Registered
  <1>3. CASE ReportCatalogLifecycle(d, op, r)
    <2>1. r.kind \in lifecycle /\ Origin[r.file] = d /\ Applied(r.file, op, r.kind, r.name)
      BY <1>3 DEF ReportCatalogLifecycle, Found
    <2>2. r.kind # "register"
      BY <2>1 DEF lifecycle
    <2>3. Effect(entry[r.file], r) = [status |-> NewStatus(r.kind),
                                      name |-> IF r.kind = "rename" THEN r.name ELSE entry[r.file].name]
      BY <2>2 DEF Effect
    <2>4. PICK f \in File, a \in lifecycle, n \in Name \cup {NoName} : f = r.file /\ a = r.kind /\ n = r.name
      BY <1>1, <2>1
    <2>5. /\ done' = done \cup {op}
          /\ \A g \in File : g # f => entry'[g] = entry[g]
          /\ op \in done => entry' = entry
          /\ op \notin done => entry'[f] = [status |-> NewStatus(a),
                                            name |-> IF a = "rename" THEN n ELSE entry[f].name]
          /\ CommandsCaused
      BY <1>1, <2>1, <2>4, AppliedEffect
    <2> QED
      BY <2>1, <2>2, <2>3, <2>4, <2>5
  <1> QED
    BY <1>2, <1>3 DEF Accepted

\* The server has taken in one report more.
LEMMA TakenNext ==
    ASSUME Inv, NEW f \in File, NEW d \in Device, d = Origin[f], NEW q, TakenIn(f, q), UNCHANGED outbox,
           NEW k \in 1 .. Len(outbox[d]), k = q + 1,
           \A j \in 1 .. k - 1 : outbox[d][j].status = "completed",
           loop'[d].at = "accepted" => loop'[d].item <= k,
           \A j \in 1 .. Len(outbox[d]) : outbox[d][j].file = f /\ outbox[d][j].kind \in lifecycle =>
               (OpOf(d, j) \in done' <=> OpOf(d, j) \in done \/ j = k)
    PROVE  TakenIn(f, k)'
  <1>1. q \in 0 .. Len(outbox[d]) /\ Len(outbox[d]) \in Nat
    BY InvTypes DEF TakenIn
  <1>2. k \in 0 .. Len(outbox[d]) /\ \A j \in 1 .. Len(outbox[d]) : (j <= k <=> j <= q \/ j = k)
    BY <1>1
  <1>3. \A j \in 1 .. Len(outbox[d]) : outbox[d][j].status = "completed" => j <= k
    BY <1>2 DEF TakenIn
  <1>4. ASSUME NEW j \in 1 .. Len(outbox[d]), outbox[d][j].file = f, outbox[d][j].kind \in lifecycle
        PROVE  OpOf(d, j) \in done' <=> j <= k
    <2>1. OpOf(d, j) \in done <=> j <= q
      BY <1>4 DEF TakenIn
    <2>2. OpOf(d, j) \in done' <=> OpOf(d, j) \in done \/ j = k
      BY <1>4
    <2> QED
      BY <1>2, <2>1, <2>2
  <1> QED
    BY <1>2, <1>3, <1>4 DEF TakenIn, OpOf

\* The server accepts a report, or a late copy of one: a report it has taken
\* in changes nothing, and the next one has its effect.
LEMMA AcceptedFollows ==
    ASSUME Inv, OwnFiles, NEW d \in Device, NEW k \in 1 .. Len(outbox[d]), NEW r \in Report,
           r.kind = outbox[d][k].kind, r.file = outbox[d][k].file, r.name = outbox[d][k].name,
           \A j \in 1 .. k - 1 : outbox[d][j].status \in ended,
           NEW op, op = OpOf(d, k), Accepted(d, op, r), UNCHANGED <<local, outbox, phase, reconcile>>,
           NEW f \in File, Undisturbed(f), Following(f),
           loop'[Origin[f]] = loop[Origin[f]] \/ (Origin[f] = d /\ loop'[d].item = k)
    PROVE  Following(f)'
  <1>0. k \in Nat /\ Len(outbox[d]) \in Nat /\ "register" \notin lifecycle
    BY InvTypes DEF lifecycle
  <1>1. /\ \A g \in File : g # r.file => entry'[g] = entry[g]
        /\ r.kind = "register" => done' = done /\ entry'[r.file] = Effect(entry[r.file], r)
        /\ r.kind # "register" =>
              /\ Origin[r.file] = d /\ done' = done \cup {op}
              /\ op \in done => entry' = entry
              /\ op \notin done => entry'[r.file] = Effect(entry[r.file], r)
    BY <1>0, AcceptedEffect
  <1>2. ReportsStay /\ SameShape(f)
    BY StandsKept, CatalogAssumption DEF ReportsStay, SameShape
  <1>3. \A a, j : OpOf(a, j) = op => a = d /\ j = k
    BY DEF OpOf
  <1>4. done' = done \/ done' = done \cup {op}
    BY <1>1
  <1>5. CASE Origin[f] # d
    <2>1. PICK a \in Device : a = Origin[f]
      BY CatalogAssumption
    <2>2. r.file # f
      BY <1>1, <1>5 DEF OwnFiles
    <2>3. \A j \in 1 .. Len(outbox[a]) : outbox[a][j].file = f => (OpOf(a, j) \in done' <=> OpOf(a, j) \in done)
      BY <1>3, <1>4, <1>5, <2>1
    <2> QED
      BY <1>1, <1>2, <1>5, <2>1, <2>2, <2>3, FollowingKept
  <1>6. CASE Origin[f] = d
    <2>1. PICK h, q : /\ Replays(f, h) /\ TakenIn(f, q) /\ Shown(entry[f], h[q])
                      /\ Standing(f, h[Len(outbox[Origin[f]])])
      BY DEF Following
    <2>2. \A j \in 1 .. k - 1 : outbox[d][j].status = "completed"
      <3>1. \A j \in 1 .. k - 1 : j \in 1 .. Len(outbox[d])
        BY <1>0
      <3> QED
        BY <1>6, <3>1 DEF Undisturbed, ended
    <2>3. q \in 0 .. Len(outbox[d]) /\ (k <= q \/ k = q + 1)
      <3>1. q \in 0 .. Len(outbox[d]) /\ \A j \in 1 .. Len(outbox[d]) : outbox[d][j].status = "completed" => j <= q
        BY <1>6, <2>1 DEF TakenIn
      <3>2. CASE k = 1
        BY <1>0, <3>1, <3>2
      <3>3. CASE k # 1
        <4>1. k - 1 \in 1 .. k - 1 /\ k - 1 \in 1 .. Len(outbox[d])
          BY <1>0, <3>3
        <4>2. k - 1 <= q
          BY <2>2, <3>1, <4>1
        <4> QED
          BY <1>0, <3>1, <4>2
      <3> QED
        BY <3>2, <3>3
    <2>4. loop[d].at = "accepted" => loop[d].item <= q
      BY <1>6, <2>1 DEF TakenIn
    <2>5. \A j \in 1 .. Len(outbox[d]) : outbox[d][j].file = f /\ outbox[d][j].kind \in lifecycle =>
             (OpOf(d, j) \in done <=> j <= q)
      BY <1>6, <2>1 DEF TakenIn
    <2>6. /\ h[k] = IF outbox[d][k].file = f THEN Effect(h[k - 1], outbox[d][k]) ELSE h[k - 1]
          /\ outbox[d][k].file = f => \A j \in k .. Len(outbox[d]) : h[j].status # "none"
      BY <1>6, <2>1 DEF Replays
    <2>7. CASE k <= q
      <3>1. r.file = f => (r.kind # "register" => op \in done)
        BY <2>5, <2>7 DEF Report
      <3>2. entry'[f] = entry[f]
        <4>1. CASE r.file # f
          BY <1>1, <4>1
        <4>2. CASE r.file = f /\ r.kind # "register"
          BY <1>1, <3>1, <4>2
        <4>3. CASE r.file = f /\ r.kind = "register"
          <5>1. h[q].status # "none"
            BY <1>0, <2>3, <2>6, <2>7, <4>3
          <5>2. entry[f].status # "none"
            BY <2>1, <5>1 DEF Shown
          <5> QED
            BY <1>1, <4>3, <5>2 DEF Effect
        <4> QED
          BY <4>1, <4>2, <4>3
      <3>3. \A j \in 1 .. Len(outbox[d]) : outbox[d][j].file = f => (OpOf(d, j) \in done' <=> OpOf(d, j) \in done)
        BY <1>1, <1>3, <3>1
      <3>4. loop'[d].at = "accepted" => loop'[d].item <= q
        BY <1>6, <2>4, <2>7
      <3>5. \A j \in 1 .. Len(outbox[d]) : outbox'[d][j].status = "completed" => j <= q
        BY <1>6, <2>1 DEF TakenIn
      <3>6. TakenIn(f, q)'
        BY <1>2, <1>6, <2>1, <3>3, <3>4, <3>5, TakenKept
      <3> QED
        BY <1>2, <2>1, <3>2, <3>6, FollowingMoves
    <2>8. CASE k = q + 1
      <3>1. k - 1 = q /\ ~(k <= q)
        BY <2>3, <2>8
      <3>2. r.file = f => (r.kind # "register" => op \notin done)
        BY <2>5, <3>1 DEF Report
      <3>3. Shown(entry'[f], h[k])
        <4>1. CASE r.file # f
          BY <1>1, <2>1, <2>6, <3>1, <4>1
        <4>2. CASE r.file = f
          <5>1. entry'[f] = Effect(entry[f], r)
            BY <1>1, <3>2, <4>2
          <5>2. h[k] = Effect(h[q], r)
            BY <2>6, <3>1, <4>2 DEF Effect
          <5>3. CASE entry[f] = h[q]
            BY <5>1, <5>2, <5>3 DEF Shown
          <5>4. CASE entry[f].status = "none" /\ h[q].status = "none"
            <6>1. r.kind = "register"
              BY <4>2, <5>4 DEF Accepted, ReportCatalogLifecycle, RegisterCatalogFile, Found
            <6> QED
              BY <5>1, <5>2, <5>4, <6>1 DEF Effect, Shown
          <5> QED
            BY <2>1, <5>3, <5>4 DEF Shown
        <4> QED
          BY <4>1, <4>2
      <3>4. ASSUME NEW j \in 1 .. Len(outbox[d]), outbox[d][j].file = f, outbox[d][j].kind \in lifecycle
            PROVE  OpOf(d, j) \in done' <=> OpOf(d, j) \in done \/ j = k
        <4>1. CASE j = k
          BY <1>0, <1>1, <3>4, <4>1
        <4>2. CASE j # k
          BY <1>3, <1>4, <4>2
        <4> QED
          BY <4>1, <4>2
      <3>5. loop'[d].at = "accepted" => loop'[d].item <= k
        <4>1. CASE loop'[d] = loop[d] /\ loop[d].at = "accepted"
          <5>1. loop[d].item \in Nat
            BY InvTypes DEF LoopType
          <5> QED
            BY <1>0, <2>3, <2>4, <2>8, <4>1, <5>1
        <4>2. CASE loop'[d].item = k
          BY <1>0, <4>2
        <4> QED
          BY <1>6, <4>1, <4>2
      <3>6. TakenIn(f, k)'
        <4>1. /\ d = Origin[f] /\ TakenIn(f, q) /\ UNCHANGED outbox
              /\ \A j \in 1 .. Len(outbox[d]) : outbox[d][j].file = f /\ outbox[d][j].kind \in lifecycle =>
                    (OpOf(d, j) \in done' <=> OpOf(d, j) \in done \/ j = k)
          BY <1>6, <2>1, <3>4
        <4> QED
          BY ONLY Inv, <2>2, <2>8, <3>5, <4>1, TakenNext
      <3> QED
        BY <1>2, <2>1, <3>3, <3>6, FollowingMoves
    <2> QED
      BY <2>3, <2>7, <2>8
  <1> QED
    BY <1>5, <1>6

\* The server answers the report at hand.
LEMMA ServeFollows ==
    ASSUME Inv, FollowInv, NEW d \in Device, Serve(d)
    PROVE  FollowInv'
  <1>1. loop[d].at = "sent" /\ loop[d].at \in reporting /\ loop \in [Device -> LoopType]
    BY InvTypes DEF Serve, reporting
  <1>2. PICK k \in 1 .. Len(outbox[d]) : k = loop[d].item
    BY <1>1, InvTypes DEF ItemsExist
  <1>a. k \in Nat
    BY InvTypes
  <1>3. PICK r \in Report : r = outbox[d][k]
    BY InvTypes, ElementOfSeq
  <1>4. PICK op : op = OpOf(d, k)
    OBVIOUS
  <1>5. \A j \in 1 .. k - 1 : outbox[d][j].status \in ended
    BY <1>1, <1>2 DEF FollowInv, SentInOrder
  <1>6. UNCHANGED <<local, outbox, phase, reconcile, purge, raced, late, action>>
    BY DEF Serve, agentVars
  <1>7. RequestsStay /\ ReportsStay /\ OwnFiles
    BY <1>6, RequestsSame DEF FollowInv, ReportsStay
  <1>8. CASE Accepted(d, op, r) /\ At(d, "accepted", k)
    <2>1. /\ loop'[d].at = "accepted" /\ loop'[d].item = k
          /\ \A a \in Device : a # d => loop'[a] = loop[a]
      BY <1>1, <1>8 DEF At
    <2>2. CommandsCaused
      BY <1>a, <1>4, <1>8, AcceptedEffect
    <2>3. ASSUME NEW f \in File, Undisturbed(f), Following(f) PROVE Following(f)'
      <3>1. loop'[Origin[f]] = loop[Origin[f]] \/ (Origin[f] = d /\ loop'[d].item = k)
        BY <2>1, CatalogAssumption
      <3> QED
        BY <1>3, <1>4, <1>5, <1>6, <1>7, <1>8, <2>3, <3>1, AcceptedFollows
    <2>4. \A a \in Device : \/ loop'[a] = loop[a]
                            \/ loop[a].at \in reporting /\ loop'[a].at \in reporting /\ loop'[a].item = loop[a].item
      BY <1>1, <1>2, <2>1 DEF reporting
    <2> QED
      BY <1>6, <1>7, <2>2, <2>3, <2>4, ServerFollows
  <1>9. CASE Rejected(d, op, r) /\ At(d, "rejected", k)
    <2>1. /\ loop'[d].at = "rejected" /\ loop'[d].item = k
          /\ \A a \in Device : a # d => loop'[a] = loop[a]
      BY <1>1, <1>9 DEF At
    <2>2. UNCHANGED <<entry, done, command>>
      BY <1>9 DEF Rejected, catalogVars
    <2>3. ASSUME NEW f \in File, Following(f) PROVE Following(f)'
      <3>1. PICK a \in Device : a = Origin[f]
        BY CatalogAssumption
      <3>2. loop'[a].at = "accepted" => loop'[a] = loop[a]
        BY <2>1
      <3>3. SameShape(f)
        BY <1>6, <3>1, StandsKept DEF SameShape
      <3> QED
        BY <1>6, <1>7, <2>2, <2>3, <3>1, <3>2, <3>3, FollowingKept
    <2>4. \A a \in Device : \/ loop'[a] = loop[a]
                            \/ loop[a].at \in reporting /\ loop'[a].at \in reporting /\ loop'[a].item = loop[a].item
      BY <1>1, <1>2, <2>1 DEF reporting
    <2> QED
      BY <1>6, <1>7, <2>2, <2>3, <2>4, CommandsSame, ServerFollows
  <1> QED
    BY <1>2, <1>3, <1>4, <1>8, <1>9, Zenon DEF Serve

\* The server answers a request nobody waits for.
LEMMA ServeLateFollows ==
    ASSUME Inv, FollowInv, NEW x \in late, ServeLate(x)
    PROVE  FollowInv'
  <1>1. CopyOf(x)
    BY InvTypes DEF LateSent
  <1>2. PICK d \in Device, k \in Nat, r \in Report : d = x[1] /\ k = x[2] /\ r = x[3]
    BY <1>1 DEF CopyOf
  <1>3. /\ k \in 1 .. Len(outbox[d])
        /\ r.kind = outbox[d][k].kind /\ r.file = outbox[d][k].file /\ r.name = outbox[d][k].name
        /\ \A j \in 1 .. k - 1 : outbox[d][j].status \in ended
    BY <1>1, <1>2 DEF CopyOf, FollowInv, LateInOrder
  <1>4. PICK op : op = OpOf(d, k)
    OBVIOUS
  <1>5. UNCHANGED <<local, outbox, phase, reconcile, purge, raced, loop, action>> /\ late' \subseteq late
    BY DEF ServeLate, agentVars
  <1>6. RequestsStay /\ ReportsStay /\ OwnFiles
    BY <1>5, RequestsSame DEF FollowInv, ReportsStay
  <1>7. CASE Accepted(d, op, r)
    <2>1. CommandsCaused
      BY <1>4, <1>7, AcceptedEffect
    <2>2. ASSUME NEW f \in File, Undisturbed(f), Following(f) PROVE Following(f)'
      BY <1>3, <1>4, <1>5, <1>6, <1>7, <2>2, AcceptedFollows
    <2> QED
      BY <1>5, <1>6, <2>1, <2>2, ServerFollows
  <1>8. CASE Rejected(d, op, r)
    <2>1. UNCHANGED <<entry, done, command>>
      BY <1>8 DEF Rejected, catalogVars
    <2>2. ASSUME NEW f \in File, Following(f) PROVE Following(f)'
      <3>1. PICK a \in Device : a = Origin[f]
        BY CatalogAssumption
      <3>2. SameShape(f)
        BY <1>5, <3>1, StandsKept DEF SameShape
      <3> QED
        BY <1>5, <1>6, <2>1, <2>2, <3>1, <3>2, FollowingKept
    <2> QED
      BY <1>5, <1>6, <2>1, <2>2, CommandsSame, ServerFollows
  <1> QED
    BY <1>2, <1>4, <1>7, <1>8 DEF ServeLate

\* A report under way gets another status.
LEMMA MarkStays ==
    ASSUME Inv, NEW d \in Device, NEW k \in 1 .. Len(outbox[d]), outbox[d][k].status \notin ended,
           NEW st \in {"pending", "processing", "completed", "failed"}, Mark(d, k, st)
    PROVE  /\ ReportsStay
           /\ \A a \in Device : Len(outbox'[a]) = Len(outbox[a])
           /\ \A a \in Device : \A j \in 1 .. Len(outbox[a]) :
                 outbox'[a][j].status = IF a = d /\ j = k THEN st ELSE outbox[a][j].status
  <1>1. outbox \in [Device -> Seq(Report)] /\ outbox[d] \in Seq(Report)
    BY InvTypes
  <1>2. outbox[d][k] \in Report
    BY <1>1, ElementOfSeq
  <1>3. PICK e : e = [outbox[d][k] EXCEPT !.status = st]
    OBVIOUS
  <1>4. /\ e \in Report /\ e.kind = outbox[d][k].kind /\ e.file = outbox[d][k].file
        /\ e.name = outbox[d][k].name /\ e.status = st
    BY <1>2, <1>3 DEF Report
  <1>5. PICK h : h = outbox'
    OBVIOUS
  <1>6. h = [outbox EXCEPT ![d] = [outbox[d] EXCEPT ![k] = e]]
    BY <1>3, <1>5 DEF Mark
  <1>7. /\ \A a \in Device : Len(h[a]) = Len(outbox[a])
        /\ \A a \in Device : \A j \in 1 .. Len(outbox[a]) :
              h[a][j] = IF a = d /\ j = k THEN e ELSE outbox[a][j]
    BY <1>1, <1>4, <1>6, SeqUpdate
  <1>8. ReportsStay
    BY <1>4, <1>5, <1>7 DEF ReportsStay
  <1> QED
    BY <1>4, <1>5, <1>7, <1>8

\* The loop takes up a report, or puts it away.
LEMMA ReportStepFollows ==
    ASSUME Inv, FollowInv, NEW d \in Device, NEW k \in 1 .. Len(outbox[d]), outbox[d][k].status \notin ended,
           NEW st \in {"pending", "processing", "completed", "failed"}, Mark(d, k, st),
           NEW where \in {"rest", "sent"}, NEW i, At(d, where, i),
           where = "sent" => i = k /\ st = "processing" /\ \A j \in 1 .. k - 1 : outbox[d][j].status \in ended,
           st = "completed" => loop[d].at = "accepted" /\ loop[d].item = k,
           where = "sent" => outbox[d][k].status = "pending",
           purge' \subseteq purge, \A p \in purge' : ~(p.device = d /\ p.item = k),
           UNCHANGED <<entry, done, command, local, phase, reconcile, action, raced>>,
           \A x \in late' : x \in late \/ LateNext(x)
    PROVE  FollowInv'
  <1>1. /\ ReportsStay
        /\ \A a \in Device : Len(outbox'[a]) = Len(outbox[a])
        /\ \A a \in Device : \A j \in 1 .. Len(outbox[a]) :
              outbox'[a][j].status = IF a = d /\ j = k THEN st ELSE outbox[a][j].status
    BY MarkStays
  <1>2. loop'[d] = [at |-> where, item |-> i] /\ \A a \in Device : a # d => loop'[a] = loop[a]
    BY InvTypes DEF At
  <1>3. SentInOrder'
    <2>1. ASSUME NEW a \in Device, loop'[a].at \in reporting
          PROVE  /\ outbox'[a][loop'[a].item].status = "processing"
                 /\ \A j \in 1 .. loop'[a].item - 1 : outbox'[a][j].status \in ended
      <3>1. CASE a = d
        <4>1. where = "sent" /\ i = k /\ loop'[a].item = k
          BY <1>2, <2>1, <3>1 DEF reporting
        <4>2. \A j \in 1 .. k - 1 : j \in 1 .. Len(outbox[d])
          BY InvTypes
        <4> QED
          BY <1>1, <3>1, <4>1, <4>2 DEF ReportsStay
      <3>2. CASE a # d
        <4>1. PICK m \in 1 .. Len(outbox[a]) : m = loop[a].item /\ m = loop'[a].item
          BY <1>2, <2>1, <3>2, InvTypes DEF ItemsExist
        <4>2. /\ outbox[a][m].status = "processing"
              /\ \A j \in 1 .. m - 1 : outbox[a][j].status \in ended
          BY <1>2, <2>1, <3>2, <4>1 DEF FollowInv, SentInOrder
        <4>3. \A j \in 1 .. m - 1 : j \in 1 .. Len(outbox[a])
          BY InvTypes
        <4> QED
          BY <1>1, <3>2, <4>1, <4>2, <4>3
      <3> QED
        BY <3>1, <3>2
    <2> QED
      BY <2>1 DEF SentInOrder
  <1>4. LateInOrder'
    BY <1>1, LateKept DEF FollowInv
  <1>5. OwnFiles'
    <2>2. ASSUME NEW a \in Device, NEW j \in 1 .. Len(outbox'[a]), outbox'[a][j].kind = "register"
          PROVE  Origin[outbox'[a][j].file] = a
      <3>1. /\ j \in 1 .. Len(outbox[a])
            /\ outbox'[a][j].kind = outbox[a][j].kind /\ outbox'[a][j].file = outbox[a][j].file
        BY <1>1 DEF ReportsStay
      <3> QED
        BY <2>2, <3>1 DEF FollowInv, OwnFiles
    <2> QED
      BY <2>2 DEF FollowInv, OwnFiles
  <1>6. ReadIsCurrent'
    BY ReadKept DEF FollowInv
  <1>7. ASSUME NEW f \in File, Following(f) PROVE Following(f)'
    <2>1. PICK a \in Device : a = Origin[f]
      BY CatalogAssumption
    <2>2. SameShape(f)
      BY <1>1, <2>1, StandsKept DEF SameShape
    <2>3. loop'[a].at = "accepted" => loop'[a] = loop[a]
      BY <1>2
    <2>4. \A j \in 1 .. Len(outbox[a]) : outbox'[a][j].status = "completed" =>
             outbox[a][j].status = "completed" \/ (loop[a].at = "accepted" /\ loop[a].item = j)
      BY <1>1
    <2> QED
      BY <1>1, <1>7, <2>1, <2>2, <2>3, <2>4, FollowingKept
  <1>8. PurgesHold'
    <2>1. \A p \in purge' : outbox'[p.device][p.item].status = outbox[p.device][p.item].status
      BY <1>1, InvTypes DEF Purge, ItemsExist
    <2>2. \A a \in Device : \/ loop'[a].at \notin reporting
                            \/ loop[a].at \in reporting /\ loop'[a].item = loop[a].item
                            \/ outbox[a][loop'[a].item].status # "processing"
      BY <1>2 DEF reporting
    <2> QED
      BY <2>1, <2>2, PurgesKept DEF FollowInv
  <1> QED
    BY <1>1, <1>3, <1>4, <1>5, <1>6, <1>7, <1>8, RequestsSame, CommandsSame, FollowRecombined

\* The oldest report is sent.
LEMMA DeliverFollows ==
    ASSUME Inv, FollowInv, NEW d \in Device, Deliver(d)
    PROVE  FollowInv'
  <1>1. PICK k \in 1 .. Len(outbox[d]) :
           /\ Mark(d, k, "processing") /\ At(d, "sent", k)
           /\ outbox[d][k].status = "pending"
           /\ \A j \in 1 .. k - 1 : outbox[d][j].status \in ended
    BY DEF Deliver, Oldest, ended
  <1>2. PICK st \in {"pending", "processing", "completed", "failed"}, where \in {"rest", "sent"} :
           st = "processing" /\ where = "sent"
    OBVIOUS
  <1>3. Mark(d, k, st) /\ At(d, where, k) /\ outbox[d][k].status \notin ended
    BY <1>1, <1>2 DEF ended
  <1>4. UNCHANGED <<entry, done, command, local, phase, reconcile, purge, action, raced, late>>
    BY DEF Deliver, catalogVars, otherVars
  <1>5. \A p \in purge : ~(p.device = d /\ p.item = k)
    BY <1>1 DEF FollowInv, PurgesHold
  <1> QED
    BY <1>1, <1>2, <1>3, <1>4, <1>5, ReportStepFollows

\* The answer is stored, or the report is released.
LEMMA MarkFollows ==
    ASSUME Inv, FollowInv, NEW d \in Device, MarkOpCompleted(d) \/ MarkOpFailed(d) \/ MarkOpRetryable(d)
    PROVE  FollowInv'
  <1>1. loop[d].at \in reporting
    BY DEF MarkOpCompleted, MarkOpFailed, MarkOpRetryable, reporting
  <1>2. PICK k \in 1 .. Len(outbox[d]) : k = loop[d].item
    BY <1>1, InvTypes DEF ItemsExist
  <1>3. outbox[d][k].status \notin ended /\ \A j \in 1 .. k - 1 : outbox[d][j].status \in ended
    BY <1>1, <1>2 DEF FollowInv, SentInOrder, ended
  <1>4. PICK where \in {"rest", "sent"}, i \in Nat : where = "rest" /\ i = 0
    OBVIOUS
  <1>5. PICK st \in {"pending", "processing", "completed", "failed"} :
           Mark(d, k, st) /\ (st = "completed" => loop[d].at = "accepted")
    BY <1>2 DEF MarkOpCompleted, MarkOpFailed, MarkOpRetryable
  <1>6. At(d, where, i)
    BY <1>4 DEF MarkOpCompleted, MarkOpFailed, MarkOpRetryable
  <1>7. /\ UNCHANGED <<entry, done, command, local, phase, reconcile, purge, action, raced>>
        /\ late' = late \/ late' = late \cup {<<d, k, outbox[d][k]>>}
    BY <1>2 DEF MarkOpCompleted, MarkOpFailed, MarkOpRetryable, catalogVars, otherVars
  <1>8. LateNext(<<d, k, outbox[d][k]>>)
    <2>1. ReportsStay
      BY <1>3, <1>5, MarkStays
    <2>2. \A j \in 1 .. k - 1 : j \in 1 .. Len(outbox[d])
      BY InvTypes
    <2> QED
      BY <1>3, <2>1, <2>2 DEF ReportsStay, LateNext
  <1>9. \A x \in late' : x \in late \/ LateNext(x)
    BY <1>7, <1>8
  <1>10. \A p \in purge : ~(p.device = d /\ p.item = k)
    BY <1>1, <1>2 DEF FollowInv, PurgesHold
  <1> QED
    BY <1>2, <1>3, <1>4, <1>5, <1>6, <1>7, <1>9, <1>10, ReportStepFollows

\* A report is added, of a change of the origin or of what its row says.
LEMMA EnqueueFollows ==
    ASSUME Inv, FollowInv, NEW d \in Device, NEW e \in Report, Added(d, e), e.status \notin ended,
           e.kind = "register" => Origin[e.file] = d,
           UNCHANGED <<entry, done, command, loop, late, action>>, raced \subseteq raced', ReadIsCurrent',
           \A a \in Device : \A i \in 1 .. Len(reconcile'[a]) :
               Origin[reconcile'[a][i].file] = a /\ phase'[a] = "reconciling",
           \/ UNCHANGED purge
           \/ e.status = "processing" /\ \E p \in Purge : /\ p.device = d /\ p.item = Len(outbox[d]) + 1
                                                          /\ purge' = purge \cup {p},
           \A g \in File : Undisturbed(g)' =>
               IF d = Origin[g] /\ e.file = g THEN \A x \in EntryType : Standing(g, x) => Standing(g, Effect(x, e))'
                                             ELSE Stands(g)
    PROVE  FollowInv'
  <1>1. /\ ReportsStay
        /\ \A a \in Device : \A k \in 1 .. Len(outbox[a]) : outbox'[a][k] = outbox[a][k]
        /\ Len(outbox'[d]) = Len(outbox[d]) + 1 /\ outbox'[d][Len(outbox[d]) + 1] = e
        /\ \A a \in Device : a # d => outbox'[a] = outbox[a]
    BY AddedStays
  <1>2. SentInOrder'
    <2>1. \A a \in Device : loop[a].at \in reporting =>
             outbox'[a][loop[a].item].status = outbox[a][loop[a].item].status
      BY <1>1, InvTypes DEF ItemsExist
    <2> QED
      BY <1>1, <2>1, SentKept DEF FollowInv
  <1>3. LateInOrder'
    BY <1>1, LateKept DEF FollowInv
  <1>4. OwnFiles'
    <2>1. ASSUME NEW a \in Device, NEW j \in 1 .. Len(outbox'[a]), outbox'[a][j].kind = "register"
          PROVE  Origin[outbox'[a][j].file] = a
      <3>1. CASE j \in 1 .. Len(outbox[a])
        BY <1>1, <2>1, <3>1 DEF FollowInv, OwnFiles
      <3>2. CASE a = d /\ j = Len(outbox[d]) + 1
        BY <1>1, <2>1, <3>2
      <3>3. j \in 1 .. Len(outbox[a]) \/ (a = d /\ j = Len(outbox[d]) + 1)
        BY <1>1, InvTypes
      <3> QED
        BY <3>1, <3>2, <3>3
    <2> QED
      BY <2>1 DEF OwnFiles
  <1>5. ASSUME NEW g \in File, Undisturbed(g)', Following(g) PROVE Following(g)'
    <2>1. IF d = Origin[g] /\ e.file = g THEN \A x \in EntryType : Standing(g, x) => Standing(g, Effect(x, e))'
                                        ELSE Stands(g)
      BY <1>5
    <2>2. e.status # "completed"
      BY DEF ended
    <2> QED
      BY <1>5, <2>1, <2>2, AddedFollows
  <1>6. PurgesHold'
    <2>1. \A r \in purge : /\ r.device \in Device /\ r.item \in 1 .. Len(outbox[r.device])
                           /\ outbox'[r.device][r.item].status = "processing"
                           /\ ~(loop[r.device].at \in reporting /\ loop[r.device].item = r.item)
      BY <1>1, InvTypes DEF Purge, ItemsExist, FollowInv, PurgesHold
    <2>2. CASE UNCHANGED purge
      BY <2>1, <2>2 DEF FollowInv, PurgesHold
    <2>3. ASSUME e.status = "processing", NEW p \in Purge, p.device = d, p.item = Len(outbox[d]) + 1,
                 purge' = purge \cup {p}
          PROVE  PurgesHold'
      <3>1. /\ outbox'[p.device][p.item].status = "processing"
            /\ ~(loop[p.device].at \in reporting /\ loop[p.device].item = p.item)
            /\ \A r \in purge : ~(r.device = p.device /\ r.item = p.item)
        BY <1>1, <2>1, <2>3, InvTypes DEF ItemsExist
      <3> QED
        BY <2>1, <2>3, <3>1 DEF FollowInv, PurgesHold
    <2> QED
      BY <2>2, <2>3
  <1> QED
    BY <1>1, <1>2, <1>3, <1>4, <1>5, <1>6, RequestsSame, CommandsSame, FollowRecombined

\* A row of an Agent changes.
LEMMA SetLocalFacts ==
    ASSUME Inv, NEW d \in Device, NEW f \in File, NEW st, NEW n, SetLocal(d, f, st, n)
    PROVE  \A a \in Device : \A g \in File :
               local'[a][g] = IF a = d /\ g = f THEN [status |-> st, name |-> n] ELSE local[a][g]
  <1>1. local \in [Device -> [File -> RowType]]
    BY InvTypes DEF LocalTyped
  <1>2. PICK x : x = [status |-> st, name |-> n]
    OBVIOUS
  <1>3. PICK h : h = [local[d] EXCEPT ![f] = x]
    OBVIOUS
  <1>4. local' = [local EXCEPT ![d] = h]
    BY <1>2, <1>3 DEF SetLocal
  <1>5. \A g \in File : h[g] = IF g = f THEN x ELSE local[d][g]
    BY <1>1, <1>3
  <1>6. \A a \in Device : local'[a] = IF a = d THEN h ELSE local[a]
    BY <1>1, <1>4
  <1> QED
    BY <1>2, <1>5, <1>6

\* What was read for a file that does not race is still so.
LEMMA ReadAfter ==
    ASSUME Inv, FollowInv, NEW d \in Device, NEW f \in File, NEW st, NEW n, SetLocal(d, f, st, n),
           raced \subseteq raced', Reconciling(d, f) => f \in raced' \/ local[d][f].status = "purging",
           UNCHANGED reconcile
    PROVE  ReadIsCurrent'
  <1>1. \A a \in Device : \A g \in File : a # d \/ g # f => local'[a][g] = local[a][g]
    <2>1. \A a \in Device : \A g \in File :
             local'[a][g] = IF a = d /\ g = f THEN [status |-> st, name |-> n] ELSE local[a][g]
      BY SetLocalFacts
    <2> QED
      BY <2>1
  <1>2. ASSUME NEW a \in Device, NEW i \in 1 .. Len(reconcile[a])
        PROVE  \/ reconcile[a][i].file \in raced'
               \/ local'[a][reconcile[a][i].file] = local[a][reconcile[a][i].file]
               \/ local[a][reconcile[a][i].file].status = "purging"
    <2>1. PICK g \in File : g = reconcile[a][i].file
      <3>1. reconcile[a] \in Seq(ItemType)
        BY InvTypes
      <3>2. reconcile[a][i] \in ItemType
        BY <3>1, ElementOfSeq
      <3> QED
        BY <3>2 DEF ItemType
    <2>2. CASE a = d /\ g = f
      <3>1. Reconciling(d, f)
        BY <2>1, <2>2 DEF Reconciling
      <3> QED
        BY <2>1, <2>2, <3>1
    <2>3. CASE a # d \/ g # f
      BY <1>1, <2>1, <2>3
    <2> QED
      BY <2>2, <2>3
  <1> QED
    BY <1>2, ReadKept DEF FollowInv

\* What the user of the origin may do with a file, and what becomes of it.
Allowed(row, k, st, n) ==
    \/ k = "register" /\ row.status = "none" /\ st = "active"
    \/ k = "rename" /\ row.status = "active" /\ st = "active"
    \/ k = "trash" /\ row.status = "active" /\ st = "trashed" /\ n = row.name
    \/ k = "restore" /\ row.status = "trashed" /\ st = "active" /\ n = row.name
    \/ k = "purge" /\ row.status \in {"trashed", "purging"} /\ st = "purging" /\ n = row.name

\* A user changes a file of an Agent.
LEMMA ChangeFollows ==
    ASSUME Inv, FollowInv, NEW d \in Device, NEW f \in File, NEW k \in lifecycle \cup {"register"},
           NEW st \in LocalStatuses, NEW n \in Name \cup {NoName}, NEW reported \in {"pending", "processing"},
           Change(d, f, k, st, n, reported), Allowed(local[d][f], k, st, n),
           k = "register" => Origin[f] = d,
           \/ UNCHANGED purge
           \/ /\ reported = "processing"
              /\ purge' = purge \cup {[device |-> d, file |-> f, item |-> Len(outbox[d]) + 1, at |-> "delete"]}
    PROVE  FollowInv'
  <1>1. PICK m \in Name \cup {NoName}, yes \in BOOLEAN :
           m = (IF k \in {"register", "rename"} THEN n ELSE NoName) /\ yes = TRUE
    OBVIOUS
  <1>2. PICK e : e = [kind |-> k, file |-> f, name |-> m, identified |-> yes, status |-> reported]
    OBVIOUS
  <1>3. e \in Report /\ e.kind = k /\ e.file = f /\ e.name = m /\ e.status = reported /\ e.status \notin ended
    BY <1>2 DEF Report, ended
  <1>4. Added(d, e)
    BY <1>1, <1>2 DEF Change, EnqueueWithStatus, Added
  <1>5. /\ UNCHANGED <<entry, done, command, loop, late, action, phase, reconcile>>
        /\ SetLocal(d, f, st, n)
        /\ raced' = IF Reconciling(d, f) THEN raced \cup {f} ELSE raced
    BY DEF Change, catalogVars
  <1>6. \A a \in Device : \A g \in File :
           local'[a][g] = IF a = d /\ g = f THEN [status |-> st, name |-> n] ELSE local[a][g]
    BY <1>5, SetLocalFacts
  <1>7. ReadIsCurrent' /\ raced \subseteq raced'
    <2>1. raced \subseteq raced' /\ (Reconciling(d, f) => f \in raced')
      BY <1>5
    <2> QED
      BY <1>5, <2>1, ReadAfter
  <1>8. ASSUME NEW x \in EntryType, d = Origin[f], Standing(f, x) PROVE Standing(f, Effect(x, e))'
    <2>1. x.name = local[d][f].name /\ (k = "register" => x.status = "none")
      BY <1>8 DEF Standing, StatusOf, Allowed
    <2>2. PICK y : y = Effect(x, e)
      OBVIOUS
    <2>3. y.name = n /\ y.status = IF st = "purging" THEN "purged" ELSE st
      <3>1. CASE k = "register"
        BY <1>1, <1>3, <2>1, <2>2, <3>1 DEF Effect, Allowed
      <3>2. CASE k = "rename"
        BY <1>1, <1>3, <2>2, <3>2 DEF Effect, Allowed, NewStatus
      <3>3. CASE k \notin {"register", "rename"}
        BY <1>3, <2>1, <2>2, <3>3 DEF Effect, Allowed, NewStatus
      <3> QED
        BY <3>1, <3>2, <3>3
    <2>4. local'[d][f].name = n /\ local'[d][f].status = st
      BY <1>6
    <2>5. Standing(f, y)'
      BY <1>8, <2>3, <2>4 DEF Standing, StatusOf
    <2> QED
      BY <2>2, <2>5
  <1>9. ASSUME NEW g \in File
        PROVE  IF d = Origin[g] /\ e.file = g THEN \A x \in EntryType : Standing(g, x) => Standing(g, Effect(x, e))'
                                             ELSE Stands(g)
    <2>1. CASE d = Origin[g] /\ g = f
      BY <1>3, <1>8, <2>1
    <2>2. CASE ~(d = Origin[g] /\ g = f)
      <3>1. PICK a \in Device : a = Origin[g]
        BY CatalogAssumption
      <3>2. local'[a][g] = local[a][g]
        BY <1>6, <2>2, <3>1
      <3>3. Stands(g)
        BY <1>5, <3>1, <3>2, StandsKept
      <3> QED
        BY <1>3, <2>2, <3>3
    <2> QED
      BY <2>1, <2>2
  <1>10. \A a \in Device : \A i \in 1 .. Len(reconcile'[a]) :
            Origin[reconcile'[a][i].file] = a /\ phase'[a] = "reconciling"
    BY <1>5 DEF FollowInv, OwnFiles
  <1>11. \/ UNCHANGED purge
         \/ e.status = "processing" /\ \E p \in Purge : /\ p.device = d /\ p.item = Len(outbox[d]) + 1
                                                        /\ purge' = purge \cup {p}
    <2>1. PICK p : p = [device |-> d, file |-> f, item |-> Len(outbox[d]) + 1, at |-> "delete"]
      OBVIOUS
    <2>2. p \in Purge /\ p.device = d /\ p.item = Len(outbox[d]) + 1
      BY <2>1, InvTypes DEF Purge
    <2> QED
      BY <1>3, <2>1, <2>2
  <1>12. e.kind = "register" => Origin[e.file] = d
    BY <1>3
  <1> QED
    BY <1>3, <1>4, <1>5, <1>7, <1>9, <1>10, <1>11, <1>12, EnqueueFollows

\* A row changes that the catalog does not follow: a copy, a file a client
\* acts on, or one whose purge ends.
LEMMA RowFollows ==
    ASSUME Inv, FollowInv, NEW d \in Device, NEW f \in File, NEW st, NEW n, SetLocal(d, f, st, n),
           raced \subseteq raced', Reconciling(d, f) => f \in raced' \/ local[d][f].status = "purging",
           UNCHANGED <<entry, done, command, outbox, phase, reconcile, late, action>>, PurgesHold',
           \A a \in Device : loop'[a] = loop[a] \/ loop'[a].at \notin reporting,
           \/ d # Origin[f]
           \/ Asked(f)
           \/ local[d][f].status = "purging" /\ st = "purged" /\ n = local[d][f].name
    PROVE  FollowInv'
  <1>1. \A a \in Device : \A g \in File :
           local'[a][g] = IF a = d /\ g = f THEN [status |-> st, name |-> n] ELSE local[a][g]
    BY SetLocalFacts
  <1>2. \A a \in Device : \A g \in File : a # d \/ g # f => local'[a][g] = local[a][g]
    BY <1>1
  <1>3. ReadIsCurrent' /\ ReportsStay
    BY ReadAfter DEF ReportsStay
  <1>4. SentInOrder'
    <2>1. \A a \in Device :
               \/ loop'[a].at \notin reporting
               \/ /\ loop[a].at \in reporting /\ loop'[a].item = loop[a].item
                  /\ outbox'[a][loop[a].item].status = outbox[a][loop[a].item].status
      OBVIOUS
    <2> QED
      BY <1>3, <2>1, SentKept DEF FollowInv
  <1>5. LateInOrder'
    BY <1>3, LateKept DEF FollowInv
  <1>6. OwnFiles'
    BY DEF FollowInv, OwnFiles
  <1>7. ASSUME NEW g \in File, Undisturbed(g), Following(g) PROVE Following(g)'
    <2>1. PICK a \in Device : a = Origin[g]
      BY CatalogAssumption
    <2>2. \/ local'[a][g] = local[a][g]
          \/ /\ local'[a][g].name = local[a][g].name
             /\ local[a][g].status = "purging" /\ local'[a][g].status = "purged"
      BY <1>1, <1>7, <2>1 DEF Undisturbed
    <2>3. SameShape(g)
      BY <2>1, <2>2, StandsKept DEF SameShape
    <2>4. loop'[a].at = "accepted" => loop'[a] = loop[a]
      BY DEF reporting
    <2> QED
      BY <1>3, <1>7, <2>1, <2>3, <2>4, FollowingKept
  <1> QED
    BY <1>3, <1>4, <1>5, <1>6, <1>7, RequestsSame, CommandsSame, FollowRecombined

\* The purges as they were.
LEMMA PurgesSame ==
    ASSUME Inv, FollowInv, UNCHANGED <<outbox, purge>>,
           \A a \in Device : loop'[a] = loop[a] \/ loop'[a].at \notin reporting
    PROVE  PurgesHold'
  <1>1. \A d \in Device : loop'[d].at \notin reporting \/ (loop[d].at \in reporting /\ loop'[d].item = loop[d].item)
    OBVIOUS
  <1> QED
    BY <1>1, PurgesKept DEF FollowInv

\* What the users of an Agent do with its files.
LEMMA UserFollows ==
    ASSUME Inv, FollowInv, UserStep, \A d \in Device : ~PersistAuth(d)
    PROVE  FollowInv'
  <1>N. /\ lifecycle = {"rename", "trash", "restore", "purge"}
        /\ LocalStatuses = {"none", "active", "trashed", "purged", "purging"}
    BY DEF lifecycle, LocalStatuses, Statuses
  <1>L. \A d \in Device, f \in File : local[d][f].name \in Name \cup {NoName}
    BY InvTypes DEF LocalTyped, RowType
  <1>1. ASSUME NEW f \in File, NEW n \in Name, Upload(f, n) PROVE FollowInv'
    <2>1. PICK d \in Device : d = Origin[f]
      BY CatalogAssumption
    <2>2. PICK k \in lifecycle \cup {"register"}, st \in LocalStatuses, reported \in {"pending", "processing"} :
             k = "register" /\ st = "active" /\ reported = "pending"
      BY <1>N
    <2>3. Change(d, f, k, st, n, reported) /\ local[d][f].status = "none" /\ UNCHANGED purge
      BY <1>1, <2>1, <2>2 DEF Upload, UserChange
    <2>4. Allowed(local[d][f], k, st, n)
      BY <2>2, <2>3 DEF Allowed
    <2> QED
      BY <2>1, <2>2, <2>3, <2>4, ChangeFollows
  <1>2. ASSUME NEW d \in Device, NEW f \in File, NEW n \in Name, RenameFile(d, f, n) PROVE FollowInv'
    <2>1. PICK k \in lifecycle \cup {"register"}, st \in LocalStatuses, reported \in {"pending", "processing"} :
             k = "rename" /\ st = "active" /\ reported = "pending"
      BY <1>N
    <2>2. Change(d, f, k, st, n, reported) /\ local[d][f].status = "active" /\ UNCHANGED purge
      BY <1>2, <2>1 DEF RenameFile, UserChange
    <2>3. Allowed(local[d][f], k, st, n)
      BY <2>1, <2>2 DEF Allowed
    <2> QED
      BY <2>1, <2>2, <2>3, ChangeFollows
  <1>3. ASSUME NEW d \in Device, NEW f \in File, TrashFile(d, f) \/ RestoreFile(d, f) PROVE FollowInv'
    <2>1. PICK n \in Name \cup {NoName} : n = local[d][f].name
      BY <1>L
    <2>2. PICK k \in lifecycle \cup {"register"}, st \in LocalStatuses, reported \in {"pending", "processing"} :
             /\ Change(d, f, k, st, n, reported) /\ UNCHANGED purge /\ k # "register"
             /\ Allowed(local[d][f], k, st, n)
      BY <1>3, <1>N, <2>1 DEF TrashFile, RestoreFile, UserChange, Allowed
    <2> QED
      BY <2>2, ChangeFollows
  <1>4. ASSUME NEW d \in Device, NEW f \in File, BeginPurge(d, f) PROVE FollowInv'
    <2>1. PICK n \in Name \cup {NoName} : n = local[d][f].name
      BY <1>L
    <2>2. PICK k \in lifecycle \cup {"register"}, st \in LocalStatuses, reported \in {"pending", "processing"} :
             k = "purge" /\ st = "purging" /\ reported = "processing"
      BY <1>N
    <2>3. Change(d, f, k, st, n, reported) /\ Allowed(local[d][f], k, st, n) /\ k # "register"
      BY <1>4, <2>1, <2>2 DEF BeginPurge, Allowed
    <2>4. purge' = purge \cup {[device |-> d, file |-> f, item |-> Len(outbox[d]) + 1, at |-> "delete"]}
      BY <1>4 DEF BeginPurge
    <2> QED
      BY <2>2, <2>3, <2>4, ChangeFollows
  <1>5. ASSUME NEW d \in Device, NEW f \in File, Replicate(d, f) PROVE FollowInv'
    <2>1. UNCHANGED <<entry, done, command, outbox, loop, phase, reconcile, purge, late, action, raced>>
      BY <1>5 DEF Replicate
    <2>2. SetLocal(d, f, "active", entry[f].name) /\ d # Origin[f]
      BY <1>5 DEF Replicate
    <2>3. ~Reconciling(d, f)
      BY <2>2 DEF Reconciling, FollowInv, OwnFiles
    <2>4. PICK st, n : SetLocal(d, f, st, n)
      BY <2>2
    <2>5. PurgesHold'
      BY <2>1, PurgesSame
    <2> QED
      BY <2>1, <2>2, <2>3, <2>4, <2>5, RowFollows
  <1> QED
    BY <1>1, <1>2, <1>3, <1>4, <1>5 DEF UserStep

\* The Agent executes a command.
LEMMA ApplyCommandFollows ==
    ASSUME Inv, FollowInv, NEW d \in Device, ApplyDeviceCommand(d)
    PROVE  FollowInv'
  <1>1. /\ loop[d].at = "command"
        /\ UNCHANGED <<entry, done, command, outbox, phase, reconcile, purge, late, action>>
    BY DEF ApplyDeviceCommand, catalogVars
  <1>2. PICK i \in 1 .. Len(command[d]) : i = loop[d].item
    BY <1>1, InvTypes DEF ItemsExist, executing
  <1>3. PICK c \in Command : c = command[d][i]
    BY CommandFacts
  <1>4. c.file \in File
    BY DEF Command
  <1>5. PICK where \in executing : At(d, where, i)
    BY <1>2 DEF ApplyDeviceCommand, executing
  <1>6. \A a \in Device : loop'[a] = loop[a] \/ loop'[a].at \notin reporting
    BY <1>5, InvTypes DEF At, reporting, executing
  <1>7. CASE UNCHANGED <<local, raced>>
    BY <1>1, <1>6, <1>7, RequestsSame, CommandsSame, QuietFollows
  <1>8. CASE /\ SetLocal(d, c.file, IF c.act = "purge" THEN "purging" ELSE NewStatus(c.act),
                         IF c.act = "rename" THEN c.name ELSE local[d][c.file].name)
             /\ raced' = IF Reconciling(d, c.file) THEN raced \cup {c.file} ELSE raced
    <2>1. PICK st, n : SetLocal(d, c.file, st, n)
      BY <1>8
    <2>2. d # Origin[c.file] \/ Asked(c.file)
      BY <1>3 DEF FollowInv, OriginCommands
    <2>3. raced \subseteq raced' /\ (Reconciling(d, c.file) => c.file \in raced')
      BY <1>8
    <2>4. PurgesHold'
      BY <1>1, <1>6, PurgesSame
    <2> QED
      BY <1>1, <1>4, <1>6, <2>1, <2>2, <2>3, <2>4, RowFollows
  <1> QED
    BY <1>2, <1>3, <1>7, <1>8, Zenon DEF ApplyDeviceCommand

\* The object of a commanded purge is deleted, or was.
LEMMA DeleteCommandedFollows ==
    ASSUME Inv, FollowInv, NEW d \in Device, DeleteCommanded(d)
    PROVE  FollowInv'
  <1>1. /\ loop[d].at = "purging"
        /\ UNCHANGED <<entry, done, command, outbox, phase, reconcile, purge, late, action, raced>>
    BY DEF DeleteCommanded, catalogVars
  <1>2. PICK i \in 1 .. Len(command[d]) : i = loop[d].item
    BY <1>1, InvTypes DEF ItemsExist, executing
  <1>3. PICK c \in Command : c = command[d][i]
    BY CommandFacts
  <1>4. PICK f \in File : f = c.file
    BY DEF Command
  <1>5. PICK where \in executing : At(d, where, i)
    BY <1>2 DEF DeleteCommanded, executing
  <1>6. \A a \in Device : loop'[a] = loop[a] \/ loop'[a].at \notin reporting
    BY <1>5, InvTypes DEF At, reporting, executing
  <1>7. CASE UNCHANGED local
    BY <1>1, <1>6, <1>7, RequestsSame, CommandsSame, QuietFollows
  <1>8. CASE local[d][f].status = "purging" /\ SetLocal(d, f, "purged", local[d][f].name)
    <2>1. PICK st, n : SetLocal(d, f, st, n) /\ st = "purged" /\ n = local[d][f].name
      BY <1>8
    <2>2. PurgesHold'
      BY <1>1, <1>6, PurgesSame
    <2> QED
      BY <1>1, <1>6, <1>8, <2>1, <2>2, RowFollows
  <1> QED
    BY <1>2, <1>3, <1>4, <1>7, <1>8 DEF DeleteCommanded

\* The object of a purge is deleted, or was.
LEMMA DeleteObjectFollows ==
    ASSUME Inv, FollowInv, NEW p \in purge, DeleteObject(p)
    PROVE  FollowInv'
  <1>1. UNCHANGED <<entry, done, command, outbox, loop, phase, reconcile, late, action, raced>>
    BY DEF DeleteObject, catalogVars
  <1>2. PICK d \in Device, f \in File : d = p.device /\ f = p.file
    BY InvTypes DEF Purge
  <1>3. PICK q : q = [p EXCEPT !.at = "activate"]
    OBVIOUS
  <1>4. q.device = p.device /\ q.item = p.item
    BY <1>3, InvTypes DEF Purge
  <1>5. PurgesHold'
    <2>1. \A r \in purge' : r = q \/ (r \in purge /\ r # p)
      BY <1>3 DEF DeleteObject
    <2> QED
      BY <1>1, <1>4, <2>1 DEF FollowInv, PurgesHold
  <1>6. CASE local[d][f].status = "purging" /\ SetLocal(d, f, "purged", local[d][f].name)
    <2>1. PICK st, n : SetLocal(d, f, st, n) /\ st = "purged" /\ n = local[d][f].name
      BY <1>6
    <2> QED
      BY <1>1, <1>5, <1>6, <2>1, RowFollows
  <1>7. CASE UNCHANGED local
    <2>1. ReportsStay
      BY <1>1 DEF ReportsStay
    <2>2. SentInOrder' /\ LateInOrder' /\ OwnFiles' /\ ReadIsCurrent'
      BY <1>1, <1>7 DEF FollowInv, SentInOrder, LateInOrder, OwnFiles, ReadIsCurrent
    <2>3. ASSUME NEW g \in File, Following(g) PROVE Following(g)'
      <3>1. PICK a \in Device : a = Origin[g]
        BY CatalogAssumption
      <3>2. SameShape(g)
        BY <1>1, <1>7, <3>1, StandsKept DEF SameShape
      <3> QED
        BY <1>1, <2>1, <2>3, <3>1, <3>2, FollowingKept
    <2> QED
      BY <1>1, <1>5, <2>1, <2>2, <2>3, RequestsSame, CommandsSame, FollowRecombined
  <1> QED
    BY <1>2, <1>6, <1>7 DEF DeleteObject

\* The report of a purge is released, or the purge ends without that.
LEMMA PurgeEndFollows ==
    ASSUME Inv, FollowInv, NEW p \in purge, ActivateOutgoing(p) \/ PurgeFails(p)
    PROVE  FollowInv'
  <1>1. /\ UNCHANGED <<entry, done, command, local, loop, phase, reconcile, late, action, raced>>
        /\ purge' = purge \ {p}
    BY DEF ActivateOutgoing, PurgeFails, catalogVars
  <1>2. PICK d \in Device, k \in Nat : d = p.device /\ k = p.item /\ k \in 1 .. Len(outbox[d])
    BY InvTypes DEF Purge, ItemsExist
  <1>3. /\ outbox[d][k].status = "processing"
        /\ ~(loop[d].at \in reporting /\ loop[d].item = k)
        /\ \A r \in purge' : ~(r.device = d /\ r.item = k)
    BY <1>1, <1>2 DEF FollowInv, PurgesHold
  <1>4. /\ ReportsStay
        /\ \A a \in Device : Len(outbox'[a]) = Len(outbox[a])
        /\ \A a \in Device : \A j \in 1 .. Len(outbox[a]) :
              \/ outbox'[a][j].status = outbox[a][j].status
              \/ a = d /\ j = k /\ outbox'[a][j].status = "pending"
    <2>1. CASE ActivateOutgoing(p)
      <3>1. PICK st \in {"pending", "processing", "completed", "failed"} : st = "pending"
        OBVIOUS
      <3>2. Mark(d, k, st) /\ outbox[d][k].status \notin ended
        BY <1>2, <1>3, <2>1, <3>1 DEF ActivateOutgoing, Mark, ended
      <3>3. /\ ReportsStay
            /\ \A a \in Device : Len(outbox'[a]) = Len(outbox[a])
            /\ \A a \in Device : \A j \in 1 .. Len(outbox[a]) :
                  outbox'[a][j].status = IF a = d /\ j = k THEN st ELSE outbox[a][j].status
        BY <1>2, <3>2, MarkStays
      <3> QED
        BY <3>1, <3>3
    <2>2. CASE PurgeFails(p)
      BY <2>2 DEF PurgeFails, ReportsStay
    <2> QED
      BY <2>1, <2>2
  <1>5. SentInOrder'
    <2>1. ASSUME NEW a \in Device, loop[a].at \in reporting
          PROVE  outbox'[a][loop[a].item].status = outbox[a][loop[a].item].status
      BY <1>3, <1>4, <2>1, InvTypes DEF ItemsExist
    <2> QED
      BY <1>1, <1>4, <2>1, SentKept DEF FollowInv
  <1>6. LateInOrder'
    BY <1>1, <1>4, LateKept DEF FollowInv
  <1>7. OwnFiles'
    <2>1. ASSUME NEW a \in Device, NEW j \in 1 .. Len(outbox'[a]), outbox'[a][j].kind = "register"
          PROVE  Origin[outbox'[a][j].file] = a
      <3>1. /\ j \in 1 .. Len(outbox[a])
            /\ outbox'[a][j].kind = outbox[a][j].kind /\ outbox'[a][j].file = outbox[a][j].file
        BY <1>4 DEF ReportsStay
      <3> QED
        BY <2>1, <3>1 DEF FollowInv, OwnFiles
    <2> QED
      BY <1>1, <2>1 DEF FollowInv, OwnFiles
  <1>8. ReadIsCurrent'
    BY <1>1, ReadKept DEF FollowInv
  <1>9. PurgesHold'
    <2>1. \A r \in purge' : outbox'[r.device][r.item].status = outbox[r.device][r.item].status
      BY <1>1, <1>3, <1>4, InvTypes DEF Purge, ItemsExist
    <2>2. \A a \in Device : loop'[a].at \notin reporting \/ (loop[a].at \in reporting /\ loop'[a].item = loop[a].item)
      BY <1>1
    <2>3. purge' \subseteq purge
      BY <1>1
    <2> QED
      BY <2>1, <2>2, <2>3, PurgesKept DEF FollowInv
  <1>10. ASSUME NEW f \in File, Following(f) PROVE Following(f)'
    <2>1. PICK a \in Device : a = Origin[f]
      BY CatalogAssumption
    <2>2. SameShape(f)
      BY <1>1, <1>4, <2>1, StandsKept DEF SameShape
    <2>3. \A j \in 1 .. Len(outbox[a]) : outbox'[a][j].status = "completed" => outbox[a][j].status = "completed"
      BY <1>4
    <2> QED
      BY <1>1, <1>4, <1>10, <2>1, <2>2, <2>3, FollowingKept
  <1> QED
    BY <1>1, <1>4, <1>5, <1>6, <1>7, <1>8, <1>9, <1>10, RequestsSame, CommandsSame, FollowRecombined

\* A step of enrolment that adds no report.
LEMMA EnrolFollows ==
    ASSUME Inv, FollowInv, UNCHANGED <<entry, done, command, local, outbox, loop, purge, late, action, raced>>,
           \A a \in Device : \A i \in 1 .. Len(reconcile'[a]) :
               /\ Origin[reconcile'[a][i].file] = a /\ phase'[a] = "reconciling"
               /\ reconcile'[a][i].file \notin raced =>
                     Current(reconcile'[a][i], local[a][reconcile'[a][i].file]),
           \A f \in File : Stands(f)
    PROVE  FollowInv'
  <1>1. ReportsStay
    BY DEF ReportsStay
  <1>2. SentInOrder' /\ LateInOrder' /\ OwnFiles' /\ PurgesHold'
    BY DEF FollowInv, SentInOrder, LateInOrder, OwnFiles, PurgesHold
  <1>3. ReadIsCurrent'
    BY DEF ReadIsCurrent
  <1>4. ASSUME NEW f \in File, Following(f) PROVE Following(f)'
    <2>1. PICK a \in Device : a = Origin[f]
      BY CatalogAssumption
    <2>2. SameShape(f)
      BY DEF SameShape
    <2> QED
      BY <1>1, <1>4, <2>1, <2>2, FollowingKept
  <1> QED
    BY <1>1, <1>2, <1>3, <1>4, RequestsSame, CommandsSame, FollowRecombined

\* Every file of the Agent is in its list.
LEMMA AllListed ==
    ASSUME Inv, NEW d \in Device, NEW s \in Listings(Existing(d)), NEW f \in File,
           local[d][f].status \in {"active", "trashed"}
    PROVE  \E i \in 1 .. Len(s) : s[i].file = f /\ s[i].step = "register"
  <1> DEFINE F == {g \in File : local[d][g].status \in {"active", "trashed"}}
             e(g) == [file |-> g, name |-> local[d][g].name,
                      trashed |-> local[d][g].status = "trashed", step |-> "register", item |-> 0]
  <1>1. IsFiniteSet(F)
    BY FS_Subset, CatalogAssumption
  <1>2. PICK g : g = [x \in F |-> e(x)]
    OBVIOUS
  <1>3. g \in Surjection(F, Existing(d))
    BY <1>2 DEF Surjection, Existing
  <1>4. IsFiniteSet(Existing(d))
    BY <1>1, <1>3, FS_Surjection DEF ExistsSurjection
  <1>5. PICK m \in Nat : m = Cardinality(Existing(d))
    BY <1>4, FS_CardinalityType
  <1>6. s \in Injection(1 .. m, Existing(d))
    BY <1>5 DEF Listings, Injection, IsInjective
  <1>7. IsFiniteSet(1 .. m) /\ Cardinality(1 .. m) = m
    BY FS_Interval
  <1>8. s \in Surjection(1 .. m, Existing(d))
    BY <1>4, <1>5, <1>6, <1>7, FS_Injection
  <1>9. e(f) \in Existing(d)
    BY DEF Existing
  <1>10. PICK i \in 1 .. m : s[i] = e(f)
    BY <1>8, <1>9 DEF Surjection
  <1>11. Len(s) = m
    <2>1. s \in Seq(ItemType)
      BY ExistingListed
    <2>2. DOMAIN s = 1 .. m
      BY <1>5 DEF Listings
    <2> QED
      BY <2>1, <2>2
  <1> QED
    BY <1>10, <1>11

\* The files are read.
LEMMA PersistAuthFollows ==
    ASSUME Inv, FollowInv, NEW d \in Device, PersistAuth(d)
    PROVE  FollowInv'
  <1>1. PICK s \in Listings(Existing(d)) : reconcile' = [reconcile EXCEPT ![d] = s]
    BY DEF PersistAuth
  <1>2. /\ UNCHANGED <<entry, done, command, local, outbox, loop, purge, late, action, raced>>
        /\ \A f \in File : local[d][f].status \in {"active", "trashed"} => Origin[f] = d
        /\ phase[d] \in {"configured", "enrolled"}
    BY DEF PersistAuth, catalogVars
  <1>3. \A a \in Device : /\ reconcile'[a] = IF a = d THEN s ELSE reconcile[a]
                          /\ phase'[a] = IF a = d THEN "reconciling" ELSE phase[a]
    BY <1>1, InvTypes DEF PersistAuth
  <1>4. ASSUME NEW i \in 1 .. Len(s) PROVE s[i] \in Existing(d)
    <2>1. s \in Seq(ItemType)
      BY ExistingListed
    <2>2. i \in DOMAIN s
      BY <2>1
    <2> QED
      BY <2>2 DEF Listings
  <1>5. ASSUME NEW i \in 1 .. Len(s)
        PROVE  Origin[s[i].file] = d /\ Current(s[i], local[d][s[i].file])
    <2>1. PICK x : x = s[i]
      OBVIOUS
    <2>2. PICK f \in File : /\ local[d][f].status \in {"active", "trashed"}
                            /\ x = [file |-> f, name |-> local[d][f].name,
                                    trashed |-> local[d][f].status = "trashed", step |-> "register", item |-> 0]
      BY <1>4, <2>1 DEF Existing
    <2>3. /\ x.file = f /\ x.name = local[d][f].name /\ x.step = "register"
          /\ x.trashed <=> local[d][f].status = "trashed"
      BY <2>2
    <2>4. Origin[f] = d
      BY <1>2, <2>2
    <2>5. Current(x, local[d][f])
      BY <2>2, <2>3 DEF Current
    <2> QED
      BY <2>1, <2>3, <2>4, <2>5
  <1>6. ASSUME NEW a \in Device, NEW i \in 1 .. Len(reconcile'[a])
        PROVE  /\ Origin[reconcile'[a][i].file] = a /\ phase'[a] = "reconciling"
               /\ reconcile'[a][i].file \notin raced =>
                     Current(reconcile'[a][i], local[a][reconcile'[a][i].file])
    <2>1. CASE a = d
      BY <1>3, <1>5, <2>1
    <2>2. CASE a # d
      BY <1>3, <2>2 DEF FollowInv, OwnFiles, ReadIsCurrent
    <2> QED
      BY <2>1, <2>2
  <1>7. ASSUME NEW f \in File PROVE Stands(f)
    <2>1. CASE Origin[f] = d
      <3>1. \A steps : "register" \in steps /\ local[d][f].status \in {"active", "trashed"} => Due(f, steps)'
        <4>1. local[d][f].status \in {"active", "trashed"} =>
                 \E i \in 1 .. Len(reconcile'[d]) : reconcile'[d][i].file = f /\ reconcile'[d][i].step = "register"
          BY <1>3, AllListed
        <4> QED
          BY <2>1, <4>1 DEF Due
      <3>2. ASSUME NEW x, Standing(f, x) PROVE Standing(f, x)'
        BY <1>2, <2>1, <3>1, <3>2 DEF Standing
      <3> QED
        BY <3>2 DEF Stands
    <2>2. CASE Origin[f] # d
      <3>1. PICK a \in Device : a = Origin[f]
        BY CatalogAssumption
      <3>2. phase'[a] = phase[a] /\ reconcile'[a] = reconcile[a] /\ local'[a][f] = local[a][f]
        BY <1>2, <1>3, <2>2, <3>1
      <3> QED
        BY <3>1, <3>2, StandsKept
    <2> QED
      BY <2>1, <2>2
  <1> QED
    BY <1>2, <1>6, <1>7, EnrolFollows

\* The marker is set, or the rest is given up.
LEMMA ReconcileEndFollows ==
    ASSUME Inv, FollowInv, NEW d \in Device, MarkReconciled(d) \/ ReconcileFails(d)
    PROVE  FollowInv'
  <1>1. UNCHANGED <<entry, done, command, local, outbox, loop, purge, late, action, raced>>
    BY DEF MarkReconciled, ReconcileFails, catalogVars
  <1>2. /\ \A a \in Device : reconcile'[a] = IF a = d THEN <<>> ELSE reconcile[a]
        /\ \A a \in Device : a # d => phase'[a] = phase[a]
        /\ \/ phase[d] = "reconciling" /\ reconcile[d] = <<>> /\ phase'[d] = "reconciled"
           \/ phase'[d] = "enrolled"
    BY InvTypes DEF MarkReconciled, ReconcileFails
  <1>3. ASSUME NEW a \in Device, NEW i \in 1 .. Len(reconcile'[a])
        PROVE  /\ Origin[reconcile'[a][i].file] = a /\ phase'[a] = "reconciling"
               /\ reconcile'[a][i].file \notin raced =>
                     Current(reconcile'[a][i], local[a][reconcile'[a][i].file])
    <2>1. a # d /\ reconcile'[a] = reconcile[a]
      BY <1>2
    <2> QED
      BY <1>2, <2>1 DEF FollowInv, OwnFiles, ReadIsCurrent
  <1>4. ASSUME NEW f \in File PROVE Stands(f)
    <2>1. PICK a \in Device : a = Origin[f]
      BY CatalogAssumption
    <2>2. CASE a = d /\ phase[d] = "reconciling" /\ reconcile[d] = <<>>
      <3>1. \A steps : ~Due(f, steps)
        BY <2>1, <2>2 DEF Due
      <3> QED
        BY <1>1, <3>1 DEF Stands, Standing
    <2>3. CASE a = d /\ phase'[d] = "enrolled"
      BY <1>1, <2>1, <2>3, StandsKept
    <2>4. CASE a # d
      BY <1>1, <1>2, <2>1, <2>4, StandsKept
    <2> QED
      BY <1>2, <2>2, <2>3, <2>4
  <1> QED
    BY <1>1, <1>3, <1>4, EnrolFollows

\* What is put before a list is its head.
LEMMA HeadPut ==
    ASSUME NEW y \in ItemType, NEW t \in Seq(ItemType)
    PROVE  1 \in 1 .. Len(<<y>> \o t) /\ (<<y>> \o t)[1] = y
  <1>1. <<y>> \in Seq(ItemType) /\ Len(<<y>>) = 1 /\ <<y>>[1] = y
    OBVIOUS
  <1>2. PICK r : r = <<y>> \o t
    OBVIOUS
  <1>3. /\ Len(r) = 1 + Len(t) /\ Len(t) \in Nat
        /\ \A k \in 1 .. 1 + Len(t) : r[k] = IF k <= 1 THEN <<y>>[k] ELSE t[k - 1]
    BY <1>1, <1>2, ConcatProperties, LenProperties
  <1> QED
    BY <1>1, <1>2, <1>3

\* One statement x of reconcileExisting is run: the list is r, what was left
\* or the next statement y for the same file before it.
StatementRun(d, x, y, r) ==
    /\ reconcile[d] # <<>> /\ x = Head(reconcile[d])
    /\ y \in ItemType /\ y.file = x.file
    /\ x.file \notin raced => Current(y, local[d][x.file])
    /\ r = Tail(reconcile[d]) \/ r = <<y>> \o Tail(reconcile[d])
    /\ reconcile' = [reconcile EXCEPT ![d] = r]
    /\ UNCHANGED <<local, phase, raced>>

\* What is left was read, and is due for the other files as before.
LEMMA ReadRest ==
    ASSUME Inv, FollowInv, NEW d \in Device, NEW x, NEW y, NEW r, StatementRun(d, x, y, r)
    PROVE  /\ ReadIsCurrent'
           /\ \A a \in Device : \A i \in 1 .. Len(reconcile'[a]) :
                 Origin[reconcile'[a][i].file] = a /\ phase'[a] = "reconciling"
           /\ \A f \in File : f # x.file => Stands(f)
           /\ x.step = "identify" => \A f \in File : Stands(f)
  <1>0. /\ reconcile[d] # <<>> /\ x = Head(reconcile[d])
        /\ y \in ItemType /\ y.file = x.file
        /\ x.file \notin raced => Current(y, local[d][x.file])
        /\ r = Tail(reconcile[d]) \/ r = <<y>> \o Tail(reconcile[d])
        /\ reconcile' = [reconcile EXCEPT ![d] = r]
        /\ UNCHANGED <<local, phase, raced>>
    BY DEF StatementRun
  <1>1. reconcile[d] \in Seq(ItemType) /\ \A a \in Device : reconcile'[a] = IF a = d THEN r ELSE reconcile[a]
    BY <1>0, InvTypes
  <1>2. PICK s \in Seq(ItemType) : s = reconcile[d]
    BY <1>0, <1>1
  <1>3. PICK t \in Seq(ItemType) : t = Tail(s)
    BY <1>0, <1>2, HeadTailProperties
  <1>4. /\ Len(s) \in Nat \ {0} /\ s[1] = x /\ Len(t) = Len(s) - 1
        /\ \A i \in 1 .. Len(t) : t[i] = s[i + 1]
    BY <1>0, <1>2, <1>3
  <1>5. /\ \A i \in 1 .. Len(r) : r[i] = y \/ \E j \in 1 .. Len(s) : r[i] = s[j]
        /\ \A j \in 1 .. Len(s) : j # 1 => \E i \in 1 .. Len(r) : r[i] = s[j]
    <2>1. CASE r = t
      <3>1. \A j \in 1 .. Len(s) : j # 1 => j - 1 \in 1 .. Len(t) /\ (j - 1) + 1 = j
        BY <1>0, <1>4
      <3>2. \A j \in 1 .. Len(s) : j # 1 => t[j - 1] = s[j]
        BY <1>0, <1>4, <3>1
      <3>3. \A i \in 1 .. Len(t) : i + 1 \in 1 .. Len(s)
        BY <1>0, <1>4
      <3>4. ASSUME NEW i \in 1 .. Len(r) PROVE \E j \in 1 .. Len(s) : r[i] = s[j]
        <4>1. i + 1 \in 1 .. Len(s) /\ r[i] = s[i + 1]
          BY <1>0, <1>4, <2>1, <3>3
        <4> QED
          BY <1>0, <4>1
      <3>5. ASSUME NEW j \in 1 .. Len(s), j # 1 PROVE \E i \in 1 .. Len(r) : r[i] = s[j]
        <4>1. j - 1 \in 1 .. Len(r) /\ r[j - 1] = s[j]
          BY <1>0, <2>1, <3>1, <3>2, <3>5
        <4> QED
          BY <1>0, <4>1
      <3> QED
        BY <1>0, <3>4, <3>5
    <2>2. CASE r = <<y>> \o t
      <3>1. Len(<<y>>) = 1 /\ <<y>> \in Seq(ItemType) /\ <<y>>[1] = y
        BY <1>0
      <3>2. Len(r) = 1 + Len(t) /\ \A k \in 1 .. 1 + Len(t) : r[k] = IF k <= 1 THEN <<y>>[k] ELSE t[k - 1]
        BY <1>0, <2>2, <3>1, ConcatProperties
      <3>3. r[1] = y
        BY <1>0, <1>4, <3>1, <3>2
      <3>4. ASSUME NEW i \in 1 .. Len(s), i # 1 PROVE i \in 1 .. Len(r) /\ r[i] = s[i]
        <4>1. i - 1 \in 1 .. Len(t) /\ ~(i <= 1) /\ i \in 1 .. 1 + Len(t)
          BY <1>0, <1>4, <3>4
        <4>2. r[i] = t[i - 1] /\ t[i - 1] = s[(i - 1) + 1]
          BY <1>0, <1>4, <3>2, <4>1
        <4>3. (i - 1) + 1 = i
          BY <1>0, <4>1
        <4> QED
          BY <1>0, <3>2, <4>1, <4>2, <4>3
      <3>5. Len(r) = Len(s)
        BY <1>0, <1>4, <3>2
      <3> QED
        BY <1>0, <3>3, <3>4, <3>5
    <2> QED
      BY <1>0, <1>2, <1>3, <2>1, <2>2
  <1>6. /\ \A j \in 1 .. Len(s) : Origin[s[j].file] = d /\ phase[d] = "reconciling"
        /\ \A j \in 1 .. Len(s) : s[j].file \notin raced => Current(s[j], local[d][s[j].file])
    BY <1>0, <1>2 DEF FollowInv, OwnFiles, ReadIsCurrent
  <1>7. Origin[x.file] = d /\ phase[d] = "reconciling"
    BY <1>0, <1>4, <1>6
  <1>8. ASSUME NEW a \in Device, NEW i \in 1 .. Len(reconcile'[a])
        PROVE  /\ Origin[reconcile'[a][i].file] = a /\ phase[a] = "reconciling"
               /\ reconcile'[a][i].file \notin raced =>
                     Current(reconcile'[a][i], local[a][reconcile'[a][i].file])
    <2>1. CASE a = d
      <3>1. PICK z : z = reconcile'[a][i] /\ z = r[i] /\ i \in 1 .. Len(r)
        BY <1>0, <1>1, <2>1
      <3>2. CASE z = y
        BY <1>0, <1>7, <2>1, <3>1, <3>2
      <3>3. ASSUME NEW j \in 1 .. Len(s), z = s[j]
            PROVE  Origin[z.file] = d /\ (z.file \notin raced => Current(z, local[d][z.file]))
        BY <1>0, <1>6, <3>3
      <3>4. Origin[z.file] = d /\ (z.file \notin raced => Current(z, local[d][z.file]))
        BY <1>0, <1>5, <1>7, <3>1, <3>2, <3>3
      <3> QED
        BY <1>0, <1>7, <2>1, <3>1, <3>4
    <2>2. CASE a # d
      <3>1. reconcile'[a] = reconcile[a]
        BY <1>0, <1>1, <2>2
      <3> QED
        BY <1>0, <3>1 DEF FollowInv, OwnFiles, ReadIsCurrent
    <2> QED
      BY <1>0, <2>1, <2>2
  <1>9. ASSUME NEW f \in File, f # x.file \/ x.step = "identify" PROVE Stands(f)
    <2>1. PICK a \in Device : a = Origin[f]
      BY <1>0, CatalogAssumption
    <2>2. CASE a = d
      <3>1. ASSUME NEW steps \in SUBSET {"register", "trash"}, NEW j \in 1 .. Len(s),
                   s[j].file = f, s[j].step \in steps
            PROVE  \E i \in 1 .. Len(reconcile'[d]) :
                      reconcile'[d][i].file = f /\ reconcile'[d][i].step \in steps
        <4>1. j # 1
          BY <1>0, <1>4, <1>9, <3>1
        <4>2. PICK i \in 1 .. Len(r) : r[i] = s[j]
          BY <1>0, <1>5, <4>1
        <4> QED
          BY <1>0, <1>1, <3>1, <4>2
      <3>2. \A steps \in SUBSET {"register", "trash"} : Due(f, steps) => Due(f, steps)'
        BY <1>0, <1>2, <2>1, <2>2, <3>1 DEF Due
      <3>3. /\ Due(f, {"register", "trash"}) => Due(f, {"register", "trash"})'
            /\ Due(f, {"register"}) => Due(f, {"register"})'
        BY <1>0, <3>2
      <3> QED
        BY <1>0, <3>3 DEF Stands, Standing
    <2>3. CASE a # d
      BY <1>0, <1>1, <2>1, <2>3, StandsKept
    <2> QED
      BY <1>0, <2>2, <2>3
  <1>10. ReadIsCurrent'
    BY <1>0, <1>8 DEF ReadIsCurrent
  <1>11. \A a \in Device : \A i \in 1 .. Len(reconcile'[a]) :
            Origin[reconcile'[a][i].file] = a /\ phase'[a] = "reconciling"
    BY <1>0, <1>8
  <1>12. \A f \in File : f # x.file \/ x.step = "identify" => Stands(f)
    BY <1>9
  <1> QED
    BY <1>10, <1>11, <1>12

\* One statement of reconcileExisting.
LEMMA ReconcileFollows ==
    ASSUME Inv, FollowInv, NEW d \in Device, ReconcileExisting(d)
    PROVE  FollowInv'
  <1>1. reconcile[d] \in Seq(ItemType) /\ reconcile[d] # <<>>
    BY InvTypes DEF ReconcileExisting
  <1>2. PICK x \in ItemType, rest \in Seq(ItemType) : x = Head(reconcile[d]) /\ rest = Tail(reconcile[d])
    BY <1>1, HeadTailProperties
  <1>3. x.file \in File /\ x.name \in Name \cup {NoName} /\ x.trashed \in BOOLEAN
    BY DEF ItemType
  <1>4. UNCHANGED <<entry, done, command, local, loop, phase, purge, late, action, raced>>
    BY DEF ReconcileExisting, catalogVars
  <1>5. /\ Origin[x.file] = d /\ (x.file \notin raced => Current(x, local[d][x.file]))
        /\ x.step = "identify" => x.item \in 1 .. Len(outbox[d])
    <2>1. Len(reconcile[d]) \in Nat \ {0} /\ x = reconcile[d][1]
      BY <1>1, <1>2
    <2>2. 1 \in 1 .. Len(reconcile[d])
      BY <2>1
    <2> QED
      BY <2>1, <2>2, InvTypes DEF FollowInv, OwnFiles, ReadIsCurrent, ItemsExist
  <1>6. PICK m \in Nat : m = Len(outbox[d]) + 1
    BY InvTypes
  <1>7. PICK xt : xt = [x EXCEPT !.step = "trash"]
    OBVIOUS
  <1>8. PICK xi : xi = [x EXCEPT !.step = "identify", !.item = m]
    OBVIOUS
  <1>9. /\ xt \in ItemType /\ xt.file = x.file /\ xt.trashed = x.trashed /\ xt.name = x.name /\ xt.step = "trash"
        /\ xi \in ItemType /\ xi.file = x.file /\ xi.trashed = x.trashed /\ xi.name = x.name
    BY <1>7, <1>8 DEF ItemType
  <1>10. CASE /\ x.step = "register"
              /\ Enqueue(d, "register", x.file, x.name, TRUE)
              /\ reconcile' = [reconcile EXCEPT ![d] =
                     IF x.trashed THEN <<[x EXCEPT !.step = "trash"]>> \o rest ELSE rest]
    <2>0. reconcile[d] # <<>> /\ x = Head(reconcile[d]) /\ UNCHANGED <<local, phase, raced>>
      BY <1>1, <1>2, <1>4
    <2>1. PICK e : e = [kind |-> "register", file |-> x.file, name |-> x.name, identified |-> TRUE,
                        status |-> "pending"]
      OBVIOUS
    <2>2. e \in Report /\ e.kind = "register" /\ e.file = x.file /\ e.name = x.name /\ e.status \notin ended
      BY <1>3, <2>1 DEF Report, ended
    <2>3. Added(d, e)
      BY <1>10, <2>1 DEF Enqueue, EnqueueWithStatus, Added
    <2>4. PICK r : r = IF x.trashed THEN <<xt>> \o rest ELSE rest
      OBVIOUS
    <2>5. reconcile' = [reconcile EXCEPT ![d] = r]
      BY <1>7, <1>10, <2>4
    <2>6. /\ ReadIsCurrent'
          /\ \A a \in Device : \A i \in 1 .. Len(reconcile'[a]) :
                Origin[reconcile'[a][i].file] = a /\ phase'[a] = "reconciling"
          /\ \A f \in File : f # x.file => Stands(f)
          /\ x.trashed => 1 \in 1 .. Len(reconcile'[d]) /\ reconcile'[d][1] = xt
      <3>1. CASE x.trashed
        <4>1. x.file \notin raced => Current(xt, local[d][x.file])
          BY <1>5, <1>9, <3>1 DEF Current
        <4>2. r = <<xt>> \o Tail(reconcile[d])
          BY <1>2, <2>4, <3>1
        <4>3. r = Tail(reconcile[d]) \/ r = <<xt>> \o Tail(reconcile[d])
          BY <4>2
        <4>4. xt \in ItemType /\ xt.file = x.file
          BY <1>9
        <4>5. StatementRun(d, x, xt, r)
          BY <2>0, <2>5, <4>1, <4>3, <4>4 DEF StatementRun
        <4>6. /\ ReadIsCurrent'
              /\ \A a \in Device : \A i \in 1 .. Len(reconcile'[a]) :
                    Origin[reconcile'[a][i].file] = a /\ phase'[a] = "reconciling"
              /\ \A f \in File : f # x.file => Stands(f)
          BY <4>5, ReadRest
        <4>7. 1 \in 1 .. Len(reconcile'[d]) /\ reconcile'[d][1] = xt
          <5>1. 1 \in 1 .. Len(r) /\ r[1] = xt
            BY <1>2, <4>2, <4>4, HeadPut
          <5> QED
            BY <2>5, <5>1, InvTypes
        <4> QED
          BY <4>6, <4>7
      <3>2. CASE ~x.trashed
        <4>1. r = Tail(reconcile[d])
          BY <1>2, <2>4, <3>2
        <4>2. r = Tail(reconcile[d]) \/ r = <<x>> \o Tail(reconcile[d])
          BY <4>1
        <4>3. x \in ItemType /\ x.file = x.file /\ (x.file \notin raced => Current(x, local[d][x.file]))
          BY <1>5
        <4>4. StatementRun(d, x, x, r)
          BY <2>0, <2>5, <4>2, <4>3 DEF StatementRun
        <4> QED
          BY <3>2, <4>4, ReadRest
      <3> QED
        BY <3>1, <3>2
    <2>7. ASSUME x.file \notin raced, NEW z \in EntryType, Standing(x.file, z)
          PROVE  Standing(x.file, Effect(z, e))'
      <3>1. PICK y : y = Effect(z, e)
        OBVIOUS
      <3>2. PICK row : row = local[d][x.file] /\ row = local'[d][x.file]
        BY <1>4
      <3>3. Current(x, row) /\ z.name = row.name
        BY <1>5, <2>7, <3>2 DEF Standing
      <3>4. y.name = row.name /\ y.status = IF z.status = "none" THEN "active" ELSE z.status
        BY <2>2, <3>1, <3>3 DEF Effect, Current
      <3>5. CASE row.status = "trashed"
        <4>1. Due(x.file, {"register", "trash"})'
          BY <1>5, <1>9, <2>6, <3>3, <3>5 DEF Due, Current
        <4>2. Standing(x.file, y)'
          BY <1>5, <3>2, <3>4, <3>5, <4>1 DEF Standing
        <4> QED
          BY <3>1, <4>2
      <3>6. CASE row.status = "active"
        <4>1. y.status = "active"
          BY <1>5, <2>7, <3>2, <3>4, <3>6 DEF Standing, StatusOf
        <4>2. Standing(x.file, y)'
          BY <1>5, <3>2, <3>4, <3>6, <4>1 DEF Standing, StatusOf
        <4> QED
          BY <3>1, <4>2
      <3> QED
        BY <3>3, <3>5, <3>6 DEF Current
    <2>8. ASSUME NEW g \in File, Undisturbed(g)'
          PROVE  IF d = Origin[g] /\ e.file = g THEN \A z \in EntryType : Standing(g, z) => Standing(g, Effect(z, e))'
                                               ELSE Stands(g)
      <3>1. CASE g = x.file
        <4>1. g \notin raced
          BY <1>4, <2>8 DEF Undisturbed
        <4> QED
          BY <1>5, <2>2, <2>7, <3>1, <4>1
      <3>2. CASE g # x.file
        BY <2>2, <2>6, <3>2
      <3> QED
        BY <3>1, <3>2
    <2> QED
      BY <1>4, <1>5, <2>2, <2>3, <2>6, <2>8, EnqueueFollows
  <1>11. CASE /\ x.step = "trash"
              /\ Enqueue(d, "trash", x.file, NoName, FALSE)
              /\ reconcile' = [reconcile EXCEPT ![d] =
                     <<[x EXCEPT !.step = "identify", !.item = Len(outbox[d]) + 1]>> \o rest]
    <2>0. reconcile[d] # <<>> /\ x = Head(reconcile[d]) /\ UNCHANGED <<local, phase, raced>>
      BY <1>1, <1>2, <1>4
    <2>1. PICK e : e = [kind |-> "trash", file |-> x.file, name |-> NoName, identified |-> FALSE, status |-> "pending"]
      OBVIOUS
    <2>2. e \in Report /\ e.kind = "trash" /\ e.file = x.file /\ e.status \notin ended
      BY <1>3, <2>1 DEF Report, lifecycle, ended
    <2>3. Added(d, e)
      BY <1>11, <2>1 DEF Enqueue, EnqueueWithStatus, Added
    <2>4. PICK r : r = <<xi>> \o rest
      OBVIOUS
    <2>5. reconcile' = [reconcile EXCEPT ![d] = r]
      BY <1>6, <1>8, <1>11, <2>4
    <2>6. /\ ReadIsCurrent'
          /\ \A a \in Device : \A i \in 1 .. Len(reconcile'[a]) :
                Origin[reconcile'[a][i].file] = a /\ phase'[a] = "reconciling"
          /\ \A f \in File : f # x.file => Stands(f)
      <3>1. x.file \notin raced => Current(xi, local[d][x.file])
        BY <1>5, <1>9, <1>11 DEF Current
      <3>2. r = <<xi>> \o Tail(reconcile[d])
        BY <1>2, <2>4
      <3>3. r = Tail(reconcile[d]) \/ r = <<xi>> \o Tail(reconcile[d])
        BY <3>2
      <3>4. xi \in ItemType /\ xi.file = x.file
        BY <1>9
      <3>5. StatementRun(d, x, xi, r)
        BY <2>0, <2>5, <3>1, <3>3, <3>4 DEF StatementRun
      <3> QED
        BY <3>5, ReadRest
    <2>7. ASSUME x.file \notin raced, NEW z \in EntryType, Standing(x.file, z)
          PROVE  Standing(x.file, Effect(z, e))'
      <3>1. PICK y : y = Effect(z, e)
        OBVIOUS
      <3>2. PICK row : row = local[d][x.file] /\ row = local'[d][x.file]
        BY <1>4
      <3>3. row.status = "trashed" /\ z.name = row.name
        BY <1>5, <1>11, <2>7, <3>2 DEF Standing, Current
      <3>4. y.name = row.name /\ y.status = "trashed"
        BY <2>2, <3>1, <3>3 DEF Effect, NewStatus
      <3>5. Standing(x.file, y)'
        BY <1>5, <3>2, <3>3, <3>4 DEF Standing, StatusOf
      <3> QED
        BY <3>1, <3>5
    <2>8. ASSUME NEW g \in File, Undisturbed(g)'
          PROVE  IF d = Origin[g] /\ e.file = g THEN \A z \in EntryType : Standing(g, z) => Standing(g, Effect(z, e))'
                                               ELSE Stands(g)
      <3>1. CASE g = x.file
        <4>1. g \notin raced
          BY <1>4, <2>8 DEF Undisturbed
        <4> QED
          BY <1>5, <2>2, <2>7, <3>1, <4>1
      <3>2. CASE g # x.file
        BY <2>2, <2>6, <3>2
      <3> QED
        BY <3>1, <3>2
    <2> QED
      BY <1>4, <2>2, <2>3, <2>6, <2>8, EnqueueFollows
  <1>12. CASE /\ x.step = "identify"
              /\ outbox' = [outbox EXCEPT ![d][x.item].identified = TRUE]
              /\ reconcile' = [reconcile EXCEPT ![d] = rest]
    <2>0. reconcile[d] # <<>> /\ x = Head(reconcile[d]) /\ UNCHANGED <<local, phase, raced>>
      BY <1>1, <1>2, <1>4
    <2>1. PICK k \in 1 .. Len(outbox[d]) : k = x.item
      BY <1>5, <1>12
    <2>2. /\ \A a \in Device : Len(outbox'[a]) = Len(outbox[a])
          /\ \A a \in Device : \A j \in 1 .. Len(outbox[a]) :
                outbox'[a][j] = IF a = d /\ j = k THEN [outbox[d][k] EXCEPT !.identified = TRUE]
                                ELSE outbox[a][j]
      BY <1>12, <2>1, IdentifyMoves
    <2>3. \A a \in Device : /\ Len(outbox'[a]) = Len(outbox[a])
                            /\ \A j \in 1 .. Len(outbox[a]) :
                                  /\ outbox'[a][j].kind = outbox[a][j].kind
                                  /\ outbox'[a][j].file = outbox[a][j].file
                                  /\ outbox'[a][j].name = outbox[a][j].name
                                  /\ outbox'[a][j].status = outbox[a][j].status
      <3>1. outbox[d][k] \in Report
        BY InvTypes, ElementOfSeq
      <3>2. PICK e : e = [outbox[d][k] EXCEPT !.identified = TRUE]
        OBVIOUS
      <3>3. /\ e.kind = outbox[d][k].kind /\ e.file = outbox[d][k].file
            /\ e.name = outbox[d][k].name /\ e.status = outbox[d][k].status
        BY <3>1, <3>2 DEF Report
      <3> QED
        BY <2>2, <3>2, <3>3
    <2>4. ReportsStay
      BY <2>3 DEF ReportsStay
    <2>5. SentInOrder'
      <3>1. \A a \in Device : loop[a].at \in reporting =>
               outbox'[a][loop[a].item].status = outbox[a][loop[a].item].status
        BY <2>3, InvTypes DEF ItemsExist
      <3> QED
        BY <1>4, <2>4, <3>1, SentKept DEF FollowInv
    <2>6. LateInOrder'
      BY <1>4, <2>4, LateKept DEF FollowInv
    <2>7. /\ ReadIsCurrent'
          /\ \A a \in Device : \A i \in 1 .. Len(reconcile'[a]) :
                Origin[reconcile'[a][i].file] = a /\ phase'[a] = "reconciling"
          /\ \A f \in File : Stands(f)
      <3>1. PICK r : r = Tail(reconcile[d]) /\ reconcile' = [reconcile EXCEPT ![d] = r]
        BY <1>2, <1>12
      <3>2. r = Tail(reconcile[d]) \/ r = <<x>> \o Tail(reconcile[d])
        BY <3>1
      <3>3. x \in ItemType /\ x.file = x.file /\ (x.file \notin raced => Current(x, local[d][x.file]))
        BY <1>5
      <3>4. StatementRun(d, x, x, r)
        BY <2>0, <3>1, <3>2, <3>3 DEF StatementRun
      <3>5. x.step = "identify"
        BY <1>12
      <3> QED
        BY <3>4, <3>5, ReadRest
    <2>8. OwnFiles'
      <3>1. ASSUME NEW a \in Device, NEW j \in 1 .. Len(outbox'[a]), outbox'[a][j].kind = "register"
            PROVE  Origin[outbox'[a][j].file] = a
        <4>1. /\ j \in 1 .. Len(outbox[a])
              /\ outbox'[a][j].kind = outbox[a][j].kind /\ outbox'[a][j].file = outbox[a][j].file
          BY <2>3
        <4> QED
          BY <3>1, <4>1 DEF FollowInv, OwnFiles
      <3> QED
        BY <2>7, <3>1 DEF OwnFiles
    <2>9. PurgesHold'
      <3>1. \A p \in purge : outbox'[p.device][p.item].status = outbox[p.device][p.item].status
        BY <2>3, InvTypes DEF Purge, ItemsExist
      <3>2. /\ purge' \subseteq purge
            /\ \A a \in Device : loop'[a].at \notin reporting
                                 \/ (loop[a].at \in reporting /\ loop'[a].item = loop[a].item)
        BY <1>4
      <3> QED
        BY <1>4, <3>1, <3>2, PurgesKept DEF FollowInv
    <2>10. ASSUME NEW f \in File, Following(f) PROVE Following(f)'
      <3>1. PICK a \in Device : a = Origin[f]
        BY CatalogAssumption
      <3>2. SameShape(f)
        BY <2>3, <2>7, <3>1 DEF SameShape
      <3> QED
        BY <1>4, <2>3, <2>4, <2>10, <3>1, <3>2, FollowingKept
    <2> QED
      BY <1>4, <2>4, <2>5, <2>6, <2>7, <2>8, <2>9, <2>10, RequestsSame, CommandsSame, FollowRecombined
  <1> QED
    BY <1>2, <1>10, <1>11, <1>12, Zenon DEF ReconcileExisting

\* An Agent stops and starts.
LEMMA RestartFollows ==
    ASSUME Inv, FollowInv, NEW d \in Device, Restart(d)
    PROVE  FollowInv'
  <1>1. /\ UNCHANGED <<entry, done, command, action, raced>>
        /\ purge' = {p \in purge : p.device # d}
        /\ late' = late \/ (loop[d].at = "sent" /\ late' = late \cup {<<d, loop[d].item, outbox[d][loop[d].item]>>})
    BY DEF Restart, catalogVars
  <1>2. \A a \in Device : /\ loop'[a] = IF a = d THEN [at |-> "rest", item |-> 0] ELSE loop[a]
                          /\ reconcile'[a] = IF a = d THEN <<>> ELSE reconcile[a]
                          /\ phase'[a] = IF a = d /\ phase[d] = "reconciling" THEN "enrolled" ELSE phase[a]
    BY InvTypes DEF Restart, At
  <1>3. /\ \A a \in Device : Len(outbox'[a]) = Len(outbox[a])
        /\ \A a \in Device : a # d => outbox'[a] = outbox[a] /\ local'[a] = local[a]
        /\ \A j \in 1 .. Len(outbox[d]) :
              /\ outbox'[d][j].kind = outbox[d][j].kind /\ outbox'[d][j].file = outbox[d][j].file
              /\ outbox'[d][j].name = outbox[d][j].name
              /\ outbox'[d][j].status = IF outbox[d][j].status = "processing" THEN "pending"
                                        ELSE outbox[d][j].status
        /\ \A f \in File : /\ local'[d][f].name = local[d][f].name
                           /\ \/ local'[d][f] = local[d][f]
                              \/ local[d][f].status = "purging" /\ local'[d][f].status = "purged"
    BY RestartFacts
  <1>4. /\ ReportsStay
        /\ \A a \in Device : \A k \in 1 .. Len(outbox[a]) :
              outbox'[a][k].status = "completed" => outbox[a][k].status = "completed"
    BY <1>3 DEF ReportsStay, ended
  <1>5. \A a \in Device : a = d \/ loop'[a] = loop[a]
    BY <1>2
  <1>6. loop'[d].at = "rest" /\ "rest" \notin reporting /\ "accepted" # "rest"
    BY <1>2 DEF reporting
  <1>7. SentInOrder'
    <2>1. \A a \in Device :
               \/ loop'[a].at \notin reporting
               \/ /\ loop[a].at \in reporting /\ loop'[a].item = loop[a].item
                  /\ outbox'[a][loop[a].item].status = outbox[a][loop[a].item].status
      BY <1>3, <1>5, <1>6
    <2> QED
      BY <1>4, <2>1, SentKept DEF FollowInv
  <1>8. LateInOrder'
    <2>1. ASSUME loop[d].at = "sent", NEW x, x = <<d, loop[d].item, outbox[d][loop[d].item]>> PROVE LateNext(x)
      <3>1. PICK k \in 1 .. Len(outbox[d]) : k = loop[d].item
        BY <2>1, InvTypes DEF ItemsExist, reporting
      <3>2. \A j \in 1 .. k - 1 : outbox[d][j].status \in ended
        BY <2>1, <3>1 DEF FollowInv, SentInOrder, reporting
      <3>3. \A j \in 1 .. k - 1 : j \in 1 .. Len(outbox[d])
        BY <3>1, InvTypes
      <3>4. x[1] = d /\ x[2] = k /\ x[3] = outbox[d][k]
        BY <2>1, <3>1
      <3>5. \A j \in 1 .. k - 1 : outbox'[d][j].status \in ended
        BY <1>4, <3>2, <3>3 DEF ReportsStay
      <3>6. outbox[d][k].name = outbox'[d][k].name
        BY <1>3
      <3> QED
        BY <3>4, <3>5, <3>6 DEF LateNext
    <2>2. \A x \in late' : x \in late \/ LateNext(x)
      BY <1>1, <2>1
    <2> QED
      BY <1>4, <2>2, LateKept DEF FollowInv
  <1>9. ASSUME NEW a \in Device, NEW i \in 1 .. Len(reconcile'[a])
        PROVE  a # d /\ reconcile'[a] = reconcile[a] /\ phase'[a] = phase[a]
    BY <1>2, <1>9
  <1>10. OwnFiles'
    <2>1. ASSUME NEW a \in Device, NEW k \in 1 .. Len(outbox'[a]), outbox'[a][k].kind = "register"
          PROVE  Origin[outbox'[a][k].file] = a
      <3>1. /\ k \in 1 .. Len(outbox[a])
            /\ outbox'[a][k].kind = outbox[a][k].kind /\ outbox'[a][k].file = outbox[a][k].file
        BY <1>3
      <3> QED
        BY <2>1, <3>1 DEF FollowInv, OwnFiles
    <2>2. ASSUME NEW a \in Device, NEW i \in 1 .. Len(reconcile'[a])
          PROVE  Origin[reconcile'[a][i].file] = a /\ phase'[a] = "reconciling"
      BY <1>9, <2>2 DEF FollowInv, OwnFiles
    <2> QED
      BY <2>1, <2>2 DEF OwnFiles
  <1>11. ReadIsCurrent'
    <2>1. ASSUME NEW a \in Device, NEW i \in 1 .. Len(reconcile'[a]), reconcile'[a][i].file \notin raced
          PROVE  Current(reconcile'[a][i], local'[a][reconcile'[a][i].file])
      BY <1>3, <1>9, <2>1 DEF FollowInv, ReadIsCurrent
    <2> QED
      BY <1>1, <2>1 DEF ReadIsCurrent
  <1>12. PurgesHold'
    <2>1. \A p \in purge' : p.device \in Device /\ p.device # d
      BY <1>1, InvTypes DEF Purge
    <2>2. \A p \in purge' : outbox'[p.device][p.item].status = outbox[p.device][p.item].status
      BY <1>3, <2>1
    <2>3. purge' \subseteq purge
      BY <1>1
    <2>4. \A a \in Device : \/ loop'[a].at \notin reporting
                            \/ loop[a].at \in reporting /\ loop'[a].item = loop[a].item
                            \/ outbox[a][loop'[a].item].status # "processing"
      BY <1>5, <1>6
    <2> QED
      BY <2>2, <2>3, <2>4, PurgesKept DEF FollowInv
  <1>13. ASSUME NEW f \in File, Following(f) PROVE Following(f)'
    <2>1. PICK a \in Device : a = Origin[f]
      BY CatalogAssumption
    <2>2. phase'[a] \in {"configured", "enrolled"} \/ (phase'[a] = phase[a] /\ reconcile'[a] = reconcile[a])
      <3>1. CASE a # d
        BY <1>2, <3>1
      <3>2. CASE a = d /\ phase[d] = "reconciling"
        BY <1>2, <3>2
      <3>3. CASE a = d /\ phase[d] # "reconciling"
        <4>1. reconcile[d] \in Seq(ItemType) /\ \A i \in 1 .. Len(reconcile[d]) : FALSE
          BY <3>3, InvTypes DEF FollowInv, OwnFiles
        <4>2. Len(reconcile[d]) = 0
          BY <4>1
        <4>3. reconcile[d] = <<>>
          BY <4>1, <4>2, EmptySeq
        <4> QED
          BY <1>2, <3>3, <4>3
      <3> QED
        BY <3>1, <3>2, <3>3
    <2>3. \/ local'[a][f] = local[a][f]
          \/ /\ local'[a][f].name = local[a][f].name
             /\ local[a][f].status = "purging" /\ local'[a][f].status = "purged"
      BY <1>3
    <2>4. SameShape(f)
      BY <1>3, <2>1, <2>2, <2>3, StandsKept DEF SameShape
    <2>5. loop'[a].at = "accepted" => loop'[a] = loop[a]
      BY <1>5, <1>6
    <2> QED
      BY <1>1, <1>4, <1>13, <2>1, <2>4, <2>5, FollowingKept
  <1> QED
    BY <1>1, <1>4, <1>7, <1>8, <1>10, <1>11, <1>12, <1>13, RequestsSame, CommandsSame, FollowRecombined

\* Initially there is nothing to follow but what enrolment is to report.
LEMMA FollowStart == Init => FollowInv
  <1> SUFFICES ASSUME Init PROVE FollowInv
    OBVIOUS
  <1>1. /\ \A d \in Device : Len(outbox[d]) = 0 /\ Len(reconcile[d]) = 0 /\ Len(command[d]) = 0
        /\ late = {} /\ purge = {} /\ Len(action) = 0
        /\ \A f \in File : entry[f] = Absent
    BY DEF Init
  <1>2. \A d \in Device : loop[d].at \notin reporting
    BY DEF Init, AtRest, reporting
  <1>3. SentInOrder /\ LateInOrder /\ PurgesHold
    BY <1>1, <1>2 DEF SentInOrder, LateInOrder, PurgesHold
  <1>4. OwnFiles /\ ReadIsCurrent /\ OriginCommands
    BY <1>1 DEF OwnFiles, ReadIsCurrent, OriginCommands
  <1>5. PICK held \in [File -> Held] :
           /\ \A f \in File : Origin[f] \notin Fresh => held[f] = Absent
           /\ local = [d \in Device |-> [f \in File |-> IF d = Origin[f] THEN held[f] ELSE Absent]]
    BY DEF Init
  <1>6. ASSUME NEW f \in File PROVE Following(f)
    <2>1. PICK d \in Device : d = Origin[f]
      BY CatalogAssumption
    <2>2. PICK row : row = held[f]
      OBVIOUS
    <2>3. local[d][f] = row /\ row.name \in Name \cup {NoName} /\ row.status \in {"none", "active", "trashed"}
      BY <1>5, <2>1, <2>2 DEF Held, Absent
    <2>4. row.status # "none" => phase[d] = "configured"
      <3>1. Origin[f] \notin Fresh => row = Absent
        BY <1>5, <2>2
      <3>2. d \in Fresh => phase[d] = "configured"
        BY DEF Init
      <3> QED
        BY <2>1, <3>1, <3>2 DEF Absent
    <2>5. PICK x : x = [status |-> "none", name |-> row.name]
      OBVIOUS
    <2>6. x \in EntryType /\ x.status = "none" /\ x.name = row.name
      BY <2>3, <2>5 DEF EntryType, Statuses
    <2>7. PICK h : h = [k \in 0 .. 0 |-> x]
      OBVIOUS
    <2>8. h \in [0 .. Len(outbox[d]) -> EntryType] /\ h[0] = x
      BY <1>1, <2>6, <2>7
    <2>9. Replays(f, h)
      BY <1>1, <2>1, <2>8 DEF Replays
    <2>10. TakenIn(f, 0)
      BY <1>1, <1>2, <2>1 DEF TakenIn, reporting
    <2>11. Shown(entry[f], h[0])
      BY <1>1, <2>6, <2>8 DEF Shown, Absent
    <2>12. Standing(f, x)
      BY <2>1, <2>3, <2>4, <2>6 DEF Standing, StatusOf, Due
    <2>13. Standing(f, h[Len(outbox[Origin[f]])])
      BY <1>1, <2>1, <2>8, <2>12
    <2> QED
      BY <2>9, <2>10, <2>11, <2>13 DEF Following
  <1>7. Follows
    BY <1>6 DEF Follows
  <1> QED
    BY <1>3, <1>4, <1>7 DEF FollowInv

\* Every step keeps FollowInv.
LEMMA FollowStep == Inv /\ FollowInv /\ [Next]_vars => FollowInv'
  <1> SUFFICES ASSUME Inv, FollowInv, [Next]_vars PROVE FollowInv'
    OBVIOUS
  <1>1. CASE UserStep
    BY <1>1, UserFollows, PersistAuthFollows
  <1>2. CASE ClientStep
    BY <1>2, ApplyActionsFollow, RequestFailsFollows DEF ClientStep
  <1>3. CASE ServerStep
    BY <1>3, ApplyActionsFollow, QueueFollows, ServeLateFollows, ServeFollows, LapseFollows
       DEF ServerStep, Answers, ServesLate, Lapses
  <1>4. ASSUME NEW d \in Device, AgentStep(d) PROVE FollowInv'
    <2>1. CASE ReconcileStep(d)
      BY <2>1, ReconcileFollows, ReconcileEndFollows DEF ReconcileStep
    <2>2. CASE PurgesGoOn(d)
      BY <2>2, DeleteObjectFollows, PurgeEndFollows DEF PurgesGoOn, PurgeStep
    <2>3. CASE LoopStep(d)
      BY <2>3, DeliverFollows, MarkFollows, ClaimFollows, ApplyCommandFollows, DeleteCommandedFollows,
         FinishFollows DEF LoopStep
    <2> QED
      BY <1>4, <2>1, <2>2, <2>3 DEF AgentStep
  <1>5. ASSUME NEW d \in Device, Fault(d) PROVE FollowInv'
    BY <1>5, MarkFollows, CommandLostFollows, ReconcileEndFollows, RestartFollows, PurgeEndFollows DEF Fault
  <1>6. CASE UNCHANGED vars
    <2>1. UNCHANGED <<entry, done, command, local, outbox, loop, phase, reconcile, purge, late, action, raced>>
      BY <1>6 DEF vars
    <2> QED
      BY <2>1, RequestsSame, CommandsSame, QuietFollows
  <1> QED
    BY <1>1, <1>2, <1>3, <1>4, <1>5, <1>6 DEF Next

\* When all reports are completed, the entry is the result of all of them,
\* and when the marker is set nothing is due.
LEMMA FollowsImplies == Inv /\ FollowInv => CatalogFollowsOrigin
  <1> SUFFICES ASSUME Inv, FollowInv, NEW f \in File, Settled(f), f \notin raced
               PROVE  /\ entry[f].status = StatusOf(local[Origin[f]][f])
                      /\ local[Origin[f]][f].status = "active" => entry[f].name = local[Origin[f]][f].name
    BY DEF CatalogFollowsOrigin, StatusOf
  <1>1. PICK d \in Device : d = Origin[f]
    BY CatalogAssumption
  <1>2. /\ \A k \in 1 .. Len(outbox[d]) : outbox[d][k].status = "completed"
        /\ phase[d] = "reconciled"
    BY <1>1 DEF Settled
  <1>3. Undisturbed(f)
    BY <1>1, <1>2 DEF Undisturbed, Settled, Asked
  <1>4. PICK h, q : TakenIn(f, q) /\ Shown(entry[f], h[q]) /\ Standing(f, h[Len(outbox[d])])
    BY <1>1, <1>3 DEF FollowInv, Follows, Following
  <1>5. q \in 0 .. Len(outbox[d]) /\ Len(outbox[d]) \in Nat
    BY <1>1, <1>4, InvTypes DEF TakenIn
  <1>6. \A k \in 1 .. Len(outbox[d]) : k <= q
    BY <1>1, <1>2, <1>4 DEF TakenIn
  <1>7. q = Len(outbox[d])
    BY <1>5, <1>6
  <1>8. \A steps : ~Due(f, steps)
    BY <1>1, <1>2 DEF Due, FollowInv, OwnFiles
  <1>9. PICK x : x = h[q]
    OBVIOUS
  <1>10. Shown(entry[f], x) /\ x.name = local[d][f].name /\ x.status = StatusOf(local[d][f])
    BY <1>1, <1>4, <1>7, <1>8, <1>9 DEF Standing
  <1> QED
    BY <1>1, <1>10 DEF Shown, StatusOf

\* Once the origin has reported its files and delivered its reports, none was
\* refused and no client acted on the file, the catalog has the file as the
\* origin has it, whatever was retried, delivered late or twice, purged in
\* several attempts, interrupted by a restart or reported again on enrolment.
THEOREM OriginSafe == Spec => []CatalogFollowsOrigin
  <1>1. Spec => []Inv
    BY InvStart, InvStep, PTL DEF Spec
  <1>2. Spec => []FollowInv
    BY <1>1, FollowStart, FollowStep, PTL DEF Spec
  <1> QED
    BY <1>1, <1>2, FollowsImplies, PTL
=============================================================================
