----------------------------- MODULE StorageProofs -----------------------------
(***************************************************************************)
(* Proofs about what is stored: SqlDump, Payloads and Archive.  For every  *)
(* number of tables, keys and statements of the module a complete dump is  *)
(* consistent, sequences are ahead after a restore, and Restore implements *)
(* the restore of AtomicRestore, which happens at one moment.  For every   *)
(* set of processes, keys and payloads nothing encrypted is misread or     *)
(* left in the clear.  For every set of entities and migrations the        *)
(* migrations keep what an archive means, and a restore that reports       *)
(* success has imported every item.                                        *)
(***************************************************************************)
EXTENDS SqlDump, Archive, Payloads, WellFoundedInduction, TLAPS

(* Dump and restore *)

\* Nothing but the module touches the database before the dump reads its snapshot,
\* the snapshot is consistent, and the archive is a growing part of it.
DumpInv ==
  /\ dpc # "done" => rpc = "idle" /\ ~whole
  /\ dpc = "idle" => Consistent(db) /\ at = 1 /\ \A t \in Tables : kind[t] = "keyed"
  /\ dpc # "idle" => Consistent(snap)
  /\ dpc = "copy" => \A t \in Tables : t < at => archive[t] = snap[t]
  /\ whole => archive = snap

Running == rpc \in {"stage", "upsert", "delete", "setval", "extras", "commit"}

\* Restore has executed the statements that write table t, and that set its
\* sequence.
Wrote(t) == t < cur \/ (t = cur /\ rpc = "setval") \/ rpc \in {"extras", "commit"}
Reset(t) == t < cur \/ rpc \in {"extras", "commit"}

\* The transaction holds every row of the backup of table t.
Upserted(t) ==
  \A i \in Ids : archive[t][i] # Absent => i \in mine[t] /\ draft[t][i] = archive[t][i]

\* What the transaction holds of a table it has written: in an applied table every
\* row of the backup; of the others none in a merge, and in a full sync the absence
\* of each that was there, so that one it does not hold came from the module.
Pending(t) ==
  /\ ~Applied(t) => mine[t] = {}
  /\ Applied(t) =>
       /\ Upserted(t)
       /\ \A i \in Ids : archive[t][i] = Absent =>
            /\ mode = "merge" => i \notin mine[t]
            /\ mode = "full"  => IF i \in mine[t] THEN draft[t][i] = Absent
                                                  ELSE calm => db[t][i] = Absent

RestoreInv ==
  /\ rpc \notin {"idle", "stage", "upsert"} \/ mine[cur] = {}
  /\ rpc = "idle" => cur = 1
  /\ \A t \in Tables : t > cur => mine[t] = {}
  /\ rpc = "delete" => mode = "full" /\ kind[cur] = "keyed" /\ Upserted(cur)
                       /\ \A i \in mine[cur] : archive[cur][i] # Absent
  /\ Running => \A t \in Tables : Wrote(t) => Pending(t)

\* While nobody disturbs the restore, a sequence that was set stays ahead of what the
\* transaction sees.
SequenceInv ==
  /\ Running /\ calm =>
       \A t \in Tables : (Reset(t) /\ kind[t] \notin {"missing", "disjoint"}) =>
         \A i \in Keys(View, t) : i <= seq[t]
  /\ rpc = "done" /\ calm =>
       \A t \in Tables : kind[t] \notin {"missing", "disjoint"} => \A i \in Keys(db, t) : i <= seq[t]

----------------------------------------------------------------------------
(* Rows *)

\* One table of Rows.
Table == [Ids -> Values \cup {Absent}]

\* The constants that every proof about rows unfolds.
LEMMA EmptyType == Empty \in Rows /\ NoLocks \in [Tables -> SUBSET Ids]
  BY DEF Empty, Rows, NoLocks, Values

\* Changing one row of one table gives rows.
LEMMA RowChanged ==
  ASSUME NEW data \in Rows, NEW t \in Tables, NEW i \in Ids, NEW v \in Values \cup {Absent}
  PROVE  [data EXCEPT ![t][i] = v] \in Rows
  BY DEF Rows

\* Changing one table gives rows.
LEMMA TableChanged ==
  ASSUME NEW data \in Rows, NEW t \in Tables, NEW new \in Table
  PROVE  [data EXCEPT ![t] = new] \in Rows
  BY DEF Rows, Table

\* What a statement of the restore sees are rows.
LEMMA ViewType ==
  ASSUME TypeOK
  PROVE  View \in Rows
  BY DEF TypeOK, View, Rows

\* Write leaves locks and rows.
LEMMA WriteType ==
  ASSUME TypeOK, NEW t \in Tables, NEW keys \in SUBSET Ids, NEW data \in Table, Write(t, keys, data)
  PROVE  mine' \in [Tables -> SUBSET Ids] /\ draft' \in Rows
<1>1. mine' \in [Tables -> SUBSET Ids]
  BY DEF TypeOK, Write
<1>2. [i \in Ids |-> IF i \in keys THEN data[i] ELSE draft[t][i]] \in Table
  BY DEF TypeOK, Table, Rows
<1> QED
  BY <1>1, <1>2, TableChanged DEF TypeOK, Write

\* A set of keys that is not empty has a largest one.
LEMMA LargestKey ==
  ASSUME NEW S \in SUBSET Ids, S # {}
  PROVE  \E i \in S : \A j \in S : j <= i
<1> DEFINE Below == {MaxId - i : i \in S}
<1>1. Below \subseteq Nat
  BY BoundsAssumption DEF Ids
<1>0. Below # {}
  <2>1. PICK i \in S : TRUE
    OBVIOUS
  <2>2. MaxId - i \in Below
    BY <2>1
  <2> QED
    BY <2>2
<1> HIDE DEF Below
<1>2. PICK x \in Below : \A y \in Below : ~(<<y, x>> \in OpToRel(<, Nat))
  BY <1>1, <1>0, NatLessThanWellFounded, WFMin, Zenon
<1>3. \A y \in Below : x <= y
  <2> SUFFICES ASSUME NEW y \in Below PROVE x <= y
    OBVIOUS
  <2>1. <<y, x>> \in Nat \X Nat /\ ~(<<y, x>> \in OpToRel(<, Nat))
    BY <1>1, <1>2
  <2>2. ~(y < x)
    BY <2>1 DEF OpToRel
  <2> QED
    BY <1>1, <2>2
<1>4. PICK i \in S : x = MaxId - i
  BY DEF Below
<1>5. \A j \in S : MaxId - j \in Below
  BY DEF Below
<1>6. \A j \in S : j <= i
  BY <1>3, <1>4, <1>5, BoundsAssumption DEF Ids
<1> QED
  BY <1>6

----------------------------------------------------------------------------
(* Type correctness *)

\* The steps of Dump and Restore that change no row and no lock only move on.
LEMMA AdvanceType ==
  ASSUME TypeOK, Advance
  PROVE  cur' \in Tables /\ rpc' \in {"stage", "extras"}
  BY BoundsAssumption DEF TypeOK, Advance, Tables

\* What a statement of the module leaves alone, and its own count.
LEMMA AppStepType ==
  ASSUME TypeOK, AppStep
  PROVE  /\ apps' \in 0 .. MaxApp /\ calm' \in BOOLEAN
         /\ UNCHANGED <<kind, dpc, snap, archive, at, whole, extras, rpc, mode, cur, mine, draft>>
<1>1. calm' \in BOOLEAN
  BY Zenon DEF AppStep
<1>2. apps' \in 0 .. MaxApp
  BY BoundsAssumption DEF AppStep, TypeOK
<1> QED
  BY <1>1, <1>2 DEF AppStep, dump, restore

\* TypeOK is an invariant: a restore writes values only, and no sequence leaves its
\* range.
THEOREM TypeCorrect == Spec => []TypeOK
<1>1. Init => TypeOK
  <2> SUFFICES ASSUME Init PROVE TypeOK
    OBVIOUS
  <2>1. db \in Rows
    BY DEF Init, Rows, Values
  <2> DEFINE Top(t) == IF Keys(db, t) = {} THEN 0
                       ELSE CHOOSE i \in Keys(db, t) : \A j \in Keys(db, t) : j <= i
  <2>2. ASSUME NEW t \in Tables PROVE Top(t) \in 0 .. MaxId
    <3> DEFINE K == Keys(db, t)
    <3>1. K \in SUBSET Ids
      BY DEF Keys
    <3>2. Top(t) = IF K = {} THEN 0 ELSE CHOOSE i \in K : \A j \in K : j <= i
      OBVIOUS
    <3> HIDE DEF K, Top
    <3>3. CASE K = {}
      BY <3>2, <3>3, BoundsAssumption
    <3>4. CASE K # {}
      <4>1. (CHOOSE i \in K : \A j \in K : j <= i) \in K
        BY <3>1, <3>4, LargestKey, Zenon
      <4>2. Top(t) \in K
        BY <3>2, <3>4, <4>1, Zenon
      <4>3. Top(t) \in Ids
        BY <3>1, <4>2, Zenon
      <4> QED
        BY <4>3, BoundsAssumption DEF Ids
    <3> QED
      BY <3>3, <3>4
  <2>3. seq = [t \in Tables |-> Top(t)]
    BY Zenon DEF Init
  <2> HIDE DEF Top
  <2>4. seq \in [Tables -> 0 .. MaxId]
    BY <2>2, <2>3
  <2>5. /\ kind = [t \in Tables |-> "keyed"] /\ apps = 0 /\ pending = {} /\ dpc = "idle"
        /\ snap = Empty /\ archive = Empty /\ at = 1 /\ whole = FALSE /\ extras \in BOOLEAN
        /\ rpc = "idle" /\ mode \in {"merge", "full"} /\ cur = 1
        /\ mine = NoLocks /\ draft = Empty /\ calm = TRUE
    BY Zenon DEF Init
  <2>6. at \in Tables /\ cur \in Tables /\ apps \in 0 .. MaxApp
    BY <2>5, BoundsAssumption DEF Tables
  <2>7. kind \in [Tables -> Kinds] /\ pending \subseteq Tables \X Ids
    BY <2>5 DEF Kinds
  <2> QED
    BY <2>1, <2>4, <2>5, <2>6, <2>7, EmptyType DEF TypeOK
<1>2. TypeOK /\ [Next]_vars => TypeOK'
  <2> SUFFICES ASSUME TypeOK, [Next]_vars PROVE TypeOK'
    OBVIOUS
  <2> USE BoundsAssumption
  <2>1. ASSUME NEW t \in Tables, AppDraw(t) PROVE TypeOK'
    <3>1. seq' \in [Tables -> 0 .. MaxId] /\ seq[t] + 1 \in Ids
      BY <2>1 DEF AppDraw, TypeOK, Ids
    <3>2. pending' \subseteq Tables \X Ids
      BY <2>1, <3>1 DEF AppDraw, TypeOK
    <3> QED
      BY <2>1, <3>1, <3>2, AppStepType DEF AppDraw, TypeOK
  <2>2. ASSUME NEW t \in Tables, NEW i \in Ids, AppInsert(t, i) PROVE TypeOK'
    <3>1. db' \in Rows
      BY <2>2, RowChanged DEF AppInsert, TypeOK, Values
    <3> QED
      BY <2>2, <3>1 DEF AppInsert, TypeOK, dump, restore
  <2>3. ASSUME NEW t \in Tables, NEW i \in Ids, AppUpdate(t, i) PROVE TypeOK'
    <3>1. db' \in Rows
      BY <2>3, RowChanged DEF AppUpdate, TypeOK, Values
    <3> QED
      BY <2>3, <3>1, AppStepType DEF AppUpdate, TypeOK
  <2>4. ASSUME NEW t \in Tables, NEW i \in Ids, AppDelete(t, i) PROVE TypeOK'
    <3>1. db' \in Rows
      BY <2>4, RowChanged DEF AppDelete, TypeOK
    <3> QED
      BY <2>4, <3>1, AppStepType DEF AppDelete, TypeOK
  <2>5. ASSUME NEW to \in [Tables -> Kinds], Migrate(to) PROVE TypeOK'
    <3>1. db' \in Rows
      BY <2>5, EmptyType DEF Migrate, TypeOK, Rows
    <3> QED
      BY <2>5, <3>1 DEF Migrate, TypeOK, dump, restore
  <2>6. CASE Reinstall
    BY <2>6, EmptyType DEF Reinstall, TypeOK, dump, restore
  <2>7. CASE DumpBegin
    BY <2>7 DEF DumpBegin, TypeOK, restore
  <2>8. CASE DumpTable
    <3>1. archive' \in Rows
      BY <2>8, TableChanged DEF DumpTable, TypeOK, Rows, Table
    <3>2. at' \in Tables /\ dpc' \in {"copy", "done"}
      BY <2>8 DEF DumpTable, TypeOK, Tables
    <3>3. whole' \in BOOLEAN
      BY <2>8, Zenon DEF DumpTable, TypeOK
    <3> QED
      BY <2>8, <3>1, <3>2, <3>3 DEF DumpTable, TypeOK, restore
  <2>9. CASE DumpCut
    <3>1. archive' \in Rows
      <4>1. PICK some \in SUBSET Keys(snap, at) :
              archive' = [archive EXCEPT ![at] = [i \in Ids |-> IF i \in some THEN snap[at][i]
                                                                              ELSE Absent]]
        BY <2>9 DEF DumpCut
      <4>2. [i \in Ids |-> IF i \in some THEN snap[at][i] ELSE Absent] \in Table
        BY DEF TypeOK, Rows, Table
      <4> QED
        BY <4>1, <4>2, TableChanged DEF TypeOK
    <3> QED
      BY <2>9, <3>1 DEF DumpCut, TypeOK, restore
  <2>10. CASE RestoreBegin
    BY <2>10 DEF RestoreBegin, TypeOK, dump
  <2>11. CASE Stage
    BY <2>11, AdvanceType DEF Stage, Kept, TypeOK, dump
  <2>12. CASE Upsert
    <3>1. Staged \in Table /\ StagedKeys \in SUBSET Ids /\ cur \in Tables
      BY DEF Staged, StagedKeys, TypeOK, Rows, Table
    <3>2. mine' \in [Tables -> SUBSET Ids] /\ draft' \in Rows
      <4>1. CASE UNCHANGED <<mine, draft>>
        BY <4>1 DEF TypeOK
      <4>2. CASE Write(cur, StagedKeys, Staged)
        BY <4>2, <3>1, WriteType
      <4>3. CASE Write(cur, Ids, Staged)
        BY <4>3, <3>1, WriteType
      <4> QED
        BY <2>12, <4>1, <4>2, <4>3 DEF Upsert
    <3> QED
      BY <2>12, <3>2 DEF Upsert, Kept, TypeOK, dump
  <2>13. CASE DeleteRest
    <3>1. Empty[cur] \in Table /\ (Keys(View, cur) \ StagedKeys) \in SUBSET Ids /\ cur \in Tables
      BY DEF Empty, Table, Keys, TypeOK
    <3>2. mine' \in [Tables -> SUBSET Ids] /\ draft' \in Rows
      BY <2>13, <3>1, WriteType DEF DeleteRest
    <3> QED
      BY <2>13, <3>2 DEF DeleteRest, Kept, TypeOK, dump
  <2>14. CASE ResetSequences
    <3>1. seq' \in [Tables -> 0 .. MaxId]
      BY <2>14 DEF ResetSequences, TypeOK, Ids
    <3> QED
      BY <2>14, <3>1, AdvanceType DEF ResetSequences, Kept, TypeOK, dump
  <2>15. CASE Extras
    BY <2>15 DEF Extras, Kept, TypeOK, dump
  <2>16. CASE Commit
    BY <2>16, ViewType, EmptyType DEF Commit, TypeOK, dump
  <2>17. CASE Fail
    BY <2>17, EmptyType DEF Fail, Kept, TypeOK, dump
  <2>18. CASE UNCHANGED vars
    BY <2>18 DEF vars, TypeOK, dump, restore
  <2> QED
    BY <2>1, <2>2, <2>3, <2>4, <2>5, <2>6, <2>7, <2>8, <2>9, <2>10, <2>11, <2>12, <2>13, <2>14,
       <2>15, <2>16, <2>17, <2>18
    DEF Next, Over
<1> QED
  BY <1>1, <1>2, PTL DEF Spec

----------------------------------------------------------------------------
(* The dump *)

\* A row whose parent exists may be written.
LEMMA WriteConsistent ==
  ASSUME NEW data \in Rows, NEW t \in Tables, NEW i \in Ids, NEW v \in Values,
         Consistent(data), t > 1 => Has(data, t - 1, i)
  PROVE  Consistent([data EXCEPT ![t][i] = v])
  BY BoundsAssumption DEF Consistent, Has, Rows, Tables, Values, Absent

\* A row that no other refers to may be deleted.
LEMMA DeleteConsistent ==
  ASSUME NEW data \in Rows, NEW t \in Tables, NEW i \in Ids,
         Consistent(data), t < N => ~Has(data, t + 1, i)
  PROVE  Consistent([data EXCEPT ![t][i] = Absent])
  BY BoundsAssumption DEF Consistent, Has, Rows, Tables, Absent

\* A statement of the module leaves the dump alone, and a database that is still to
\* be dumped consistent.
LEMMA AppDump ==
  ASSUME TypeOK, DumpInv,
         UNCHANGED <<kind, dump, rpc>>, dpc = "idle" => Consistent(db')
  PROVE  DumpInv'
<1>1. /\ UNCHANGED <<dpc, snap, archive, at, whole>>
      /\ Consistent(snap) => Consistent(snap')
  BY DEF dump
<1> QED
  BY <1>1 DEF DumpInv

\* Every step preserves DumpInv.
LEMMA DumpStep ==
  ASSUME TypeOK, DumpInv, [Next]_vars
  PROVE  DumpInv'
<1> USE BoundsAssumption
<1>1. ASSUME NEW t \in Tables, AppDraw(t) PROVE DumpInv'
  BY <1>1, AppDump DEF AppDraw, AppStep, restore, DumpInv
<1>2. ASSUME NEW t \in Tables, NEW i \in Ids, AppInsert(t, i) PROVE DumpInv'
  <2>1. dpc = "idle" => Consistent(db')
    <3> SUFFICES ASSUME dpc = "idle", db' = [db EXCEPT ![t][i] = 2], Refers(t) => Has(db, t - 1, i)
                 PROVE  Consistent(db')
      BY <1>2 DEF AppInsert, DumpInv
    <3>1. t > 1 => Has(db, t - 1, i)
      BY DEF Refers, DumpInv, Tables
    <3> QED
      BY <3>1, WriteConsistent DEF DumpInv, TypeOK, Values
  <2> QED
    BY <1>2, <2>1, AppDump DEF AppInsert, restore
<1>3. ASSUME NEW t \in Tables, NEW i \in Ids, AppUpdate(t, i) PROVE DumpInv'
  <2>1. dpc = "idle" => Consistent(db')
    <3> SUFFICES ASSUME dpc = "idle" PROVE Consistent(db')
      OBVIOUS
    <3>1. t > 1 => Has(db, t - 1, i)
      BY <1>3 DEF AppUpdate, Consistent, DumpInv, Tables
    <3> QED
      BY <1>3, <3>1, WriteConsistent DEF AppUpdate, DumpInv, TypeOK, Values
  <2> QED
    BY <1>3, <2>1, AppDump DEF AppUpdate, AppStep, restore
<1>4. ASSUME NEW t \in Tables, NEW i \in Ids, AppDelete(t, i) PROVE DumpInv'
  <2>1. dpc = "idle" => Consistent(db')
    <3> SUFFICES ASSUME dpc = "idle" PROVE Consistent(db')
      OBVIOUS
    <3>1. t < N => ~Has(db, t + 1, i)
      BY <1>4 DEF AppDelete, Refers, DumpInv, Tables
    <3> QED
      BY <1>4, <3>1, DeleteConsistent DEF AppDelete, DumpInv, TypeOK
  <2> QED
    BY <1>4, <2>1, AppDump DEF AppDelete, AppStep, restore
<1>5. ASSUME dpc = "done", UNCHANGED dump PROVE DumpInv'
  BY <1>5 DEF dump, DumpInv, Consistent, Has
<1>6. CASE DumpBegin
  BY <1>6 DEF DumpBegin, DumpInv, restore, Consistent, Has, Tables
<1>7. CASE DumpTable
  <2>1. UNCHANGED <<snap, rpc>> /\ (Consistent(snap) => Consistent(snap'))
    BY <1>7 DEF DumpTable, restore
  <2>2. dpc = "copy" /\ archive' = [archive EXCEPT ![at] = snap[at]]
    BY <1>7 DEF DumpTable
  <2>3. \A t \in Tables : t <= at => archive'[t] = snap[t]
    BY <2>2 DEF DumpInv, TypeOK, Tables, Rows
  <2>4. CASE at < N
    BY <1>7, <2>1, <2>2, <2>3, <2>4 DEF DumpTable, DumpInv, TypeOK, Tables
  <2>5. CASE at >= N
    <3>1. archive' \in Rows /\ snap \in Rows /\ \A t \in Tables : archive'[t] = snap[t]
      BY <2>2, <2>3, <2>5 DEF TypeOK, Tables, Rows
    <3>2. archive' = snap
      BY <3>1 DEF Rows
    <3> QED
      BY <1>7, <2>1, <2>5, <3>2 DEF DumpTable, DumpInv, TypeOK, Tables
  <2> QED
    BY <2>4, <2>5 DEF TypeOK, Tables
<1>8. CASE DumpCut
  BY <1>8 DEF DumpCut, DumpInv, restore, Consistent, Has
<1>9. CASE Migrate(kind') \/ Reinstall
  BY <1>5, <1>9 DEF Migrate, Reinstall
<1>10. CASE Stage \/ Upsert \/ DeleteRest \/ ResetSequences \/ Extras \/ Commit \/ Fail
  <2>1. rpc # "idle" /\ UNCHANGED dump
    BY <1>10 DEF Stage, Upsert, DeleteRest, ResetSequences, Extras, Commit, Fail, Kept
  <2> QED
    BY <1>5, <2>1 DEF DumpInv, TypeOK
<1>11. CASE RestoreBegin
  BY <1>5, <1>11 DEF RestoreBegin
<1>12. CASE UNCHANGED vars
  BY <1>12, AppDump DEF vars, restore, DumpInv
<1> QED
  BY <1>1, <1>2, <1>3, <1>4, <1>6, <1>7, <1>8, <1>9, <1>10, <1>11, <1>12
  DEF Next, Over, Migrate

\* DumpInv is an invariant.
LEMMA DumpHolds == Spec => [](TypeOK /\ DumpInv)
<1>1. Init => DumpInv
  BY DEF Init, DumpInv
<1>2. TypeOK /\ DumpInv /\ [Next]_vars => DumpInv'
  BY DumpStep
<1> QED
  BY <1>1, <1>2, TypeCorrect, PTL DEF Spec

\* DumpConsistent is an invariant: the tables of a complete archive are those of one
\* snapshot, whatever the module wrote while they were copied.
THEOREM DumpIsConsistent == Spec => []DumpConsistent
<1>1. TypeOK /\ DumpInv => DumpConsistent
  BY DEF TypeOK, DumpInv, DumpConsistent
<1> QED
  BY <1>1, DumpHolds, PTL

----------------------------------------------------------------------------
(* The restore *)

\* The transaction keeps what it holds of a table while its rows there, the archive
\* and the schema stay; a statement of the module only ends the calm.
LEMMA PendingKept ==
  ASSUME NEW t \in Tables, Pending(t),
         UNCHANGED <<kind, mode, archive>>, mine'[t] = mine[t], draft'[t] = draft[t],
         calm' => calm /\ db' = db
  PROVE  Pending(t)'
  BY DEF Pending, Upserted, Applied

\* Going on to the next table, or to the extras, once a table is written.
LEMMA AdvanceRestore ==
  ASSUME TypeOK, RestoreInv, rpc \in {"stage", "setval"}, Pending(cur), Advance,
         UNCHANGED <<kind, mode, archive, mine, draft, db, calm>>
  PROVE  RestoreInv'
<1>1. cur \in Tables /\ \A t \in Tables : t < cur \/ t = cur \/ t > cur
  BY DEF TypeOK, Tables
<1>2. \A t \in Tables : Pending(t) => Pending(t)'
  BY PendingKept
<1>3. CASE cur < N
  <2>1. cur' = cur + 1 /\ cur + 1 \in Tables /\ rpc' = "stage"
    BY <1>1, <1>3, BoundsAssumption DEF Advance, Tables
  <2>2. mine'[cur'] = {} /\ \A t \in Tables : t > cur' => mine'[t] = {}
    BY <1>1, <2>1 DEF RestoreInv, Tables
  <2>3. ASSUME NEW t \in Tables, t < cur' PROVE Pending(t)
    BY <1>1, <2>1, <2>3 DEF RestoreInv, Running, Wrote, Tables
  <2> QED
    BY <1>2, <2>1, <2>2, <2>3 DEF RestoreInv, Running, Wrote, Tables
<1>4. CASE ~(cur < N)
  <2>1. cur' = cur /\ rpc' = "extras"
    BY <1>4 DEF Advance
  <2>2. ASSUME NEW t \in Tables PROVE Pending(t)
    BY <1>1, <1>4, BoundsAssumption DEF RestoreInv, Running, Wrote, Tables
  <2> QED
    BY <1>2, <2>1, <2>2 DEF RestoreInv, Running, Wrote, Tables
<1> QED
  BY <1>3, <1>4

\* A write to the current table leaves the others as they are.
LEMMA WriteOther ==
  ASSUME TypeOK, NEW keys \in SUBSET Ids, NEW data \in Table, Write(cur, keys, data)
  PROVE  /\ \A t \in Tables : t # cur => mine'[t] = mine[t] /\ draft'[t] = draft[t]
         /\ mine'[cur] = mine[cur] \cup keys
         /\ \A i \in Ids : draft'[cur][i] = IF i \in keys THEN data[i] ELSE draft[cur][i]
  BY DEF TypeOK, Write, Rows

\* RestoreInv after a step of Upsert or DeleteRest that wrote the current table.
LEMMA WroteCurrent ==
  ASSUME TypeOK, RestoreInv, Running, rpc \notin {"extras", "commit"}, rpc' = "setval",
         Pending(cur)', UNCHANGED <<cur, kind, mode, archive, db, calm>>,
         \A t \in Tables : t # cur => mine'[t] = mine[t] /\ draft'[t] = draft[t]
  PROVE  RestoreInv'
<1>1. \A t \in Tables : t # cur => (Pending(t) => Pending(t)')
  BY PendingKept
<1>2. \A t \in Tables : t < cur => Pending(t) /\ t # cur
  BY DEF RestoreInv, Wrote, Tables, TypeOK
<1>3. \A t \in Tables : t > cur => mine'[t] = {}
  BY DEF RestoreInv, Tables, TypeOK
<1> QED
  BY <1>1, <1>2, <1>3 DEF RestoreInv, Running, Wrote, Tables

\* The rows of the archive that Restore stages.
LEMMA StagedType ==
  ASSUME TypeOK
  PROVE  /\ Staged \in Table /\ StagedKeys \in SUBSET Ids /\ cur \in Tables
         /\ \A i \in Ids : Staged[i] = archive[cur][i]
         /\ \A i \in Ids : i \in StagedKeys <=> archive[cur][i] # Absent
  BY DEF Staged, StagedKeys, TypeOK, Rows, Table

\* Before the restore begins there is nothing to keep.
LEMMA IdleRestore ==
  ASSUME RestoreInv, rpc = "idle", UNCHANGED restore
  PROVE  RestoreInv'
  BY DEF RestoreInv, restore, Running

\* A statement of the module, between two of the restore.
LEMMA AppRestore ==
  ASSUME TypeOK, RestoreInv, UNCHANGED <<kind, dump, restore>>, calm' => calm /\ db' = db
  PROVE  RestoreInv'
<1>1. UNCHANGED <<kind, mode, archive, mine, draft, cur, rpc>>
  BY DEF dump, restore
<1>2. \A t \in Tables : Pending(t) => Pending(t)'
  BY <1>1, PendingKept
<1> QED
  BY <1>1, <1>2 DEF RestoreInv, Running, Wrote, Upserted

\* Upsert establishes what the later statements rely on.
LEMMA UpsertRestore ==
  ASSUME TypeOK, RestoreInv, Upsert
  PROVE  RestoreInv'
<1>1. UNCHANGED <<cur, kind, mode, archive, db, calm>> /\ rpc = "upsert" /\ mine[cur] = {}
  BY DEF Upsert, Kept, RestoreInv, dump
<1>2. CASE kind[cur] = "keyed"
  <2>1. Write(cur, StagedKeys, Staged) /\ rpc' = IF mode = "full" THEN "delete" ELSE "setval"
    BY <1>2 DEF Upsert
  <2>2. /\ \A t \in Tables : t # cur => mine'[t] = mine[t] /\ draft'[t] = draft[t]
        /\ mine'[cur] = StagedKeys
        /\ \A i \in StagedKeys : draft'[cur][i] = archive[cur][i]
    BY <1>1, <2>1, StagedType, WriteOther
  <2>3. Upserted(cur)' /\ \A i \in mine'[cur] : archive'[cur'][i] # Absent
    BY <1>1, <2>2, StagedType DEF Upserted
  <2>4. CASE mode = "full"
    <3>1. \A t \in Tables : t # cur => (Pending(t) => Pending(t)')
      BY <1>1, <2>2, PendingKept
    <3>2. \A t \in Tables : t < cur => t # cur /\ Pending(t)
      BY <1>1 DEF RestoreInv, Running, Wrote, Tables, TypeOK
    <3>3. \A t \in Tables : t > cur => mine'[t] = {}
      BY <2>2 DEF RestoreInv, Tables, TypeOK
    <3> QED
      BY <1>1, <1>2, <2>1, <2>3, <2>4, <3>1, <3>2, <3>3 DEF RestoreInv, Running, Wrote
  <2>5. CASE mode = "merge"
    <3>1. Pending(cur)'
      BY <1>1, <1>2, <2>2, <2>3, <2>5, StagedType DEF Pending, Applied
    <3> QED
      BY <1>1, <2>1, <2>2, <2>5, <3>1, WroteCurrent DEF Running
  <2> QED
    BY <2>4, <2>5 DEF TypeOK
<1>3. CASE kind[cur] = "keyless" /\ mode = "full"
  <2>1. Write(cur, Ids, Staged) /\ rpc' = "setval"
    BY <1>3 DEF Upsert
  <2>2. /\ \A t \in Tables : t # cur => mine'[t] = mine[t] /\ draft'[t] = draft[t]
        /\ mine'[cur] = Ids
        /\ \A i \in Ids : draft'[cur][i] = archive[cur][i]
    BY <1>1, <2>1, StagedType, WriteOther
  <2>3. Pending(cur)'
    BY <1>1, <1>3, <2>2 DEF Pending, Upserted, Applied
  <2> QED
    BY <1>1, <2>1, <2>2, <2>3, WroteCurrent DEF Running
<1>4. CASE kind[cur] = "keyless" /\ mode = "merge"
  <2>1. rpc' = "setval" /\ UNCHANGED <<mine, draft>>
    BY <1>4 DEF Upsert
  <2>2. Pending(cur)'
    BY <1>1, <1>4, <2>1 DEF Pending, Applied
  <2> QED
    BY <1>1, <2>1, <2>2, WroteCurrent DEF Running
<1> QED
  BY <1>2, <1>3, <1>4 DEF Upsert

\* After DeleteRest, a row of the table that is not in the backup is gone, for the
\* transaction or altogether.
LEMMA DeleteRestore ==
  ASSUME TypeOK, RestoreInv, DeleteRest
  PROVE  RestoreInv'
<1>1. /\ UNCHANGED <<cur, kind, mode, archive, db, calm>> /\ rpc = "delete" /\ rpc' = "setval"
      /\ mode = "full" /\ kind[cur] = "keyed" /\ Upserted(cur)
      /\ \A i \in mine[cur] : archive[cur][i] # Absent
  BY DEF DeleteRest, Kept, RestoreInv, dump
<1> DEFINE Others == Keys(View, cur) \ StagedKeys
<1>2. Others \in SUBSET Ids /\ Empty[cur] \in Table /\ \A i \in Ids : Empty[cur][i] = Absent
  BY StagedType DEF Keys, Empty, Table
<1>3. \A i \in Ids : i \in Others <=> archive[cur][i] = Absent /\ View[cur][i] # Absent
  BY StagedType DEF Keys, Has
<1>4. Write(cur, Others, Empty[cur])
  BY DEF DeleteRest
<1> HIDE DEF Others
<1>5. \A i \in Ids : i \notin mine[cur] => View[cur][i] = db[cur][i]
  BY StagedType DEF View
<1>6. /\ \A t \in Tables : t # cur => mine'[t] = mine[t] /\ draft'[t] = draft[t]
      /\ mine'[cur] = mine[cur] \cup Others
      /\ \A i \in Ids : draft'[cur][i] = IF i \in Others THEN Empty[cur][i] ELSE draft[cur][i]
  BY <1>2, <1>4, WriteOther
<1>7. Upserted(cur)'
  BY <1>1, <1>2, <1>3, <1>6 DEF Upserted
<1>8. Pending(cur)'
  <2>1. ASSUME NEW i \in Ids, archive[cur][i] = Absent
        PROVE  IF i \in mine'[cur] THEN draft'[cur][i] = Absent ELSE db[cur][i] = Absent
    BY <1>1, <1>2, <1>3, <1>5, <1>6, <2>1
  <2>2. mode' # "merge" /\ Applied(cur)'
    BY <1>1 DEF Applied
  <2> QED
    BY <1>1, <1>7, <2>1, <2>2 DEF Pending
<1> QED
  BY <1>1, <1>8, <1>6, WroteCurrent DEF Running

\* Every step preserves RestoreInv.
LEMMA RestoreStep ==
  ASSUME TypeOK, DumpInv, RestoreInv, [Next]_vars
  PROVE  RestoreInv'
<1>1. ASSUME NEW t \in Tables, AppDraw(t) PROVE RestoreInv'
  BY <1>1, AppRestore DEF AppDraw, AppStep
<1>2. ASSUME NEW t \in Tables, NEW i \in Ids, AppInsert(t, i) PROVE RestoreInv'
  BY <1>2, AppRestore DEF AppInsert
<1>3. ASSUME NEW t \in Tables, NEW i \in Ids, AppUpdate(t, i) PROVE RestoreInv'
  BY <1>3, AppRestore DEF AppUpdate, AppStep
<1>4. ASSUME NEW t \in Tables, NEW i \in Ids, AppDelete(t, i) PROVE RestoreInv'
  BY <1>4, AppRestore DEF AppDelete, AppStep
<1>5. CASE Migrate(kind') \/ Reinstall
  BY <1>5, IdleRestore DEF Migrate, Reinstall
<1>6. CASE DumpBegin \/ DumpTable \/ DumpCut
  BY <1>6, IdleRestore DEF DumpBegin, DumpTable, DumpCut, DumpInv
<1>7. CASE RestoreBegin
  BY <1>7 DEF RestoreBegin, RestoreInv, Running, Wrote, Tables, TypeOK
<1>8. CASE Stage
  <2>1. /\ rpc = "stage" /\ mine[cur] = {}
        /\ UNCHANGED <<kind, mode, archive, mine, draft, db, calm>>
    BY <1>8 DEF Stage, Kept, RestoreInv, dump
  <2>2. CASE kind[cur] \in {"missing", "disjoint"}
    <3>1. Pending(cur)
      BY <2>1, <2>2 DEF Pending, Applied
    <3> QED
      BY <1>8, <2>1, <2>2, <3>1, AdvanceRestore DEF Stage
  <2>3. CASE kind[cur] \notin {"missing", "disjoint"}
    <3>1. rpc' = "upsert" /\ cur' = cur
      BY <1>8, <2>3 DEF Stage
    <3>2. \A t \in Tables : Pending(t) => Pending(t)'
      BY <2>1, PendingKept
    <3> QED
      BY <2>1, <3>1, <3>2 DEF RestoreInv, Running, Wrote
  <2> QED
    BY <2>2, <2>3
<1>9. CASE Upsert
  BY <1>9, UpsertRestore
<1>10. CASE DeleteRest
  BY <1>10, DeleteRestore
<1>11. CASE ResetSequences
  <2>1. /\ rpc = "setval" /\ Advance
        /\ UNCHANGED <<kind, mode, archive, mine, draft, db, calm>>
    BY <1>11 DEF ResetSequences, Kept, dump
  <2>2. Pending(cur)
    BY <2>1 DEF RestoreInv, Running, Wrote, TypeOK
  <2> QED
    BY <2>1, <2>2, AdvanceRestore
<1>12. CASE Extras
  <2>1. UNCHANGED <<kind, mode, archive, mine, draft, db, calm, cur>> /\ rpc = "extras" /\ rpc' = "commit"
    BY <1>12 DEF Extras, Kept, dump
  <2>2. \A t \in Tables : Pending(t) => Pending(t)'
    BY <2>1, PendingKept
  <2> QED
    BY <2>1, <2>2 DEF RestoreInv, Running, Wrote
<1>13. CASE Commit \/ Fail
  <2>1. mine' = NoLocks /\ UNCHANGED cur /\ rpc' \in {"done", "failed"}
    BY <1>13 DEF Commit, Fail
  <2> QED
    BY <2>1 DEF RestoreInv, Running, NoLocks, TypeOK
<1>14. CASE UNCHANGED vars
  BY <1>14, AppRestore DEF vars
<1> QED
  BY <1>1, <1>2, <1>3, <1>4, <1>5, <1>6, <1>7, <1>8, <1>9, <1>10, <1>11, <1>12, <1>13, <1>14
  DEF Next, Over, Migrate

\* RestoreInv is an invariant.
LEMMA RestoreHolds == Spec => [](TypeOK /\ DumpInv /\ RestoreInv)
<1>1. Init => RestoreInv
  BY BoundsAssumption DEF Init, RestoreInv, Running, NoLocks, Tables
<1>2. TypeOK /\ DumpInv /\ RestoreInv /\ [Next]_vars => RestoreInv'
  BY RestoreStep
<1> QED
  BY <1>1, <1>2, DumpHolds, PTL DEF Spec

----------------------------------------------------------------------------
(* Restore implements AtomicRestore *)

\* The commit makes of every row what the abstract one allows.
LEMMA CommitRows ==
  ASSUME TypeOK, RestoreInv, rpc = "commit", NEW t \in Tables, NEW i \in Ids
  PROVE  Abstract!Becomes(t, i, View[t][i])
<1>1. Pending(t)
  BY DEF RestoreInv, Running, Wrote
<1>2. View[t][i] = IF i \in mine[t] THEN draft[t][i] ELSE db[t][i]
  BY DEF View
<1>3. CASE ~Applied(t)
  BY <1>1, <1>2, <1>3 DEF Pending, Abstract!Becomes
<1>4. CASE Applied(t) /\ archive[t][i] # Absent
  BY <1>1, <1>2, <1>4 DEF Pending, Upserted, Abstract!Becomes
<1>5. CASE Applied(t) /\ archive[t][i] = Absent /\ mode = "merge"
  BY <1>1, <1>2, <1>5 DEF Pending, Abstract!Becomes
<1>6. CASE Applied(t) /\ archive[t][i] = Absent /\ mode = "full"
  <2>1. View[t][i] = Absent \/ (~calm /\ View[t][i] = db[t][i])
    BY <1>1, <1>2, <1>6 DEF Pending
  <2> QED
    BY <1>6, <2>1 DEF Abstract!Becomes
<1> QED
  BY <1>3, <1>4, <1>5, <1>6 DEF TypeOK

\* A statement of the module is a write of the abstract module.
LEMMA AppWrites ==
  ASSUME TypeOK, NEW t \in Tables, NEW i \in Ids, NEW v,
         db' = db \/ db' = [db EXCEPT ![t][i] = v],
         calm' = FALSE, UNCHANGED <<kind, dump, restore>>
  PROVE  Abstract!ModuleWrites
<1>1. \A u \in Tables, j \in Ids : <<u, j>> # <<t, i>> => db'[u][j] = db[u][j]
  BY DEF TypeOK, Rows
<1>2. UNCHANGED <<archive, {u \in Tables : Applied(u)}, mode, Status>>
  BY DEF dump, restore, Applied, Status
<1> QED
  BY <1>1, <1>2 DEF Abstract!ModuleWrites

\* Every step of the engine and the module is one of AtomicRestore or leaves its
\* variables unchanged.
LEMMA AtomicStep ==
  ASSUME TypeOK, DumpInv, RestoreInv, [Next]_vars
  PROVE  [Abstract!Next]_(Abstract!vars)
<1> USE DEF Abstract!Next
<1>1. ASSUME NEW t \in Tables, AppDraw(t) PROVE Abstract!Next
  <2>1. 1 \in Ids
    BY BoundsAssumption DEF Ids
  <2> QED
    BY <1>1, <2>1, AppWrites DEF AppDraw, AppStep
<1>2. ASSUME NEW t \in Tables, NEW i \in Ids, AppInsert(t, i) PROVE Abstract!Next
  BY <1>2, AppWrites DEF AppInsert
<1>3. ASSUME NEW t \in Tables, NEW i \in Ids, AppUpdate(t, i) PROVE Abstract!Next
  BY <1>3, AppWrites DEF AppUpdate, AppStep
<1>4. ASSUME NEW t \in Tables, NEW i \in Ids, AppDelete(t, i) PROVE Abstract!Next
  BY <1>4, AppWrites DEF AppDelete, AppStep
<1>5. ASSUME rpc = "idle", UNCHANGED rpc PROVE Abstract!Next
  BY <1>5 DEF Abstract!Prepare, Status
<1>6. CASE Migrate(kind') \/ Reinstall \/ DumpBegin \/ DumpTable \/ DumpCut
  <2>1. rpc = "idle" /\ UNCHANGED rpc
    BY <1>6 DEF Migrate, Reinstall, DumpBegin, DumpTable, DumpCut, DumpInv, restore
  <2> QED
    BY <1>5, <2>1
<1>7. CASE RestoreBegin
  BY <1>7 DEF RestoreBegin, Abstract!Begin, Status, Applied, dump
<1>8. ASSUME rpc \notin {"idle", "done", "failed"}, rpc' \notin {"idle", "done", "failed"}, Kept
      PROVE  UNCHANGED Abstract!vars
  BY <1>8 DEF Abstract!vars, Kept, Status, Applied, dump
<1>9. CASE Stage
  BY <1>8, <1>9 DEF Stage, Advance
<1>10. CASE Upsert
  BY <1>8, <1>10 DEF Upsert
<1>11. CASE DeleteRest
  BY <1>8, <1>11 DEF DeleteRest
<1>12. CASE ResetSequences
  BY <1>8, <1>12 DEF ResetSequences, Advance
<1>13. CASE Extras
  BY <1>8, <1>13 DEF Extras
<1>14. CASE Commit
  <2>1. /\ Status = "running" /\ Status' = "done"
        /\ UNCHANGED <<archive, {t \in Tables : Applied(t)}, mode, calm>>
    BY <1>14 DEF Commit, Status, Applied, dump
  <2>2. \A t \in Tables, i \in Ids : Abstract!Becomes(t, i, db'[t][i])
    BY <1>14, CommitRows DEF Commit
  <2> QED
    BY <2>1, <2>2 DEF Abstract!Commit
<1>15. CASE Fail
  BY <1>15 DEF Fail, Kept, Abstract!Abort, Status, Applied, dump
<1>16. CASE UNCHANGED vars
  BY <1>16 DEF vars, Abstract!vars, Status, Applied, dump, restore
<1> QED
  BY <1>1, <1>2, <1>3, <1>4, <1>6, <1>7, <1>9, <1>10, <1>11, <1>12, <1>13, <1>14, <1>15, <1>16
  DEF Next, Over, Migrate

\* Restore, a sequence of statements between which the module writes, implements the
\* restore that happens at one moment or not at all.
THEOREM RestoreImplementsAtomic == Spec => RestoreIsAtomic
<1>1. Init => Abstract!Init
  BY DEF Init, Abstract!Init, Status
<1>2. TypeOK /\ DumpInv /\ RestoreInv /\ [Next]_vars => [Abstract!Next]_(Abstract!vars)
  BY AtomicStep
<1> QED
  BY <1>1, <1>2, RestoreHolds, PTL DEF Spec, RestoreIsAtomic, Abstract!Spec

----------------------------------------------------------------------------
(* The sequences *)

\* The sequence of table t is ahead of what the transaction sees there.
Ahead(t) == kind[t] \notin {"missing", "disjoint"} => \A i \in Keys(View, t) : i <= seq[t]

\* A table's sequence stays ahead while the table and its sequence stay.
LEMMA AheadKept ==
  ASSUME NEW t \in Tables, Ahead(t), UNCHANGED <<kind, db>>,
         mine'[t] = mine[t], draft'[t] = draft[t], seq'[t] = seq[t]
  PROVE  Ahead(t)'
<1>1. View'[t] = View[t]
  BY DEF View
<1> QED
  BY <1>1 DEF Ahead, Keys, Has

\* On to the next table, when the current one's sequence is ahead.
LEMMA AdvanceAhead ==
  ASSUME TypeOK, SequenceInv, Advance, rpc \in {"stage", "setval"}, calm,
         UNCHANGED <<kind, db, mine, draft>>, NEW c \in Tables, c = cur, Ahead(c)',
         \A t \in Tables : t # cur => seq'[t] = seq[t]
  PROVE  SequenceInv'
<1>1. \A t \in Tables : t < cur => Ahead(t)
  BY DEF SequenceInv, Running, Reset, Ahead
<1>2. \A t \in Tables : t < cur => Ahead(t)'
  BY <1>1, AheadKept DEF Tables, TypeOK
<1>3. \A t \in Tables : Reset(t)' => t < cur \/ t = cur
  BY BoundsAssumption DEF Reset, Advance, Tables, TypeOK
<1>4. \A t \in Tables : Reset(t)' => Ahead(t)'
  BY <1>2, <1>3
<1>5. rpc' # "done"
  BY DEF Advance
<1> QED
  BY <1>4, <1>5 DEF SequenceInv, Ahead

\* Every step preserves SequenceInv.
LEMMA SequenceStep ==
  ASSUME TypeOK, DumpInv, RestoreInv, SequenceInv, [Next]_vars
  PROVE  SequenceInv'
<1>1. ASSUME ~calm' \/ rpc' \in {"idle", "failed"} PROVE SequenceInv'
  BY <1>1 DEF SequenceInv, Running
<1>2. ASSUME NEW t \in Tables, AppDraw(t) PROVE SequenceInv'
  BY <1>1, <1>2 DEF AppDraw, AppStep
<1>3. ASSUME NEW t \in Tables, NEW i \in Ids, AppInsert(t, i) \/ AppUpdate(t, i) \/ AppDelete(t, i)
      PROVE  SequenceInv'
  BY <1>1, <1>3 DEF AppInsert, AppUpdate, AppDelete, AppStep
<1>4. CASE Migrate(kind') \/ Reinstall \/ DumpBegin \/ DumpTable \/ DumpCut
  <2>1. rpc' = "idle"
    BY <1>4 DEF Migrate, Reinstall, DumpBegin, DumpTable, DumpCut, DumpInv, restore
  <2> QED
    BY <1>1, <2>1
<1>5. CASE RestoreBegin
  BY <1>5 DEF RestoreBegin, RestoreInv, SequenceInv, Running, Reset, Tables
<1>6. ASSUME calm, Stage PROVE SequenceInv'
  <2>1. rpc = "stage" /\ UNCHANGED <<kind, db, mine, draft, seq, calm>>
    BY <1>6 DEF Stage, Kept
  <2>2. CASE kind[cur] \in {"missing", "disjoint"}
    <3>1. PICK c \in Tables : c = cur
      BY DEF TypeOK
    <3>2. Ahead(c)'
      BY <2>1, <2>2, <3>1 DEF Ahead
    <3> QED
      BY <1>6, <2>1, <2>2, <3>1, <3>2, AdvanceAhead DEF Stage
  <2>3. CASE kind[cur] \notin {"missing", "disjoint"}
    <3>1. rpc' = "upsert" /\ cur' = cur
      BY <1>6, <2>3 DEF Stage
    <3>2. ASSUME NEW t \in Tables, t < cur PROVE Ahead(t)'
      BY <1>6, <2>1, <3>2, AheadKept DEF SequenceInv, Running, Reset, Ahead
    <3> QED
      BY <3>1, <3>2 DEF SequenceInv, Reset, Ahead
  <2> QED
    BY <2>2, <2>3
<1>7. ASSUME calm, Upsert \/ DeleteRest PROVE SequenceInv'
  <2>1. /\ rpc \in {"upsert", "delete"} /\ rpc' \in {"delete", "setval"}
        /\ UNCHANGED <<kind, db, seq, calm, cur>>
    BY <1>7 DEF Upsert, DeleteRest, Kept
  <2>2. ASSUME NEW t \in Tables, t < cur PROVE mine'[t] = mine[t] /\ draft'[t] = draft[t]
    <3>1. t # cur
      BY <2>2 DEF Tables, TypeOK
    <3>2. \/ UNCHANGED <<mine, draft>>
          \/ \E keys, data : Write(cur, keys, data)
      BY <1>7 DEF Upsert, DeleteRest
    <3> QED
      BY <3>1, <3>2 DEF Write, TypeOK, Rows
  <2>3. ASSUME NEW t \in Tables, t < cur PROVE Ahead(t)'
    BY <1>7, <2>1, <2>2, <2>3, AheadKept DEF SequenceInv, Running, Reset, Ahead
  <2> QED
    BY <2>1, <2>3 DEF SequenceInv, Reset, Ahead
<1>8. ASSUME calm, ResetSequences PROVE SequenceInv'
  <2>1. rpc = "setval" /\ Advance /\ UNCHANGED <<kind, db, mine, draft>>
    BY <1>8 DEF ResetSequences, Kept
  <2>2. PICK top \in Ids : /\ \A i \in Keys(View, cur) : i <= top
                           /\ seq' = [seq EXCEPT ![cur] = top]
    BY <1>8 DEF ResetSequences
  <2>3. View' = View
    BY <2>1 DEF View
  <2>4. seq'[cur] = top /\ \A t \in Tables : t # cur => seq'[t] = seq[t]
    BY <2>2 DEF TypeOK
  <2>5. PICK c \in Tables : c = cur
    BY DEF TypeOK
  <2>6. Ahead(c)'
    BY <2>2, <2>3, <2>4, <2>5 DEF Ahead, Keys, Has
  <2> QED
    BY <1>8, <2>1, <2>4, <2>5, <2>6, AdvanceAhead
<1>9. ASSUME calm, Extras PROVE SequenceInv'
  <2>1. rpc = "extras" /\ rpc' = "commit" /\ UNCHANGED <<kind, db, seq, calm, cur, mine, draft>>
    BY <1>9 DEF Extras, Kept
  <2>2. ASSUME NEW t \in Tables PROVE Ahead(t)'
    BY <1>9, <2>1, AheadKept DEF SequenceInv, Running, Reset, Ahead
  <2> QED
    BY <2>1, <2>2 DEF SequenceInv, Ahead
<1>10. ASSUME calm, Commit PROVE SequenceInv'
  <2>1. rpc = "commit" /\ rpc' = "done" /\ db' = View /\ UNCHANGED <<kind, seq>>
    BY <1>10 DEF Commit
  <2>2. ASSUME NEW t \in Tables PROVE Ahead(t)
    BY <1>10, <2>1 DEF SequenceInv, Running, Reset, Ahead
  <2> QED
    BY <2>1, <2>2 DEF SequenceInv, Running, Ahead, Keys, Has
<1>11. CASE Fail
  BY <1>1, <1>11 DEF Fail
<1>12. ASSUME ~calm, Stage \/ Upsert \/ DeleteRest \/ ResetSequences \/ Extras \/ Commit
       PROVE  SequenceInv'
  BY <1>1, <1>12 DEF Stage, Upsert, DeleteRest, ResetSequences, Extras, Commit, Kept
<1>13. CASE UNCHANGED vars
  BY <1>13 DEF vars, dump, restore, SequenceInv, Running, Reset, Keys, Has, View
<1> QED
  BY <1>2, <1>3, <1>4, <1>5, <1>6, <1>7, <1>8, <1>9, <1>10, <1>11, <1>12, <1>13
  DEF Next, Over, Migrate

\* SequencesAhead is an invariant: after a restore that nobody disturbed, the next
\* key of a table it applied is free.
THEOREM SequencesStayAhead == Spec => []SequencesAhead
<1>1. Init => SequenceInv
  BY DEF Init, SequenceInv, Running
<1>2. TypeOK /\ DumpInv /\ RestoreInv /\ SequenceInv /\ [Next]_vars => SequenceInv'
  BY SequenceStep
<1>3. SequenceInv => SequencesAhead
  BY DEF SequenceInv, SequencesAhead, Applied
<1> QED
  BY <1>1, <1>2, <1>3, RestoreHolds, PTL DEF Spec

------------------------------------------------------------------------------
(* Payloads *)

\* What a stored payload may hold, before and after a turn through JSON.
Datum == {Missing, "text", "int", "bigint", "float", "rounded"}

PayloadType == [PFields -> Datum]

\* The shape of the stores, and of what readers got.
PayloadShape ==
  /\ DOMAIN enc = Procs /\ DOMAIN once = Procs /\ keyed = enc
  /\ task = Entry(task.flag, task.key, task.inner, task.outer)
  /\ task.flag \in BOOLEAN /\ task.inner \in PayloadType /\ task.outer \in PayloadType
  /\ want = [payload |-> want.payload, key |-> want.key] /\ want.payload \in PayloadType
  /\ value = Str(value.text, value.key)

\* The stored payload is the one that was wanted: inside when it is encrypted, with
\* its routing fields outside, and as it is when it is not.
TaskKept ==
  /\ Json(want.payload) = want.payload
  /\ task.flag  => /\ task.inner = want.payload /\ task.key = want.key
                   /\ Routing(task.outer) = Routing(want.payload)
  /\ ~task.flag => task.outer = want.payload
  /\ got.ok => got.payload = want.payload

\* The stored value is the one that was meant, sealed with its writer's key unless
\* it is empty, and readers got it or an error.
ValueKept ==
  /\ value = Str(meant.text, IF meant.text = "" THEN Clear ELSE meant.key)
  /\ read.ok => read.str.text = meant.text
  /\ read.ok /\ read.with # Clear => read.str.key = Clear

PayloadsInv == PayloadShape /\ TaskKept /\ ValueKept

\* JSON keeps the type of a payload, and changes it only once; it does not mix up
\* the fields that are outside.
LEMMA JsonFacts ==
  ASSUME NEW payload \in PayloadType
  PROVE  /\ Json(payload) \in PayloadType /\ Json(Json(payload)) = Json(payload)
         /\ Routing(payload) \in PayloadType
         /\ Routing(Json(Routing(payload))) = Routing(Json(payload))
<1>1. /\ Json(payload) \in PayloadType
      /\ \A f \in PFields : /\ payload[f] = "int" => Json(payload)[f] = "float"
                            /\ payload[f] = "bigint" => Json(payload)[f] = "rounded"
                            /\ payload[f] \notin {"int", "bigint"} => Json(payload)[f] = payload[f]
  BY DEF Json, PayloadType, Datum, Missing
<1>2. Json(Json(payload)) = Json(payload)
  BY <1>1 DEF Json, PayloadType, Datum, Missing
<1>3. Routing(payload) \in PayloadType
  BY DEF Routing, PayloadType, Datum, Missing
<1>4. Routing(Json(Routing(payload))) = Routing(Json(payload))
  BY DEF Routing, Json, PayloadType, Missing
<1> QED
  BY <1>1, <1>2, <1>3, <1>4

\* What decrypting a string gives: its text, in the clear if the reader has a key.
LEMMA DecryptFacts ==
  ASSUME NEW p \in Procs, NEW text, NEW key
  PROVE  LET d == DecryptIfNeeded(p, Str(text, key))
         IN /\ d.ok => d.str.text = text
            /\ d.ok /\ enc[p] # Clear => d.str.key = Clear
  BY DEF DecryptIfNeeded, IsEncrypted, Str, Ok, Err, Clear

\* What a worker gets from the stored payload is what was wanted, or an error.
LEMMA DecryptPayloadFacts ==
  ASSUME PayloadsInv, NEW p \in Procs
  PROVE  LET d == DecryptPayload(p, task) IN d.ok => d.payload = want.payload
<1>1. CASE ~task.flag
  BY <1>1 DEF PayloadsInv, TaskKept, DecryptPayload
<1>2. CASE task.flag
  <2>1. task.inner = want.payload
    BY <1>2 DEF PayloadsInv, TaskKept
  <2> QED
    BY <1>2, <2>1, Zenon DEF DecryptPayload
<1> QED
  BY <1>1, <1>2

\* A process that starts, initialises its encryptor or reads leaves the stores alone.
LEMMA EncryptorStep ==
  ASSUME PayloadsInv, NEW p \in Procs,
         Restart(p) \/ \E key \in EncKeys \cup {NoKey}, enabled \in BOOLEAN :
                         InitGlobalEncryptor(p, key, enabled)
  PROVE  PayloadsInv'
<1>1. UNCHANGED <<task, want, got, value, meant, read>>
  BY DEF Restart, InitGlobalEncryptor
<1>2. DOMAIN enc' = Procs /\ DOMAIN once' = Procs /\ keyed' = enc'
  BY DEF Restart, InitGlobalEncryptor, PayloadsInv, PayloadShape
<1> QED
  BY <1>1, <1>2 DEF PayloadsInv, PayloadShape, TaskKept, ValueKept, Entry, Str, Json, Routing

\* What a store of a payload must be for TaskKept to hold after it.
LEMMA TaskStep ==
  ASSUME PayloadsInv, NEW payload \in PayloadType, NEW key, NEW flag \in BOOLEAN,
         NEW inner \in PayloadType, NEW outer \in PayloadType,
         flag => inner = Json(payload) /\ outer = Routing(payload),
         ~flag => outer = payload,
         task' = Stored(Entry(flag, key, inner, outer)),
         want' = [payload |-> Json(payload), key |-> key], Forget,
         UNCHANGED <<enc, once, keyed, value, meant, read>>
  PROVE  PayloadsInv'
<1>1. task' = Entry(flag, key, inner, Json(outer))
  BY DEF Stored, Entry
<1>2. /\ task'.flag = flag /\ task'.key = key /\ task'.inner = inner /\ task'.outer = Json(outer)
      /\ want'.payload = Json(payload) /\ want'.key = key
  BY <1>1 DEF Entry
<1>3. PayloadShape'
  <2>1. Json(outer) \in PayloadType /\ Json(payload) \in PayloadType
    BY JsonFacts
  <2> QED
    BY <1>1, <1>2, <2>1 DEF PayloadsInv, PayloadShape, Entry, Str
<1>4. TaskKept'
  <2>1. Json(want'.payload) = want'.payload
    BY <1>2, JsonFacts
  <2>2. flag => Routing(task'.outer) = Routing(want'.payload)
    BY <1>2, JsonFacts
  <2>3. ~got'.ok
    BY DEF Forget
  <2> QED
    BY <1>2, <2>1, <2>2, <2>3 DEF TaskKept
<1>5. ValueKept'
  BY DEF PayloadsInv, ValueKept, Str
<1> QED
  BY <1>3, <1>4, <1>5 DEF PayloadsInv

LEMMA PayloadsStep ==
  PayloadsInv /\ [PayloadsNext]_payloadVars => PayloadsInv'
<1> SUFFICES ASSUME PayloadsInv, [PayloadsNext]_payloadVars
             PROVE  PayloadsInv'
  OBVIOUS
<1>0. keyed = enc /\ task.outer \in PayloadType /\ want.payload \in PayloadType
  BY DEF PayloadsInv, PayloadShape
<1>p. PayloadSet \subseteq PayloadType /\ Blank \in PayloadType
  BY PayloadsAssumption DEF PayloadType, Datum, Blank, Missing
<1>1. ASSUME NEW p \in Procs,
             Restart(p) \/ \E key \in EncKeys \cup {NoKey}, enabled \in BOOLEAN :
                             InitGlobalEncryptor(p, key, enabled)
      PROVE  PayloadsInv'
  BY <1>1, EncryptorStep
<1>2. ASSUME NEW p \in Procs, NEW payload \in PayloadSet, Enqueue(p, payload)
      PROVE  PayloadsInv'
  <2>1. /\ payload \in PayloadType /\ Json(payload) \in PayloadType
        /\ Routing(payload) \in PayloadType
    BY <1>p, JsonFacts
  <2>2. /\ task' = Stored(Entry(TRUE, enc[p], Json(payload), Routing(payload)))
        /\ want' = [payload |-> Json(payload), key |-> enc[p]] /\ Forget
        /\ UNCHANGED <<enc, once, keyed, value, meant, read>>
    BY <1>0, <1>2 DEF Enqueue, EncryptPayload
  <2> QED
    BY <2>1, <2>2, TaskStep
<1>3. ASSUME NEW payload \in PayloadSet, EnqueueLegacy(payload)
      PROVE  PayloadsInv'
  BY <1>3, <1>p, TaskStep DEF EnqueueLegacy
<1>4. ASSUME NEW p \in Procs, MigrateTask(p)
      PROVE  PayloadsInv'
  <2>1. ~task.flag /\ task.outer = want.payload /\ Json(want.payload) = want.payload
    BY <1>4 DEF PayloadsInv, TaskKept, MigrateTask, HasEncryptedPayload
  <2>2. Json(want.payload) \in PayloadType /\ Routing(want.payload) \in PayloadType
    BY <1>0, JsonFacts
  <2>3. /\ task' = Stored(Entry(TRUE, enc[p], Json(want.payload), Routing(want.payload)))
        /\ Forget /\ UNCHANGED <<enc, once, keyed, value, meant, read>>
    BY <1>0, <1>4, <2>1 DEF MigrateTask, EncryptPayload
  <2>4. want' = [payload |-> Json(want.payload), key |-> enc[p]]
    BY <1>0, <1>4, <2>1 DEF MigrateTask, PayloadsInv, PayloadShape
  <2> QED
    BY <1>0, <2>2, <2>3, <2>4, TaskStep
<1>5. ASSUME NEW p \in Procs, Dequeue(p)
      PROVE  PayloadsInv'
  <2>1. got' = DecryptPayload(p, task) /\ UNCHANGED <<enc, once, keyed, task, want, value, meant, read>>
    BY <1>5 DEF Dequeue
  <2>2. got'.ok => got'.payload = want.payload
    BY <2>1, DecryptPayloadFacts
  <2> QED
    BY <2>1, <2>2 DEF PayloadsInv, PayloadShape, TaskKept, ValueKept
<1>6. ASSUME NEW p \in Procs, NEW text \in Texts, WriteValue(p, text)
      PROVE  PayloadsInv'
  <2>1. /\ value' = Str(text, IF text = "" THEN Clear ELSE enc[p])
        /\ meant' = [text |-> text, key |-> enc[p]]
        /\ read' = [ok |-> TRUE, str |-> Str(text, Clear), with |-> Clear]
        /\ UNCHANGED <<enc, once, keyed, task, want, got>>
    BY <1>0, <1>6 DEF WriteValue, EncryptIfNeeded
  <2> QED
    BY <2>1 DEF PayloadsInv, PayloadShape, TaskKept, ValueKept, Str
<1>7. ASSUME NEW p \in Procs, ReadValue(p)
      PROVE  PayloadsInv'
  <2> DEFINE d == DecryptIfNeeded(p, value)
  <2>1. /\ read'.ok = d.ok /\ read'.str = d.str /\ read'.with = enc[p]
        /\ UNCHANGED <<enc, once, keyed, task, want, got, value, meant>>
    BY <1>7 DEF ReadValue
  <2>2. d.ok => d.str.text = meant.text
    BY DecryptFacts DEF PayloadsInv, ValueKept
  <2>3. d.ok /\ enc[p] # Clear => d.str.key = Clear
    BY DecryptFacts DEF PayloadsInv, ValueKept
  <2> HIDE DEF d
  <2> QED
    BY <2>1, <2>2, <2>3 DEF PayloadsInv, PayloadShape, TaskKept, ValueKept
<1>8. CASE UNCHANGED payloadVars
  BY <1>8 DEF payloadVars, PayloadsInv, PayloadShape, TaskKept, ValueKept
<1> QED
  BY <1>1, <1>2, <1>3, <1>4, <1>5, <1>6, <1>7, <1>8 DEF PayloadsNext

LEMMA PayloadsHold ==
  PayloadsSpec => []PayloadsInv
<1>1. PayloadsInit => PayloadsInv
  <2> SUFFICES ASSUME PayloadsInit PROVE PayloadsInv
    OBVIOUS
  <2>1. Blank \in PayloadType /\ Json(Blank) = Blank
    BY DEF PayloadType, Datum, Blank, Missing, Json
  <2>2. PayloadShape
    BY <2>1 DEF PayloadsInit, PayloadShape, Entry, Str
  <2>3. TaskKept
    BY <2>1 DEF PayloadsInit, TaskKept, Entry
  <2>4. ValueKept
    BY DEF PayloadsInit, ValueKept, Str
  <2> QED
    BY <2>2, <2>3, <2>4 DEF PayloadsInv
<1> QED
  BY <1>1, PayloadsStep, PTL DEF PayloadsSpec

\* A worker never gets another payload than the one queued, nor a reader another
\* text than the one meant, for any processes, keys and payloads and however often
\* the processes restart and initialise their encryptors.
THEOREM NeverMisread ==
  PayloadsSpec => []NothingMisread
<1>1. PayloadsInv => NothingMisread
  BY DEF PayloadsInv, PayloadShape, TaskKept, ValueKept, NothingMisread
<1> QED
  BY <1>1, PayloadsHold, PTL

\* What a process with a key stores is sealed with that key.
THEOREM AlwaysSealed ==
  PayloadsSpec => []SealedOnceKeyed
<1>1. PayloadsInv => SealedOnceKeyed
  <2> SUFFICES ASSUME PayloadsInv PROVE SealedOnceKeyed
    OBVIOUS
  <2>1. meant.text # "" => value.key = meant.key
    BY Zenon DEF PayloadsInv, ValueKept, Str
  <2> QED
    BY <2>1 DEF PayloadsInv, TaskKept, SealedOnceKeyed
<1> QED
  BY <1>1, PayloadsHold, PTL

------------------------------------------------------------------------------
(* Archive *)

\* While it is being built, an archive counts its items.
Counted ==
  phase = "export" =>
    /\ arch = [module |-> arch.module, version |-> arch.version, entities |-> arch.entities,
               counts |-> arch.counts, extras |-> arch.extras]
    /\ DOMAIN arch.entities = EntityKeys /\ DOMAIN arch.counts = EntityKeys
    /\ \A k \in EntityKeys : arch.counts[k] = Len(arch.entities[k].items)

\* Once packed, the module's tables have a row for every item the archive counts.
RowsFit ==
  phase # "export" =>
    /\ DOMAIN rows = EntityKeys
    /\ \A k \in EntityKeys : DOMAIN rows[k] = 1 .. bytes.counts[k]

\* An import that has met no error has imported all but the keys still to do.
ImportedSoFar ==
  /\ phase \in {"importing", "imported"} /\ result =>
       \A k \in EntityKeys \ todo : \A i \in DOMAIN rows[k] :
         rows[k][i] = "new" \/ (restoreMode = "skip" /\ rows[k][i] = "old")
  /\ phase = "imported" => result /\ todo = {}

ArchiveInv == Counted /\ RowsFit /\ ImportedSoFar

LEMMA ArchiveStep ==
  ArchiveInv /\ [ArchiveNext]_archVars => ArchiveInv'
<1> SUFFICES ASSUME ArchiveInv, [ArchiveNext]_archVars
             PROVE  ArchiveInv'
  OBVIOUS
<1> USE DEF ArchiveInv
<1>1. ASSUME NEW k \in EntityKeys, NEW raw \in Exports[k], SetEntities(k, raw)
      PROVE  ArchiveInv'
  <2>1. phase = "export" /\ phase' = "export"
    BY <1>1 DEF SetEntities
  <2>2. /\ DOMAIN arch'.entities = EntityKeys /\ DOMAIN arch'.counts = EntityKeys
        /\ arch' = [module |-> arch'.module, version |-> arch'.version, entities |-> arch'.entities,
                    counts |-> arch'.counts, extras |-> arch'.extras]
        /\ \A q \in EntityKeys : arch'.counts[q] = Len(arch'.entities[q].items)
    BY <1>1, <2>1 DEF SetEntities, Counted
  <2> QED
    BY <2>1, <2>2 DEF Counted, RowsFit, ImportedSoFar
<1>2. CASE SetExtra
  BY <1>2 DEF SetExtra, Counted, RowsFit, ImportedSoFar
<1>3. ASSUME NEW complete \in BOOLEAN, Pack(complete)
      PROVE  ArchiveInv'
  <2>1. /\ phase = "export" /\ phase' = "packed" /\ bytes' = arch
        /\ \E r : rows' = [k \in EntityKeys |-> [i \in 1 .. Len(arch.entities[k].items) |-> r]]
    BY <1>3 DEF Pack
  <2> QED
    BY <2>1 DEF Counted, RowsFit, ImportedSoFar
<1>4. CASE \/ Unpack \/ Validate \/ RunMigrations \/ MigrateStep \/ MigrateFails \/ MigrateDone
  <2>1. /\ phase \notin {"export", "importing", "imported"}
        /\ phase' \notin {"export", "importing", "imported"}
        /\ UNCHANGED <<bytes, rows>>
    BY <1>4 DEF Unpack, Validate, RunMigrations, MigrateStep, MigrateFails, MigrateDone, Onward
  <2> QED
    BY <2>1 DEF Counted, RowsFit, ImportedSoFar
<1>5. CASE ImportBegin
  BY <1>5 DEF ImportBegin, Counted, RowsFit, ImportedSoFar
<1>6. CASE ImportEnd
  BY <1>6 DEF ImportEnd, Counted, RowsFit, ImportedSoFar
<1>7. ASSUME NEW k \in EntityKeys, NEW failed \in SUBSET DOMAIN rows[k], Import(k, failed)
      PROVE  ArchiveInv'
  <2>1. /\ phase = "importing" /\ phase' = phase /\ k \in todo /\ todo' = todo \ {k}
        /\ UNCHANGED <<bytes, restoreMode>>
        /\ DOMAIN rows = EntityKeys
    BY <1>7 DEF Import, RowsFit
  <2>2. result' => result /\ failed = {}
    BY <1>7, Zenon DEF Import, AddResult
  <2>3. /\ DOMAIN rows' = EntityKeys /\ DOMAIN rows'[k] = DOMAIN rows[k]
        /\ \A q \in EntityKeys \ {k} : rows'[q] = rows[q]
        /\ failed = {} => \A i \in DOMAIN rows[k] :
             rows'[k][i] = "new" \/ (restoreMode = "skip" /\ rows'[k][i] = "old")
    BY <1>7, <2>1 DEF Import
  <2>4. Counted' /\ RowsFit'
    BY <2>1, <2>3 DEF Counted, RowsFit
  <2>5. ImportedSoFar'
    BY <2>1, <2>2, <2>3 DEF ImportedSoFar
  <2> QED
    BY <2>4, <2>5
<1>8. CASE UNCHANGED archVars
  BY <1>8 DEF archVars, Counted, RowsFit, ImportedSoFar
<1> QED
  BY <1>1, <1>2, <1>3, <1>4, <1>5, <1>6, <1>7, <1>8 DEF ArchiveNext

\* However often an import of however large an archive is tried, one that reports
\* success has left every item counted in the archive in the module's tables.
THEOREM SuccessIsTruthful ==
  ArchiveSpec => []RestoreTruthful
<1>1. ArchiveInit => ArchiveInv
  BY DEF ArchiveInit, NewArchive, Unset, Raw, ArchiveInv, Counted, RowsFit, ImportedSoFar
<1>2. ArchiveInv => RestoreTruthful
  BY DEF ArchiveInv, RowsFit, ImportedSoFar, RestoreTruthful
<1> QED
  BY <1>1, <1>2, ArchiveStep, PTL DEF ArchiveSpec

------------------------------------------------------------------------------
(* Migrations *)

Raws == [shape : {"unset", "objects", "other"}, items : Seq(Items \union {Null})]

Archives ==
  [module : {"this", "other"}, version : Nat, entities : [EntityKeys -> Raws],
   counts : [EntityKeys -> Nat], extras : {"empty", "set", "nil"}]

\* Archives are archives, and one counts its items.
ArchivesFit ==
  /\ arch \in Archives /\ bytes \in Archives /\ registry \in Registries
  /\ \A k \in EntityKeys : /\ arch.counts[k] = Len(arch.entities[k].items)
                           /\ bytes.counts[k] = Len(bytes.entities[k].items)

\* An item of the archive in hand and the one it came from, if the running function has
\* made n calls: null or the same in the current schema.
ItemKept(k, v, n, now, from, old) ==
  /\ old = Null <=> now = Null
  /\ old # Null => Same(Meaning(k, v, n, now), Meaning(k, from, 0, old))

\* Every item in hand is one that was exported, and in the current schema the same: if the
\* function of its version begins again, and if it goes on.
ItemsKept ==
  phase \in {"received", "valid", "migrating", "failed", "ready", "importing", "imported"} =>
    \A k \in EntityKeys :
      LET old == bytes.entities[k]
          now == arch.entities[k]
      IN  /\ now.shape = old.shape /\ Len(now.items) = Len(old.items)
          /\ now.shape = "objects" => \A i \in 1 .. Len(old.items) :
               /\ ItemKept(k, arch.version, 0, now.items[i], bytes.version, old.items[i])
               /\ phase = "migrating" =>
                    ItemKept(k, arch.version, op - 1, now.items[i], bytes.version, old.items[i])

\* Where RunMigrations stands.
LoopFits ==
  /\ phase \in {"valid", "migrating", "failed", "ready", "importing", "imported"} =>
       arch.version \in 1 .. Current
  /\ phase = "migrating" =>
       /\ arch.version \in DOMAIN registry \intersect 1 .. Current - 1
       /\ op \in 1 .. Len(registry[arch.version]) + 1
  /\ phase \in {"ready", "importing", "imported"} => arch.version = Current

MigrationInv == ArchivesFit /\ ItemsKept /\ LoopFits

LEMMA SameFacts ==
  /\ \A x : Same(x, x)
  /\ \A x, y, z : Same(x, y) /\ Same(y, z) => Same(x, z)
<1>1. \A v : Through(Through(v)) = Through(v)
  BY DEF Through, Rounded, Big
<1>2. \A x : Same(x, x)
  BY DEF Same
<1>3. ASSUME NEW x, NEW y, NEW z, Same(x, y), Same(y, z)
      PROVE  Same(x, z)
  BY <1>1, <1>3 DEF Same
<1> QED
  BY <1>2, <1>3

LEMMA NullIsNoItem ==
  Null \notin Items
<1>1. PICK f \in Fields : TRUE
  BY ItemsAssumption
<1>2. Null[f] = "null"
  BY DEF Null
<1>3. \A item \in Items : item[f] \in JSONValues
  BY DEF Items
<1> QED
  BY <1>2, <1>3, ItemsAssumption

\* A helper makes an item of an item; two of them pass over a null.
LEMMA MigrateItemFacts ==
  ASSUME NEW c, IsCall(c)
  PROVE  /\ \A item \in Items : MigrateItem(item, c) \in Items
         /\ c.op # "add" => MigrateItem(Null, c) = Null
<1>v. None \in JSONValues /\ Rounded \in JSONValues
  BY ItemsAssumption
<1>1. ASSUME NEW item \in Items
      PROVE  MigrateItem(item, c) \in Items
  <2> DEFINE d == [f \in Fields |-> Through(item[f])]
  <2>1. d \in Items
    BY <1>v DEF Items, Through
  <2>2. d # Null
    BY <2>1, NullIsNoItem
  <2> HIDE DEF d
  <2>3. AddField(d, c) \in Items \/ c.op # "add"
    BY <2>1 DEF AddField, Items, IsCall
  <2>4. RenameField(d, c) \in Items \/ c.op # "rename"
    BY <1>v, <2>1 DEF RenameField, Items, IsCall
  <2>5. RemoveField(d, c) \in Items
    BY <1>v, <2>1 DEF RemoveField, Items, IsCall
  <2>6. MigrateItem(item, c) \in {AddField(d, c), RenameField(d, c), RemoveField(d, c)}
        /\ (c.op = "add" => MigrateItem(item, c) = AddField(d, c))
        /\ (c.op = "rename" => MigrateItem(item, c) = RenameField(d, c))
        /\ (c.op = "remove" => MigrateItem(item, c) = RemoveField(d, c))
    BY DEF MigrateItem, IsCall, d
  <2> QED
    BY <2>3, <2>4, <2>5, <2>6 DEF IsCall
<1>2. ASSUME c.op # "add"
      PROVE  MigrateItem(Null, c) = Null
  <2> DEFINE d == [f \in Fields |-> Through(Null[f])]
  <2>1. d = Null
    BY DEF Null, Through, Big
  <2>2. RenameField(Null, c) = Null /\ RemoveField(Null, c) = Null
    BY DEF RenameField, RemoveField
  <2>3. c.op \in {"rename", "remove"}
    BY <1>2 DEF IsCall
  <2>4. MigrateItem(Null, c) \in {RenameField(d, c), RemoveField(d, c)}
    BY <2>3 DEF MigrateItem
  <2> HIDE DEF d
  <2> QED
    BY <2>1, <2>2, <2>4
<1> QED
  BY <1>1, <1>2

\* A helper called again on what it made changes nothing but what the turn through JSON
\* does: a call of a MigrateFunc that is made again, after an error, does no harm.
THEOREM HelpersIdempotent ==
  ASSUME NEW c, IsCall(c), NEW item \in Items
  PROVE  Same(MigrateItem(MigrateItem(item, c), c), MigrateItem(item, c))
<1> DEFINE d(x) == [f \in Fields |-> Through(x[f])]
           new == MigrateItem(item, c)
<1>1. /\ \A x : c.op = "add" => MigrateItem(x, c) = AddField(d(x), c)
      /\ \A x : c.op = "rename" => MigrateItem(x, c) = RenameField(d(x), c)
      /\ \A x : c.op = "remove" => MigrateItem(x, c) = RemoveField(d(x), c)
  BY DEF MigrateItem
<1>2. new \in Items /\ c.field \in Fields
  BY MigrateItemFacts DEF IsCall
<1>3. d(new) \in Items /\ d(new) # Null /\ \A f \in Fields : d(new)[f] = Through(new[f])
  <2> HIDE DEF new
  <2>1. d(new) \in Items
    BY <1>2, ItemsAssumption DEF Items, Through
  <2> QED
    BY <2>1, NullIsNoItem
<1>4. d(item) \in Items /\ d(item) # Null
  <2>1. d(item) \in Items
    BY ItemsAssumption DEF Items, Through
  <2> QED
    BY <2>1, NullIsNoItem
<1>5. \A v : (Through(v) = None) = (v = None)
  BY DEF Through, None, Big, Rounded
<1>6. CASE c.op = "add"
  <2>1. new = AddField(d(item), c) /\ MigrateItem(new, c) = AddField(d(new), c)
    BY <1>1, <1>6
  <2> HIDE DEF new, d
  <2>2. new[c.field] = None => c.value = None
    BY <1>2, <1>4, <2>1 DEF AddField, Items
  <2>3. \A f \in Fields : AddField(d(new), c)[f] \in {new[f], Through(new[f])}
    BY <1>2, <1>3, <1>5, <2>2 DEF AddField, Items
  <2> QED
    BY <2>1, <2>3 DEF Same, new
<1>7. CASE c.op = "rename"
  <2>1. new = RenameField(d(item), c) /\ MigrateItem(new, c) = RenameField(d(new), c)
    BY <1>1, <1>7
  <2> HIDE DEF new, d
  <2>2. new[c.field] = None
    BY <1>2, <1>4, <2>1 DEF RenameField, Items
  <2>3. RenameField(d(new), c) = d(new)
    BY <1>2, <1>3, <1>5, <2>2 DEF RenameField
  <2> QED
    BY <1>3, <2>1, <2>3 DEF Same, new
<1>8. CASE c.op = "remove"
  <2>1. new = RemoveField(d(item), c) /\ MigrateItem(new, c) = RemoveField(d(new), c)
    BY <1>1, <1>8
  <2> HIDE DEF new, d
  <2>2. new[c.field] = None
    BY <1>2, <1>4, <2>1 DEF RemoveField, Items
  <2>3. \A f \in Fields : RemoveField(d(new), c)[f] \in {new[f], Through(new[f])}
    BY <1>2, <1>3, <2>2 DEF RemoveField, Items
  <2> QED
    BY <2>1, <2>3 DEF Same, new
<1> QED
  BY <1>6, <1>7, <1>8 DEF IsCall

\* A call that does not break makes as many items as there were, each from its own.
LEMMA MigratedFacts ==
  ASSUME NEW c, IsCall(c), NEW raw \in Raws, ~Breaks(raw, c)
  PROVE  LET new == Migrated(raw.items, c)
         IN  /\ new \in Seq(Items \union {Null}) /\ Len(new) = Len(raw.items)
             /\ \A i \in 1 .. Len(raw.items) :
                  /\ new[i] = MigrateItem(raw.items[i], c)
                  /\ raw.items[i] = Null <=> new[i] = Null
<1> DEFINE items == raw.items
           new == Migrated(items, c)
<1>1. /\ items \in Seq(Items \union {Null}) /\ Len(items) \in Nat
      /\ \A i \in 1 .. Len(items) : items[i] \in Items \union {Null}
  BY DEF Raws
<1>2. c.op = "add" => \A i \in 1 .. Len(items) : items[i] # Null
  BY DEF Breaks
<1>3. new = [i \in 1 .. Len(items) |-> MigrateItem(items[i], c)]
  BY DEF Migrated
<1> HIDE DEF items, new
<1>4. ASSUME NEW i \in 1 .. Len(items)
      PROVE  /\ MigrateItem(items[i], c) \in Items \union {Null}
             /\ items[i] = Null <=> MigrateItem(items[i], c) = Null
  BY <1>1, <1>2, <1>4, MigrateItemFacts, NullIsNoItem
<1>5. new \in Seq(Items \union {Null}) /\ Len(new) = Len(items)
  BY <1>1, <1>3, <1>4
<1>6. \A i \in 1 .. Len(items) : new[i] = MigrateItem(items[i], c)
  BY <1>3
<1> QED
  BY <1>4, <1>5, <1>6 DEF items, new

\* An item that is kept at one stage is kept at another at which it means the same.
Follows(k, w, m, new, v, n, now) ==
  /\ now = Null <=> new = Null
  /\ now # Null => Same(Meaning(k, w, m, new), Meaning(k, v, n, now))

LEMMA KeptOn ==
  ASSUME NEW k, NEW v, NEW n, NEW w, NEW m, NEW now, NEW new, NEW from, NEW old,
         ItemKept(k, v, n, now, from, old), Follows(k, w, m, new, v, n, now)
  PROVE  ItemKept(k, w, m, new, from, old)
  BY SameFacts DEF ItemKept, Follows

\* A helper call keeps every item: the function may go on, or begin again.
LEMMA CallKeeps ==
  ASSUME MigrationInv, MigrateStep
  PROVE  MigrationInv'
<1> DEFINE v == arch.version
           c == registry[v][op]
           raw == arch.entities[c.key]
           new == Migrated(raw.items, c)
<1>1. /\ phase = "migrating" /\ op \in 1 .. Len(registry[v]) /\ registry \in Registries
      /\ v \in DOMAIN registry \intersect 1 .. Current - 1 /\ v \in Nat
      /\ arch \in Archives /\ bytes \in Archives
      /\ UNCHANGED <<bytes, registry>>
  BY DEF MigrateStep, MigrationInv, LoopFits, ArchivesFit, Archives
<1>2. /\ IsCall(c) /\ Len(registry[v]) \in Nat
      /\ \A item \in Items :
           /\ Same(Meaning(c.key, v, 0, MigrateItem(item, c)), Meaning(c.key, v, 0, item))
           /\ Same(Meaning(c.key, v, op, MigrateItem(item, c)), Meaning(c.key, v, op - 1, item))
           /\ \A k \in EntityKeys \ {c.key} : Meaning(k, v, op, item) = Meaning(k, v, op - 1, item)
  BY <1>1, MigrationsAssumption
<1>3. CASE phase' = "failed" /\ UNCHANGED <<arch, op>>
  BY <1>1, <1>3 DEF MigrationInv, ArchivesFit, ItemsKept, LoopFits
<1>4. CASE ~(phase' = "failed" /\ UNCHANGED <<arch, op>>)
  <2>1. /\ arch' = [arch EXCEPT !.entities[c.key].items = Migrated(@, c)]
        /\ op' = op + 1 /\ UNCHANGED phase /\ ~(raw # Unset /\ Breaks(raw, c))
    BY <1>4 DEF MigrateStep
  <2>2. c.key \in EntityKeys /\ raw \in Raws
    BY <1>1, <1>2 DEF IsCall, Archives
  <2>3. ~Breaks(raw, c)
    <3>1. ~Breaks(Unset, c)
      BY DEF Breaks, Unset, Raw
    <3> QED
      BY <2>1, <3>1
  <2>4. /\ new \in Seq(Items \union {Null}) /\ Len(new) = Len(raw.items)
        /\ \A i \in 1 .. Len(raw.items) :
             new[i] = MigrateItem(raw.items[i], c) /\ (raw.items[i] = Null <=> new[i] = Null)
    BY <1>2, <2>2, <2>3, MigratedFacts
  <2> HIDE DEF c, new
  <2>5. /\ arch' \in Archives /\ arch'.version = v /\ arch'.counts = arch.counts
        /\ arch'.entities[c.key].items = new /\ arch'.entities[c.key].shape = raw.shape
        /\ \A k \in EntityKeys \ {c.key} : arch'.entities[k] = arch.entities[k]
    BY <1>1, <2>1, <2>2, <2>4 DEF Archives, Raws, new
  <2>6. ArchivesFit'
    BY <1>1, <2>2, <2>4, <2>5 DEF MigrationInv, ArchivesFit
  <2>7. LoopFits'
    BY <1>1, <1>2, <2>1, <2>5 DEF MigrationInv, LoopFits
  <2>8. ASSUME NEW k \in EntityKeys
        PROVE  LET old == bytes.entities[k]
                   now == arch'.entities[k]
               IN  /\ now.shape = old.shape /\ Len(now.items) = Len(old.items)
                   /\ now.shape = "objects" => \A i \in 1 .. Len(old.items) :
                        /\ ItemKept(k, v, 0, now.items[i], bytes.version, old.items[i])
                        /\ ItemKept(k, v, op, now.items[i], bytes.version, old.items[i])
    <3> DEFINE old == bytes.entities[k]
               was == arch.entities[k]
               now == arch'.entities[k]
    <3>1. /\ was.shape = old.shape /\ Len(was.items) = Len(old.items)
          /\ was.shape = "objects" => \A i \in 1 .. Len(old.items) :
               /\ ItemKept(k, v, 0, was.items[i], bytes.version, old.items[i])
               /\ ItemKept(k, v, op - 1, was.items[i], bytes.version, old.items[i])
      BY <1>1 DEF MigrationInv, ItemsKept
    <3>2. was \in Raws /\ \A i \in 1 .. Len(was.items) : was.items[i] \in Items \union {Null}
      BY <1>1 DEF Archives, Raws
    <3>3. CASE k # c.key
      <4>1. now = was
        BY <2>5, <3>3
      <4>2. ASSUME was.shape = "objects", NEW i \in 1 .. Len(old.items)
            PROVE  ItemKept(k, v, op, was.items[i], bytes.version, old.items[i])
        <5>1. was.items[i] # Null => Meaning(k, v, op, was.items[i]) = Meaning(k, v, op - 1, was.items[i])
          BY <1>2, <3>1, <3>2, <3>3, <4>2
        <5>2. Follows(k, v, op, was.items[i], v, op - 1, was.items[i])
          BY <5>1, SameFacts DEF Follows
        <5>3. ItemKept(k, v, op - 1, was.items[i], bytes.version, old.items[i])
          BY <3>1, <4>2
        <5> QED
          BY <5>2, <5>3, KeptOn
      <4> QED
        BY <3>1, <4>1, <4>2
    <3>4. CASE k = c.key
      <4>1. now.shape = was.shape /\ now.items = new /\ was = raw /\ Len(new) = Len(was.items)
        BY <2>4, <2>5, <3>4
      <4>2. ASSUME was.shape = "objects", NEW i \in 1 .. Len(old.items)
            PROVE  /\ ItemKept(k, v, 0, new[i], bytes.version, old.items[i])
                   /\ ItemKept(k, v, op, new[i], bytes.version, old.items[i])
        <5>1. new[i] = MigrateItem(was.items[i], c) /\ (was.items[i] = Null <=> new[i] = Null)
          BY <2>4, <3>1, <4>1, <4>2
        <5>2. was.items[i] # Null => was.items[i] \in Items
          BY <3>1, <3>2, <4>2
        <5>3. was.items[i] # Null =>
                /\ Same(Meaning(k, v, 0, new[i]), Meaning(k, v, 0, was.items[i]))
                /\ Same(Meaning(k, v, op, new[i]), Meaning(k, v, op - 1, was.items[i]))
          BY <1>2, <3>4, <5>1, <5>2
        <5>4. /\ Follows(k, v, 0, new[i], v, 0, was.items[i])
              /\ Follows(k, v, op, new[i], v, op - 1, was.items[i])
          BY <5>1, <5>3 DEF Follows
        <5>5. /\ ItemKept(k, v, 0, was.items[i], bytes.version, old.items[i])
              /\ ItemKept(k, v, op - 1, was.items[i], bytes.version, old.items[i])
          BY <3>1, <4>2
        <5> QED
          BY <5>4, <5>5, KeptOn, Zenon
      <4> QED
        BY <3>1, <4>1, <4>2
    <3> QED
      BY <3>3, <3>4
  <2>9. ItemsKept'
    <3>1. phase' = "migrating" /\ op' - 1 = op /\ arch'.version = v /\ bytes' = bytes
      BY <1>1, <1>2, <2>1, <2>5
    <3> QED
      BY <2>8, <3>1 DEF ItemsKept
  <2> QED
    BY <2>6, <2>7, <2>9 DEF MigrationInv
<1> QED
  BY <1>3, <1>4

\* A function that is done has brought every item to the next version.
LEMMA VersionKeeps ==
  ASSUME MigrationInv, MigrateDone
  PROVE  MigrationInv'
<1> DEFINE v == arch.version
<1>1. /\ phase = "migrating" /\ op \in 1 .. Len(registry[v]) + 1 /\ op > Len(registry[v])
      /\ v \in DOMAIN registry \intersect 1 .. Current - 1 /\ v \in Nat
      /\ arch \in Archives /\ bytes \in Archives /\ registry \in Registries
      /\ arch' = [arch EXCEPT !.version = @ + 1] /\ op' = 1 /\ phase' = Onward(v + 1)
      /\ UNCHANGED <<bytes, registry>>
  BY DEF MigrateDone, MigrationInv, LoopFits, ArchivesFit, Archives
<1>2. /\ Len(registry[v]) \in Nat
      /\ \A k \in EntityKeys, item \in Items :
           Meaning(k, v, Len(registry[v]), item) = Meaning(k, v + 1, 0, item)
  BY <1>1, MigrationsAssumption
<1>3. op - 1 = Len(registry[v])
  BY <1>1, <1>2
<1>4. /\ arch' \in Archives /\ arch'.version = v + 1 /\ arch'.counts = arch.counts
      /\ arch'.entities = arch.entities
  <2>1. arch \in Archives /\ arch.version + 1 \in Nat /\ arch' = [arch EXCEPT !.version = arch.version + 1]
    BY <1>1
  <2> QED
    BY <2>1 DEF Archives
<1>5. ArchivesFit'
  BY <1>1, <1>4 DEF MigrationInv, ArchivesFit
<1>6. v + 1 \in 1 .. Current /\ Current \in Nat
  BY <1>1, VersionsAssumption
<1>7. LoopFits'
  <2>1. phase' = "migrating" => v + 1 \in DOMAIN registry \intersect 1 .. Current - 1
    BY <1>1, <1>6 DEF Onward
  <2>2. phase' = "migrating" => Len(registry[v + 1]) \in Nat
    BY <1>1, <2>1, MigrationsAssumption
  <2>3. phase' = "ready" => v + 1 = Current
    BY <1>1 DEF Onward
  <2>4. phase' \in {"ready", "migrating", "failed"}
    BY <1>1 DEF Onward
  <2> QED
    BY <1>1, <1>4, <1>6, <2>1, <2>2, <2>3, <2>4 DEF LoopFits
<1>8. ASSUME NEW k \in EntityKeys, arch.entities[k].shape = "objects",
             NEW i \in 1 .. Len(bytes.entities[k].items)
      PROVE  ItemKept(k, v + 1, 0, arch.entities[k].items[i], bytes.version, bytes.entities[k].items[i])
  <2> DEFINE old == bytes.entities[k].items[i]
             now == arch.entities[k].items[i]
  <2>1. /\ ItemKept(k, v, op - 1, now, bytes.version, old)
        /\ Len(arch.entities[k].items) = Len(bytes.entities[k].items)
    BY <1>1, <1>8 DEF MigrationInv, ItemsKept
  <2>2. now \in Items \union {Null}
    BY <1>1, <1>8, <2>1 DEF Archives, Raws
  <2> HIDE DEF now, old
  <2>3. now # Null => Meaning(k, v + 1, 0, now) = Meaning(k, v, op - 1, now)
    BY <1>2, <1>3, <2>2
  <2>4. Follows(k, v + 1, 0, now, v, op - 1, now)
    BY <2>3, SameFacts DEF Follows
  <2>5. ItemKept(k, v + 1, 0, now, bytes.version, old)
    BY <2>1, <2>4, KeptOn
  <2> QED
    BY <2>5 DEF now, old
<1>9. \A k \in EntityKeys : /\ arch.entities[k].shape = bytes.entities[k].shape
                            /\ Len(arch.entities[k].items) = Len(bytes.entities[k].items)
  BY <1>1 DEF MigrationInv, ItemsKept
<1>10. ItemsKept'
  <2>1. op' - 1 = 0 /\ bytes' = bytes
    BY <1>1
  <2> QED
    BY <1>4, <1>8, <1>9, <2>1 DEF ItemsKept
<1> QED
  BY <1>5, <1>7, <1>10 DEF MigrationInv

\* What is unpacked is what was packed.
LEMMA UnpackKeeps ==
  ASSUME MigrationInv, Unpack
  PROVE  MigrationInv'
<1>1. /\ arch \in Archives /\ bytes \in Archives /\ registry \in Registries
      /\ UNCHANGED <<bytes, registry>>
      /\ \A k \in EntityKeys : /\ arch.counts[k] = Len(arch.entities[k].items)
                               /\ bytes.counts[k] = Len(bytes.entities[k].items)
  BY DEF MigrationInv, ArchivesFit, Unpack
<1>2. CASE intact
  <2>1. phase' = "received" /\ arch' = [bytes EXCEPT !.extras = IF @ = "empty" THEN "nil" ELSE @]
    BY <1>2 DEF Unpack
  <2>2. /\ arch' \in Archives /\ arch'.version = bytes.version
        /\ arch'.entities = bytes.entities /\ arch'.counts = bytes.counts
    BY <1>1, <2>1 DEF Archives
  <2>3. \A k, v, item : ItemKept(k, v, 0, item, v, item)
    BY SameFacts DEF ItemKept
  <2> QED
    BY <1>1, <2>1, <2>2, <2>3 DEF MigrationInv, ArchivesFit, ItemsKept, LoopFits
<1>3. CASE ~intact
  <2>1. phase' = "refused" /\ UNCHANGED arch
    BY <1>3 DEF Unpack
  <2> QED
    BY <1>1, <2>1 DEF MigrationInv, ArchivesFit, ItemsKept, LoopFits
<1> QED
  BY <1>2, <1>3

\* RunMigrations may begin with whatever a call before has left.
LEMMA BeginKeeps ==
  ASSUME MigrationInv, RunMigrations
  PROVE  MigrationInv'
<1>1. /\ phase \in {"valid", "failed"} /\ arch.version \in 1 .. Current /\ Current \in Nat
      /\ registry \in Registries /\ op' = 1 /\ phase' = Onward(arch.version)
      /\ UNCHANGED <<arch, bytes, registry>>
  BY VersionsAssumption DEF RunMigrations, MigrationInv, ArchivesFit, LoopFits
<1>2. phase' = "migrating" => arch.version \in DOMAIN registry \intersect 1 .. Current - 1
  BY <1>1 DEF Onward
<1>3. phase' = "migrating" => Len(registry[arch.version]) \in Nat
  BY <1>1, <1>2, MigrationsAssumption
<1>4. phase' \in {"ready", "migrating", "failed"} /\ (phase' = "ready" => arch.version = Current)
  BY <1>1 DEF Onward
<1>5. LoopFits'
  BY <1>1, <1>2, <1>3, <1>4 DEF LoopFits
<1>6. ItemsKept'
  <2>1. op' - 1 = 0
    BY <1>1
  <2> QED
    BY <1>1, <2>1 DEF MigrationInv, ItemsKept
<1> QED
  BY <1>1, <1>5, <1>6 DEF MigrationInv, ArchivesFit

\* An export is counted as it is set.
LEMMA ExportKeeps ==
  ASSUME MigrationInv, NEW k \in EntityKeys, NEW raw \in Exports[k], SetEntities(k, raw)
  PROVE  MigrationInv'
<1>1. /\ arch \in Archives /\ phase = "export" /\ phase' = "export"
      /\ arch' = [arch EXCEPT !.entities[k] = raw, !.counts[k] = Len(raw.items)]
      /\ UNCHANGED <<bytes, registry>>
  BY DEF MigrationInv, ArchivesFit, SetEntities
<1>2. raw \in Raws /\ Len(raw.items) \in Nat
  BY ItemsAssumption DEF Raws, Raw
<1>3. arch' \in Archives
  BY <1>1, <1>2 DEF Archives
<1>4. \A q \in EntityKeys : arch'.counts[q] = Len(arch'.entities[q].items)
  BY <1>1 DEF MigrationInv, ArchivesFit, Archives
<1> QED
  BY <1>1, <1>3, <1>4 DEF MigrationInv, ArchivesFit, ItemsKept, LoopFits

LEMMA MigrationStep ==
  MigrationInv /\ [ArchiveNext]_archVars => MigrationInv'
<1> SUFFICES ASSUME MigrationInv, [ArchiveNext]_archVars
             PROVE  MigrationInv'
  OBVIOUS
<1>1. ASSUME NEW k \in EntityKeys, NEW raw \in Exports[k], SetEntities(k, raw)
      PROVE  MigrationInv'
  BY <1>1, ExportKeeps
<1>2. CASE SetExtra
  <2>1. CASE phase = "export" /\ arch' = [arch EXCEPT !.extras = "set"] /\ UNCHANGED <<bytes, registry, phase>>
    <3>1. /\ arch' \in Archives /\ arch'.entities = arch.entities /\ arch'.counts = arch.counts
      BY <2>1 DEF MigrationInv, ArchivesFit, Archives
    <3> QED
      BY <2>1, <3>1 DEF MigrationInv, ArchivesFit, ItemsKept, LoopFits
  <2>2. CASE phase' = "refused" /\ UNCHANGED <<arch, bytes, registry>>
    BY <2>2 DEF MigrationInv, ArchivesFit, ItemsKept, LoopFits
  <2> QED
    BY <1>2, <2>1, <2>2 DEF SetExtra
<1>3. ASSUME NEW complete \in BOOLEAN, Pack(complete)
      PROVE  MigrationInv'
  <2>1. phase' = "packed" /\ bytes' = arch /\ UNCHANGED <<arch, registry>>
    BY <1>3 DEF Pack
  <2> QED
    BY <2>1 DEF MigrationInv, ArchivesFit, ItemsKept, LoopFits
<1>4. CASE Unpack
  BY <1>4, UnpackKeeps
<1>5. CASE Validate
  <2>1. /\ phase = "received" /\ phase' \in {"valid", "refused"}
        /\ phase' = "valid" => arch.version \in 1 .. Current
        /\ UNCHANGED <<arch, bytes, registry, op>>
    BY <1>5 DEF Validate
  <2> QED
    BY <2>1 DEF MigrationInv, ArchivesFit, ItemsKept, LoopFits
<1>6. CASE RunMigrations
  BY <1>6, BeginKeeps
<1>7. CASE MigrateStep
  BY <1>7, CallKeeps
<1>8. CASE MigrateFails
  <2>1. phase = "migrating" /\ phase' = "failed" /\ UNCHANGED <<arch, bytes, registry>>
    BY <1>8 DEF MigrateFails
  <2> QED
    BY <2>1 DEF MigrationInv, ArchivesFit, ItemsKept, LoopFits
<1>9. CASE MigrateDone
  BY <1>9, VersionKeeps
<1>10. CASE \/ ImportBegin \/ ImportEnd
            \/ \E k \in EntityKeys : \E failed \in SUBSET DOMAIN rows[k] : Import(k, failed)
  <2>1. /\ phase \in {"ready", "importing"} /\ phase' \in {"importing", "imported", "failed"}
        /\ UNCHANGED <<arch, bytes, registry>>
    BY <1>10 DEF ImportBegin, ImportEnd, Import
  <2> QED
    BY <2>1 DEF MigrationInv, ArchivesFit, ItemsKept, LoopFits
<1>11. CASE UNCHANGED archVars
  BY <1>11 DEF archVars, MigrationInv, ArchivesFit, ItemsKept, LoopFits
<1> QED
  BY <1>1, <1>2, <1>3, <1>4, <1>5, <1>6, <1>7, <1>8, <1>9, <1>10, <1>11 DEF ArchiveNext

\* For every number of versions, every set of migrations whose calls are right one by
\* one, and every archive: RunMigrations, however often it fails within a function and
\* is run again on what that left, ends with each item as the current schema has it.
THEOREM MigrationsKeepMeaning ==
  ArchiveSpec => []MigrationFaithful
<1>1. ArchiveInit => MigrationInv
  <2> SUFFICES ASSUME ArchiveInit PROVE MigrationInv
    OBVIOUS
  <2>1. PICK module \in {"this", "other"}, v \in 0 .. Current + 1 : arch = NewArchive(module, v)
    BY DEF ArchiveInit
  <2>2. v \in Nat
    BY VersionsAssumption
  <2>3. Unset \in Raws /\ Len(Unset.items) = 0
    BY DEF Unset, Raw, Raws
  <2>4. arch \in Archives /\ \A k \in EntityKeys : arch.counts[k] = 0 /\ arch.entities[k] = Unset
    BY <2>1, <2>2, <2>3 DEF NewArchive, Archives
  <2> QED
    BY <2>3, <2>4 DEF ArchiveInit, MigrationInv, ArchivesFit, ItemsKept, LoopFits
<1>2. MigrationInv => MigrationFaithful
  <2> SUFFICES ASSUME MigrationInv, phase \in {"ready", "importing", "imported"}
               PROVE  /\ arch.version = Current
                      /\ \A k \in EntityKeys :
                           LET old == bytes.entities[k].items
                               now == arch.entities[k].items
                           IN  /\ Len(now) = Len(old) /\ arch.counts[k] = Len(now)
                               /\ arch.entities[k].shape = "objects" =>
                                    \A i \in 1 .. Len(old) :
                                      old[i] # Null => Same(now[i], Meaning(k, bytes.version, 0, old[i]))
    BY DEF MigrationFaithful
  <2>1. arch.version = Current /\ arch \in Archives
    BY DEF MigrationInv, LoopFits, ArchivesFit
  <2>2. \A k \in EntityKeys : /\ Len(arch.entities[k].items) = Len(bytes.entities[k].items)
                              /\ arch.counts[k] = Len(arch.entities[k].items)
    BY DEF MigrationInv, ArchivesFit, ItemsKept
  <2>3. ASSUME NEW k \in EntityKeys, arch.entities[k].shape = "objects",
               NEW i \in 1 .. Len(bytes.entities[k].items), bytes.entities[k].items[i] # Null
        PROVE  Same(arch.entities[k].items[i], Meaning(k, bytes.version, 0, bytes.entities[k].items[i]))
    <3> DEFINE old == bytes.entities[k].items[i]
               now == arch.entities[k].items[i]
    <3>1. ItemKept(k, Current, 0, now, bytes.version, old)
      BY <2>1, <2>3 DEF MigrationInv, ItemsKept
    <3>2. now \in Items \union {Null}
      BY <2>1, <2>2, <2>3 DEF Archives, Raws
    <3> HIDE DEF old, now
    <3>3. old # Null
      BY <2>3 DEF old
    <3>4. now \in Items /\ Same(Meaning(k, Current, 0, now), Meaning(k, bytes.version, 0, old))
      BY <3>1, <3>2, <3>3 DEF ItemKept
    <3>5. Meaning(k, Current, 0, now) = now
      BY <2>3, <3>4, MigrationsAssumption
    <3>6. Same(now, Meaning(k, bytes.version, 0, old))
      BY <3>4, <3>5
    <3> QED
      BY <3>6 DEF old, now
  <2> QED
    BY <2>1, <2>2, <2>3
<1> QED
  BY <1>1, <1>2, MigrationStep, PTL DEF ArchiveSpec
==============================================================================
