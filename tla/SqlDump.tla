------------------------------- MODULE SqlDump -------------------------------
(***************************************************************************)
(* The backup engine (src/backup/sqldump): Engine.Dump writes an archive   *)
(* of the module's tables, Engine.Restore applies it, both while the       *)
(* module keeps using its database.                                        *)
(*                                                                         *)
(* PostgreSQL and the module are external, modelled from the statements    *)
(* the engine sends: Dump reads one REPEATABLE READ snapshot; Restore is a *)
(* READ COMMITTED transaction, each statement of which sees what is        *)
(* committed by then; rows it wrote are locked until it ends; setval is    *)
(* not part of the transaction and is never rolled back.                   *)
(*                                                                         *)
(* A table is a function from keys to values.  Row i of a table refers to  *)
(* row i of the table before it.  Framing is abstracted to where a stream  *)
(* ends: a reader at the end of a cut archive gets io.EOF, as at the       *)
(* terminator of a table, unless the cut is inside a chunk.                *)
(***************************************************************************)
EXTENDS Integers, FiniteSets

CONSTANTS
  N,        \* the number of tables
  MaxId,    \* keys are 1 .. MaxId
  MaxApp    \* bound on the module's own statements

ASSUME BoundsAssumption == N \in Nat \ {0} /\ MaxId \in Nat \ {0} /\ MaxApp \in Nat

Tables == 1 .. N
Ids    == 1 .. MaxId

Absent == 0      \* no row
Values == {1, 2}

Rows == [Tables -> [Ids -> Values \cup {Absent}]]

\* What introspect finds at restore time, compared to the dump.
\* keyed:     primary or unique key, all of it in the dump
\* partial:   a part of the key is not in the dump
\* keyless:   no primary or unique key (so nothing refers to the table)
\* disjoint:  no column of the dump is left on the target
\* missing:   the target lacks the table
Kinds == {"keyed", "partial", "keyless", "disjoint", "missing"}

VARIABLES
  db,        \* the committed rows
  seq,       \* the last value of each table's sequence
  kind,      \* what has become of the tables since they were dumped
  apps,      \* how many statements the module has made
  pending,   \* keys the module drew from a sequence and has not inserted yet
  \* Dump
  dpc,       \* "idle", "copy" or "done"
  snap,      \* its snapshot
  archive,   \* the rows in the archive
  at,        \* the table it copies
  whole,     \* the archive is complete
  extras,    \* the archive has extra blobs after the tables
  \* Restore
  rpc,       \* the next statement
  mode,      \* "merge" or "full"
  cur,       \* the table it restores
  mine,      \* per table, the rows the transaction has written and locked
  draft,     \* what it wrote there
  \* history
  calm       \* the module has made no statement since Restore began

dump    == <<dpc, snap, archive, at, whole, extras>>
restore == <<rpc, mode, cur, mine, draft>>
vars    == <<db, seq, kind, apps, pending, dump, restore, calm>>

----------------------------------------------------------------------------
(* Rows *)

Has(rows, t, i) == rows[t][i] # Absent

\* The keys of a table.
Keys(rows, t) == {i \in Ids : Has(rows, t, i)}

\* Every row's parent exists.
Consistent(rows) ==
  \A t \in Tables \ {1} : \A i \in Ids : Has(rows, t, i) => Has(rows, t - 1, i)

\* Table t has a foreign key.
Refers(t) == t > 1 /\ kind[t - 1] # "missing"

Empty == [t \in Tables |-> [i \in Ids |-> Absent]]

NoLocks == [t \in Tables |-> {}]

\* What a statement of the restoring transaction sees.
View == [t \in Tables |-> [i \in Ids |-> IF i \in mine[t] THEN draft[t][i] ELSE db[t][i]]]

----------------------------------------------------------------------------
Init ==
  /\ db \in [Tables -> [Ids -> {1, Absent}]] /\ Consistent(db)
  /\ seq = [t \in Tables |-> IF Keys(db, t) = {} THEN 0
                             ELSE CHOOSE i \in Keys(db, t) : \A j \in Keys(db, t) : j <= i]
  /\ kind = [t \in Tables |-> "keyed"]
  /\ apps = 0 /\ pending = {}
  /\ dpc = "idle" /\ snap = Empty /\ archive = Empty /\ at = 1 /\ whole = FALSE
  /\ extras \in BOOLEAN
  /\ rpc = "idle" /\ mode \in {"merge", "full"} /\ cur = 1
  /\ mine = NoLocks /\ draft = Empty
  /\ calm = TRUE

----------------------------------------------------------------------------
(* The module, on its own connections *)

AppStep == /\ apps < MaxApp /\ apps' = apps + 1 /\ calm' = FALSE
           /\ UNCHANGED <<kind, dump, restore>>

\* INSERT draws its key ...
AppDraw(t) ==
  /\ kind[t] # "missing" /\ seq[t] < MaxId /\ AppStep
  /\ seq' = [seq EXCEPT ![t] = @ + 1]
  /\ pending' = pending \cup {<<t, seq[t] + 1>>}
  /\ UNCHANGED db

\* ... and then the row; it waits for the restore where that has written, and
\* fails on a key that is taken or without its parent.
AppInsert(t, i) ==
  /\ <<t, i>> \in pending /\ pending' = pending \ {<<t, i>>}
  /\ i \notin mine[t]
  /\ Refers(t) => ~(i \in mine[t - 1] /\ draft[t - 1][i] = Absent)
  /\ db' = IF ~Has(db, t, i) /\ (Refers(t) => Has(db, t - 1, i))
           THEN [db EXCEPT ![t][i] = 2] ELSE db
  /\ calm' = FALSE
  /\ UNCHANGED <<seq, kind, apps, dump, restore>>

AppUpdate(t, i) ==
  /\ Has(db, t, i) /\ i \notin mine[t] /\ AppStep
  /\ db' = [db EXCEPT ![t][i] = 2]
  /\ UNCHANGED <<seq, pending>>

\* A row that others refer to cannot be deleted; rows the restore has not
\* committed are not seen.
AppDelete(t, i) ==
  /\ Has(db, t, i) /\ i \notin mine[t] /\ AppStep
  /\ (t < N /\ Refers(t + 1)) => ~Has(db, t + 1, i)
  /\ db' = [db EXCEPT ![t][i] = Absent]
  /\ UNCHANGED <<seq, pending>>

\* Another version of the module has changed the schema since the dump.
Migrate(to) ==
  /\ dpc = "done" /\ rpc = "idle" /\ kind # to
  /\ \A t \in Tables : kind[t] # "keyed" => to[t] = kind[t]
  /\ \A t \in Tables : to[t] = "keyless" => t = N
  /\ kind' = to
  /\ db' = [t \in Tables |-> IF to[t] = "missing" THEN Empty[t] ELSE db[t]]
  /\ pending' = {p \in pending : to[p[1]] # "missing"}
  /\ UNCHANGED <<seq, apps, dump, restore, calm>>

\* The archive goes to a new installation.
Reinstall ==
  /\ dpc = "done" /\ rpc = "idle"
  /\ db' = Empty /\ seq' = [t \in Tables |-> 0] /\ pending' = {}
  /\ UNCHANGED <<kind, apps, dump, restore, calm>>

----------------------------------------------------------------------------
(* Dump *)

\* Begin, introspect, write the header.
DumpBegin ==
  /\ dpc = "idle" /\ dpc' = "copy"
  /\ snap' = db
  /\ UNCHANGED <<db, seq, kind, apps, pending, archive, at, whole, extras, restore, calm>>

\* MUTANT: every COPY reads what is committed by then.
DumpTableNow ==
  /\ dpc = "copy"
  /\ archive' = [archive EXCEPT ![at] = db[at]]
  /\ IF at < N THEN at' = at + 1 /\ UNCHANGED <<dpc, whole>>
               ELSE dpc' = "done" /\ whole' = TRUE /\ UNCHANGED at
  /\ UNCHANGED <<db, seq, kind, apps, pending, snap, extras, restore, calm>>

\* COPY one table out; after the last one the extras.
DumpTable ==
  /\ dpc = "copy"
  /\ archive' = [archive EXCEPT ![at] = snap[at]]
  /\ IF at < N THEN at' = at + 1 /\ UNCHANGED <<dpc, whole>>
               ELSE dpc' = "done" /\ whole' = TRUE /\ UNCHANGED at
  /\ UNCHANGED <<db, seq, kind, apps, pending, snap, extras, restore, calm>>

\* The dump, or the transfer of what it wrote, ends inside a table.
DumpCut ==
  /\ dpc = "copy" /\ dpc' = "done"
  /\ \E some \in SUBSET Keys(snap, at) :
       archive' = [archive EXCEPT ![at] = [i \in Ids |-> IF i \in some THEN snap[at][i]
                                                                       ELSE Absent]]
  /\ UNCHANGED <<db, seq, kind, apps, pending, snap, at, whole, extras, restore, calm>>

----------------------------------------------------------------------------
(* Restore *)

\* readHeader, begin, session_replication_role = replica.
RestoreBegin ==
  /\ dpc = "done" /\ rpc = "idle" /\ rpc' = "stage" /\ calm' = TRUE
  /\ UNCHANGED <<db, seq, kind, apps, pending, dump, mode, cur, mine, draft>>

Kept == UNCHANGED <<db, kind, apps, pending, dump, mode, calm>>

\* MUTANT: the loop runs one table too far.
AdvanceFar == IF cur <= N THEN cur' = cur + 1 /\ rpc' = "stage"
                          ELSE rpc' = "extras" /\ UNCHANGED cur

\* On to the next table, or to the extras.
Advance == IF cur < N THEN cur' = cur + 1 /\ rpc' = "stage"
                      ELSE rpc' = "extras" /\ UNCHANGED cur

\* What chunkReader gives the staging table: the rows of the stream up to the
\* terminator, or up to the end of the archive, which looks the same.
Staged == archive[cur]

StagedKeys == {i \in Ids : Staged[i] # Absent}

\* introspect, and COPY the table's stream into the staging table.
Stage ==
  /\ rpc = "stage"
  /\ IF kind[cur] \in {"missing", "disjoint"} THEN Advance ELSE rpc' = "upsert" /\ UNCHANGED cur
  /\ UNCHANGED <<seq, mine, draft>> /\ Kept

\* The transaction writes the given rows of a table.
Write(t, keys, rows) ==
  /\ mine' = [mine EXCEPT ![t] = @ \cup keys]
  /\ draft' = [draft EXCEPT ![t] = [i \in Ids |-> IF i \in keys THEN rows[i] ELSE @[i]]]

\* MUTANT: the upsert is run on the pool, outside the transaction.
UpsertOutside ==
  /\ rpc = "upsert" /\ kind[cur] = "keyed"
  /\ db' = [db EXCEPT ![cur] = [i \in Ids |-> IF i \in StagedKeys THEN Staged[i] ELSE @[i]]]
  /\ rpc' = IF mode = "full" THEN "delete" ELSE "setval"
  /\ UNCHANGED <<seq, cur, mine, draft, kind, apps, pending, dump, mode, calm>>

\* merge: upsert by key.  Without a key TRUNCATE and INSERT, or nothing.
Upsert ==
  /\ rpc = "upsert"
  /\ \/ /\ kind[cur] = "keyed"
        /\ Write(cur, StagedKeys, Staged)
        /\ rpc' = IF mode = "full" THEN "delete" ELSE "setval"
     \/ /\ kind[cur] = "keyless" /\ mode = "full"
        /\ Write(cur, Ids, Staged)
        /\ rpc' = "setval"
     \/ /\ kind[cur] = "keyless" /\ mode = "merge"
        /\ rpc' = "setval" /\ UNCHANGED <<mine, draft>>
  /\ UNCHANGED <<seq, cur>> /\ Kept

\* Full sync: delete the rows whose key is not in the backup.
DeleteRest ==
  /\ rpc = "delete"
  /\ Write(cur, Keys(View, cur) \ StagedKeys, Empty[cur])
  /\ rpc' = "setval"
  /\ UNCHANGED <<seq, cur>> /\ Kept

\* MUTANT: the sequence keeps its value.
ResetSequencesKeep ==
  /\ rpc = "setval"
  /\ seq' = [seq EXCEPT ![cur] = IF @ = 0 THEN 1 ELSE @]
  /\ Advance
  /\ UNCHANGED <<mine, draft>> /\ Kept

\* resetSequences: setval(GREATEST(MAX(id), 1)), at once and for everybody.
ResetSequences ==
  /\ rpc = "setval"
  /\ \E top \in Ids :
       /\ \A i \in Keys(View, cur) : i <= top
       /\ top = 1 \/ top \in Keys(View, cur)
       /\ seq' = [seq EXCEPT ![cur] = top]
  /\ Advance
  /\ UNCHANGED <<mine, draft>> /\ Kept

\* The extra blobs: readBlock fails at the end of a cut archive.
Extras ==
  /\ rpc = "extras" /\ (extras => whole)
  /\ rpc' = "commit"
  /\ UNCHANGED <<seq, cur, mine, draft>> /\ Kept

Commit ==
  /\ rpc = "commit" /\ rpc' = "done"
  /\ db' = View /\ mine' = NoLocks
  /\ UNCHANGED <<seq, kind, apps, pending, dump, mode, cur, draft, calm>>

\* Any step may fail: a cut inside a chunk, a key the target cannot match, a lost
\* connection.  The transaction is rolled back, its sequences are not.
Fail ==
  /\ rpc \notin {"idle", "done", "failed"} /\ rpc' = "failed"
  /\ mine' = NoLocks
  /\ UNCHANGED <<seq, cur, draft>> /\ Kept

----------------------------------------------------------------------------
\* Both operations are over and the module has nothing left to do.
Over == rpc \in {"done", "failed"} /\ pending = {} /\ UNCHANGED vars

Next ==
  \/ \E t \in Tables : AppDraw(t)
  \/ \E t \in Tables, i \in Ids : AppInsert(t, i) \/ AppUpdate(t, i) \/ AppDelete(t, i)
  \/ \E to \in [Tables -> Kinds] : Migrate(to)
  \/ Reinstall
  \/ DumpBegin \/ DumpTable \/ DumpCut
  \/ RestoreBegin \/ Stage \/ Upsert \/ DeleteRest \/ ResetSequences
  \/ Extras \/ Commit \/ Fail
  \/ Over

Spec == Init /\ [][Next]_vars

----------------------------------------------------------------------------
(* Properties *)

\* Type correctness of the database, the archive and the transaction.
TypeOK ==
  /\ db \in Rows /\ seq \in [Tables -> 0 .. MaxId] /\ kind \in [Tables -> Kinds]
  /\ apps \in 0 .. MaxApp /\ pending \subseteq Tables \X Ids
  /\ dpc \in {"idle", "copy", "done"} /\ snap \in Rows /\ archive \in Rows
  /\ at \in Tables /\ whole \in BOOLEAN /\ extras \in BOOLEAN
  /\ rpc \in {"idle", "stage", "upsert", "delete", "setval", "extras", "commit",
              "done", "failed"}
  /\ mode \in {"merge", "full"} /\ cur \in Tables
  /\ mine \in [Tables -> SUBSET Ids] /\ draft \in Rows
  /\ calm \in BOOLEAN

\* "The dump is internally consistent": the references of a complete archive hold,
\* although the module writes while the tables are read one after the other.
DumpConsistent == whole => Consistent(archive)

\* The tables a restore applies.
Applied(t) == kind[t] = "keyed" \/ (kind[t] = "keyless" /\ mode = "full")

Status == IF rpc \in {"idle", "done", "failed"} THEN rpc ELSE "running"

Abstract == INSTANCE AtomicRestore
              WITH backup <- archive, applied <- {t \in Tables : Applied(t)}, status <- Status

\* Restore, a transaction of many statements each of which sees what the module has
\* committed by then, implements the restore that happens at one moment: whatever
\* the module does meanwhile and wherever it fails, all of it is applied or
\* nothing; every row of the archive is back, a merge takes no row away, and a full
\* sync "mak[es] the table match the backup exactly" unless the module wrote.
RestoreIsAtomic == Abstract!Spec

\* After a restore that nobody disturbed, no table's sequence is behind its rows.
SequencesAhead ==
  (rpc = "done" /\ calm) =>
    \A t \in Tables : Applied(t) => \A i \in Keys(db, t) : i <= seq[t]

\* What chunkReader's comment says of the end of a table: it is the terminator.
\* So an archive without its end is never applied.
CutArchiveRefused == rpc = "done" => whole
==============================================================================
