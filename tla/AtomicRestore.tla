---------------------------- MODULE AtomicRestore ----------------------------
(***************************************************************************)
(* What Engine.Restore (src/backup/sqldump) promises its caller while the  *)
(* module goes on writing: it happens at one moment or not at all.  At     *)
(* that moment every table it applies holds the rows of the backup; a      *)
(* merge leaves the other rows as they are; a full sync leaves none of     *)
(* them, but for rows the module has written since the restore began.      *)
(***************************************************************************)
CONSTANTS Tables, Ids, Absent

VARIABLES
  db,        \* the committed rows
  backup,    \* the rows of the archive
  applied,   \* the tables the restore applies
  mode,      \* "merge" or "full"
  status,    \* "idle", "running", "done" or "failed"
  calm       \* the module has written nothing since the restore began

vars == <<db, backup, applied, mode, status, calm>>

Init == status = "idle"

\* Before the restore: the archive is made and the target prepared.
Prepare == status = "idle" /\ status' = "idle"

\* The module writes at most one row.
ModuleWrites ==
  /\ \E t \in Tables, i \in Ids : \A u \in Tables, j \in Ids :
       <<u, j>> # <<t, i>> => db'[u][j] = db[u][j]
  /\ calm' = FALSE
  /\ UNCHANGED <<backup, applied, mode, status>>

Begin ==
  /\ status = "idle" /\ status' = "running" /\ calm' = TRUE
  /\ UNCHANGED <<db, backup, applied, mode>>

\* What a row becomes.
Becomes(t, i, row) ==
  LET back == t \in applied /\ backup[t][i] # Absent
      swept == t \in applied /\ backup[t][i] = Absent /\ mode = "full"
  IN /\ back => row = backup[t][i]
     /\ swept => row = Absent \/ (~calm /\ row = db[t][i])
     /\ (~back /\ ~swept) => row = db[t][i]

Commit ==
  /\ status = "running" /\ status' = "done"
  /\ \A t \in Tables, i \in Ids : Becomes(t, i, db'[t][i])
  /\ UNCHANGED <<backup, applied, mode, calm>>

Abort ==
  /\ status = "running" /\ status' = "failed"
  /\ UNCHANGED <<db, backup, applied, mode, calm>>

Next == Prepare \/ ModuleWrites \/ Begin \/ Commit \/ Abort

Spec == Init /\ [][Next]_vars
==============================================================================
