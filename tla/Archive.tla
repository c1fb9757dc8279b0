------------------------------- MODULE Archive -------------------------------
(***************************************************************************)
(* Entity archives (src/backup): a module exports its entities, packs them *)
(* and hands the bytes to the backup server; later a module, of another    *)
(* version perhaps, unpacks them, validates, migrates and imports them,    *)
(* and tries again when that failed.                                       *)
(*                                                                         *)
(* An item is a function from field names to values.  JSON is modelled by  *)
(* what decoding into map[string]any does to a value: an integer beyond    *)
(* 2^53 comes out rounded.  The bodies of a module's MigrateFuncs are      *)
(* sequences of the package's helpers.                                     *)
(***************************************************************************)
EXTENDS Integers, Sequences

CONSTANTS
  EntityKeys,  \* entity keys
  Fields,      \* field names
  JSONValues,  \* JSON values, and None
  Exports,     \* what the module may export under a key, see Raw
  Registries,  \* the registries a module may have: source version -> the helper
               \* calls of its MigrateFunc
  Current,     \* the importing module's schema version
  MaxTries,    \* bound on imports begun
  Meaning(_, _, _, _)  \* what an item of a key is in the current schema, if its version's
                       \* MigrateFunc has made so many of its calls

ASSUME VersionsAssumption == Current \in Nat \ {0} /\ MaxTries \in Nat \ {0}

None    == "-"        \* the field is missing
Big     == "big"      \* an integer beyond 2^53
Rounded == "big~"     \* ... as a float64

\* A JSON null where an object is expected: unmarshalled to a nil map.
Null == [f \in Fields |-> "null"]

Items == [Fields -> JSONValues]

\* A key's raw JSON: an array of objects, or an array of something else.
Raw(shape, items) == [shape |-> shape, items |-> items]

\* Items have fields, which may be missing, and a field's value is not taken for null.
ASSUME ItemsAssumption ==
  /\ Fields # {} /\ {None, Rounded} \subseteq JSONValues /\ "null" \notin JSONValues
  /\ \A k \in EntityKeys : \A raw \in Exports[k] :
       /\ raw = Raw(raw.shape, raw.items) /\ raw.shape \in {"objects", "other"}
       /\ raw.items \in Seq(Items \union {Null})

Unset == Raw("unset", <<>>)

----------------------------------------------------------------------------
(* The helpers *)

\* What a value is after a turn through map[string]any.
Through(v) == IF v = Big THEN Rounded ELSE v

\* MigrateAddField on one item.
AddField(item, c) == [item EXCEPT ![c.field] = IF @ = None THEN c.value ELSE @]

\* MigrateRenameField on one item.
RenameField(item, c) ==
  IF item = Null \/ item[c.field] = None THEN item
  ELSE [item EXCEPT ![c.value] = item[c.field], ![c.field] = None]

\* MigrateRemoveField on one item.
RemoveField(item, c) == IF item = Null THEN item ELSE [item EXCEPT ![c.field] = None]

\* One of the three helpers on one item, which is decoded, changed and encoded.
MigrateItem(item, c) ==
  LET decoded == [f \in Fields |-> Through(item[f])]
  IN  CASE c.op = "add"    -> AddField(decoded, c)
        [] c.op = "rename" -> RenameField(decoded, c)
        [] c.op = "remove" -> RemoveField(decoded, c)

Migrated(items, c) == [i \in 1 .. Len(items) |-> MigrateItem(items[i], c)]

\* Item x says what item y says, though its integers may be rounded.
Same(x, y) == \A f \in Fields : x[f] \in {y[f], Through(y[f])}

IsCall(c) ==
  /\ c.key \in EntityKeys /\ c.field \in Fields
  /\ \/ c.op = "add" /\ c.value \in JSONValues
     \/ c.op = "rename" /\ c.value \in Fields
     \/ c.op = "remove"

\* The MigrateFuncs are right: each call of a version's function brings an item to what
\* it means in the current schema after so many calls, and does not change what it
\* means if they begin again; at its end an item means what it does in the next version.
ASSUME MigrationsAssumption ==
  /\ \A reg \in Registries : \A v \in DOMAIN reg \intersect 1 .. Current - 1 :
       /\ Len(reg[v]) \in Nat
       /\ \A n \in 1 .. Len(reg[v]) : LET c == reg[v][n] IN
            /\ IsCall(c)
            /\ \A item \in Items :
                 /\ Same(Meaning(c.key, v, 0, MigrateItem(item, c)), Meaning(c.key, v, 0, item))
                 /\ Same(Meaning(c.key, v, n, MigrateItem(item, c)), Meaning(c.key, v, n - 1, item))
                 /\ \A k \in EntityKeys \ {c.key} : Meaning(k, v, n, item) = Meaning(k, v, n - 1, item)
       /\ \A k \in EntityKeys, item \in Items : Meaning(k, v, Len(reg[v]), item) = Meaning(k, v + 1, 0, item)
  /\ \A k \in EntityKeys, item \in Items : Meaning(k, Current, 0, item) = item

----------------------------------------------------------------------------
VARIABLES
  arch,     \* the Archive in hand: module, version, entities, counts, extras
  bytes,    \* what the backup server holds
  intact,   \* all of it
  phase,    \* where the export or the import is
  registry, \* the importing module's MigrationRegistry
  op,       \* the helper call the running MigrateFunc is at
  tries,    \* imports begun
  rows,     \* per key, the module's rows: item index -> "none", "old" or "new"
  restoreMode,  \* RestoreMode
  todo,     \* the keys still to import
  result    \* RestoreResult: success

archVars == <<arch, bytes, intact, phase, registry, op, tries, rows, restoreMode, todo, result>>

----------------------------------------------------------------------------
(* Export *)

NewArchive(module, version) ==
  [module |-> module, version |-> version, entities |-> [k \in EntityKeys |-> Unset],
   counts |-> [k \in EntityKeys |-> 0], extras |-> "empty"]

ArchiveInit ==
  /\ \E module \in {"this", "other"}, v \in 0 .. Current + 1 : arch = NewArchive(module, v)
  /\ bytes = arch /\ intact = TRUE /\ phase = "export"
  /\ registry \in Registries /\ op = 1 /\ tries = 0
  /\ rows = [k \in EntityKeys |-> <<>>] /\ restoreMode = "skip" /\ todo = {} /\ result = TRUE

SetEntities(k, raw) ==
  /\ phase = "export" /\ arch.entities[k] # raw
  /\ arch' = [arch EXCEPT !.entities[k] = raw, !.counts[k] = Len(raw.items)]
  /\ UNCHANGED <<bytes, intact, registry, phase, op, tries, rows, restoreMode, todo, result>>

\* On an archive that was unpacked without extras the map is nil and the call panics.
SetExtra ==
  \/ /\ phase = "export" /\ arch.extras = "empty"
     /\ arch' = [arch EXCEPT !.extras = "set"]
     /\ UNCHANGED <<bytes, intact, registry, phase, op, tries, rows, restoreMode, todo, result>>
  \/ /\ phase = "received" /\ arch.extras = "nil" /\ phase' = "refused"
     /\ UNCHANGED <<arch, bytes, intact, registry, op, tries, rows, restoreMode, todo, result>>

\* Pack, and the transfer to the backup server and back, which may lose the end.
Pack(complete) ==
  /\ phase = "export" /\ phase' = "packed"
  /\ bytes' = arch /\ intact' = complete
  /\ \E r \in {"none", "old"} :
       rows' = [k \in EntityKeys |-> [i \in 1 .. Len(arch.entities[k].items) |-> r]]
  /\ restoreMode' \in {"skip", "overwrite"}
  /\ UNCHANGED <<arch, registry, op, tries, todo, result>>

----------------------------------------------------------------------------
(* Import *)

\* Unpack: gzip notices a missing end; omitempty leaves empty extras out.
Unpack ==
  /\ phase \in {"packed", "failed"} /\ tries < MaxTries /\ tries' = tries + 1
  /\ IF intact
     THEN /\ arch' = [bytes EXCEPT !.extras = IF @ = "empty" THEN "nil" ELSE @]
          /\ phase' = "received"
     ELSE phase' = "refused" /\ UNCHANGED arch
  /\ UNCHANGED <<bytes, intact, registry, op, rows, restoreMode, todo, result>>

Validate ==
  /\ phase = "received"
  /\ phase' = IF arch.module = "this" /\ arch.version \in 1 .. Current
              THEN "valid" ELSE "refused"
  /\ UNCHANGED <<arch, bytes, intact, registry, op, tries, rows, restoreMode, todo, result>>

\* RunMigrations' loop at a version: done, on with its MigrateFunc, or none is there.
Onward(v) == IF v = Current THEN "ready"
             ELSE IF v \in DOMAIN registry THEN "migrating" ELSE "failed"

\* RunMigrations begins, on an archive just validated or on one a call before has
\* left half migrated.
RunMigrations ==
  /\ \/ phase = "valid" /\ UNCHANGED tries
     \/ phase = "failed" /\ tries < MaxTries /\ tries' = tries + 1
  /\ op' = 1
  /\ phase' = Onward(arch.version)
  /\ UNCHANGED <<arch, bytes, intact, registry, rows, restoreMode, todo, result>>

\* The items are no objects, or one is null and its nil map is written to (which
\* panics): the key keeps its raw JSON.
Breaks(raw, c) ==
  raw.shape = "other" \/ (c.op = "add" /\ \E i \in 1 .. Len(raw.items) : raw.items[i] = Null)

\* One helper call of the MigrateFunc.
MigrateStep ==
  /\ phase = "migrating" /\ op <= Len(registry[arch.version])
  /\ LET c   == registry[arch.version][op]
         raw == arch.entities[c.key]
     IN IF raw # Unset /\ Breaks(raw, c)
        THEN phase' = "failed" /\ UNCHANGED <<arch, op>>
        ELSE /\ arch' = [arch EXCEPT !.entities[c.key].items = Migrated(@, c)]
             /\ op' = op + 1 /\ UNCHANGED phase
  /\ UNCHANGED <<bytes, intact, registry, tries, rows, restoreMode, todo, result>>

\* MUTANT: the version is set before the error is looked at.
MigrateFailsCounted ==
  /\ phase = "migrating" /\ phase' = "failed"
  /\ arch' = [arch EXCEPT !.version = @ + 1]
  /\ UNCHANGED <<bytes, intact, registry, op, tries, rows, restoreMode, todo, result>>

\* What else a MigrateFunc does fails: some of its calls are done, some are not.
MigrateFails ==
  /\ phase = "migrating" /\ phase' = "failed"
  /\ UNCHANGED <<arch, bytes, intact, registry, op, tries, rows, restoreMode, todo, result>>

\* The function returned nil.
MigrateDone ==
  /\ phase = "migrating" /\ op > Len(registry[arch.version])
  /\ arch' = [arch EXCEPT !.version = @ + 1] /\ op' = 1
  /\ phase' = Onward(arch.version + 1)
  /\ UNCHANGED <<bytes, intact, registry, tries, rows, restoreMode, todo, result>>

\* NewRestoreResult.
ImportBegin ==
  /\ phase = "ready" /\ phase' = "importing" /\ todo' = EntityKeys /\ result' = TRUE
  /\ UNCHANGED <<arch, bytes, intact, registry, op, tries, rows, restoreMode>>

\* MUTANT: only the last entity type counts.
AddResultLast(failed) == result' = (failed = {})

AddResult(failed) == result' = (result /\ failed = {})

\* The module upserts the items of a key, some of which fail, and adds the counts.
Import(k, failed) ==
  /\ phase = "importing" /\ k \in todo /\ todo' = todo \ {k}
  /\ rows' = [rows EXCEPT ![k] = [i \in DOMAIN @ |->
                CASE i \in failed -> @[i]
                  [] i \notin failed /\ restoreMode = "skip" /\ @[i] = "old" -> "old"
                  [] OTHER -> "new"]]
  /\ AddResult(failed)
  /\ UNCHANGED <<arch, bytes, intact, registry, phase, op, tries, restoreMode>>

ImportEnd ==
  /\ phase = "importing" /\ todo = {}
  /\ phase' = IF result THEN "imported" ELSE "failed"
  /\ UNCHANGED <<arch, bytes, intact, registry, op, tries, rows, restoreMode, todo, result>>

----------------------------------------------------------------------------
ArchiveNext ==
  \/ \E k \in EntityKeys : \E raw \in Exports[k] : SetEntities(k, raw)
  \/ SetExtra
  \/ \E complete \in BOOLEAN : Pack(complete)
  \/ Unpack \/ Validate \/ RunMigrations \/ MigrateStep \/ MigrateFails \/ MigrateDone
  \/ ImportBegin \/ ImportEnd
  \/ \E k \in EntityKeys : \E failed \in SUBSET DOMAIN rows[k] : Import(k, failed)

ArchiveSpec == ArchiveInit /\ [][ArchiveNext]_archVars

----------------------------------------------------------------------------
(* Properties *)

\* However often and wherever migrations failed before and were run again, on the
\* same archive or on a fresh one, an archive that is ready holds every item that
\* was exported, field by field what the current schema makes of it: nothing done
\* twice, skipped or lost, and only integers beyond 2^53 changed, by rounding.
MigrationFaithful ==
  phase \in {"ready", "importing", "imported"} =>
    /\ arch.version = Current
    /\ \A k \in EntityKeys :
         LET old == bytes.entities[k].items
             now == arch.entities[k].items
         IN /\ Len(now) = Len(old) /\ arch.counts[k] = Len(now)
            /\ arch.entities[k].shape = "objects" =>
                 \A i \in 1 .. Len(old) : old[i] # Null => Same(now[i], Meaning(k, bytes.version, 0, old[i]))

\* A result that says success means that every item of the archive is in the
\* module's tables, new unless it was to be skipped, whatever earlier tries did.
RestoreTruthful ==
  phase = "imported" =>
    \A k \in EntityKeys : \A i \in 1 .. bytes.counts[k] :
      rows[k][i] = "new" \/ (restoreMode = "skip" /\ rows[k][i] = "old")
==============================================================================
