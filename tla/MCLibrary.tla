------------------------------ MODULE MCLibrary ------------------------------
(***************************************************************************)
(* Entity archives, payload encryption and the cert directory together in  *)
(* one run.  The packages share no state, so a behaviour is one of one of  *)
(* them and their steps are not interleaved.                               *)
(***************************************************************************)
EXTENDS Archive, Payloads, CertEnsure

VARIABLE part

\* Two entity types; the second is an array that may not be one of objects.
MCEntityKeys == {"users", "tags"}
MCFields == {"name", "title", "role", "kind", "note"}
MCJSONValues == {None, "a", "t", "d", Big, Rounded}

Item(name, title, role, sort, note) ==
  [f \in MCFields |-> CASE f = "name" -> name [] f = "title" -> title [] f = "role" -> role
                        [] f = "kind" -> sort [] f = "note" -> note]

\* Items with a field or without it, with old and new names, and big numbers.
MCExports == [k \in MCEntityKeys |->
  IF k = "users"
  THEN {Raw("objects", <<Item("a", "-", "-", "-", "t")>>),
        Raw("objects", <<Item("a", "t", "t", "-", "big"), Item("big", "-", "-", "a", "-")>>),
        Raw("objects", <<Item("null", "null", "null", "null", "null"), Item("a", "-", "-", "-", "t")>>)}
  ELSE {Raw("other", <<Item("-", "-", "-", "-", "-")>>),
        Raw("objects", <<Item("a", "t", "-", "a", "t")>>)}]

Call(o, k, f, v) == [op |-> o, key |-> k, field |-> f, value |-> v]

\* v1 -> v2 adds a user's role and renames name to title; v2 -> v3 renames a user's
\* role to kind and removes note.
Steps(v) ==
  CASE v = 1 -> <<Call("add", "users", "role", "d"), Call("rename", "users", "name", "title"),
                  Call("rename", "tags", "name", "title")>>
    [] v = 2 -> <<Call("rename", "users", "role", "kind"), Call("remove", "users", "note", "-"),
                  Call("remove", "tags", "note", "-")>>

\* All migrations are registered, or the last one was forgotten.
MCRegistries == {[v \in 1 .. last |-> Steps(v)] : last \in 1 .. 2}

\* The meaning of the schema, apart from how the migrations bring it about: where the
\* value of a field is found, the first of these fields that is there, or its default.
\* A change is made once n calls of version v's function are.
MCMeaning(k, v, n, item) ==
  LET past(w, m) == v > w \/ (v = w /\ n >= m)
      added   == past(1, 1)
      renamed == past(1, IF k = "users" THEN 2 ELSE 3)
      moved   == past(2, 1)
      removed == past(2, IF k = "users" THEN 2 ELSE 3)
      origins(f) ==
        CASE f = "name"  -> IF renamed THEN <<"name">> ELSE <<>>
          [] f = "title" -> IF renamed THEN <<"title">> ELSE <<"name", "title">>
          [] f = "note"  -> IF removed THEN <<"note">> ELSE <<>>
          [] f = "role"  -> IF k = "users" /\ ~moved THEN <<>> ELSE <<"role">>
          [] f = "kind"  -> IF k # "users" \/ moved THEN <<"kind">>
                            ELSE IF added THEN <<"role", "kind">> ELSE <<"role">>
      default(f) == IF f = "kind" /\ k = "users" /\ ~added THEN "d" ELSE None
      there(f) == SelectSeq(origins(f), LAMBDA g : item[g] # None)
  IN  [f \in MCFields |-> IF there(f) = <<>> THEN default(f) ELSE item[there(f)[1]]]

Payload(id, type, config) ==
  [f \in {"task_id", "task_type", "config"} |->
     CASE f = "task_id" -> id [] f = "task_type" -> type [] f = "config" -> config]

MCPayloadSet == {Payload("bigint", "text", "int"), Payload("-", "text", "bigint")}

Init ==
  /\ part \in {"archive", "payloads", "cert"} /\ ArchiveInit /\ PayloadsInit /\ CertInit
  /\ part # "archive" => arch = NewArchive("this", Current) /\ 2 \in DOMAIN registry
  /\ part # "cert" => presents = pin /\ pin = CHOOSE ca \in CAs : TRUE

Next ==
  \/ part = "archive" /\ ArchiveNext /\ UNCHANGED <<part, payloadVars, certVars>>
  \/ part = "payloads" /\ PayloadsNext /\ UNCHANGED <<part, archVars, certVars>>
  \/ part = "cert" /\ CertNext /\ UNCHANGED <<part, archVars, payloadVars>>

Spec == Init /\ [][Next]_<<part, archVars, payloadVars, certVars>>
==============================================================================
