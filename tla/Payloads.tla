------------------------------- MODULE Payloads ------------------------------
(***************************************************************************)
(* Encryption of task payloads and values (src/crypto): processes that     *)
(* start, initialise the global encryptor once or several times, and write *)
(* and read one stored task payload and one stored value between them,     *)
(* while encryption is introduced or its key changes.                      *)
(*                                                                         *)
(* AES-GCM is external: a sealed string opens under its key only and every *)
(* other key is an error.  A payload is a function from its fields to      *)
(* values; Redis and Encrypt's JSON both turn numbers into float64.        *)
(***************************************************************************)
EXTENDS Integers

CONSTANTS
  Procs,       \* processes
  EncKeys,     \* encryption keys, strings
  PayloadSet,  \* task payloads, see PFields
  MaxStarts    \* bound on restarts

Clear == "clear"     \* no key; the key of an Encryptor{} and of a plain string
NoKey == ""          \* the empty key of a configuration

\* The fields EncryptPayload keeps outside, and one it does not.
Outside  == {"task_id", "task_type"}
PFields  == Outside \cup {"config"}
Missing  == "-"

ASSUME PayloadsAssumption ==
  /\ MaxStarts \in Nat
  /\ PayloadSet \subseteq [PFields -> {Missing, "text", "int", "bigint"}]

\* A string in the store: what it says and the key it is sealed with.  Texts that
\* begin with "enc:" in the clear are marked; they are no ciphertext.
Texts == {"", "words", "enc:words"}
Str(text, key) == [text |-> text, key |-> key]

VARIABLES
  enc,      \* globalEncryptor's key, or Clear
  once,     \* once has run
  keyed,    \* history: the first InitGlobalEncryptor asked for this key
  starts,   \* restarts so far
  task,     \* the stored payload
  want,     \* history: the payload stored, or none; and by whom
  got,      \* what the last reader got from it
  value,    \* the stored value
  meant,    \* history: its plaintext, and the key of who stored it
  read      \* what the last reader got from it

payloadVars == <<enc, once, keyed, starts, task, want, got, value, meant, read>>

\* The map that EncryptPayload makes or, when flag is FALSE, a payload as it is.
Entry(flag, key, inner, outer) == [flag |-> flag, key |-> key, inner |-> inner, outer |-> outer]

Blank == [f \in PFields |-> Missing]

PayloadsInit ==
  /\ enc = [p \in Procs |-> Clear] /\ once = [p \in Procs |-> FALSE]
  /\ keyed = [p \in Procs |-> Clear] /\ starts = 0
  /\ task = Entry(FALSE, Clear, Blank, Blank) /\ want = [payload |-> Blank, key |-> Clear]
  /\ got = [ok |-> FALSE, payload |-> Blank]
  /\ value = Str("", Clear) /\ meant = [text |-> "", key |-> Clear]
  /\ read = [ok |-> TRUE, str |-> Str("", Clear), with |-> Clear]

----------------------------------------------------------------------------
(* The encryptor *)

Restart(p) ==
  /\ starts < MaxStarts /\ starts' = starts + 1
  /\ enc' = [enc EXCEPT ![p] = Clear] /\ once' = [once EXCEPT ![p] = FALSE]
  /\ keyed' = [keyed EXCEPT ![p] = Clear]
  /\ UNCHANGED <<task, want, got, value, meant, read>>

\* NewEncryptor: the key, or Clear for the empty key, which is an error.
NewEncryptor(key) == IF key = NoKey THEN Clear ELSE key

\* MUTANT: every call sets the encryptor.
InitGlobalEncryptorAgain(p, key, enabled) ==
  /\ once' = [once EXCEPT ![p] = TRUE]
  /\ enc' = [enc EXCEPT ![p] = IF enabled THEN NewEncryptor(key) ELSE Clear]
  /\ keyed' = [keyed EXCEPT ![p] = IF once[p] THEN @ ELSE IF enabled THEN NewEncryptor(key) ELSE Clear]
  /\ UNCHANGED <<starts, task, want, got, value, meant, read>>

\* A later call does nothing, even when the first has failed.
InitGlobalEncryptor(p, key, enabled) ==
  /\ IF once[p] THEN UNCHANGED <<enc, once, keyed>>
     ELSE LET made == IF enabled THEN NewEncryptor(key) ELSE Clear
          IN /\ once' = [once EXCEPT ![p] = TRUE]
             /\ enc' = [enc EXCEPT ![p] = made] /\ keyed' = [keyed EXCEPT ![p] = made]
  /\ UNCHANGED <<starts, task, want, got, value, meant, read>>

\* Encrypt, and EncryptIfNeeded around it.
EncryptIfNeeded(p, text) == Str(text, IF text = "" THEN Clear ELSE enc[p])

\* IsEncrypted.
IsEncrypted(str) == str.key # Clear \/ str.text = "enc:words"

Ok(str) == [ok |-> TRUE, str |-> str]
Err     == [ok |-> FALSE, str |-> Str("", Clear)]

\* Decrypt, and DecryptIfNeeded around it.
DecryptIfNeeded(p, str) ==
  IF enc[p] = Clear \/ ~IsEncrypted(str) THEN Ok(str)
  ELSE IF str.key = enc[p] THEN Ok(Str(str.text, Clear)) ELSE Err

----------------------------------------------------------------------------
(* Payloads *)

\* json.Marshal and Unmarshal into map[string]interface{}.
Json(payload) == [f \in PFields |-> CASE payload[f] = "int"    -> "float"
                                      [] payload[f] = "bigint" -> "rounded"
                                      [] OTHER                 -> payload[f]]

\* The fields of a payload that EncryptPayload keeps outside.
Routing(payload) == [f \in PFields |-> IF f \in Outside THEN payload[f] ELSE Missing]

EncryptPayload(p, payload) == Entry(TRUE, enc[p], Json(payload), Routing(payload))

HasEncryptedPayload(entry) == entry.flag

\* MUTANT: on an error the payload is returned as it was stored.
DecryptPayloadAsIs(p, entry) ==
  IF ~entry.flag THEN [ok |-> TRUE, payload |-> entry.outer]
  ELSE IF entry.key \in {Clear, enc[p]} THEN [ok |-> TRUE, payload |-> entry.inner]
  ELSE [ok |-> TRUE, payload |-> entry.outer]

\* The JSON of a payload begins with a brace, so in the clear it is no "enc:" string;
\* a string still sealed is no JSON.
DecryptPayload(p, entry) ==
  IF ~entry.flag THEN [ok |-> TRUE, payload |-> entry.outer]
  ELSE LET d == DecryptIfNeeded(p, Str("words", entry.key))
       IN IF d.ok /\ d.str.key = Clear THEN [ok |-> TRUE, payload |-> entry.inner]
          ELSE [ok |-> FALSE, payload |-> Blank]

\* Storing an entry in the queue: its own JSON is Redis's.
Stored(entry) == [entry EXCEPT !.outer = Json(@)]

Forget == got' = [ok |-> FALSE, payload |-> Blank]

Enqueue(p, payload) ==
  /\ task' = Stored(EncryptPayload(p, payload))
  /\ want' = [payload |-> Json(payload), key |-> keyed[p]] /\ Forget
  /\ UNCHANGED <<enc, once, keyed, starts, value, meant, read>>

\* A process of before encryption stores the payload itself.
EnqueueLegacy(payload) ==
  /\ task' = Stored(Entry(FALSE, Clear, Blank, payload))
  /\ want' = [payload |-> Json(payload), key |-> Clear] /\ Forget
  /\ UNCHANGED <<enc, once, keyed, starts, value, meant, read>>

\* The migration tool encrypts the payloads that are not.
MigrateTask(p) ==
  /\ ~HasEncryptedPayload(task) /\ want.payload # Blank
  /\ task' = Stored(EncryptPayload(p, task.outer))
  /\ want' = [want EXCEPT !.key = keyed[p]] /\ Forget
  /\ UNCHANGED <<enc, once, keyed, starts, value, meant, read>>

\* A worker takes the payload; the task stays for another try.
Dequeue(p) ==
  /\ want.payload # Blank
  /\ got' = DecryptPayload(p, task)
  /\ UNCHANGED <<enc, once, keyed, starts, task, want, value, meant, read>>

WriteValue(p, text) ==
  /\ value' = EncryptIfNeeded(p, text)
  /\ meant' = [text |-> text, key |-> keyed[p]]
  /\ read' = [ok |-> TRUE, str |-> Str(text, Clear), with |-> Clear]
  /\ UNCHANGED <<enc, once, keyed, starts, task, want, got>>

ReadValue(p) ==
  /\ LET d == DecryptIfNeeded(p, value)
     IN read' = [ok |-> d.ok, str |-> d.str, with |-> enc[p]]
  /\ UNCHANGED <<enc, once, keyed, starts, task, want, got, value, meant>>

----------------------------------------------------------------------------
PayloadsNext ==
  \/ \E p \in Procs : Restart(p) \/ MigrateTask(p) \/ Dequeue(p) \/ ReadValue(p)
  \/ \E p \in Procs, key \in EncKeys \cup {NoKey}, enabled \in BOOLEAN :
       InitGlobalEncryptor(p, key, enabled)
  \/ \E p \in Procs, payload \in PayloadSet : Enqueue(p, payload)
  \/ \E payload \in PayloadSet : EnqueueLegacy(payload)
  \/ \E p \in Procs, text \in Texts : WriteValue(p, text)

PayloadsSpec == PayloadsInit /\ [][PayloadsNext]_payloadVars

----------------------------------------------------------------------------
(* Properties *)

\* Whatever mixture of keys, disabled encryption and plain payloads the processes
\* use, a worker gets the payload that was queued or an error, never another map;
\* the fields outside agree with it; a reader that has a key gets the value's text
\* or an error; and one without a key, whom DecryptIfNeeded gives the stored string
\* with no error, gets the text itself or a string that IsEncrypted recognises.
NothingMisread ==
  /\ got.ok => got.payload = want.payload
  /\ want.payload # Blank => Routing(want.payload) = Routing(task.outer)
  /\ (read.ok /\ read.with # Clear) => read.str.text = meant.text /\ read.str.key = Clear
  /\ (read.ok /\ ~IsEncrypted(read.str)) => read.str.text = meant.text

\* "Decryption failures ... don't block operations - the system returns the encrypted
\* data as-is" (crypto/README.md:171): a read of a sealed value succeeds, with its text
\* or, when that cannot be had, with the stored string.  Decrypt returns an error.
FailuresReturnData ==
  value.key # Clear => read.ok /\ read.str \in {Str(meant.text, Clear), value}

\* A process whose first initialisation gave a key stores nothing in the clear
\* until it ends, whatever is initialised after: payloads are sealed with that
\* key, and values but the empty one.
SealedOnceKeyed ==
  /\ (task.flag /\ want.key # Clear) => task.key = want.key
  /\ (meant.key # Clear /\ meant.text # "") => value.key = meant.key
==============================================================================
