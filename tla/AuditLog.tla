-------------------------------- MODULE AuditLog --------------------------------
(***************************************************************************)
(* Audit entries of the server middleware (src/middleware/audit): how one  *)
(* is built, hashed, signed and converted for the database.                *)
(*                                                                         *)
(* A hash stands for the value it was computed from.  ECDSA is external:   *)
(* signing yields a pair of positive numbers, and a pair verifies for the  *)
(* content and the key it was made for.  The DER encoding of the pair is   *)
(* the code's own, and works on bytes, here of ByteSize values.            *)
(***************************************************************************)
EXTENDS Naturals, Sequences, SequencesExt

CONSTANTS
  ByteSize,    \* values of a byte
  Pairs        \* the pairs of numbers ECDSA signatures consist of

ASSUME ByteAssumption == ByteSize \in Nat /\ ByteSize > 1 /\ ByteSize % 2 = 0
                         /\ Pairs \subseteq (Nat \ {0}) \X (Nat \ {0})

\* big.Int.Bytes and SetBytes: big-endian, without leading zeros.
Bytes[n \in Nat] == IF n = 0 THEN <<>> ELSE Append(Bytes[n \div ByteSize], n % ByteSize)
SetBytes(bs) == FoldLeft(LAMBDA acc, b : acc * ByteSize + b, 0, bs)

SEQUENCE == 48
INTEGER  == 2

\* Positive in DER: a zero byte before a high bit.
Positive(bs) == IF bs # <<>> /\ bs[1] >= ByteSize \div 2 THEN <<0>> \o bs ELSE bs

EncodeDER(r, s) ==
  LET rb == Positive(Bytes[r]) sb == Positive(Bytes[s])
  IN <<SEQUENCE, 4 + Len(rb) + Len(sb)>> \o <<INTEGER, Len(rb)>> \o rb \o <<INTEGER, Len(sb)>> \o sb

BadDER == <<0, 0>>

\* The pair, or BadDER for the errors.
DecodeDER(der) ==
  LET rLen == der[4]
      off  == 4 + rLen
      sLen == der[off + 2]
  IN IF /\ Len(der) >= 8 /\ der[1] = SEQUENCE /\ Len(der) >= 2 + der[2]
        /\ der[3] = INTEGER /\ Len(der) >= off + 2
        /\ der[off + 1] = INTEGER /\ Len(der) >= off + 2 + sLen
     THEN <<SetBytes(SubSeq(der, 5, off)), SetBytes(SubSeq(der, off + 3, off + 2 + sLen))>>
     ELSE BadDER

\* What the two functions are for: a pair survives them.
RoundTrips(pairs) ==
  \A p \in pairs : /\ EncodeDER(p[1], p[2]) # <<>>
                    /\ DecodeDER(EncodeDER(p[1], p[2])) = p

----------------------------------------------------------------------------
\* buildAuditLog: ID, latency and messages are left out, the time is the clock's.
buildAuditLog(op, info, now, ok) ==
  [operation |-> op, client |-> info.cn, authenticated |-> info.isAuthenticated,
   tenant |-> info.tenant, time |-> now, success |-> ok, hash |-> <<>>, sig |-> <<>>]

HashLog(log) == <<log.operation, log.client, log.authenticated, log.tenant, log.time, log.success>>

SignContent(log) == <<log.tenant, log.client, log.operation, log.time, log.hash>>

\* ECDSA by its ideal: who signed what with which pair.  [external]
Signed(key, content, pair) == [key |-> key, content |-> content, pair |-> pair]

\* MUTANT: the signature is made before the hash is in the entry.
SealUnhashed(log, key, pair) ==
  [log |-> [log EXCEPT !.hash = HashLog(log), !.sig = EncodeDER(pair[1], pair[2])],
   made |-> Signed(key, SignContent(log), pair)]

\* Hash, then signature over the hash; the sealed entry and the signature made.
Seal(log, key, pair) ==
  LET hashed == [log EXCEPT !.hash = HashLog(log)]
  IN [log |-> [hashed EXCEPT !.sig = EncodeDER(pair[1], pair[2])],
      made |-> Signed(key, SignContent(hashed), pair)]

\* Against the signatures that were made.
VerifySignature(log, key, made) ==
  log.sig # <<>> /\ Signed(key, SignContent(log), DecodeDER(log.sig)) \in made
================================================================================
