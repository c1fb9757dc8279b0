------------------------------ MODULE CertEnsure ------------------------------
(***************************************************************************)
(* A module's certificates over its boots (src/cert): Ensure checks the    *)
(* cert directory, and when it is not satisfied has the LCM sign a server  *)
(* and a client certificate and writes six files one after the other.      *)
(* BootstrapCertificates is the older entry point that takes keys and      *)
(* certificates from the LCM without a pin.                                *)
(*                                                                         *)
(* The process may die at any step, and os.WriteFile truncates before it   *)
(* writes.  The LCM is external: it presents a CA in its TLS chain, signs  *)
(* with one, and an operator may change either.  Keys are numbers, and a   *)
(* certificate names the key it is for.                                    *)
(***************************************************************************)
EXTENDS Naturals, Sequences

CONSTANTS
  CAs,          \* root CAs, named by their fingerprints
  Life,         \* lifetime of an issued certificate
  RenewBefore,  \* Config.RenewBefore
  MaxTime,      \* bound on the clock
  MaxKeys       \* bound on the keys generated

ASSUME LifeAssumption == /\ Life \in Nat /\ RenewBefore \in Nat /\ MaxTime \in Nat
                         /\ MaxKeys \in Nat /\ 0 < RenewBefore /\ RenewBefore < Life

VARIABLES
  disk,       \* the cert directory
  now,        \* the clock
  pin,        \* LCM_CA_FINGERPRINT of this boot
  presents,   \* the CA in the chain the LCM presents
  signs,      \* the CA the LCM signs with
  pc,         \* where the process is
  kind,       \* what it provisions
  toWrite,       \* the files it still has to write, with their contents
  keys,       \* keys generated so far
  tls,        \* what GetServerTLSConfig returned
  \* history
  mishap      \* an Ensure or a bootstrap was cut short

certVars == <<disk, now, pin, presents, signs, pc, kind, toWrite, keys, tls, mishap>>

Files == {"ca.crt", "server.crt", "server.key", "client.crt", "client.key"}

NoFile == [is |-> "missing"]
Torn    == [is |-> "torn"]
CA(x)          == [is |-> "ca", ca |-> x]
Cert(k, x, t)  == [is |-> "cert", key |-> k, ca |-> x, from |-> t, until |-> t + Life]
Key(k)         == [is |-> "key", key |-> k]

\* What belongs in a file.
Holds(f) == CASE f = "ca.crt"                        -> "ca"
              [] f \in {"server.crt", "client.crt"} -> "cert"
              [] OTHER                               -> "key"

----------------------------------------------------------------------------
CertInit ==
  /\ disk = [f \in Files |-> NoFile]
  /\ now = 0 /\ keys = 0
  /\ pin \in CAs /\ presents \in CAs /\ signs = presents
  /\ pc = "down" /\ kind = "none" /\ toWrite = <<>> /\ tls = "none"
  /\ mishap = FALSE

\* MUTANT: the pin is not compared.
CheckLocalCertNoPin ==
  LET ca == disk["ca.crt"] srv == disk["server.crt"]
  IN /\ disk["server.key"] # NoFile
     /\ ca.is = "ca" /\ srv.is = "cert" /\ srv.ca = ca.ca
     /\ srv.from <= now /\ now + RenewBefore < srv.until

\* CheckLocalCert: the key only has to be there.
CheckLocalCert ==
  LET ca == disk["ca.crt"] srv == disk["server.crt"]
  IN /\ disk["server.key"] # NoFile
     /\ ca = CA(pin)
     /\ srv.is = "cert" /\ srv.ca = ca.ca
     /\ srv.from <= now /\ now + RenewBefore < srv.until

\* Ensure, up to the first RPC: the module boots with a pin, keeps what it has
\* and runs, or dials the LCM.
Boot ==
  /\ pc = "down" /\ tls' = "none"
  /\ IF CheckLocalCert
     THEN pc' = "up" /\ UNCHANGED kind
     ELSE pc' = "sign" /\ kind' = "server"
  /\ UNCHANGED <<disk, now, pin, presents, signs, toWrite, keys, mishap>>

\* The files of the pair Ensure is at.
CrtFile(k) == IF k = "server" THEN "server.crt" ELSE "client.crt"
KeyFile(k) == IF k = "server" THEN "server.key" ELSE "client.key"

\* SignModuleCertificate answers: the chain the LCM presents holds the pin.
Reachable == presents = pin

\* MUTANT: certificate and key are written to each other's file.
SignSwapped ==
  /\ pc = "sign" /\ Reachable /\ signs = pin /\ keys < MaxKeys
  /\ keys' = keys + 1 /\ pc' = "write"
  /\ toWrite' = <<[f |-> "ca.crt", v |-> CA(signs)],
               [f |-> KeyFile(kind), v |-> Cert(keys', signs, now)],
               [f |-> CrtFile(kind), v |-> Key(keys')]>>
  /\ UNCHANGED <<disk, now, pin, presents, signs, kind, tls, mishap>>

\* signAndPersist, up to its first write.
Sign ==
  /\ pc = "sign" /\ Reachable /\ signs = pin /\ keys < MaxKeys
  /\ keys' = keys + 1 /\ pc' = "write"
  /\ toWrite' = <<[f |-> "ca.crt", v |-> CA(signs)],
               [f |-> CrtFile(kind), v |-> Cert(keys', signs, now)],
               [f |-> KeyFile(kind), v |-> Key(keys')]>>
  /\ UNCHANGED <<disk, now, pin, presents, signs, kind, tls, mishap>>

\* The RPC fails, or the answer names another CA: Ensure returns an error.
SignFail ==
  /\ pc = "sign" /\ pc' = "down" /\ mishap' = TRUE
  /\ UNCHANGED <<disk, now, pin, presents, signs, kind, toWrite, keys, tls>>

\* BootstrapCertificates: any LCM will do, and it makes the keys.
LegacyBootstrap ==
  /\ pc = "down" /\ keys + 1 < MaxKeys
  /\ keys' = keys + 2 /\ pc' = "write" /\ kind' = "legacy"
  /\ toWrite' = <<[f |-> "ca.crt", v |-> CA(signs)],
               [f |-> "client.crt", v |-> Cert(keys + 1, signs, now)],
               [f |-> "client.key", v |-> Key(keys + 1)],
               [f |-> "server.crt", v |-> Cert(keys + 2, signs, now)],
               [f |-> "server.key", v |-> Key(keys + 2)]>>
  /\ UNCHANGED <<disk, now, pin, presents, signs, tls, mishap>>

\* os.WriteFile: truncate, then write.
Truncate ==
  /\ pc = "write" /\ toWrite # <<>> /\ disk[Head(toWrite).f] # Torn
  /\ disk' = [disk EXCEPT ![Head(toWrite).f] = Torn]
  /\ UNCHANGED <<now, pin, presents, signs, pc, kind, toWrite, keys, tls, mishap>>

WriteRest ==
  /\ pc = "write" /\ toWrite # <<>> /\ disk[Head(toWrite).f] = Torn
  /\ disk' = [disk EXCEPT ![Head(toWrite).f] = Head(toWrite).v]
  /\ toWrite' = Tail(toWrite)
  /\ UNCHANGED <<now, pin, presents, signs, pc, kind, keys, tls, mishap>>

\* MUTANT: Ensure returns after the server certificate.
WrittenServerOnly ==
  /\ pc = "write" /\ toWrite = <<>>
  /\ pc' = IF kind = "legacy" THEN "down" ELSE "up"
  /\ UNCHANGED <<disk, now, pin, presents, signs, kind, toWrite, keys, tls, mishap>>

\* After the server's files the client's; then loadManager, which only looks
\* whether the files are there.  The legacy entry point returns to its caller.
Written ==
  /\ pc = "write" /\ toWrite = <<>>
  /\ CASE kind = "server" -> pc' = "sign" /\ kind' = "client"
       [] kind = "client" -> pc' = "up" /\ UNCHANGED kind
       [] kind = "legacy" -> pc' = "down" /\ UNCHANGED kind
  /\ UNCHANGED <<disk, now, pin, presents, signs, toWrite, keys, tls, mishap>>

\* The file holds a certificate, the other its key.
Pair(crt, key) == disk[crt].is = "cert" /\ disk[key] = Key(disk[crt].key)

\* MUTANT: certificate and key are loaded from different pairs.
ServeClientKey ==
  /\ pc = "up" /\ tls = "none"
  /\ tls' = IF disk["ca.crt"].is = "ca" /\ Pair("server.crt", "client.key")
            THEN "ok" ELSE "failed"
  /\ UNCHANGED <<disk, now, pin, presents, signs, pc, kind, toWrite, keys, mishap>>

\* GetServerTLSConfig loads the CA and the key pair, whatever their dates.
Serve ==
  /\ pc = "up" /\ tls = "none"
  /\ tls' = IF disk["ca.crt"].is = "ca" /\ Pair("server.crt", "server.key")
            THEN "ok" ELSE "failed"
  /\ UNCHANGED <<disk, now, pin, presents, signs, pc, kind, toWrite, keys, mishap>>

\* The process is stopped or dies, or a write fails and Ensure gives up.
Crash ==
  /\ pc # "down" /\ pc' = "down" /\ toWrite' = <<>>
  /\ mishap' = (mishap \/ pc # "up")
  /\ UNCHANGED <<disk, now, pin, presents, signs, kind, keys, tls>>

----------------------------------------------------------------------------
(* Outside the process *)

\* Days go by while the module is down or up; issuing takes no time.
Tick ==
  /\ pc \in {"down", "up"} /\ now < MaxTime /\ now' = now + 1
  /\ UNCHANGED <<disk, pin, presents, signs, pc, kind, toWrite, keys, tls, mishap>>

\* The operator gives the module another pin for its next boot.
Repin ==
  /\ pc = "down" /\ pin' \in CAs \ {pin}
  /\ UNCHANGED <<disk, now, presents, signs, pc, kind, toWrite, keys, tls, mishap>>

\* The LCM changes the chain it presents, or the CA it signs with.
Rotate ==
  /\ \/ presents' \in CAs \ {presents} /\ UNCHANGED signs
     \/ signs' \in CAs \ {signs} /\ UNCHANGED presents
  /\ UNCHANGED <<disk, now, pin, pc, kind, toWrite, keys, tls, mishap>>

CertNext ==
  \/ Boot \/ Sign \/ SignFail \/ LegacyBootstrap
  \/ Truncate \/ WriteRest \/ Written \/ Serve \/ Crash
  \/ Tick \/ Repin \/ Rotate

CertSpec == CertInit /\ [][CertNext]_certVars

----------------------------------------------------------------------------
(* Properties *)

\* Type correctness: every file holds what belongs in it, or is torn or missing.
CertTypeOK ==
  /\ DOMAIN disk = Files /\ \A f \in Files : disk[f].is \in {"missing", "torn", Holds(f)}
  /\ now \in 0 .. MaxTime /\ keys \in 0 .. MaxKeys
  /\ pin \in CAs /\ presents \in CAs /\ signs \in CAs
  /\ pc \in {"down", "sign", "write", "up"}
  /\ kind \in {"none", "server", "client", "legacy"}
  /\ Len(toWrite) <= 5
  /\ tls \in {"none", "ok", "failed"} /\ mishap \in BOOLEAN

Returns == pc # "up" /\ pc' = "up"

\* When Ensure returns without an error, the CA on disk is the pinned one and the
\* server certificate is signed by it and good for more than RenewBefore,
\* whatever earlier boots, other pins, rotations and crashes left behind.
EnsureKeepsPin ==
  [][Returns => LET srv == disk'["server.crt"]
                IN /\ disk'["ca.crt"] = CA(pin)
                   /\ srv.is = "cert" /\ srv.ca = pin
                   /\ now + RenewBefore < srv.until]_certVars

\* Everything Ensure is there for: both pairs match and hang off the CA on disk.
FullyProvisioned ==
  /\ disk["ca.crt"].is = "ca"
  /\ Pair("server.crt", "server.key") /\ disk["server.crt"].ca = disk["ca.crt"].ca
  /\ Pair("client.crt", "client.key") /\ disk["client.crt"].ca = disk["ca.crt"].ca

\* A boot that issues certificates leaves the module fully provisioned, whatever
\* it found on the disk.
IssueProvisions ==
  [][(pc = "write" /\ pc' = "up") => FullyProvisioned']_certVars

\* As long as no Ensure and no bootstrap was ever cut short, every boot that
\* succeeds is fully provisioned and its server gets a TLS configuration.
OnlyMishapsDegrade ==
  (pc = "up" /\ ~mishap) => FullyProvisioned /\ tls # "failed"

==============================================================================
