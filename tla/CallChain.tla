------------------------------- MODULE CallChain -------------------------------
(***************************************************************************)
(* A call to a module or to the admin, from the dialling to the audit       *)
(* entry: the caller picks its credentials from the cert directory (module *)
(* ClientTLS), the connection is handshaken once and used until the caller *)
(* goes, and each call passes the server's middleware: metrics, audit,     *)
(* mTLS (PeerIdentity), claims (Claims), handler, and back.                *)
(*                                                                         *)
(* Between calls cert.Ensure writes the caller's directory file by file    *)
(* and both processes restart (a call and a dial share no state, so that   *)
(* no interleaving is lost); time passes at any point.  External: gRPC's   *)
(* handshake, the handler, the kratos transport, the database.             *)
(***************************************************************************)
EXTENDS ClientTLS, Claims, PeerIdentity, AuditLog, FiniteSets

CONSTANTS
  Configs,       \* settings of caller and server (one record each)
  CertOf,        \* certificates by number
  Ops,           \* operations of the server
  Vias,          \* "grpc", "http" (no gRPC peer), "local" (no transport)
  Metas,         \* metadata a caller may send at some time
  Tenants,       \* tenants a handler may set
  GatewaySecret, \* the secret the gateway signs claims with
  MaxRetries, MaxCalls, MaxTime, MaxBoots

\* Nobody but ModuleSecretInterceptor sets the header of the module secret.
ASSUME MetasAssumption == \A m \in Metas : DOMAIN m = Keys /\ m["secret"] = <<>>

\* ReadDir lists subdirectories of the cert directory.
ASSUME ScanAssumption == \A f \in Configs : f.scan \in Seq({ClientDir, ServerDir, ModuleDir, OtherDir})

\* A module that verifies claims has the secret the gateway signs them with.
ASSUME SecretAssumption == \A f \in Configs : f.signingSecret \in {"", GatewaySecret}

VARIABLES
  conf,     \* one of Configs
  disk,     \* the caller's cert directory
  now,      \* the clock
  dial,     \* DialModule: [pc, attempt]
  conn,     \* the connection's credentials, NoConn if there is none
  ready,    \* the certificate of the handshake, 0 before it, Insecure without TLS
  pc,       \* where the call is
  c,        \* the call: [via, op]
  info,     \* the *ClientInfo of its context
  md,       \* the metadata of its context, until its handler is done with it
  ok,       \* it returned without an error
  boots,    \* starts of the server
  store,    \* what the writers have
  made,     \* the signatures made
  counts,   \* the request counter, by operation and status
  \* history
  calls,    \* calls made
  ran,      \* the call's handler returned
  inPlace,  \* the tenant it set in place, 0 if none
  at,       \* when the middleware looked at the certificate and the claims
  lost      \* the writers that failed for the call

dialVars == <<disk, dial, conn, ready>>
logVars  == <<boots, store, made, counts>>
callVars == <<pc, c, info, md, ok, calls, ran, inPlace, at, lost>>
vars == <<conf, now, dialVars, logVars, callVars>>

NoConn   == [tls |-> FALSE, cert |-> 0, name |-> "none"]
Insecure == -1
NoDial   == [pc |-> "idle", attempt |-> 0]
NoCall   == [via |-> "local", op |-> ""]
EnsureOrder == <<"ca.crt", "client.crt", "client.key">>

Init ==
  /\ conf \in Configs /\ disk = conf.dir
  /\ now = 0 /\ dial = NoDial /\ conn = NoConn /\ ready = 0
  /\ pc = "idle" /\ c = NoCall /\ info = NoInfo /\ md = NoMD /\ ok = TRUE
  /\ boots = 1 /\ store = [w \in {"db", "mirror"} |-> <<>>] /\ made = {}
  /\ counts = [o \in Ops |-> [OK |-> 0, ERROR |-> 0]]
  /\ calls = 0 /\ ran = FALSE /\ inPlace = 0 /\ at = [cert |-> 0, claims |-> 0] /\ lost = {}

\* The call is over.
Done ==
  /\ pc' = "idle" /\ calls' = calls + 1
  /\ c' = NoCall /\ info' = NoInfo /\ md' = NoMD /\ ok' = TRUE
  /\ ran' = FALSE /\ inPlace' = 0 /\ at' = [cert |-> 0, claims |-> 0] /\ lost' = {}

----------------------------------------------------------------------------
(* The caller's certificates: cert.Ensure issues number conf.next *)

WriteFile ==
  /\ pc = "idle"
  /\ \E i \in 1 .. 3 :
       LET f == EnsureOrder[i]
       IN /\ \A j \in 1 .. i - 1 : disk[EnsureOrder[j]] = conf.next
          /\ disk[f] # conf.next
          /\ disk' = [disk EXCEPT ![f] = IF @ = Garbage THEN conf.next ELSE Garbage]
  /\ UNCHANGED <<conf, now, dial, conn, ready, logVars, callVars>>

----------------------------------------------------------------------------
(* ModuleDialer.DialModule and the two createConnection *)

DialModule ==
  /\ conf.caller = "module" /\ pc = "idle" /\ dial.pc = "idle" /\ conn = NoConn
  /\ dial' = [pc |-> "try", attempt |-> 0]
  /\ UNCHANGED <<conf, now, disk, conn, ready, logVars, callVars>>

\* ResolveModule or grpc.NewClient fails.
AttemptFails ==
  /\ pc = "idle" /\ dial.pc = "try"
  /\ dial' = IF dial.attempt < MaxRetries THEN [dial EXCEPT !.pc = "wait"] ELSE NoDial
  /\ UNCHANGED <<conf, now, disk, conn, ready, logVars, callVars>>

\* The interval is over, or the context is done.
Retry ==
  /\ pc = "idle" /\ dial.pc = "wait"
  /\ dial' \in {[pc |-> "try", attempt |-> dial.attempt + 1], NoDial}
  /\ UNCHANGED <<conf, now, disk, conn, ready, logVars, callVars>>

dialWithMTLS ==
  /\ pc = "idle" /\ dial.pc = "try" /\ dial' = NoDial
  /\ conn' = loadClientTLS(disk, conf.serverName) /\ ready' = 0
  /\ UNCHANGED <<conf, now, disk, logVars, callVars>>

\* The gateway: a registration, or a later one that replaces the connection.
createConnection ==
  /\ conf.caller = "gateway" /\ pc = "idle"
  /\ conn' = loadModuleTLSCredentials(disk, conf.env, "module") /\ ready' = 0
  /\ UNCHANGED <<conf, now, disk, dial, logVars, callVars>>

\* The registration client dials the admin, once.
createAdminConnection ==
  /\ conf.caller = "registration" /\ pc = "idle" /\ conn = NoConn
  /\ conn' = loadAdminClientTLS(disk, conf.scan, conf.registrationInsecure) /\ ready' = 0
  /\ UNCHANGED <<conf, now, disk, dial, logVars, callVars>>

\* The caller's process ends and starts again.
CallerRestarts ==
  /\ pc = "idle" /\ conn # NoConn
  /\ conn' = NoConn /\ ready' = 0 /\ dial' = NoDial
  /\ UNCHANGED <<conf, now, disk, logVars, callVars>>

----------------------------------------------------------------------------
(* A call *)

\* The metadata of a gRPC call: only the registration client's connection has the
\* interceptor with the module secret.
Outgoing(m) ==
  IF conf.caller = "registration" THEN ModuleSecretInterceptor(m, conf.bootstrapSecret) ELSE m

\* Only a gRPC call carries metadata.
Call(via, op, m) ==
  /\ pc = "idle" /\ calls < MaxCalls
  /\ IF via = "grpc" THEN conn # NoConn ELSE m = NoMD
  /\ c' = [via |-> via, op |-> op]
  /\ md' = IF via = "grpc" THEN Outgoing(m) ELSE m
  /\ pc' = IF via = "grpc" THEN "send" ELSE "mtls"
  /\ UNCHANGED <<conf, now, dialVars, logVars, info, ok, calls, ran, inPlace, at, lost>>

\* The server demands a certificate and verifies it, its dates included, once.
Handshake ==
  /\ pc = "send" /\ ready = 0
  /\ conn.tls = conf.serverTLS
  /\ conn.tls => (conn.name = conf.serverName /\ validateCertificateValidity(CertOf[conn.cert], now))
  /\ ready' = IF conn.tls THEN conn.cert ELSE Insecure
  /\ UNCHANGED <<conf, now, disk, dial, conn, logVars, callVars>>

Deliver ==
  /\ pc = "send" /\ ready # 0 /\ pc' = "mtls"
  /\ UNCHANGED <<conf, now, dialVars, logVars, c, info, md, ok, calls, ran, inPlace, at, lost>>

\* waitForReady holds the call until its deadline.
Expires ==
  /\ pc = "send" /\ ready = 0 /\ Done
  /\ UNCHANGED <<conf, now, dialVars, logVars>>

\* MTLSMiddleware: without a transport it does nothing, without a gRPC peer it
\* refuses; a rejection goes back through what surrounds it.
MTLS ==
  /\ pc = "mtls" /\ at' = [at EXCEPT !.cert = now]
  /\ info' = IF c.via = "grpc" /\ ready > 0
             THEN extractClientInfo(CertOf[ready], conf.mtls, now) ELSE NoInfo
  /\ IF \/ c.via = "local"
        \/ (c.via = "grpc" /\ Passes(c.op, info', conf.mtls))
     THEN pc' = "claims" /\ UNCHANGED ok
     ELSE pc' = (IF conf.auditInside THEN "metrics" ELSE "audit") /\ ok' = FALSE
  /\ UNCHANGED <<conf, now, dialVars, logVars, c, md, calls, ran, inPlace, lost>>

ClaimsStep ==
  /\ pc = "claims" /\ pc' = "handler" /\ at' = [at EXCEPT !.claims = now]
  /\ md' = ClaimsServer(md, conf.bindingMode, conf.signingSecret, now)
  /\ UNCHANGED <<conf, now, dialVars, logVars, c, info, ok, calls, ran, inPlace, lost>>

\* The handler [external] may set the tenant for the audit, or only for itself,
\* and returns.
Handle ==
  /\ pc = "handler" /\ pc' = "audit" /\ ran' = TRUE
  /\ \E t \in Tenants \union {0} :
       /\ inPlace' = IF info = NoInfo THEN 0 ELSE t
       /\ info' = IF t = 0 THEN info ELSE SetTenantIDInPlace(info, t)
  /\ ok' \in BOOLEAN /\ md' = NoMD
  /\ UNCHANGED <<conf, now, dialVars, logVars, c, calls, at, lost>>

\* It panics: no middleware of these has a deferred function.
Panic ==
  /\ pc = "handler" /\ Done
  /\ UNCHANGED <<conf, now, dialVars, logVars>>

\* The key pair of the options, or one that this start of the server generated
\* because one of the two was not given.
Key == IF conf.keys = "both" THEN <<"configured", 0>> ELSE <<"generated", boots>>

\* It only knows the options.
GetPublicKey == IF conf.keys \in {"both", "public"} THEN <<"configured", 0>> ELSE <<"none", 0>>

\* MUTANT: the first writer that fails ends the loop.
CombinedWriterStops(log, failing) ==
  [w \in DOMAIN store |->
     IF w \in failing \/ (w = "mirror" /\ "db" \in failing) THEN store[w] ELSE Append(store[w], log)]

\* CombinedWriter over NewDatabaseWriter and another: each is called, whatever the
\* others return.
CombinedWriter(log, failing) ==
  [w \in DOMAIN store |-> IF w \in failing THEN store[w] ELSE Append(store[w], log)]

\* The audit middleware after its handler returned.  It looks into its own context,
\* which has a ClientInfo when the mTLS middleware surrounds it, and writes with
\* that context, so that a write also fails because the caller is gone; an error
\* of a writer is only logged.
Audit ==
  /\ pc = "audit" /\ pc' = "metrics"
  /\ IF c.via = "local" \/ c.op \in conf.skipOperations
     THEN UNCHANGED <<store, made, lost>>
     ELSE \E pair \in Pairs, failing \in SUBSET {"db"} :
            LET sealed == Seal(buildAuditLog(c.op, IF conf.auditInside THEN info ELSE NoInfo, now, ok),
                               Key, pair)
            IN /\ lost' = failing /\ made' = made \union {sealed.made}
               /\ store' = CombinedWriter(sealed.log, failing)
  /\ UNCHANGED <<conf, now, dialVars, boots, counts, c, info, md, ok, calls, ran, inPlace, at>>

Metrics ==
  /\ pc = "metrics" /\ Done
  /\ counts' = IF c.via = "local" THEN counts
               ELSE [counts EXCEPT ![c.op][IF ok THEN "OK" ELSE "ERROR"] = @ + 1]
  /\ UNCHANGED <<conf, now, dialVars, boots, store, made>>

----------------------------------------------------------------------------
ServerRestarts ==
  /\ pc = "idle" /\ boots < MaxBoots
  /\ boots' = boots + 1 /\ ready' = 0
  /\ counts' = [o \in Ops |-> [OK |-> 0, ERROR |-> 0]]
  /\ UNCHANGED <<conf, now, disk, dial, conn, store, made, callVars>>

Tick ==
  /\ now < MaxTime /\ now' = now + 1
  /\ UNCHANGED <<conf, dialVars, logVars, callVars>>

Next ==
  \/ WriteFile \/ DialModule \/ AttemptFails \/ Retry \/ dialWithMTLS \/ createConnection
  \/ createAdminConnection \/ CallerRestarts
  \/ \E via \in Vias, op \in Ops, m \in Metas : Call(via, op, m)
  \/ Handshake \/ Deliver \/ Expires \/ MTLS \/ ClaimsStep \/ Handle \/ Panic \/ Audit \/ Metrics
  \/ ServerRestarts \/ Tick

Spec == Init /\ [][Next]_vars

----------------------------------------------------------------------------
(* Properties *)

\* No directory that has both files comes before client/ in the scan.
ClientFirst ==
  \E i \in DOMAIN conf.scan :
     conf.scan[i] = ClientDir /\ \A j \in DOMAIN conf.scan : j < i => ~HasFiles(disk, conf.scan[j])

\* A connection that is dialled when the CA and the pair cert.Ensure writes are
\* complete is a TLS connection with a certificate of the directory: the gateway's
\* whatever the legacy variables say, a module's whatever its own pair is.  The
\* registration client can be told not to, and looks no further than the first
\* directory with both files, so that its connection is TLS if that is client/.
CompleteDirGivesTLS ==
  [][(/\ conn' # conn /\ conn' # NoConn /\ Parses(disk["ca.crt"])
      /\ LoadX509KeyPair(disk["client.crt"], disk["client.key"])
      /\ conf.caller = "registration" => ClientFirst /\ ~conf.registrationInsecure)
       => /\ conn'.tls /\ conn'.cert \in {disk["client.crt"], disk["module.crt"]}
          /\ conf.caller # "module" => conn'.cert = disk["client.crt"]]_vars

\* The handler of a protected operation runs only for a caller whose certificate
\* was current when this call came (not just when the connection was made), is of
\* a trusted issuer and, under enforce, on the allow-list; and the handler is told
\* that caller.  A connection that fell back to insecure never gets there.
ProtectedCallsAuthenticated ==
  (pc = "handler" /\ c.via # "local" /\ c.op \notin conf.mtls.publicEndpoints) =>
     /\ conn.tls /\ ready = conn.cert
     /\ LET x == CertOf[ready]
        IN /\ x.notBefore <= at.cert /\ at.cert <= x.notAfter
           /\ (x.issuer.ou \in conf.mtls.trustedOrgUnits \/ x.issuer.org \in conf.mtls.trustedOrgs)
           /\ (conf.mtls.identityMode = "enforce" /\ conf.mtls.allowed # {}) => x.cn \in conf.mtls.allowed
           /\ IsClientAuthenticated(info) /\ GetClientID(info) = x.cn

\* Under enforce a handler reads the four claims as the gateway signed them
\* together, before they expired, or reads none of them: never a part, a mixture
\* or a value that comes second.  Whatever is stripped, the module secret that the
\* registration client presents arrives.
ClaimsBound ==
  /\ (pc = "handler" /\ c.via = "grpc" /\ conf.caller = "registration" /\ conf.bootstrapSecret # "") =>
        ValidateModuleSecret(md, conf.bootstrapSecret)
  /\ (pc = "handler" /\ conf.bindingMode = "enforce") =>
     \/ /\ GetTenantIDFromContext(md) = 0 /\ GetUserIDAsUint32(md) = <<>>
        /\ GetUsernameFromContext(md) = "" /\ GetRolesFromContext(md) = {} /\ ~IsPlatformAdmin(md)
     \/ \E m \in Metas : LET sig == firstMD(m, "sig")
                         IN /\ sig.by = GatewaySecret /\ sig.over[1] = ClaimsOf(md)
                            /\ at.claims <= sig.over[2]

\* Every call whose handler returned (and, with the audit outside of mTLS, every
\* call that was refused) is in the log of every writer that did not fail, with its
\* outcome; inside mTLS also with its caller and the tenant the handler set.
CallsAccounted ==
  (pc = "metrics" /\ c.via # "local" /\ c.op \notin conf.skipOperations
     /\ (ran \/ ~conf.auditInside)) =>
     \A w \in DOMAIN store \ lost :
        /\ store[w] # <<>>
        /\ LET e == Last(store[w])
           IN /\ e.operation = c.op /\ e.success = ok
              /\ conf.auditInside => /\ e.client = (IF ready > 0 THEN CertOf[ready].cn ELSE "")
                                     /\ e.tenant = inPlace

\* With both keys configured, every entry of every start of the server verifies
\* with the key GetPublicKey gives out, through the DER encoding and back.
EntriesVerifiable ==
  conf.keys = "both" =>
     \A w \in DOMAIN store : \A e \in ToSet(store[w]) :
        e.hash = HashLog(e) /\ VerifySignature(e, GetPublicKey, made)
================================================================================
