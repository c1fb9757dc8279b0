---------------------------- MODULE CallChainProofs ----------------------------
(***************************************************************************)
(* Proofs about CallChain, for any settings, certificates, operations and  *)
(* metadata, and any number of calls, retries and restarts: which          *)
(* connection a complete directory gives, whom a handler is told and whose *)
(* claims it reads, and what is in the audit log.                          *)
(***************************************************************************)
EXTENDS CallChain, TLAPS

------------------------------------------------------------------------------
(* The connection *)

\* The settings never change, and only a module dials in several attempts.
Dialling == conf \in Configs /\ (dial.pc # "idle" => conf.caller = "module")

LEMMA DiallingStep == Dialling /\ [Next]_vars => Dialling'
<1> SUFFICES ASSUME Dialling, [Next]_vars PROVE Dialling'
  OBVIOUS
<1>1. conf' = conf
  BY DEF Next, vars, WriteFile, DialModule, AttemptFails, Retry, dialWithMTLS, createConnection,
         createAdminConnection, CallerRestarts, Call, Handshake, Deliver, Expires, MTLS,
         ClaimsStep, Handle, Panic, Audit, Metrics, ServerRestarts, Tick
<1>2. dial' = dial \/ dial'.pc = "idle" \/ dial.pc # "idle" \/ conf.caller = "module"
  BY DEF Next, vars, dialVars, NoDial, WriteFile, DialModule, AttemptFails, Retry, dialWithMTLS,
         createConnection, createAdminConnection, CallerRestarts, Call, Handshake, Deliver,
         Expires, MTLS, ClaimsStep, Handle, Panic, Audit, Metrics, ServerRestarts, Tick
<1> QED
  BY <1>1, <1>2 DEF Dialling

\* The first directory with both files is the one the registration client loads.
LEMMA FirstIsLoaded ==
  ASSUME NEW dir, NEW n \in Nat, NEW scan, DOMAIN scan = 1 .. n, NEW i \in 1 .. n,
         HasFiles(dir, scan[i]), \A j \in 1 .. n : j < i => ~HasFiles(dir, scan[j])
  PROVE  loadAdminClientTLS(dir, scan, FALSE)
           = loadTLSFromPaths(dir["ca.crt"], dir[scan[i].crt], dir[scan[i].key], "admin-service")
<1> DEFINE there == {k \in DOMAIN scan : HasFiles(dir, scan[k])}
           first == CHOOSE k \in there : \A j \in there : k <= j
<1>1. i \in there /\ \A j \in there : i <= j
  OBVIOUS
<1>2. first \in there /\ \A j \in there : first <= j
  BY <1>1
<1>3. first = i
  <2>1. first \in 1 .. n /\ first <= i /\ i <= first
    BY <1>1, <1>2
  <2> HIDE DEF first, there
  <2> QED  BY <2>1
<1> QED
  BY <1>1, <1>3, Zenon DEF loadAdminClientTLS

\* Whoever dials with the CA and the pair of cert.Ensure complete dials with TLS, the
\* registration client if no directory with both files is listed before client/ and it
\* was not told otherwise; for any directory, in any order of its entries.
THEOREM CompleteIsTLS == Spec => CompleteDirGivesTLS
<1> DEFINE Complete == Parses(disk["ca.crt"]) /\ LoadX509KeyPair(disk["client.crt"], disk["client.key"])
           Asked == conf.caller = "registration" => ClientFirst /\ ~conf.registrationInsecure
           Result == /\ conn'.tls /\ conn'.cert \in {disk["client.crt"], disk["module.crt"]}
                     /\ conf.caller # "module" => conn'.cert = disk["client.crt"]
<1>1. ASSUME Dialling, Complete, dialWithMTLS PROVE Result
  BY <1>1 DEF Dialling, dialWithMTLS, loadClientTLS, loadTLSFromPaths, Creds, Plain
<1>2. ASSUME Complete, createConnection PROVE Result
  <2> DEFINE name == IF conf.env.name # "" THEN conf.env.name ELSE DefaultServerName("module")
  <2>1. loadTLSFromPaths(disk["ca.crt"], disk["client.crt"], disk["client.key"], name)
          = Creds(disk["client.crt"], name)
    BY <1>2 DEF loadTLSFromPaths
  <2>2. disk["ca.crt"] # 0 /\ disk["client.crt"] # 0
    BY <1>2 DEF LoadX509KeyPair, Parses
  <2>3. conn' = Creds(disk["client.crt"], name)
    <3>1. conn' = loadModuleTLSCredentials(disk, conf.env, "module")
      BY <1>2 DEF createConnection
    <3>2. Creds(disk["client.crt"], name).tls
      BY DEF Creds
    <3> QED
      BY <2>1, <2>2, <3>1, <3>2, Zenon DEF loadModuleTLSCredentials
  <2> QED  BY <2>3 DEF Creds
<1>3. ASSUME Dialling, Complete, Asked, createAdminConnection PROVE Result
  <2>1. conf.caller = "registration" /\ ~conf.registrationInsecure
        /\ conn' = loadAdminClientTLS(disk, conf.scan, conf.registrationInsecure)
    BY <1>3 DEF createAdminConnection
  <2>2. PICK n \in Nat : DOMAIN conf.scan = 1 .. n
    BY <1>3, ScanAssumption DEF Dialling
  <2>3. PICK i \in 1 .. n : /\ conf.scan[i] = ClientDir
                            /\ \A j \in 1 .. n : j < i => ~HasFiles(disk, conf.scan[j])
    BY <1>3, <2>1, <2>2 DEF ClientFirst
  <2>4. HasFiles(disk, conf.scan[i])
    BY <1>3, <2>3 DEF HasFiles, ClientDir, LoadX509KeyPair, Parses
  <2>5. loadAdminClientTLS(disk, conf.scan, FALSE)
          = loadTLSFromPaths(disk["ca.crt"], disk[conf.scan[i].crt], disk[conf.scan[i].key],
                             "admin-service")
    BY <2>2, <2>3, <2>4, FirstIsLoaded
  <2>6. conn' = loadTLSFromPaths(disk["ca.crt"], disk["client.crt"], disk["client.key"],
                                 "admin-service")
    <3>1. loadAdminClientTLS(disk, conf.scan, conf.registrationInsecure)
            = loadAdminClientTLS(disk, conf.scan, FALSE)
      BY <2>1 DEF loadAdminClientTLS
    <3>2. conf.scan[i].crt = "client.crt" /\ conf.scan[i].key = "client.key"
      BY <2>3 DEF ClientDir
    <3> QED  BY <2>1, <2>5, <3>1, <3>2
  <2> QED
    BY <1>3, <2>6 DEF loadTLSFromPaths, Creds
<1>4. ASSUME [Next]_vars, conn' # conn, conn' # NoConn
      PROVE  dialWithMTLS \/ createConnection \/ createAdminConnection
  BY <1>4 DEF Next, vars, dialVars, WriteFile, DialModule, AttemptFails, Retry, CallerRestarts,
              Call, Handshake, Deliver, Expires, MTLS, ClaimsStep, Handle, Panic, Audit, Metrics,
              ServerRestarts, Tick
<1>5. Dialling /\ [Next]_vars =>
        [(/\ conn' # conn /\ conn' # NoConn /\ Parses(disk["ca.crt"])
          /\ LoadX509KeyPair(disk["client.crt"], disk["client.key"])
          /\ conf.caller = "registration" => ClientFirst /\ ~conf.registrationInsecure)
           => /\ conn'.tls /\ conn'.cert \in {disk["client.crt"], disk["module.crt"]}
              /\ conf.caller # "module" => conn'.cert = disk["client.crt"]]_vars
  <2> HIDE DEF Complete, Asked, Result
  <2>1. Dialling /\ [Next]_vars /\ conn' # conn /\ conn' # NoConn /\ Complete /\ Asked => Result
    BY <1>1, <1>2, <1>3, <1>4
  <2> QED  BY <2>1 DEF Complete, Asked, Result
<1>6. Init => Dialling
  BY DEF Init, Dialling, NoDial
<1> QED
  BY <1>5, <1>6, DiallingStep, PTL DEF Spec, CompleteDirGivesTLS

------------------------------------------------------------------------------
(* What a call carries *)

\* A record of the two times, and settings that never change.
Settled == conf \in Configs /\ DOMAIN at = {"cert", "claims"}

\* A handshake with TLS was made with the certificate the connection dials with.
Shaken == ready > 0 => conn.tls /\ ready = conn.cert

\* Past the mTLS middleware, the caller of a protected operation is who its
\* certificate says, and the certificate was good when the middleware looked.
Authentic ==
  (pc \in {"claims", "handler"} /\ c.via # "local" /\ c.op \notin conf.mtls.publicEndpoints) =>
     /\ ready > 0 /\ info.isAuthenticated /\ info.cn = CertOf[ready].cn
     /\ validateCertificateValidity(CertOf[ready], at.cert)
     /\ validateCertificateIssuer(CertOf[ready], conf.mtls)
     /\ validateCertificateIdentity(CertOf[ready], conf.mtls)

AuthInv == Settled /\ Shaken /\ Authentic

\* Until the claims middleware, a call carries what its caller sent.
Sent == pc \in {"send", "mtls", "claims"} =>
          \E m \in Metas : md = IF c.via = "grpc" THEN Outgoing(m) ELSE m

ClaimsInv == Settled /\ Sent /\ ClaimsBound

\* What the audit middleware finds in the context: the caller, and the tenant its
\* handler set; only calls with a transport and a peer, and local ones, get there.
Told ==
  /\ pc \in {"idle", "send", "mtls", "claims", "handler"} => ~ran
  /\ pc \in {"claims", "handler"} \/ (pc = "audit" /\ ran) =>
       /\ c.via \in {"local", "grpc"}
       /\ DOMAIN info = {"cn", "isAuthenticated", "tenant"}
       /\ info.tenant = (IF pc = "audit" THEN inPlace ELSE 0)
       /\ c.via = "grpc" => info.cn = (IF ready > 0 THEN CertOf[ready].cn ELSE "")

\* The logs are sequences.
Logs == /\ DOMAIN store = {"db", "mirror"}
        /\ \A w \in DOMAIN store : \E S : store[w] \in Seq(S)

AccountInv == Told /\ Logs /\ CallsAccounted

------------------------------------------------------------------------------
(* Steps *)

\* What happens between calls.
Between ==
  \/ WriteFile \/ DialModule \/ AttemptFails \/ Retry \/ dialWithMTLS \/ createConnection
  \/ createAdminConnection \/ CallerRestarts \/ ServerRestarts

LEMMA BetweenCalls ==
  Between => /\ pc = "idle" /\ UNCHANGED <<conf, callVars, store>>
             /\ ready' = 0 \/ UNCHANGED <<ready, conn>>
  BY DEF Between, WriteFile, DialModule, AttemptFails, Retry, dialWithMTLS, createConnection,
         createAdminConnection, CallerRestarts, ServerRestarts, logVars

\* The ways a call ends.
Ends == Expires \/ Panic \/ Metrics

LEMMA EndsCall ==
  Ends => Done /\ UNCHANGED <<conf, ready, conn, store>>
  BY DEF Ends, Expires, Panic, Metrics, dialVars, logVars

\* A call that is over satisfies everything, as does the initial state.
LEMMA OverIsFine ==
  ASSUME pc' = "idle", ~ran', DOMAIN at' = {"cert", "claims"}
  PROVE  /\ Authentic' /\ Sent' /\ ClaimsBound' /\ Told' /\ CallsAccounted'
         /\ conf' \in Configs => Settled'
  BY DEF Authentic, Sent, ClaimsBound, Told, CallsAccounted, Settled

LEMMA AuthStep == AuthInv /\ [Next]_vars => AuthInv'
<1> SUFFICES ASSUME AuthInv, [Next]_vars PROVE AuthInv'
  OBVIOUS
<1>1. CASE Between
  <2>1. /\ pc = "idle" /\ UNCHANGED <<conf, pc, at>>
        /\ ready' = 0 \/ UNCHANGED <<ready, conn>>
    BY <1>1, BetweenCalls DEF callVars
  <2> QED  BY <2>1 DEF AuthInv, Settled, Shaken, Authentic
<1>2. CASE Ends
  <2>1. pc' = "idle" /\ ~ran' /\ DOMAIN at' = {"cert", "claims"} /\ UNCHANGED <<conf, ready, conn>>
    BY <1>2, EndsCall DEF Done
  <2> QED  BY <2>1, OverIsFine DEF AuthInv, Settled, Shaken
<1>3. ASSUME NEW via, NEW op, NEW m, Call(via, op, m) PROVE AuthInv'
  BY <1>3 DEF Call, dialVars, AuthInv, Settled, Shaken, Authentic
<1>4. CASE Handshake
  BY <1>4 DEF Handshake, callVars, AuthInv, Settled, Shaken, Authentic, Insecure
<1>5. CASE Deliver \/ Tick \/ UNCHANGED vars
  BY <1>5 DEF Deliver, Tick, vars, dialVars, callVars, AuthInv, Settled, Shaken, Authentic
<1>6. CASE MTLS
  <2>1. /\ at' = [at EXCEPT !.cert = now] /\ UNCHANGED <<conf, ready, conn, c>>
        /\ info' = IF c.via = "grpc" /\ ready > 0
                   THEN extractClientInfo(CertOf[ready], conf.mtls, now) ELSE NoInfo
    BY <1>6 DEF MTLS, dialVars
  <2>2. DOMAIN at' = {"cert", "claims"} /\ at'.cert = now
    BY <2>1 DEF AuthInv, Settled
  <2>3. Authentic'
    <3> SUFFICES ASSUME pc' \in {"claims", "handler"}, c.via # "local",
                        c.op \notin conf.mtls.publicEndpoints
                 PROVE  /\ ready > 0 /\ info'.isAuthenticated /\ info'.cn = CertOf[ready].cn
                        /\ validateCertificateValidity(CertOf[ready], now)
                        /\ validateCertificateIssuer(CertOf[ready], conf.mtls)
                        /\ validateCertificateIdentity(CertOf[ready], conf.mtls)
      BY <2>1, <2>2 DEF Authentic
    <3>1. c.via = "grpc" /\ info'.isAuthenticated
      BY <1>6 DEF MTLS, Passes, isPublicEndpoint
    <3>2. ~NoInfo.isAuthenticated
      BY DEF NoInfo
    <3>3. ready > 0 /\ info' = extractClientInfo(CertOf[ready], conf.mtls, now)
      BY <2>1, <3>1, <3>2
    <3> QED  BY <3>1, <3>3 DEF extractClientInfo
  <2> QED  BY <2>1, <2>2, <2>3 DEF AuthInv, Settled, Shaken
<1>7. CASE ClaimsStep
  <2>1. /\ pc = "claims" /\ at' = [at EXCEPT !.claims = now]
        /\ UNCHANGED <<conf, ready, conn, c, info>>
    BY <1>7 DEF ClaimsStep, dialVars
  <2>2. DOMAIN at' = {"cert", "claims"} /\ at'.cert = at.cert
    BY <2>1 DEF AuthInv, Settled
  <2> QED  BY <2>1, <2>2 DEF AuthInv, Settled, Shaken, Authentic
<1>8. CASE Handle \/ Audit
  BY <1>8 DEF Handle, Audit, dialVars, AuthInv, Settled, Shaken, Authentic
<1> QED
  BY <1>1, <1>2, <1>3, <1>4, <1>5, <1>6, <1>7, <1>8 DEF Next, Between, Ends

\* For any number of calls over any connections: no handler of a protected
\* operation runs for a caller that was not authenticated for this very call.
THEOREM OnlyAuthenticated == Spec => []ProtectedCallsAuthenticated
<1>1. Init => AuthInv
  BY DEF Init, AuthInv, Settled, Shaken, Authentic
<1>2. AuthInv => ProtectedCallsAuthenticated
  BY DEF AuthInv, Shaken, Authentic, ProtectedCallsAuthenticated, validateCertificateValidity,
         validateCertificateIssuer, validateCertificateIdentity, IsClientAuthenticated, GetClientID
<1> QED
  BY <1>1, <1>2, AuthStep, PTL DEF Spec

------------------------------------------------------------------------------
(* Claims *)

LEMMA KeyNames ==
  /\ ToSet(signedClaimKeys) = {"tenant", "user", "username", "roles"}
  /\ Keys = {"tenant", "user", "username", "roles", "sig", "exp", "secret"}
<1>1. DOMAIN signedClaimKeys = 1 .. 4
  BY DEF signedClaimKeys
<1>2. ToSet(signedClaimKeys) = {"tenant", "user", "username", "roles"}
  BY <1>1 DEF ToSet, signedClaimKeys
<1> QED  BY <1>2 DEF Keys

\* The module secret is added to the metadata, which otherwise stay as they are.
LEMMA SecretAdded ==
  ASSUME NEW m \in Metas, NEW secret
  PROVE  /\ \A k \in Keys \ {"secret"} : ModuleSecretInterceptor(m, secret)[k] = m[k]
         /\ secret # "" => firstMD(ModuleSecretInterceptor(m, secret), "secret") = secret
<1> DEFINE sent == ModuleSecretInterceptor(m, secret)
<1>1. DOMAIN m = Keys /\ m["secret"] = <<>> /\ "secret" \in Keys
  BY MetasAssumption, KeyNames
<1>2. CASE secret = ""
  BY <1>1, <1>2 DEF ModuleSecretInterceptor
<1>3. CASE secret # ""
  <2>1. sent = [m EXCEPT !["secret"] = Append(<<>>, secret)]
    BY <1>1, <1>3 DEF ModuleSecretInterceptor
  <2>2. sent["secret"] = Append(<<>>, secret)
    BY <1>1, <2>1
  <2>3. Append(<<>>, secret) # <<>> /\ Append(<<>>, secret)[1] = secret
    OBVIOUS
  <2>4. firstMD(sent, "secret") = secret
    BY <2>2, <2>3 DEF firstMD
  <2>5. \A k \in Keys \ {"secret"} : sent[k] = m[k]
    BY <1>1, <2>1
  <2> QED  BY <2>4, <2>5
<1> QED  BY <1>2, <1>3

\* A handler reads nothing.
ReadsNothing(x) ==
  /\ GetTenantIDFromContext(x) = 0 /\ GetUserIDAsUint32(x) = <<>>
  /\ GetUsernameFromContext(x) = "" /\ GetRolesFromContext(x) = {} /\ ~IsPlatformAdmin(x)

\* Metadata without user claims tell a handler nothing.
LEMMA NoClaimsNothingRead ==
  ASSUME NEW x, ~HasUserClaims(x)
  PROVE  ReadsNothing(x)
<1>1. /\ firstMD(x, "tenant") = "" /\ firstMD(x, "user") = "" /\ firstMD(x, "username") = ""
      /\ firstMD(x, "roles") = <<>>
  <2>1. \A k \in {"tenant", "user", "username", "roles"} : firstMD(x, k) = Empty(k)
    BY KeyNames DEF HasUserClaims
  <2>2. Empty("tenant") = "" /\ Empty("user") = "" /\ Empty("username") = "" /\ Empty("roles") = <<>>
    BY DEF Empty
  <2> QED  BY <2>1, <2>2
<1>2. GetTenantIDFromContext(x) = 0 /\ GetUserIDAsUint32(x) = <<>> /\ GetUsernameFromContext(x) = ""
  BY <1>1, Uint32Assumption DEF GetTenantIDFromContext, GetUserIDAsUint32, GetUsernameFromContext,
                                ParseUint32, GetMetadataValue
<1>3. GetRolesFromContext(x) = {}
  <2>1. ToSet(<<>>) = {}
    BY DEF ToSet
  <2> QED  BY <1>1, <2>1 DEF GetRolesFromContext, GetMetadataValue
<1> QED  BY <1>2, <1>3 DEF ReadsNothing, IsPlatformAdmin

\* Stripping leaves no user claims and the module secret.
LEMMA Stripped ==
  ASSUME NEW x
  PROVE  ~HasUserClaims(StripUserClaims(x)) /\ StripUserClaims(x)["secret"] = x["secret"]
<1>1. \A k \in ToSet(signedClaimKeys) : StripUserClaims(x)[k] = <<>>
  BY DEF StripUserClaims, Keys
<1>2. StripUserClaims(x)["secret"] = x["secret"]
  BY KeyNames DEF StripUserClaims
<1> QED  BY <1>1, <1>2 DEF HasUserClaims, firstMD

LEMMA SignatureParts ==
  ASSUME NEW secret, NEW claims, NEW exp
  PROVE  /\ SignClaims(secret, claims, exp).by = secret
         /\ SignClaims(secret, claims, exp).over[1] = claims
         /\ SignClaims(secret, claims, exp).over[2] = exp
  BY DEF SignClaims

LEMMA ClaimsStepBinds ==
  ASSUME ClaimsInv, ClaimsStep
  PROVE  ClaimsBound'
<1>1. /\ pc = "claims" /\ at' = [at EXCEPT !.claims = now] /\ UNCHANGED <<conf, c>>
      /\ md' = ClaimsServer(md, conf.bindingMode, conf.signingSecret, now)
  BY DEF ClaimsStep
<1>2. at'.claims = now
  BY <1>1 DEF ClaimsInv, Settled
<1> DEFINE Presented == c.via = "grpc" /\ conf.caller = "registration" /\ conf.bootstrapSecret # ""
<1>3. PICK m \in Metas : md = IF c.via = "grpc" THEN Outgoing(m) ELSE m
  BY <1>1 DEF ClaimsInv, Sent
<1>4. /\ \A k \in Keys \ {"secret"} : md[k] = m[k]
      /\ Presented => firstMD(md, "secret") = conf.bootstrapSecret
  <2>1. CASE c.via = "grpc" /\ conf.caller = "registration"
    <3>1. md = ModuleSecretInterceptor(m, conf.bootstrapSecret)
      BY <1>3, <2>1 DEF Outgoing
    <3> QED  BY <3>1, SecretAdded
  <2>2. CASE ~(c.via = "grpc" /\ conf.caller = "registration")
    BY <1>3, <2>2 DEF Outgoing
  <2> QED  BY <2>1, <2>2
<1>5. Presented => ValidateModuleSecret(md', conf.bootstrapSecret)
  <2>1. md'["secret"] = md["secret"]
    BY <1>1, Stripped DEF ClaimsServer
  <2> QED  BY <1>4, <2>1 DEF ValidateModuleSecret, GetMetadataValue, firstMD
<1>6. ASSUME conf.bindingMode = "enforce"
      PROVE  \/ ReadsNothing(md')
             \/ \E n \in Metas : LET sig == firstMD(n, "sig")
                                 IN /\ sig.by = GatewaySecret /\ sig.over[1] = ClaimsOf(md')
                                    /\ now <= sig.over[2]
  <2>1. CASE ~HasUserClaims(md)
    BY <1>1, <2>1, NoClaimsNothingRead DEF ClaimsServer
  <2>2. CASE HasUserClaims(md) /\ ~VerifyClaimsSignature(md, conf.signingSecret, now)
    BY <1>1, <1>6, <2>2, Stripped, NoClaimsNothingRead DEF ClaimsServer
  <2>3. CASE VerifyClaimsSignature(md, conf.signingSecret, now)
    <3> DEFINE exp == firstMD(md, "exp")
    <3>1. md' = md
      BY <1>1, <2>3 DEF ClaimsServer
    <3>2. /\ conf.signingSecret # "" /\ now <= exp
          /\ firstMD(md, "sig") = SignClaims(conf.signingSecret, ClaimsOf(md), exp)
      BY <2>3 DEF VerifyClaimsSignature
    <3>3. conf.signingSecret = GatewaySecret
      BY <3>2, SecretAssumption DEF ClaimsInv, Settled
    <3>4. firstMD(m, "sig") = firstMD(md, "sig")
      BY <1>4, KeyNames DEF firstMD
    <3> HIDE DEF exp
    <3>5. /\ firstMD(m, "sig").by = GatewaySecret /\ firstMD(m, "sig").over[1] = ClaimsOf(md)
          /\ firstMD(m, "sig").over[2] = exp
      <4>1. firstMD(m, "sig") = SignClaims(GatewaySecret, ClaimsOf(md), exp)
        BY <3>2, <3>3, <3>4
      <4> DEFINE claims == ClaimsOf(md)
                 sig == SignClaims(GatewaySecret, claims, exp)
      <4>2. sig.by = GatewaySecret /\ sig.over[1] = claims /\ sig.over[2] = exp
        <5> HIDE DEF claims
        <5> QED  BY SignatureParts
      <4>3. firstMD(m, "sig") = sig
        BY <4>1
      <4> HIDE DEF sig
      <4> QED  BY <4>2, <4>3
    <3> QED  BY <3>1, <3>2, <3>5
  <2> QED  BY <2>1, <2>2, <2>3
<1> QED
  BY <1>1, <1>2, <1>5, <1>6 DEF ClaimsBound, ReadsNothing

LEMMA ClaimsInvStep == ClaimsInv /\ [Next]_vars => ClaimsInv'
<1> SUFFICES ASSUME ClaimsInv, [Next]_vars PROVE ClaimsInv'
  OBVIOUS
<1>1. CASE Between
  <2>1. pc = "idle" /\ UNCHANGED <<conf, pc, at>>
    BY <1>1, BetweenCalls DEF callVars
  <2> QED  BY <2>1 DEF ClaimsInv, Settled, Sent, ClaimsBound
<1>2. CASE Ends
  <2>1. pc' = "idle" /\ ~ran' /\ DOMAIN at' = {"cert", "claims"} /\ UNCHANGED conf
    BY <1>2, EndsCall DEF Done
  <2> QED  BY <2>1, OverIsFine DEF ClaimsInv, Settled
<1>3. ASSUME NEW via, NEW op, NEW m \in Metas, Call(via, op, m) PROVE ClaimsInv'
  BY <1>3 DEF Call, Outgoing, ClaimsInv, Settled, Sent, ClaimsBound
<1>4. CASE Handshake \/ Tick \/ UNCHANGED vars
  <2>1. UNCHANGED <<conf, pc, c, md, at>>
    BY <1>4 DEF Handshake, Tick, vars, callVars
  <2> QED  BY <2>1 DEF ClaimsInv, Settled, Sent, Outgoing, ClaimsBound
<1>5. CASE Deliver
  BY <1>5 DEF Deliver, Outgoing, ClaimsInv, Settled, Sent, ClaimsBound
<1>6. CASE MTLS
  <2>1. pc = "mtls" /\ pc' # "handler" /\ at' = [at EXCEPT !.cert = now] /\ UNCHANGED <<conf, md, c>>
    BY <1>6 DEF MTLS
  <2> QED  BY <2>1 DEF ClaimsInv, Settled, Sent, Outgoing, ClaimsBound
<1>7. CASE ClaimsStep
  <2>1. pc' = "handler" /\ at' = [at EXCEPT !.claims = now] /\ UNCHANGED conf
    BY <1>7 DEF ClaimsStep
  <2> QED  BY <1>7, <2>1, ClaimsStepBinds DEF ClaimsInv, Settled, Sent
<1>8. CASE Handle \/ Audit
  BY <1>8 DEF Handle, Audit, ClaimsInv, Settled, Sent, ClaimsBound
<1> QED
  BY <1>1, <1>2, <1>3, <1>4, <1>5, <1>6, <1>7, <1>8 DEF Next, Between, Ends

\* For any metadata: under enforce a handler reads the claims that the gateway
\* signed together, in time, or none; and the module secret always arrives.
THEOREM ClaimsAreBound == Spec => []ClaimsBound
<1>1. Init => ClaimsInv
  BY DEF Init, ClaimsInv, Settled, Sent, ClaimsBound
<1>2. ClaimsInv => ClaimsBound
  BY DEF ClaimsInv
<1> QED
  BY <1>1, <1>2, ClaimsInvStep, PTL DEF Spec

------------------------------------------------------------------------------
(* The audit log *)

\* What sealing an entry leaves in it, and what it adds.
LEMMA SealKeeps ==
  ASSUME NEW op, NEW who, NEW time, NEW success, NEW key, NEW pair
  PROVE  LET plain  == buildAuditLog(op, who, time, success)
             log    == Seal(plain, key, pair).log
         IN /\ log.operation = op /\ log.success = success
            /\ log.client = who.cn /\ log.tenant = who.tenant
            /\ log.hash = HashLog(log) /\ log.sig = EncodeDER(pair[1], pair[2])
            /\ Seal(plain, key, pair).made = Signed(key, SignContent(log), pair)
<1> DEFINE plain  == buildAuditLog(op, who, time, success)
           hashed == [plain EXCEPT !.hash = HashLog(plain)]
           log    == [hashed EXCEPT !.sig = EncodeDER(pair[1], pair[2])]
<1>1. /\ DOMAIN plain = {"operation", "client", "authenticated", "tenant", "time", "success",
                         "hash", "sig"}
      /\ plain.operation = op /\ plain.success = success /\ plain.client = who.cn
      /\ plain.tenant = who.tenant
  BY DEF buildAuditLog
<1> HIDE DEF plain
<1>2. /\ DOMAIN hashed = DOMAIN plain /\ hashed.hash = HashLog(plain)
      /\ \A f \in DOMAIN plain \ {"hash"} : hashed[f] = plain[f]
  BY <1>1
<1> HIDE DEF hashed
<1>3. /\ log.sig = EncodeDER(pair[1], pair[2])
      /\ \A f \in DOMAIN plain \ {"sig"} : log[f] = hashed[f]
  BY <1>1, <1>2
<1>4. Seal(plain, key, pair).log = log
      /\ Seal(plain, key, pair).made = Signed(key, SignContent(hashed), pair)
  BY DEF Seal, hashed
<1> HIDE DEF log
<1>5. \A f \in DOMAIN plain \ {"hash", "sig"} : log[f] = plain[f]
  BY <1>2, <1>3
<1>6. HashLog(log) = HashLog(plain) /\ log.hash = HashLog(plain)
  BY <1>1, <1>2, <1>3, <1>5 DEF HashLog
<1>7. SignContent(log) = SignContent(hashed)
  BY <1>1, <1>3 DEF SignContent
<1> QED
  BY <1>1, <1>3, <1>4, <1>5, <1>6, <1>7 DEF plain

\* The writers that do not fail have the entry last; a sequence stays one.
LEMMA Written ==
  ASSUME NEW s, NEW S, s \in Seq(S), NEW e
  PROVE  /\ Append(s, e) \in Seq(S \cup {e})
         /\ Append(s, e) # <<>> /\ Last(Append(s, e)) = e
<1>1. s \in Seq(S \cup {e})
  OBVIOUS
<1>2. Append(s, e) \in Seq(S \cup {e}) /\ Len(Append(s, e)) = Len(s) + 1
      /\ Append(s, e)[Len(s) + 1] = e /\ Len(s) \in Nat
  BY <1>1
<1> QED
  BY <1>2 DEF Last

\* The entry of a call that is audited.
Entry(pair) ==
  Seal(buildAuditLog(c.op, IF conf.auditInside THEN info ELSE NoInfo, now, ok), Key, pair)

LEMMA Audited ==
  ASSUME Logs, Audit
  PROVE  /\ pc = "audit" /\ pc' = "metrics" /\ UNCHANGED <<conf, ready, c, info, ok, ran, inPlace>>
         /\ \/ /\ UNCHANGED <<store, made>> /\ (c.via = "local" \/ c.op \in conf.skipOperations)
            \/ \E pair \in Pairs :
                 /\ made' = made \cup {Entry(pair).made} /\ DOMAIN store' = DOMAIN store
                 /\ \A w \in DOMAIN store :
                      \/ store'[w] = Append(store[w], Entry(pair).log)
                      \/ w \in lost' /\ store'[w] = store[w]
<1>1. /\ pc = "audit" /\ pc' = "metrics" /\ UNCHANGED <<conf, ready, c, info, ok, ran, inPlace>>
  BY DEF Audit, dialVars
<1>2. CASE c.via = "local" \/ c.op \in conf.skipOperations
  BY <1>1, <1>2 DEF Audit
<1>3. CASE ~(c.via = "local" \/ c.op \in conf.skipOperations)
  <2>1. PICK pair \in Pairs, failing \in SUBSET {"db"} :
          /\ lost' = failing /\ made' = made \cup {Entry(pair).made}
          /\ store' = CombinedWriter(Entry(pair).log, failing)
    BY <1>3 DEF Audit, Entry
  <2>2. /\ DOMAIN store' = DOMAIN store
        /\ \A w \in DOMAIN store :
             \/ store'[w] = Append(store[w], Entry(pair).log)
             \/ w \in lost' /\ store'[w] = store[w]
    BY <2>1 DEF CombinedWriter
  <2> QED  BY <1>1, <2>1, <2>2
<1> QED  BY <1>2, <1>3

LEMMA LogsInit == Init => Logs
<1> SUFFICES ASSUME Init PROVE Logs
  OBVIOUS
<1>1. DOMAIN store = {"db", "mirror"} /\ \A w \in DOMAIN store : store[w] \in Seq({})
  BY DEF Init
<1> QED  BY <1>1 DEF Logs

LEMMA LogsKept ==
  ASSUME Logs, Audit
  PROVE  Logs'
<1> SUFFICES ASSUME NEW pair \in Pairs, DOMAIN store' = DOMAIN store,
                    \A w \in DOMAIN store : \/ store'[w] = Append(store[w], Entry(pair).log)
                                            \/ store'[w] = store[w]
             PROVE  Logs'
  BY Audited DEF Logs
<1> DEFINE e == Entry(pair).log
<1>1. ASSUME NEW w \in DOMAIN store PROVE \E S : store'[w] \in Seq(S)
  <2>1. PICK S : store[w] \in Seq(S)
    BY DEF Logs
  <2>2. Append(store[w], e) \in Seq(S \cup {e})
    <3> HIDE DEF e
    <3> QED  BY <2>1, Written
  <2>3. store'[w] \in Seq(S) \/ store'[w] \in Seq(S \cup {e})
    BY <2>1, <2>2
  <2> QED  BY <2>3
<1> QED  BY <1>1 DEF Logs

LEMMA AuditAccounts ==
  ASSUME AccountInv, Audit
  PROVE  CallsAccounted'
<1>1. Logs /\ Told
  BY DEF AccountInv
<1>2. /\ pc = "audit" /\ UNCHANGED <<conf, ready, c, info, ok, ran, inPlace>>
  BY <1>1, Audited
<1> SUFFICES ASSUME c.via # "local", c.op \notin conf.skipOperations, ran \/ ~conf.auditInside,
                    NEW w \in DOMAIN store' \ lost'
             PROVE  /\ store'[w] # <<>>
                    /\ LET e == Last(store'[w])
                       IN /\ e.operation = c.op /\ e.success = ok
                          /\ conf.auditInside =>
                               /\ e.client = (IF ready > 0 THEN CertOf[ready].cn ELSE "")
                               /\ e.tenant = inPlace
  BY <1>2 DEF CallsAccounted
<1>3. PICK pair \in Pairs : w \in DOMAIN store /\ store'[w] = Append(store[w], Entry(pair).log)
  BY <1>1, Audited
<1> DEFINE who == IF conf.auditInside THEN info ELSE NoInfo
           e == Entry(pair).log
<1>4. e.operation = c.op /\ e.success = ok /\ e.client = who.cn /\ e.tenant = who.tenant
  <2> HIDE DEF who
  <2>1. e = Seal(buildAuditLog(c.op, who, now, ok), Key, pair).log
    BY DEF Entry, who
  <2> HIDE DEF e
  <2> QED  BY <2>1, SealKeeps
<1>5. conf.auditInside => /\ who.cn = (IF ready > 0 THEN CertOf[ready].cn ELSE "")
                          /\ who.tenant = inPlace
  BY <1>1, <1>2 DEF Told
<1>6. store'[w] # <<>> /\ Last(store'[w]) = e
  <2> HIDE DEF e, who
  <2>1. PICK S : store[w] \in Seq(S)
    BY <1>1, <1>3 DEF Logs
  <2> QED  BY <1>3, <2>1, Written DEF e
<1> HIDE DEF e, who
<1> QED  BY <1>4, <1>5, <1>6

LEMMA AccountStep == AccountInv /\ [Next]_vars => AccountInv'
<1> SUFFICES ASSUME AccountInv, [Next]_vars PROVE AccountInv'
  OBVIOUS
<1>0. Told /\ Logs
  BY DEF AccountInv
<1>1. CASE Between
  <2>1. pc = "idle" /\ UNCHANGED <<pc, ran, store>>
    BY <1>1, BetweenCalls DEF callVars
  <2> QED  BY <2>1 DEF AccountInv, Told, Logs, CallsAccounted
<1>2. CASE Ends
  <2>1. pc' = "idle" /\ ~ran' /\ DOMAIN at' = {"cert", "claims"} /\ UNCHANGED store
    BY <1>2, EndsCall DEF Done
  <2> QED  BY <2>1, OverIsFine DEF AccountInv, Logs
<1>3. ASSUME NEW via, NEW op, NEW m, Call(via, op, m) PROVE AccountInv'
  BY <1>3 DEF Call, logVars, AccountInv, Told, Logs, CallsAccounted
<1>4. CASE Handshake \/ Deliver
  <2>1. pc = "send" /\ pc' \in {"send", "mtls"} /\ UNCHANGED <<ran, store>>
    BY <1>4 DEF Handshake, Deliver, logVars, callVars
  <2> QED  BY <2>1 DEF AccountInv, Told, Logs, CallsAccounted
<1>5. CASE Tick \/ UNCHANGED vars
  <2>1. UNCHANGED <<conf, ready, pc, c, info, ok, ran, inPlace, lost, store>>
    BY <1>5 DEF Tick, vars, dialVars, logVars, callVars
  <2> QED  BY <2>1 DEF AccountInv, Told, Logs, CallsAccounted
<1>6. CASE MTLS
  <2>1. /\ pc = "mtls" /\ pc' \in {"claims", "audit", "metrics"} /\ ~ran
        /\ pc' = "metrics" => conf.auditInside
        /\ pc' = "claims" => c.via \in {"local", "grpc"}
        /\ info' = IF c.via = "grpc" /\ ready > 0
                   THEN extractClientInfo(CertOf[ready], conf.mtls, now) ELSE NoInfo
        /\ UNCHANGED <<conf, ready, c, ran, store>>
    BY <1>0, <1>6 DEF MTLS, dialVars, logVars, Told
  <2>2. /\ DOMAIN info' = {"cn", "isAuthenticated", "tenant"} /\ info'.tenant = 0
        /\ c.via = "grpc" => info'.cn = (IF ready > 0 THEN CertOf[ready].cn ELSE "")
    BY <2>1 DEF extractClientInfo, NoInfo
  <2>3. Told'
    BY <2>1, <2>2 DEF Told
  <2> QED  BY <2>1, <2>3 DEF AccountInv, Logs, CallsAccounted
<1>7. CASE ClaimsStep
  BY <1>7 DEF ClaimsStep, dialVars, logVars, AccountInv, Told, Logs, CallsAccounted
<1>8. CASE Handle
  <2>1. /\ pc = "handler" /\ pc' = "audit" /\ UNCHANGED <<conf, ready, c, store>>
    BY <1>8 DEF Handle, dialVars, logVars
  <2>2. PICK t : /\ inPlace' = IF info = NoInfo THEN 0 ELSE t
                 /\ info' = IF t = 0 THEN info ELSE SetTenantIDInPlace(info, t)
    BY <1>8 DEF Handle
  <2>3. /\ DOMAIN info = {"cn", "isAuthenticated", "tenant"} /\ info.tenant = 0
        /\ c.via \in {"local", "grpc"}
        /\ c.via = "grpc" => info.cn = (IF ready > 0 THEN CertOf[ready].cn ELSE "")
    BY <1>0, <2>1 DEF Told
  <2>4. /\ DOMAIN info' = {"cn", "isAuthenticated", "tenant"} /\ info'.tenant = inPlace'
        /\ info'.cn = info.cn
    BY <2>2, <2>3 DEF SetTenantIDInPlace
  <2>5. Told'
    BY <2>1, <2>3, <2>4 DEF Told
  <2> QED  BY <2>1, <2>5 DEF AccountInv, Logs, CallsAccounted
<1>9. CASE Audit
  <2>1. pc' = "metrics"
    BY <1>0, <1>9, Audited
  <2> QED  BY <1>0, <1>9, <2>1, AuditAccounts, LogsKept DEF AccountInv, Told
<1> QED
  BY <1>1, <1>2, <1>3, <1>4, <1>5, <1>6, <1>7, <1>8, <1>9 DEF Next, Between, Ends

\* For any number of calls, rejections, panics and failing writers: what the log
\* of a writer that did not fail ends with is this call, its outcome and its caller.
THEOREM AllAccounted == Spec => []CallsAccounted
<1>1. Init => AccountInv
  <2> SUFFICES ASSUME Init PROVE AccountInv
    OBVIOUS
  <2>1. Logs
    BY LogsInit
  <2> QED  BY <2>1 DEF Init, AccountInv, Told, CallsAccounted
<1>2. AccountInv => CallsAccounted
  BY DEF AccountInv
<1> QED
  BY <1>1, <1>2, AccountStep, PTL DEF Spec

------------------------------------------------------------------------------
(* Verification *)

VerifiableInv == Logs /\ (RoundTrips(Pairs) => EntriesVerifiable)

\* An entry that verifies goes on verifying when more signatures are made.
Verifies(e, ms) == e.hash = HashLog(e) /\ VerifySignature(e, GetPublicKey, ms)

LEMMA EntryVerifies ==
  ASSUME RoundTrips(Pairs), conf.keys = "both", NEW pair \in Pairs
  PROVE  Verifies(Entry(pair).log, {Entry(pair).made})
<1> DEFINE who == IF conf.auditInside THEN info ELSE NoInfo
           log == Entry(pair).log
<1>1. Key = GetPublicKey
  BY DEF Key, GetPublicKey
<1> HIDE DEF who
<1>2. Entry(pair) = Seal(buildAuditLog(c.op, who, now, ok), Key, pair)
  BY DEF Entry, who
<1>3. /\ log.hash = HashLog(log) /\ log.sig = EncodeDER(pair[1], pair[2])
      /\ Entry(pair).made = Signed(Key, SignContent(log), pair)
  BY <1>2, SealKeeps
<1>4. log.sig # <<>> /\ DecodeDER(log.sig) = pair
  BY <1>3 DEF RoundTrips
<1> HIDE DEF log
<1> QED
  BY <1>1, <1>3, <1>4 DEF Verifies, VerifySignature, log

LEMMA AuditVerifies ==
  ASSUME VerifiableInv, Audit
  PROVE  VerifiableInv'
<1>1. Logs /\ Logs' /\ conf' = conf
  BY LogsKept, Audited DEF VerifiableInv
<1> SUFFICES ASSUME RoundTrips(Pairs), conf.keys = "both", EntriesVerifiable,
                    NEW w \in DOMAIN store', NEW e \in ToSet(store'[w])
             PROVE  e.hash = HashLog(e) /\ VerifySignature(e, GetPublicKey, made')
  BY <1>1 DEF VerifiableInv, EntriesVerifiable, GetPublicKey
<1>2. \A x \in ToSet(store[w]) : w \in DOMAIN store => Verifies(x, made)
  BY DEF EntriesVerifiable, Verifies
<1>3. \A x, ms, ns : ms \subseteq ns /\ Verifies(x, ms) => Verifies(x, ns)
  BY DEF Verifies, VerifySignature
<1>4. Verifies(e, made')
  <2>1. CASE UNCHANGED <<store, made>>
    BY <1>2, <2>1
  <2>2. CASE ~UNCHANGED <<store, made>>
    <3>1. PICK pair \in Pairs :
            /\ made' = made \cup {Entry(pair).made} /\ w \in DOMAIN store
            /\ store'[w] = Append(store[w], Entry(pair).log) \/ store'[w] = store[w]
      BY <1>1, <2>2, Audited
    <3>2. Verifies(Entry(pair).log, {Entry(pair).made})
      BY EntryVerifies
    <3> DEFINE log == Entry(pair).log
               sig == Entry(pair).made
    <3>3. made' = made \cup {sig} /\ (store'[w] = Append(store[w], log) \/ store'[w] = store[w])
          /\ Verifies(log, {sig})
      BY <3>1, <3>2
    <3> HIDE DEF log, sig
    <3>4. PICK S : store[w] \in Seq(S)
      BY <1>1, <3>1 DEF Logs
    <3>5. e \in ToSet(store[w]) \/ e = log
      <4>1. CASE store'[w] = store[w]
        BY <4>1
      <4>2. CASE store'[w] = Append(store[w], log)
        <5>1. PICK i \in DOMAIN Append(store[w], log) : e = Append(store[w], log)[i]
          BY <4>2 DEF ToSet
        <5>2. /\ DOMAIN Append(store[w], log) = 1 .. (Len(store[w]) + 1)
              /\ DOMAIN store[w] = 1 .. Len(store[w]) /\ Len(store[w]) \in Nat
          BY <3>4
        <5>3. CASE i = Len(store[w]) + 1
          BY <3>4, <5>1, <5>3
        <5>4. CASE i # Len(store[w]) + 1
          <6>1. i \in 1 .. Len(store[w]) /\ Append(store[w], log)[i] = store[w][i]
            BY <3>4, <5>2, <5>4
          <6> QED  BY <5>1, <5>2, <6>1 DEF ToSet
        <5> QED  BY <5>3, <5>4
      <4> QED  BY <3>3, <4>1, <4>2
    <3> QED  BY <1>2, <1>3, <3>1, <3>3, <3>5
  <2> QED  BY <2>1, <2>2
<1> QED  BY <1>4 DEF Verifies

LEMMA VerifiableStep == VerifiableInv /\ [Next]_vars => VerifiableInv'
<1> SUFFICES ASSUME VerifiableInv, [Next]_vars PROVE VerifiableInv'
  OBVIOUS
<1>1. CASE Audit
  BY <1>1, AuditVerifies
<1>2. CASE ~Audit
  <2>1. UNCHANGED <<conf, store, made>>
    BY <1>2 DEF Next, vars, dialVars, logVars, WriteFile, DialModule, AttemptFails, Retry,
                dialWithMTLS, createConnection, createAdminConnection, CallerRestarts, Call,
                Handshake, Deliver, Expires, MTLS, ClaimsStep, Handle, Panic, Metrics,
                ServerRestarts, Tick
  <2> QED  BY <2>1 DEF VerifiableInv, Logs, EntriesVerifiable, GetPublicKey
<1> QED  BY <1>1, <1>2

\* For any pairs that survive the DER encoding, and any restarts: with both keys
\* configured every entry of the log verifies with the public key.
THEOREM EntriesVerify == Spec => [](RoundTrips(Pairs) => EntriesVerifiable)
<1>1. Init => VerifiableInv
  <2> SUFFICES ASSUME Init PROVE VerifiableInv
    OBVIOUS
  <2>1. DOMAIN store = {"db", "mirror"} /\ \A w \in DOMAIN store : store[w] = <<>>
    BY DEF Init
  <2>2. Logs
    BY LogsInit
  <2>3. EntriesVerifiable
    BY <2>1 DEF EntriesVerifiable, ToSet
  <2> QED  BY <2>2, <2>3 DEF VerifiableInv
<1>2. VerifiableInv => (RoundTrips(Pairs) => EntriesVerifiable)
  BY DEF VerifiableInv
<1> QED
  BY <1>1, <1>2, VerifiableStep, PTL DEF Spec
==============================================================================
