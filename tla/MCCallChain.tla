------------------------------ MODULE MCCallChain ------------------------------
(* An instance of CallChain: ten deployments of caller and server. *)
EXTENDS CallChain, TLC

MCUint32 == "7" :> 7 @@ "42" :> 42
MCAdminRoles == {"platform:admin", "super:admin"}

\* With and without a high bit in front.
MCPairs == {<<9, 6>>}

\* All numbers of up to three bytes.
ASSUME DERAssumption == RoundTrips((1 .. 63) \X (1 .. 63))

LCM   == [org |-> "LCM", ou |-> ""]
Other == [org |-> "Other", ou |-> "Other"]

\* 1 and 2 are what Ensure issues, one after the other; 4 is of another issuer.
MCCertOf ==
  <<[cn |-> "lcm-a", issuer |-> LCM, notBefore |-> 0, notAfter |-> 0],
    [cn |-> "lcm-a", issuer |-> LCM, notBefore |-> 1, notAfter |-> 1],
    [cn |-> "lcm-b", issuer |-> LCM, notBefore |-> 0, notAfter |-> 1],
    [cn |-> "lcm-c", issuer |-> Other, notBefore |-> 0, notAfter |-> 1]>>

EmptyDir == [f \in Files |-> 0]
OldDir   == [EmptyDir EXCEPT !["ca.crt"] = 1, !["client.crt"] = 1, !["client.key"] = 1]
HalfDir  == [EmptyDir EXCEPT !["ca.crt"] = 1, !["server.crt"] = 3, !["server.key"] = 3,
                             !["other.crt"] = 4]
OtherFirst == [OldDir EXCEPT !["other.crt"] = Garbage, !["other.key"] = 4]
LCMDir(n) == [EmptyDir EXCEPT !["ca.crt"] = 1, !["module.crt"] = n, !["module.key"] = n]

Base ==
  [caller |-> "module", scan |-> <<OtherDir, ClientDir, ModuleDir, ServerDir>>, dir |-> EmptyDir,
   next |-> 2, registrationInsecure |-> FALSE,
   env |-> [ca |-> 0, crt |-> 0, key |-> 0, name |-> ""],
   serverName |-> "module-service", serverTLS |-> TRUE,
   mtls |-> [publicEndpoints |-> {"health"}, trustedOrgs |-> {"LCM"}, trustedOrgUnits |-> {"LCM"},
             allowed |-> {"lcm-a"}, identityMode |-> "enforce"],
   bindingMode |-> "enforce", signingSecret |-> "k", bootstrapSecret |-> "",
   auditInside |-> TRUE, skipOperations |-> {}, keys |-> "both"]

MCConfigs ==
  {Base,
   [Base EXCEPT !.dir = OldDir, !.caller = "gateway", !.bootstrapSecret = "b"],
   [Base EXCEPT !.caller = "gateway", !.env = [ca |-> 1, crt |-> 1, key |-> 1, name |-> "lcm-server"],
                !.serverName = "lcm-server", !.auditInside = FALSE, !.skipOperations = {"health"}],
   [Base EXCEPT !.dir = LCMDir(3), !.mtls.identityMode = "warn", !.bindingMode = "warn",
                !.keys = "private", !.bootstrapSecret = "b"],
   [Base EXCEPT !.dir = LCMDir(3), !.signingSecret = "", !.auditInside = FALSE, !.keys = "none"],
   [Base EXCEPT !.dir = LCMDir(4), !.mtls.identityMode = "off", !.bindingMode = "off"],
   [Base EXCEPT !.dir = HalfDir, !.caller = "registration", !.serverName = "admin-service",
                !.mtls.allowed = {}, !.bootstrapSecret = "b"],
   [Base EXCEPT !.dir = OldDir, !.caller = "registration", !.registrationInsecure = TRUE,
                !.serverTLS = FALSE, !.bootstrapSecret = "b"],
   [Base EXCEPT !.dir = OtherFirst, !.caller = "registration", !.serverName = "admin-service"],
   [Base EXCEPT !.serverTLS = FALSE, !.mtls.allowed = {}, !.auditInside = FALSE]}

Claimed(t, u, n, r) ==
  [NoMD EXCEPT !["tenant"] = <<t>>, !["user"] = <<u>>, !["username"] = <<n>>, !["roles"] = <<r>>]
SignedBy(secret, m, exp) ==
  [m EXCEPT !["sig"] = <<SignClaims(secret, ClaimsOf(m), exp)>>, !["exp"] = <<exp>>]

Alice == Claimed("7", "42", "alice", <<"user">>)

\* None; signed; signed and close to its expiry; signed with the roles changed;
\* under another secret; unsigned; with a second value behind an empty one.
MCMetas ==
  {NoMD, SignedBy("k", Alice, 1), SignedBy("k", Alice, 0),
   [SignedBy("k", Alice, 1) EXCEPT !["roles"] = <<<<"platform:admin", "">>>>],
   SignedBy("old", Alice, 1), Alice,
   [NoMD EXCEPT !["roles"] = <<<<>>, <<"super:admin">>>>]}
================================================================================
