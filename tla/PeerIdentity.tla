------------------------------ MODULE PeerIdentity ------------------------------
(***************************************************************************)
(* The mTLS middleware (src/middleware/mtls): what it makes of the peer's  *)
(* certificate, whom it lets pass, and the ClientInfo it leaves in the     *)
(* context.                                                                *)
(*                                                                         *)
(* A certificate is a record of its CommonName, its issuer's organisation  *)
(* and unit, and its dates.  The rest of ClientInfo is copied from the     *)
(* certificate and decides nothing.                                        *)
(***************************************************************************)
EXTENDS Naturals

\* The nil *ClientInfo, which the getters treat like none.
NoInfo == [cn |-> "", isAuthenticated |-> FALSE, tenant |-> 0]

validateCertificateValidity(c, now) == c.notBefore <= now /\ now <= c.notAfter

validateCertificateIssuer(c, o) ==
  \/ c.issuer.ou \in o.trustedOrgUnits
  \/ c.issuer.org \in o.trustedOrgs

\* Warn mode accepts, and says so in the log.
validateCertificateIdentity(c, o) ==
  \/ o.allowed = {} \/ o.identityMode = "off"
  \/ c.cn \in o.allowed
  \/ o.identityMode # "enforce"

\* MUTANT: the dates are not looked at.
extractClientInfoUndated(cert, o, now) ==
  [cn |-> cert.cn, tenant |-> 0,
   isAuthenticated |-> validateCertificateIssuer(cert, o) /\ validateCertificateIdentity(cert, o)]

extractClientInfo(cert, o, now) ==
  [cn |-> cert.cn, tenant |-> 0,
   isAuthenticated |-> /\ validateCertificateValidity(cert, now)
                       /\ validateCertificateIssuer(cert, o)
                       /\ validateCertificateIdentity(cert, o)]

isPublicEndpoint(op, o) == op \in o.publicEndpoints

\* The middleware lets the call pass, with this info (nil for some).
Passes(op, info, o) == isPublicEndpoint(op, o) \/ info.isAuthenticated

----------------------------------------------------------------------------
(* The getters and setters of the ClientInfo in a context *)

IsClientAuthenticated(info) == info.isAuthenticated
GetClientID(info) == info.cn

\* In place, everyone who holds the pointer sees it; without a ClientInfo there is
\* nothing to set.
SetTenantIDInPlace(info, t) == IF info = NoInfo THEN info ELSE [info EXCEPT !.tenant = t]
================================================================================
