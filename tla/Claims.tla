--------------------------------- MODULE Claims ---------------------------------
(***************************************************************************)
(* The user claims in a call's metadata (src/grpcx): how the gateway signs *)
(* them, what a module verifies and strips, what its handlers read.        *)
(*                                                                         *)
(* Metadata gives for every key the sequence of its values.  A value is a  *)
(* token, the roles a sequence of the comma-separated pieces, the expiry a *)
(* number; a signature is the secret and the tuple it was made over, which *)
(* the newlines between the parts make unambiguous.                        *)
(***************************************************************************)
EXTENDS Integers, Sequences, SequencesExt

CONSTANTS
  Uint32,       \* the tokens strconv.ParseUint(s, 10, 32) accepts, with their values
  AdminRoles    \* platform:admin and super:admin

\* The empty string is not a number.
ASSUME Uint32Assumption == "" \notin DOMAIN Uint32

signedClaimKeys == <<"tenant", "user", "username", "roles">>
Keys == ToSet(signedClaimKeys) \union {"sig", "exp", "secret"}

NoSig == [by |-> "", over |-> <<>>]
NaN   == -1     \* an expiry that strconv.ParseInt refuses, the empty one among them

Empty(k) == CASE k = "roles" -> <<>> [] k = "sig" -> NoSig [] k = "exp" -> NaN [] OTHER -> ""

NoMD == [k \in Keys |-> <<>>]

firstMD(md, k) == IF md[k] = <<>> THEN Empty(k) ELSE md[k][1]

\* The tuple of a call's claims.
ClaimsOf(md) == [i \in 1 .. Len(signedClaimKeys) |-> firstMD(md, signedClaimKeys[i])]

SignClaims(secret, claims, exp) == [by |-> secret, over |-> <<claims, exp>>]

HasUserClaims(md) == \E k \in ToSet(signedClaimKeys) : firstMD(md, k) # Empty(k)

VerifyClaimsSignature(md, secret, now) ==
  LET exp == firstMD(md, "exp")
  IN /\ secret # "" /\ firstMD(md, "sig") # NoSig
     /\ exp # NaN /\ now <= exp
     /\ firstMD(md, "sig") = SignClaims(secret, ClaimsOf(md), exp)

\* MUTANT: the roles, which were added last, are not stripped.
StripAllButRoles(md) ==
  [k \in Keys |-> IF k \in {"tenant", "user", "username", "sig", "exp"} THEN <<>> ELSE md[k]]

StripUserClaims(md) ==
  [k \in Keys |-> IF k \in ToSet(signedClaimKeys) \union {"sig", "exp"} THEN <<>> ELSE md[k]]

\* The middleware: the metadata the handler gets.  MDs that are not there are NoMD.
ClaimsServer(md, mode, secret, now) ==
  IF mode = "enforce" /\ HasUserClaims(md) /\ ~VerifyClaimsSignature(md, secret, now)
  THEN StripUserClaims(md) ELSE md

----------------------------------------------------------------------------
(* What a handler reads *)

GetMetadataValue(md, k) == firstMD(md, k)

ParseUint32(token) == IF token \in DOMAIN Uint32 THEN Uint32[token] ELSE 0

GetTenantIDFromContext(md) == ParseUint32(GetMetadataValue(md, "tenant"))
GetUserIDAsUint32(md) ==
  LET s == GetMetadataValue(md, "user") IN IF s \in DOMAIN Uint32 THEN <<Uint32[s]>> ELSE <<>>
GetUsernameFromContext(md) == GetMetadataValue(md, "username")
\* In no order, which nobody asks for.
GetRolesFromContext(md) == ToSet(GetMetadataValue(md, "roles")) \ {""}
IsPlatformAdmin(md) == \E role \in GetRolesFromContext(md) : role \in AdminRoles

\* x-registration-secret: the interceptor appends it when one is configured; the
\* receiver accepts its own, and nothing when it has none.
ModuleSecretInterceptor(md, secret) ==
  IF secret # "" THEN [md EXCEPT !["secret"] = Append(@, secret)] ELSE md
ValidateModuleSecret(md, expected) ==
  expected # "" /\ GetMetadataValue(md, "secret") = expected
================================================================================
