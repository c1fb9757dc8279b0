------------------------------- MODULE Transcode -------------------------------
(***************************************************************************)
(* One HTTP request on its way through Transcoder.Handle: the method is    *)
(* found, the message built, the caller's tenant and metadata added, the   *)
(* call made and its answer turned back into HTTP; on every way out, the   *)
(* deferred audit entry is written.                                        *)
(*                                                                         *)
(* Requests come one after the other.  What concurrent registrations do to *)
(* a request is the subject of module Gateway; here a module registers     *)
(* with a descriptor, or goes, between two requests.                       *)
(***************************************************************************)
EXTENDS RouteMatch, RequestBuilder

CONSTANTS
  Descriptors,   \* descriptor sets a module may register with
  Requests,      \* requests the router may hand over
  Codes,         \* outcomes of a gRPC call, "OK" among them
  ValidIP        \* the tokens net.ParseIP accepts

\* What descriptors, requests and codes are: the methods of a service take messages
\* that are known and are annotated with bindings whose patterns have "**" at the end
\* only, as the grammar of google.api.http has it; a path has segments; every gRPC
\* code has a name.
ASSUME TranscodeAssumption ==
  /\ \A fds \in Descriptors : \A sd \in fds : \A n \in DOMAIN sd.methods :
       LET http == sd.methods[n].http
       IN  /\ sd.methods[n].in \in DOMAIN Fields
           /\ \A i \in DOMAIN http : IsPattern(http[i].pattern) /\ WildcardLast(http[i].pattern)
  /\ \A q \in Requests : q.path \in Seq(STRING)
  /\ "" \notin Codes

VARIABLES
  parsed,   \* the module's ParsedDescriptor, or NoModule
  pc,       \* where Handle stands
  r,        \* the request
  method,   \* var method, or NoMethod
  params,   \* var pathParams
  rule,     \* var matchingRule
  msg,      \* var requestMsg; once the call is made, what was sent
  left,     \* the parameters the loops of BuildRequest have not come to
  md,       \* the call's metadata
  answer,   \* the status written, 0 if none
  audit     \* the request's audit entries

vars == <<parsed, pc, r, method, params, rule, msg, left, md, answer, audit>>
call == <<method, params, rule, msg, left, md>>

NoModule == [m \in {} |-> {}]
NoRequest == [audited |-> FALSE]
NoMethod == [pkg |-> "", name |-> ""]
NoRule   == [verb |-> "", pattern |-> <<>>, body |-> "", out |-> ""]
Aborted  == 0

Init ==
  /\ parsed = NoModule /\ pc = "idle" /\ r = NoRequest
  /\ method = NoMethod /\ params = <<>> /\ rule = NoRule /\ msg = <<>> /\ left = {}
  /\ md = <<>> /\ answer = Aborted /\ audit = <<>>

RegisterModule(fds) ==
  /\ pc = "idle" /\ parsed = NoModule
  /\ parsed' \in Parse(fds)
  /\ UNCHANGED <<pc, r, call, answer, audit>>

UnregisterModule ==
  /\ pc = "idle" /\ parsed # NoModule
  /\ parsed' = NoModule
  /\ UNCHANGED <<pc, r, call, answer, audit>>

----------------------------------------------------------------------------
(* What an entry of the audit log says *)

\* The first of the texts that will do, or the empty one.
First(texts, good) == IF good = {} THEN "" ELSE texts[Min(good)]

\* The first valid address of X-Forwarded-For, X-Real-IP and the peer's.
getClientIP(q) ==
  LET ips == q.xff \o <<q.real, q.remote>> IN First(ips, {i \in DOMAIN ips : ips[i] \in ValidIP})

getRequestID(q) ==
  LET ids == <<q.requestID, q.correlationID, q.fcID>> IN First(ids, {i \in DOMAIN ids : ids[i] # ""})

writeAuditLog(code, why) ==
  IF ~r.audited THEN <<>>
  ELSE <<[method |-> method, status |-> code, reason |-> why, id |-> getRequestID(r),
          ip |-> getClientIP(r), body |-> IF r.torn THEN "" ELSE r.body.is]>>

\* MUTANT: one of the returns does not set statusCode.
ReturnUnrecorded(code, why) ==
  /\ answer' = code
  /\ audit' = writeAuditLog(IF why = "BAD_REQUEST" THEN 200 ELSE code, why)
  /\ pc' = "done"

\* A return from Handle: the response goes out, then the deferred function writes
\* the entry.
Return(code, why) ==
  /\ answer' = code
  /\ audit' = writeAuditLog(code, why)
  /\ pc' = "done"

writeError(code, why) == Return(code, why)

\* A panic in Handle: the server drops the connection; the deferred entry says what
\* statusCode and reason held.
Panic ==
  /\ answer' = Aborted /\ audit' = writeAuditLog(200, "") /\ pc' = "done"
  /\ UNCHANGED <<parsed, r, call>>

----------------------------------------------------------------------------
(* Handle *)

\* A request comes in; with an audit writer its body is read and put back.
Begin(q) ==
  /\ pc = "idle"
  /\ r' = q /\ pc' = "find"
  /\ UNCHANGED <<parsed, call, answer, audit>>

NotFound ==
  /\ pc = "find"
  /\ FindMethodByHTTP(parsed, r.verb, r.path) = {}
  /\ writeError(404, IF parsed = NoModule THEN "MODULE_NOT_FOUND" ELSE "METHOD_NOT_FOUND")
  /\ UNCHANGED <<parsed, r, call>>

Find ==
  /\ pc = "find"
  /\ \E found \in FindMethodByHTTP(parsed, r.verb, r.path) :
       /\ method' = found.method /\ params' = found.params
       /\ rule' = MatchingRule(found.method, r.verb, r.path)
  /\ pc' = "build"
  /\ UNCHANGED <<parsed, r, msg, left, md, answer, audit>>

Streaming ==
  /\ pc = "build" /\ method.stream
  /\ writeError(501, "STREAMING_NOT_SUPPORTED")
  /\ UNCHANGED <<parsed, r, call>>

\* What BuildRequest reads of the body: nothing unless the request declares its
\* length.  A body that breaks off is an error; but bufferRequestBody may have
\* met that error before, and then the second reading finds an empty body.
NoBody  == [is |-> "none"]
Torn    == [is |-> "torn"]
ReadBody(q) ==
  IF q.body.is = "none" \/ ~q.sized THEN {NoBody}
  ELSE IF ~q.torn THEN {q.body}
  ELSE IF q.audited THEN {Torn, NoBody} ELSE {Torn}

Built(body) == IF body = Torn THEN {} ELSE FromBody(method.in, rule, body)

\* BuildRequest: the body first, and an error if it cannot be read or parsed;
\* otherwise the parameters of the path are next.
BuildBody ==
  /\ pc = "build" /\ ~method.stream
  /\ \E body \in ReadBody(r) :
       \/ \E m \in Built(body) :
            /\ ~BodyPanics(method.in, rule, body)
            /\ msg' = m /\ left' = DOMAIN params /\ pc' = "path"
            /\ UNCHANGED <<parsed, r, method, params, rule, md, answer, audit>>
       \/ Built(body) # {} /\ BodyPanics(method.in, rule, body) /\ Panic
       \/ /\ Built(body) = {}
          /\ writeError(400, "BAD_REQUEST")
          /\ UNCHANGED <<parsed, r, call>>

\* One turn of the loop over the path's parameters, and of the loop over the
\* query's, both in the order of Go maps.
SetPathParam(n) ==
  /\ pc = "path" /\ n \in left /\ ~PathPanics(method.in, n)
  /\ msg' = setFieldByPath(msg, method.in, n, params[n]) /\ left' = left \ {n}
  /\ UNCHANGED <<parsed, pc, r, method, params, rule, md, answer, audit>>

PathParamsSet ==
  /\ pc = "path" /\ left = {}
  /\ left' = DOMAIN r.query /\ pc' = "query"
  /\ UNCHANGED <<parsed, r, method, params, rule, msg, md, answer, audit>>

\* MUTANT: a query parameter may name what the path has bound.
SetQueryParamUnchecked(n) ==
  /\ pc = "query" /\ n \in left /\ ~PathPanics(method.in, n)
  /\ msg' = setFieldByPath(msg, method.in, n, r.query[n]) /\ left' = left \ {n}
  /\ UNCHANGED <<parsed, pc, r, method, params, rule, md, answer, audit>>

\* A query parameter that has the very name of a path parameter is passed over.
SetQueryParam(n) ==
  /\ pc = "query" /\ n \in left /\ (n \in DOMAIN params \/ ~PathPanics(method.in, n))
  /\ msg' = IF n \in DOMAIN params THEN msg ELSE setFieldByPath(msg, method.in, n, r.query[n])
  /\ left' = left \ {n}
  /\ UNCHANGED <<parsed, pc, r, method, params, rule, md, answer, audit>>

\* A name that leads through a list or a map, in either loop.
ParamPanics(n) ==
  /\ pc = "path" \/ (pc = "query" /\ n \notin DOMAIN params)
  /\ n \in left /\ PathPanics(method.in, n) /\ Panic

\* BuildRequest has returned the message.
RequestBuilt == pc = "query" /\ left = {}

TenantField == {f \in Fields[method.in] : f.at = <<"tenant_id">>}

\* The field to fill: it exists, the caller has a tenant, and nothing set it.
TenantFieldUnset == {f \in TenantField : r.tenant # 0 /\ msg[f] = Unset}

\* The provider's metadata and the headers that are passed on.
injectAuthContext(q) ==
  [k \in {"claims"} \union {h \in {"requestID", "traceID", "authorization"} : q[h] # ""} |->
     IF k = "claims" THEN q.tenant ELSE q[k]]

InjectTenantID ==
  /\ RequestBuilt
  /\ \A f \in TenantFieldUnset : f.kind = "uint32" /\ ~f.list
  /\ msg' = [f \in DOMAIN msg |-> IF f \in TenantFieldUnset THEN Num(r.tenant) ELSE msg[f]]
  /\ md' = injectAuthContext(r)
  /\ pc' = "invoke"
  /\ UNCHANGED <<parsed, r, method, params, rule, left, answer, audit>>

\* A uint32 in a field of another kind: Set panics.
InjectPanic ==
  /\ RequestBuilt
  /\ \E f \in TenantFieldUnset : f.kind # "uint32" \/ f.list
  /\ Panic

grpcCodeToHTTP ==
  [OK |-> 200, Canceled |-> 499, Unknown |-> 500, InvalidArgument |-> 400, DeadlineExceeded |-> 504,
   NotFound |-> 404, AlreadyExists |-> 409, PermissionDenied |-> 403, ResourceExhausted |-> 429,
   FailedPrecondition |-> 400, Aborted |-> 409, OutOfRange |-> 400, Unimplemented |-> 501,
   Internal |-> 500, Unavailable |-> 503, DataLoss |-> 500, Unauthenticated |-> 401]

TransformError(code) == IF code \in DOMAIN grpcCodeToHTTP THEN grpcCodeToHTTP[code] ELSE 500

InvokeMethod(code) ==
  /\ pc = "invoke"
  /\ \/ code = "OK" /\ pc' = "transform" /\ UNCHANGED <<answer, audit>>
     \/ code # "OK" /\ Return(TransformError(code), code)
  /\ UNCHANGED <<parsed, r, call>>

\* The field that response_body names: one of a message kind, or none.
extractResponseBody(type, n) ==
  LET fs == Children(type, <<>>)
      byJSON == ByJSONName(fs, n)
  IN  {f \in IF byJSON # {} THEN byJSON ELSE ByName(fs, n) : f.kind \in MessageKinds}

\* The whole answer, or the field of it.
Extracted == IF rule.out \in {"", "*"} THEN {} ELSE extractResponseBody(method.reply, rule.out)

TransformResponse ==
  /\ pc = "transform" /\ \A f \in Extracted : ~f.list
  /\ \/ (rule.out \in {"", "*"} \/ Extracted # {}) /\ Return(200, "")
     \/ writeError(500, "RESPONSE_TRANSFORM_ERROR")
  /\ UNCHANGED <<parsed, r, call>>

\* Message of a list or a map.
TransformPanics ==
  /\ pc = "transform" /\ \E f \in Extracted : f.list
  /\ Panic

\* Handle is over and its variables are gone.
End ==
  /\ pc = "done"
  /\ pc' = "idle" /\ r' = NoRequest
  /\ method' = NoMethod /\ params' = <<>> /\ rule' = NoRule /\ msg' = <<>> /\ left' = {}
  /\ md' = <<>> /\ answer' = Aborted /\ audit' = <<>>
  /\ UNCHANGED parsed

Next ==
  \/ \E fds \in Descriptors : RegisterModule(fds)
  \/ UnregisterModule
  \/ \E q \in Requests : Begin(q)
  \/ NotFound \/ Find \/ Streaming \/ BuildBody \/ PathParamsSet
  \/ \E n \in left : SetPathParam(n) \/ SetQueryParam(n) \/ ParamPanics(n)
  \/ InjectTenantID \/ InjectPanic
  \/ \E code \in Codes : InvokeMethod(code)
  \/ TransformResponse \/ TransformPanics \/ End

Spec == Init /\ [][Next]_vars

----------------------------------------------------------------------------
(* Properties *)

\* Pattern p is more specific than q: whatever it matches q matches too, and not
\* the other way round.  Paths that are at most one segment longer than the request's
\* tell, made of its segments and of two others, one of which differs from any literal.
PathsLike(path) ==
  UNION {[1 .. n -> {path[i] : i \in DOMAIN path} \union {"y", "z"}] : n \in 1 .. Len(path) + 1}
MoreSpecific(p, q, path) ==
  /\ \A x \in PathsLike(path) : Matches(p, x) => Matches(q, x)
  /\ \E x \in PathsLike(path) : Matches(q, x) /\ ~Matches(p, x)

\* FindMethodByHTTP does not pass over the more specific route: no route of the
\* module that matches is more specific than all of those of the method it chose.
RouteNotShadowed ==
  pc = "build" =>
    LET fits == {x \in ListRoutes(parsed) : x.rule.verb = r.verb /\ Matches(x.rule.pattern, r.path)}
    IN  ~ \E x \in fits : \A y \in fits :
            y.method = method => MoreSpecific(x.rule.pattern, y.rule.pattern, r.path)

\* The values that named texts give to a field of a message: as the field they name, or
\* as one inside of it.
Given(type, g, texts, names) ==
  UNION { UNION { {Part(f, v, g) : v \in {w \in parseStringValue(f, texts[n]) : Touches(f, w, g)}} :
                  f \in Target(type, n) } : n \in names }

\* The numbers that texts are.
Numbers(texts) == UNION {Read(Lexicon.num, texts[n]) : n \in DOMAIN texts}

\* The body as the module's message gets it: below a field that the rule binds it to,
\* its bare numbers are the nearest float64.
BodyTexts ==
  IF r.body.is # "obj" THEN <<>> ELSE IF rule.body = "*" THEN r.body.obj ELSE reMarshal(r.body.obj)

\* Fields whose number is made from what is written: of an Int32Value and of a time.
Converted(type, g) == \E f \in Fields[type] : Inside(g, f) /\ f.kind \in {"Int32Value", "Timestamp"}

\* What the module is sent is what the request says, wherever the order of Go maps
\* is of no account: a field the path binds has the path's value, unless the query
\* names it by its other name; a field that only the query binds has the query's;
\* a field that neither binds has the body's, if the rule takes it and it came whole
\* with its length, and has no value if the body is missing or, as is a chunked one,
\* of no declared length: such a body is passed over without an error; the caller's
\* tenant fills tenant_id if nothing else gave it a value; and where an integer
\* arrives the request has that very number, or under a rule that binds the body to a
\* field the float64 nearest to it, except in an Int32Value or a time.
MessageFaithful ==
  pc \in {"invoke", "transform"} =>
    \A f \in DOMAIN msg :
      LET byPath  == Given(method.in, f, params, DOMAIN params)
          byQuery == Given(method.in, f, r.query, DOMAIN r.query \ DOMAIN params)
          written == Numbers(params) \union Numbers(r.query) \union Numbers(BodyTexts)
          filled  == f \in TenantField /\ msg[f] = Num(r.tenant)
          byBody  == IF r.body.is = "obj" /\ r.sized /\ ~r.torn THEN FromBody(method.in, rule, r.body) ELSE {}
      IN  /\ (byPath # {} /\ byQuery = {}) => msg[f] \in byPath \/ (filled /\ Unset \in byPath)
          /\ byQuery # {} => msg[f] \in byQuery \/ (filled /\ Unset \in byQuery)
          /\ byPath \union byQuery = {} => \A b \in byBody : b[f] \in {Unset, msg[f]}
          /\ (f \in TenantField /\ r.tenant # 0) => msg[f] # Unset
          /\ (byPath \union byQuery = {} /\ (r.body.is = "none" \/ ~r.sized) /\ f.kind \notin MessageKinds) =>
                filled \/ msg[f] = Unset
          /\ (msg[f].is = "num" /\ f.kind \in {"int32", "int64", "uint32", "uint64"} /\ ~Converted(method.in, f)) =>
                filled \/ msg[f] \in written

\* Every request that is answered has one entry in the audit log, with the status
\* that was sent, a reason exactly if it failed, the method that was found, and the
\* request id the module got.  A request that makes Handle panic gets no answer, and
\* an entry that says 200.
AuditTruthful ==
  (pc = "done" /\ r.audited /\ answer # Aborted) =>
    /\ Len(audit) = 1
    /\ audit[1].status = answer /\ (audit[1].reason = "") = (answer = 200)
    /\ audit[1].method = method
    /\ "requestID" \in DOMAIN md => audit[1].id = md["requestID"]
==============================================================================
