----------------------------- MODULE MCTranscode -----------------------------
(* Two message types, short patterns and the requests that tell them apart. *)
EXTENDS Transcode, TLC

Field(at, json, kind, list) == [at |-> at, json |-> json, kind |-> kind, list |-> list]

\* Type T has a field of every sort; in U, tenant_id is a string.
MCFields ==
  [T |-> { Field(<<"id">>, "id", "int32", FALSE), Field(<<"tenant_id">>, "tenantId", "uint32", FALSE),
           Field(<<"opt">>, "opt", "Int32Value", FALSE), Field(<<"opt", "value">>, "value", "int32", FALSE),
           Field(<<"tags">>, "tags", "text", TRUE), Field(<<"at">>, "at", "Timestamp", FALSE),
           Field(<<"at", "seconds">>, "seconds", "int64", FALSE), Field(<<"at", "nanos">>, "nanos", "int32", FALSE),
           Field(<<"on">>, "on", "bool", FALSE), Field(<<"sort">>, "sort", "enum", FALSE),
           Field(<<"sub">>, "sub", "message", FALSE), Field(<<"sub", "x">>, "x", "int64", FALSE),
           Field(<<"items">>, "items", "message", TRUE), Field(<<"items", "x">>, "x", "int64", FALSE) },
   U |-> { Field(<<"tenant_id">>, "tenantId", "text", FALSE) }]

Words    == {"id", "tenant_id", "tenantId", "opt", "value", "tags", "at", "seconds", "nanos", "on", "sort",
             "sub", "items", "x", "zz", "**"}
MCSnake  == [n \in Words |-> IF n = "tenantId" THEN "tenant_id" ELSE n]
MCCamel  == [n \in Words |-> IF n = "tenant_id" THEN "tenantId" ELSE n]

\* Four bits stand for 32, six for 64, and four for the 53 of a float64: 20 fits the
\* longer only, 99 neither; 21 is rounded to 20, 31 to 32, which does not fit.
MCLexicon ==
  LET bare == "0" :> 0 @@ "5" :> 5 @@ "7" :> 7 @@ "20" :> 20 @@ "21" :> 21 @@ "31" :> 31 @@ "32" :> 32 @@ "99" :> 99
  IN  [num |-> bare @@ "'21'" :> 21,
       round |-> [t \in DOMAIN bare |-> CASE t = "21" -> "20" [] t = "31" -> "32" [] OTHER -> t],
       enum |-> "a" :> 1, bool |-> "t" :> 1 @@ "0" :> 0, float |-> "7" :> 7,
       time |-> "noon" :> [seconds |-> Num(9), nanos |-> Num(0)]]

Http(kind, pattern, body, out) == [kind |-> kind, pattern |-> pattern, body |-> body, out |-> out]
Method(http, type, stream) == [http |-> http, in |-> type, reply |-> "T", stream |-> stream]

Methods ==
  { Method(<<Http("get", <<Lit("a"), Lit("b")>>, "", "")>>, "T", FALSE),
    Method(<<Http("get", <<Lit("a"), Var("id")>>, "", "")>>, "T", FALSE),
    Method(<<Http("get", <<Var("zz"), Var("id")>>, "", "id")>>, "T", FALSE),
    Method(<<Http("get", <<Lit("a"), Glob("opt")>>, "", "")>>, "T", FALSE),
    Method(<<Http("get", <<Rest>>, "", "sub")>>, "T", FALSE),
    Method(<<Http("get", <<Lit("a"), Var("tenant_id")>>, "", "")>>, "T", FALSE),
    Method(<<Http("get", <<Var("zz"), Var("id")>>, "", ""), Http("get", <<Lit("a"), Var("id")>>, "", "")>>, "T", FALSE),
    Method(<<Http("post", <<Lit("a"), Var("id")>>, "*", "opt")>>, "T", FALSE),
    Method(<<Http("post", <<Lit("a"), Lit("b")>>, "sub", "sub")>>, "T", FALSE),
    Method(<<Http("post", <<Lit("a"), Lit("b")>>, "items", "")>>, "T", FALSE),
    Method(<<Http("post", <<Lit("a"), Lit("b")>>, "opt", ""), Http("search", <<Lit("a")>>, "", "items")>>, "T", FALSE),
    Method(<<Http("get", <<Lit("a"), Lit("b")>>, "", "")>>, "T", TRUE),
    Method(<<Http("get", <<Lit("a"), Var("zz")>>, "", "")>>, "U", FALSE),
    Method(<<>>, "T", FALSE), Method(<<Http("none", <<>>, "", "")>>, "T", FALSE) }

Service(pkg, name, m) == [pkg |-> pkg, name |-> name, methods |-> [n \in {"Do"} |-> m]]

\* Two services, in two packages, with the same short name or not.
MCDescriptors ==
  { {Service("p", "S", m), Service("q", s, n)} : m \in Methods, n \in Methods, s \in {"S", "R"} }

Plain ==
  [verb |-> "GET", path |-> <<"a", "7">>, query |-> <<>>, body |-> NoBody, sized |-> TRUE,
   torn |-> FALSE, audited |-> TRUE, tenant |-> 3, requestID |-> "", correlationID |-> "", fcID |-> "",
   traceID |-> "", authorization |-> "token", xff |-> <<>>, real |-> "", remote |-> "ip"]

Obj(k, t) == [is |-> "obj", obj |-> [n \in {k} |-> <<t>>]]
Ask(n, t) == [k \in {n} |-> t]

Paths == {<<"a">>, <<"a", "b">>, <<"a", "7">>, <<"b", "20">>, <<"a", "b", "7">>}
Queries ==
  { <<>>, Ask(<<"id">>, <<"5">>), Ask(<<"tenantId">>, <<"7">>), Ask(<<"tenant_id">>, <<"0">>),
    Ask(<<"opt">>, <<"20">>), Ask(<<"tags">>, <<"a", "b">>), Ask(<<"sub", "x">>, <<"20">>),
    Ask(<<"sub", "zz">>, <<"7">>), Ask(<<"on">>, <<"0">>), Ask(<<"sort">>, <<"a">>), Ask(<<"at">>, <<"noon">>),
    [k \in {<<"opt">>, <<"opt", "value">>} |-> IF k = <<"opt">> THEN <<"20">> ELSE <<"7">>],
    Ask(<<"opt", "value">>, <<"20">>), Ask(<<"at", "nanos">>, <<"5">>), Ask(<<"items", "x">>, <<"7">>),
    Ask(<<"tenantId">>, <<"">>),
    [k \in {<<"tenantId">>, <<"tenant_id">>} |-> IF k = <<"tenantId">> THEN <<"7">> ELSE <<"20">>] }
Bodies == {NoBody, [is |-> "junk"], Obj("id", "20"), Obj("id", "5"), Obj("id", "0"), Obj("tenantId", "7"),
           Obj("x", "20"), Obj("x", "21"), Obj("x", "'21'"), Obj("x", "31"), Obj("opt", "7")}

MCRequests ==
  { [Plain EXCEPT !.verb = v, !.path = p] : v \in {"GET", "search"}, p \in Paths }
  \union { [Plain EXCEPT !.path = p, !.query = q, !.tenant = t] : p \in {<<"a", "7">>, <<"a", "b">>}, q \in Queries, t \in {0, 3} }
  \union { [Plain EXCEPT !.verb = "POST", !.path = p, !.body = b, !.sized = (w # "chunked"), !.torn = (w = "torn")] :
             p \in {<<"a", "7">>, <<"a", "b">>}, b \in Bodies, w \in {"whole", "chunked", "torn"} }
  \union { [Plain EXCEPT !.verb = v, !.body = Obj("id", "5"), !.audited = FALSE] : v \in {"GET", "POST"} }
  \union { [Plain EXCEPT !.requestID = i, !.correlationID = "c", !.traceID = "t", !.xff = <<"junk", f>>, !.real = "ip2"] :
             i \in {"", "i"}, f \in {"junk", "ip1"} }

MCValidIP == {"ip", "ip1", "ip2"}
==============================================================================
