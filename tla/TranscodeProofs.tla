---------------------------- MODULE TranscodeProofs ----------------------------
(***************************************************************************)
(* Proofs about Transcode: for every set of descriptors, requests and      *)
(* codes the most specific route is found, the message says what the       *)
(* request says, and the audit log says what the client was told.          *)
(***************************************************************************)
EXTENDS Transcode, FiniteSetTheorems, TLAPS

------------------------------------------------------------------------------
(* Which route is found *)

\* A pattern a module can have, and its literals.
Sound(pattern) == IsPattern(pattern) /\ WildcardLast(pattern)

Literals(pattern) == {i \in DOMAIN pattern : pattern[i].is \in {"lit"}}

\* A pattern with "**" at its end is read to its end.
LEMMA ReachIsLen ==
  ASSUME NEW p, Sound(p)
  PROVE  Reach(p) = Len(p)
<1> DEFINE ends == {i \in DOMAIN p : p[i].is = "rest"}
<1>1. CASE ends = {}
  BY <1>1 DEF Reach
<1>2. CASE ends # {}
  <2>1. ends = {Len(p)}
    BY <1>2 DEF Sound, WildcardLast
  <2>2. Len(p) \in Nat
    BY DEF Sound, IsPattern
  <2>3. Min({Len(p)}) = Len(p)
    BY <2>2 DEF Min
  <2> QED
    BY <1>2, <2>1, <2>3 DEF Reach
<1> QED
  BY <1>1, <1>2

\* What a pattern matches: paths of its length, or of at least its length if it has
\* a wildcard, that have its literals in their places.
LEMMA MatchesMeans ==
  ASSUME NEW p, Sound(p), NEW x, Len(x) \in Nat
  PROVE  Matches(p, x) <=>
           /\ Len(p) = Len(x) \/ (Wild(p) /\ Len(p) <= Len(x))
           /\ \A i \in Literals(p) : p[i].name = <<x[i]>>
<1>1. Len(p) \in Nat /\ DOMAIN p = 1 .. Len(p)
  BY DEF Sound, IsPattern
<1>2. Matches(p, x) <=> /\ Len(p) = Len(x) \/ Wild(p)
                        /\ \A i \in 1 .. Len(p) : i <= Len(x) /\ (p[i].is = "lit" => p[i].name = <<x[i]>>)
  BY ReachIsLen DEF Matches
<1>3. (\A i \in 1 .. Len(p) : i <= Len(x)) <=> Len(p) <= Len(x)
  <2>1. CASE Len(p) = 0
    BY <1>1, <2>1
  <2>2. CASE Len(p) # 0
    <3>1. Len(p) \in 1 .. Len(p)
      BY <1>1, <2>2
    <3> QED
      BY <1>1, <3>1
  <2> QED
    BY <2>1, <2>2
<1>4. Literals(p) = {i \in 1 .. Len(p) : p[i].is = "lit"}
  BY <1>1 DEF Literals
<1> QED
  BY <1>1, <1>2, <1>3, <1>4

\* What a pattern scores: only the wildcard at its end can cost it.
LEMMA ScoreIs ==
  ASSUME NEW p, Sound(p)
  PROVE  /\ IsFiniteSet(Literals(p)) /\ Cardinality(Literals(p)) \in Nat /\ Len(p) \in Nat
         /\ calculateSpecificity(p) =
              10 * Cardinality(Literals(p)) - (IF Wild(p) THEN 10 ELSE 0) + Len(p)
<1> DEFINE wild == {i \in DOMAIN p : p[i].is \in {"glob", "rest"}}
<1>1. Len(p) \in Nat /\ DOMAIN p = 1 .. Len(p)
  BY DEF Sound, IsPattern
<1>2. IsFiniteSet(DOMAIN p)
  BY <1>1, FS_Interval
<1>3. IsFiniteSet(Literals(p)) /\ Cardinality(Literals(p)) \in Nat
  BY <1>2, FS_Subset, FS_CardinalityType DEF Literals
<1>4. Cardinality(wild) = IF Wild(p) THEN 1 ELSE 0
  <2>1. CASE Wild(p)
    <3>1. wild = {Len(p)}
      BY <2>1 DEF Wild, Sound, WildcardLast
    <3> QED
      BY <2>1, <3>1, FS_Singleton
  <2>2. CASE ~Wild(p)
    <3>1. wild = {}
      BY <2>2 DEF Wild
    <3> QED
      BY <2>2, <3>1, FS_EmptySet
  <2> QED
    BY <2>1, <2>2
<1>5. calculateSpecificity(p) = 10 * Cardinality(Literals(p)) - 10 * Cardinality(wild) + Len(p)
  BY DEF calculateSpecificity, Literals
<1> HIDE DEF wild
<1> QED
  BY <1>1, <1>3, <1>4, <1>5

\* Segments of the path and two others, one of which is another than a given one.
Alphabet(path) == {path[i] : i \in DOMAIN path} \union {"y", "z"}

\* A sequence over them that is not longer than the path by more than one is one of
\* the paths that tell patterns apart.
LEMMA PathLike ==
  ASSUME NEW path \in Seq(STRING), NEW x \in Seq(Alphabet(path)),
         1 <= Len(x), Len(x) <= Len(path) + 1
  PROVE  x \in PathsLike(path) /\ Len(x) \in Nat
<1>2. PathsLike(path) = UNION {[1 .. n -> Alphabet(path)] : n \in 1 .. Len(path) + 1}
  BY DEF PathsLike, Alphabet
<1>3. Len(x) \in 1 .. Len(path) + 1
  OBVIOUS
<1>4. x \in [1 .. Len(x) -> Alphabet(path)]
  OBVIOUS
<1> QED
  BY <1>2, <1>3, <1>4

\* If p matches only what q matches, the literals of q are literals of p: a path
\* with another segment in the place of one that p leaves open shows it.
LEMMA LiteralsKept ==
  ASSUME NEW path \in Seq(STRING), NEW p, NEW q, Sound(p), Sound(q),
         Matches(p, path), Matches(q, path), MoreSpecific(p, q, path)
  PROVE  Literals(q) \subseteq Literals(p)
<1> SUFFICES ASSUME NEW i \in Literals(q), i \notin Literals(p)
             PROVE  FALSE
  OBVIOUS
<1> DEFINE c == IF path[i] = "y" THEN "z" ELSE "y"
           x == [path EXCEPT ![i] = c]
<1>1. /\ Len(q) \in Nat /\ i \in 1 .. Len(q) /\ Len(path) \in Nat /\ Len(q) <= Len(path)
      /\ q[i].name = <<path[i]>>
  BY MatchesMeans DEF Sound, IsPattern, Literals
<1>2. /\ x \in Seq(Alphabet(path)) /\ Len(x) = Len(path)
      /\ \A j \in 1 .. Len(path) : j # i => x[j] = path[j]
  BY <1>1 DEF Alphabet
<1>3. x[i] = c /\ c # path[i]
  BY <1>1
<1> HIDE DEF x, c
<1>4. x \in PathsLike(path) /\ Len(x) \in Nat
  BY <1>1, <1>2, PathLike
<1>5. Matches(p, x)
  <2>1. \A j \in Literals(p) : j \in 1 .. Len(p) /\ j # i
    BY DEF Sound, IsPattern, Literals
  <2>0. Len(p) \in Nat /\ Len(p) <= Len(path)
    BY MatchesMeans DEF Sound, IsPattern
  <2>2. \A j \in Literals(p) : p[j].name = <<x[j]>>
    BY <1>1, <1>2, <2>0, <2>1, MatchesMeans
  <2> QED
    BY <1>2, <1>4, <2>2, MatchesMeans
<1>6. Matches(q, x)
  BY <1>4, <1>5 DEF MoreSpecific
<1>7. q[i].name = <<x[i]>>
  BY <1>4, <1>6, MatchesMeans
<1> QED
  BY <1>1, <1>3, <1>7

\* If p matches only what q matches and has a wildcard, q has one too and is not
\* longer: a path longer than the request's, or as short as p, shows it.
LEMMA WildcardKept ==
  ASSUME NEW path \in Seq(STRING), NEW p, NEW q, Sound(p), Sound(q),
         Matches(p, path), Matches(q, path), MoreSpecific(p, q, path), Wild(p)
  PROVE  Wild(q) /\ Len(q) <= Len(p)
<1>1. /\ Len(p) \in Nat /\ Len(q) \in Nat /\ Len(path) \in Nat
      /\ 1 <= Len(p) /\ Len(p) <= Len(path) /\ Len(q) <= Len(path)
  BY MatchesMeans DEF Sound, IsPattern, Wild
<1>2. \A j \in Literals(p) : j \in 1 .. Len(p) /\ p[j].name = <<path[j]>>
  BY MatchesMeans DEF Sound, IsPattern, Literals
<1>3. Wild(q)
  <2> DEFINE x == Append(path, "z")
  <2>1. x \in Seq(Alphabet(path)) /\ Len(x) = Len(path) + 1
    BY DEF Alphabet
  <2>2. \A j \in 1 .. Len(path) : x[j] = path[j]
    OBVIOUS
  <2> HIDE DEF x
  <2>3. x \in PathsLike(path) /\ Len(x) \in Nat
    BY <1>1, <2>1, PathLike
  <2>4. Matches(p, x)
    BY <1>1, <1>2, <2>1, <2>2, <2>3, MatchesMeans
  <2>5. Matches(q, x)
    BY <2>3, <2>4 DEF MoreSpecific
  <2> QED
    BY <1>1, <2>1, <2>3, <2>5, MatchesMeans
<1>4. Len(q) <= Len(p)
  <2> DEFINE x == SubSeq(path, 1, Len(p))
  <2>1. x \in Seq(Alphabet(path)) /\ Len(x) = Len(p)
    BY <1>1 DEF Alphabet
  <2>2. \A j \in 1 .. Len(p) : x[j] = path[j]
    BY <1>1
  <2> HIDE DEF x
  <2>3. x \in PathsLike(path) /\ Len(x) \in Nat
    BY <1>1, <2>1, PathLike
  <2>4. Matches(p, x)
    BY <1>1, <1>2, <2>1, <2>2, <2>3, MatchesMeans
  <2>5. Matches(q, x)
    BY <2>3, <2>4 DEF MoreSpecific
  <2> QED
    BY <1>1, <2>1, <2>3, <2>5, MatchesMeans
<1> QED
  BY <1>3, <1>4

\* The more specific of two patterns that match scores more.
LEMMA SpecificityRanks ==
  ASSUME NEW path \in Seq(STRING), NEW p, NEW q, Sound(p), Sound(q),
         Matches(p, path), Matches(q, path), MoreSpecific(p, q, path)
  PROVE  calculateSpecificity(q) < calculateSpecificity(p)
<1> DEFINE lp == Cardinality(Literals(p))
           lq == Cardinality(Literals(q))
<1>1. /\ lp \in Nat /\ lq \in Nat /\ Len(p) \in Nat /\ Len(q) \in Nat
      /\ calculateSpecificity(p) = 10 * lp - (IF Wild(p) THEN 10 ELSE 0) + Len(p)
      /\ calculateSpecificity(q) = 10 * lq - (IF Wild(q) THEN 10 ELSE 0) + Len(q)
      /\ IsFiniteSet(Literals(p))
  BY ScoreIs
<1>2. lq <= lp /\ (Literals(p) # Literals(q) => lq < lp)
  BY <1>1, LiteralsKept, FS_Subset
<1>3. PICK x \in PathsLike(path) : Matches(q, x) /\ ~Matches(p, x)
  BY DEF MoreSpecific
<1>4. Len(x) \in Nat /\ Len(path) \in Nat
  <2>1. PICK n \in 1 .. Len(path) + 1 : x \in [1 .. n -> Alphabet(path)]
    BY DEF PathsLike, Alphabet
  <2>2. x \in Seq(Alphabet(path))
    BY <2>1
  <2> QED
    BY <2>2
<1>5. CASE Wild(p)
  <2>1. Wild(q) /\ Len(q) <= Len(p)
    BY <1>5, WildcardKept
  <2>2. CASE Len(q) = Len(p)
    <3>1. Literals(p) # Literals(q)
      <4>1. SUFFICES ASSUME Literals(p) = Literals(q)
                     PROVE  FALSE
        OBVIOUS
      <4>2. /\ \A j \in Literals(p) : p[j].name = <<path[j]>> /\ q[j].name = <<path[j]>>
            /\ \A j \in Literals(p) : q[j].name = <<x[j]>>
        BY <1>3, <1>4, <4>1, MatchesMeans
      <4>3. Matches(p, x)
        BY <1>3, <1>4, <1>5, <2>1, <2>2, <4>1, <4>2, MatchesMeans
      <4> QED
        BY <1>3, <4>3
    <3> QED
      BY <1>1, <1>2, <1>5, <2>1, <2>2, <3>1
  <2> QED
    BY <1>1, <1>2, <1>5, <2>1, <2>2
<1>6. CASE ~Wild(p) /\ Wild(q)
  <2>1. Len(p) = Len(path) /\ Len(q) <= Len(path)
    BY <1>1, <1>6, MatchesMeans
  <2> QED
    BY <1>1, <1>2, <1>6, <2>1
<1>7. CASE ~Wild(p) /\ ~Wild(q)
  <2>1. Len(p) = Len(path) /\ Len(q) = Len(path)
    BY <1>7, MatchesMeans
  <2>2. Literals(p) # Literals(q)
    <3>1. SUFFICES ASSUME Literals(p) = Literals(q)
                   PROVE  FALSE
      OBVIOUS
    <3>2. /\ \A j \in Literals(p) : p[j].name = <<path[j]>> /\ q[j].name = <<path[j]>>
          /\ \A j \in Literals(p) : q[j].name = <<x[j]>>
      BY <1>3, <1>4, <3>1, MatchesMeans
    <3>3. Matches(p, x)
      BY <1>3, <1>4, <1>7, <2>1, <3>1, <3>2, MatchesMeans
    <3> QED
      BY <1>3, <3>3
  <2> QED
    BY <1>1, <1>2, <1>7, <2>1, <2>2
<1> QED
  BY <1>5, <1>6, <1>7

\* The patterns of a parsed descriptor are those of its annotations.
LEMMA ParseSound ==
  ASSUME NEW fds \in Descriptors, NEW pd \in Parse(fds), NEW x \in ListRoutes(pd)
  PROVE  Sound(x.rule.pattern)
<1> DEFINE names == {sd.name : sd \in fds}
<1>1. PICK f \in [names -> fds] : pd = [n \in names |-> parseService(f[n])]
  BY DEF Parse
<1>2. PICK s \in DOMAIN pd : \E n \in DOMAIN pd[s] : \E i \in DOMAIN pd[s][n].rules :
        x = [method |-> pd[s][n], rule |-> pd[s][n].rules[i]]
  BY DEF ListRoutes, ListMethods
<1>3. s \in names /\ f[s] \in fds /\ pd[s] = parseService(f[s])
  BY <1>1, <1>2
<1>a. PICK n \in DOMAIN pd[s] : \E i \in DOMAIN pd[s][n].rules :
        x = [method |-> pd[s][n], rule |-> pd[s][n].rules[i]]
  BY <1>2
<1>b. PICK i \in DOMAIN pd[s][n].rules : x = [method |-> pd[s][n], rule |-> pd[s][n].rules[i]]
  BY <1>a
<1>4. n \in DOMAIN f[s].methods /\ pd[s][n] = parseMethod(f[s], n)
  BY <1>3 DEF parseService
<1> DEFINE http == f[s].methods[n].http
<1>5. pd[s][n].rules = [j \in DOMAIN http |-> convertHTTPRule(http[j])]
  BY <1>4 DEF parseMethod, extractHTTPRule
<1>6. i \in DOMAIN http /\ x.rule = convertHTTPRule(http[i])
  BY <1>b, <1>5
<1>7. Sound(http[i].pattern)
  BY <1>3, <1>4, <1>6, TranscodeAssumption DEF Sound
<1>8. Sound(<<>>)
  BY DEF Sound, IsPattern, WildcardLast
<1>9. x.rule.pattern \in {<<>>, http[i].pattern}
  BY <1>6 DEF convertHTTPRule
<1> QED
  BY <1>7, <1>8, <1>9

\* The method that is found has a route that matches and that none outscores.
LEMMA FoundScoresBest ==
  ASSUME NEW pd, NEW verb, NEW path, NEW found \in FindMethodByHTTP(pd, verb, path)
  PROVE  LET fits == {x \in ListRoutes(pd) : x.rule.verb = verb /\ Matches(x.rule.pattern, path)}
         IN  \E y \in fits : /\ y.method = found.method
                            /\ \A x \in fits : calculateSpecificity(x.rule.pattern) <=
                                               calculateSpecificity(y.rule.pattern)
<1> DEFINE fits == {x \in ListRoutes(pd) : x.rule.verb = verb /\ Matches(x.rule.pattern, path)}
           hit(m) == {i \in DOMAIN m.rules : m.rules[i].verb = verb /\ Matches(m.rules[i].pattern, path)}
           all == UNION { {<<m, i>> : i \in hit(m)} : m \in ListMethods(pd) }
           route(c) == [method |-> c[1], rule |-> c[1].rules[c[2]]]
<1>1. PICK c \in all :
        /\ found.method = c[1]
        /\ \A d \in all : calculateSpecificity(d[1].rules[d[2]].pattern) <=
                          calculateSpecificity(c[1].rules[c[2]].pattern)
  BY DEF FindMethodByHTTP
<1>2. PICK m \in ListMethods(pd) : \E i \in hit(m) : c = <<m, i>>
  BY <1>1
<1>i. PICK i \in hit(m) : c = <<m, i>>
  BY <1>2
<1>3. route(c) \in fits /\ route(c).method = found.method
  BY <1>1, <1>i DEF ListRoutes
<1>4. ASSUME NEW x \in fits
      PROVE  calculateSpecificity(x.rule.pattern) <= calculateSpecificity(route(c).rule.pattern)
  <2>0. PICK n \in ListMethods(pd) : \E j \in DOMAIN n.rules : x = [method |-> n, rule |-> n.rules[j]]
    BY <1>4 DEF ListRoutes
  <2>1. PICK j \in DOMAIN n.rules : x = [method |-> n, rule |-> n.rules[j]]
    BY <2>0
  <2>2. j \in hit(n) /\ <<n, j>> \in all
    BY <1>4, <2>1
  <2>3. calculateSpecificity(n.rules[j].pattern) <= calculateSpecificity(c[1].rules[c[2]].pattern)
    BY <1>1, <2>2
  <2> QED
    BY <2>1, <2>3
<1> QED
  BY <1>3, <1>4

\* The module's patterns are sound and the request is one of the router's.
RouteInv ==
  /\ \A x \in ListRoutes(parsed) : Sound(x.rule.pattern)
  /\ pc # "idle" => r \in Requests
  /\ RouteNotShadowed

LEMMA RouteStep ==
  RouteInv /\ [Next]_vars => RouteInv'
<1> SUFFICES ASSUME RouteInv, [Next]_vars
             PROVE  RouteInv'
  OBVIOUS
<1>n. \A x \in ListRoutes(NoModule) : Sound(x.rule.pattern)
  BY DEF ListRoutes, ListMethods, NoModule
<1>1. ASSUME NEW fds \in Descriptors, RegisterModule(fds)
      PROVE  RouteInv'
  BY <1>1, ParseSound DEF RegisterModule, RouteInv, RouteNotShadowed
<1>2. CASE UnregisterModule
  BY <1>2, <1>n DEF UnregisterModule, RouteInv, RouteNotShadowed
<1>3. ASSUME NEW q \in Requests, Begin(q)
      PROVE  RouteInv'
  BY <1>3 DEF Begin, RouteInv, RouteNotShadowed
<1>4. CASE Find
  <2>1. /\ pc = "find" /\ r \in Requests /\ UNCHANGED <<parsed, r>>
        /\ \E found \in FindMethodByHTTP(parsed, r.verb, r.path) : method' = found.method
    BY <1>4 DEF Find, RouteInv
  <2> DEFINE fits == {x \in ListRoutes(parsed) : x.rule.verb = r.verb /\ Matches(x.rule.pattern, r.path)}
  <2>2. PICK y \in fits : /\ y.method = method'
                         /\ \A x \in fits : calculateSpecificity(x.rule.pattern) <=
                                            calculateSpecificity(y.rule.pattern)
    BY <2>1, FoundScoresBest
  <2>3. ASSUME NEW x \in fits, MoreSpecific(x.rule.pattern, y.rule.pattern, r.path)
        PROVE  FALSE
    <3>1. Sound(x.rule.pattern) /\ Sound(y.rule.pattern) /\ r.path \in Seq(STRING)
      BY <2>1, <2>2, <2>3, TranscodeAssumption DEF RouteInv
    <3>2. calculateSpecificity(y.rule.pattern) < calculateSpecificity(x.rule.pattern)
      BY <2>2, <2>3, <3>1, SpecificityRanks
    <3>3. calculateSpecificity(x.rule.pattern) <= calculateSpecificity(y.rule.pattern)
      BY <2>2, <2>3
    <3>4. calculateSpecificity(x.rule.pattern) \in Int /\ calculateSpecificity(y.rule.pattern) \in Int
      BY <3>1, ScoreIs
    <3> QED
      BY <3>2, <3>3, <3>4
  <2>4. RouteNotShadowed'
    BY <2>1, <2>2, <2>3 DEF RouteNotShadowed
  <2> QED
    BY <1>4, <2>1, <2>4 DEF RouteInv, Find
<1>5. CASE End
  BY <1>5 DEF End, RouteInv, RouteNotShadowed
<1>6. CASE \/ NotFound \/ Streaming \/ BuildBody \/ PathParamsSet
           \/ (\E n \in left : SetPathParam(n) \/ SetQueryParam(n) \/ ParamPanics(n))
           \/ InjectTenantID \/ InjectPanic
           \/ (\E code \in Codes : InvokeMethod(code)) \/ TransformResponse \/ TransformPanics
  <2>1. UNCHANGED <<parsed, r>> /\ pc # "idle" /\ pc' # "build"
    BY <1>6 DEF NotFound, Streaming, BuildBody, PathParamsSet, SetPathParam, SetQueryParam, ParamPanics,
         InjectTenantID, InjectPanic, RequestBuilt, InvokeMethod, TransformResponse, TransformPanics,
         writeError, Return, Panic
  <2> QED
    BY <2>1 DEF RouteInv, RouteNotShadowed
<1>7. CASE UNCHANGED vars
  BY <1>7 DEF vars, RouteInv, RouteNotShadowed
<1> QED
  BY <1>1, <1>2, <1>3, <1>4, <1>5, <1>6, <1>7 DEF Next

LEMMA RouteHolds ==
  Spec => []RouteInv
<1>1. Init => RouteInv
  BY DEF Init, RouteInv, RouteNotShadowed, ListRoutes, ListMethods, NoModule
<1> QED
  BY <1>1, RouteStep, PTL DEF Spec

\* FindMethodByHTTP never passes over the more specific route: for every module
\* whose patterns have "**" at the end only, and every path, the order that
\* calculateSpecificity gives to the patterns that match a path is one that extends
\* the inclusion of what they match.
THEOREM MostSpecificFound ==
  Spec => []RouteNotShadowed
<1>1. RouteInv => RouteNotShadowed
  BY DEF RouteInv
<1> QED
  BY <1>1, RouteHolds, PTL

------------------------------------------------------------------------------
(* What the audit log says *)

\* The call's metadata are there from injectAuthContext on.
MetadataSent ==
  /\ pc \in {"idle", "find", "build", "path", "query"} => md = <<>>
  /\ pc \in {"invoke", "transform"} => md = injectAuthContext(r)

AuditInv == MetadataSent /\ AuditTruthful

LEMMA NothingThere ==
  DOMAIN <<>> = {}
  OBVIOUS

\* The request id that is passed on is the one the entry has.
LEMMA RequestIDs ==
  ASSUME NEW q, "requestID" \in DOMAIN injectAuthContext(q)
  PROVE  injectAuthContext(q)["requestID"] = getRequestID(q)
<1> DEFINE ids  == <<q.requestID, q.correlationID, q.fcID>>
           good == {i \in DOMAIN ids : ids[i] # ""}
<1>1. q["requestID"] # "" /\ injectAuthContext(q)["requestID"] = q["requestID"]
  BY DEF injectAuthContext
<1>r. q["requestID"] = q.requestID
  BY Zenon
<1>i. DOMAIN ids = 1 .. 3 /\ ids[1] = q.requestID
  OBVIOUS
<1>v. ids[1] = q["requestID"] /\ ids[1] # ""
  BY <1>1, <1>r, <1>i, Zenon
<1>2. good \subseteq 1 .. 3 /\ 1 \in good
  <2>1. 1 \in 1 .. 3
    OBVIOUS
  <2> HIDE DEF ids
  <2> QED
    BY <1>i, <1>v, <2>1, Zenon
<1>3. getRequestID(q) = First(ids, good)
  BY DEF getRequestID
<1> HIDE DEF ids, good
<1>4. Min(good) = 1
  <2>1. \A i \in good : 1 <= i
    BY <1>2
  <2>2. \A i \in good : (\A j \in good : i <= j) => i = 1
    BY <1>2
  <2> QED
    BY <1>2, <2>1, <2>2 DEF Min
<1> QED
  BY <1>1, <1>2, <1>3, <1>4, <1>v DEF First

\* A reason is given exactly when the status is not 200.
Explained(code, why) == (why = "") = (code = 200)

\* A return writes an entry that says what it sends.
LEMMA ReturnTruthful ==
  ASSUME NEW code, NEW why, md = <<>> \/ md = injectAuthContext(r),
         Return(code, why), UNCHANGED <<r, method, md>>, Explained(code, why)
  PROVE  AuditInv'
<1> SUFFICES ASSUME r.audited PROVE AuditInv'
  BY DEF Return, AuditInv, MetadataSent, AuditTruthful
<1> DEFINE entry == [method |-> method, status |-> code, reason |-> why, id |-> getRequestID(r),
                     ip |-> getClientIP(r), body |-> IF r.torn THEN "" ELSE r.body.is]
<1>1. answer' = code /\ audit' = <<entry>> /\ pc' = "done"
  BY DEF Return, writeAuditLog
<1>2. "requestID" \in DOMAIN md => md["requestID"] = getRequestID(r)
  <2>1. CASE md = <<>>
    BY <2>1, NothingThere, Zenon
  <2>2. CASE md = injectAuthContext(r)
    BY <2>2, RequestIDs
  <2> QED
    BY <2>1, <2>2
<1>3. entry.status = code /\ entry.reason = why /\ entry.method = method /\ entry.id = getRequestID(r)
  OBVIOUS
<1> HIDE DEF entry
<1>4. Len(audit') = 1 /\ audit'[1] = entry
  BY <1>1
<1>5. (why = "") = (code = 200)
  BY DEF Explained
<1> QED
  BY <1>1, <1>2, <1>3, <1>4, <1>5 DEF AuditInv, MetadataSent, AuditTruthful

\* A panic answers nothing.
LEMMA PanicUnanswered ==
  ASSUME Panic
  PROVE  AuditInv'
  BY DEF Panic, AuditInv, MetadataSent, AuditTruthful

LEMMA AuditStep ==
  AuditInv /\ [Next]_vars => AuditInv'
<1> SUFFICES ASSUME AuditInv, [Next]_vars
             PROVE  AuditInv'
  OBVIOUS
<1>0. /\ pc \in {"idle", "find", "build", "path", "query"} => md = <<>>
      /\ pc \in {"invoke", "transform"} => md = injectAuthContext(r)
  BY DEF AuditInv, MetadataSent
<1>1. ASSUME NEW fds \in Descriptors, RegisterModule(fds)
      PROVE  AuditInv'
  BY <1>1 DEF RegisterModule, call, AuditInv, MetadataSent, AuditTruthful
<1>2. CASE UnregisterModule
  BY <1>2 DEF UnregisterModule, call, AuditInv, MetadataSent, AuditTruthful
<1>3. ASSUME NEW q \in Requests, Begin(q)
      PROVE  AuditInv'
  BY <1>3 DEF Begin, call, AuditInv, MetadataSent, AuditTruthful
<1>4. CASE NotFound
  <2>1. md = <<>> /\ UNCHANGED <<r, method, md>>
    BY <1>0, <1>4 DEF NotFound, call
  <2>2. Return(404, "MODULE_NOT_FOUND") \/ Return(404, "METHOD_NOT_FOUND")
    BY <1>4 DEF NotFound, writeError
  <2>3. Explained(404, "MODULE_NOT_FOUND") /\ Explained(404, "METHOD_NOT_FOUND")
    BY DEF Explained
  <2> QED
    BY <2>1, <2>2, <2>3, ReturnTruthful, Zenon
<1>5. CASE Find
  BY <1>5 DEF Find, AuditInv, MetadataSent, AuditTruthful
<1>6. CASE Streaming
  <2>1. md = <<>> /\ UNCHANGED <<r, method, md>> /\ Return(501, "STREAMING_NOT_SUPPORTED")
    BY <1>0, <1>6 DEF Streaming, writeError, call
  <2>2. Explained(501, "STREAMING_NOT_SUPPORTED")
    BY DEF Explained
  <2> QED
    BY <2>1, <2>2, ReturnTruthful, Zenon
<1>7. CASE BuildBody
  <2>1. CASE writeError(400, "BAD_REQUEST") /\ UNCHANGED <<r, call>>
    <3>1. md = <<>> /\ UNCHANGED <<r, method, md>> /\ Return(400, "BAD_REQUEST")
      BY <1>0, <1>7, <2>1 DEF BuildBody, writeError, call
    <3>2. Explained(400, "BAD_REQUEST")
      BY DEF Explained
    <3> QED
      BY <3>1, <3>2, ReturnTruthful, Zenon
  <2>2. CASE pc = "build" /\ pc' = "path" /\ UNCHANGED md
    BY <1>0, <2>2 DEF AuditInv, MetadataSent, AuditTruthful
  <2>3. CASE Panic
    BY <2>3, PanicUnanswered
  <2> QED
    BY <1>7, <2>1, <2>2, <2>3 DEF BuildBody
<1>8. CASE PathParamsSet \/ \E n \in left : SetPathParam(n) \/ SetQueryParam(n)
  BY <1>8 DEF PathParamsSet, SetPathParam, SetQueryParam, AuditInv, MetadataSent, AuditTruthful
<1>9. CASE InjectTenantID
  BY <1>9 DEF InjectTenantID, RequestBuilt, AuditInv, MetadataSent, AuditTruthful
<1>10. CASE InjectPanic \/ TransformPanics \/ \E n \in left : ParamPanics(n)
  BY <1>10, PanicUnanswered DEF InjectPanic, TransformPanics, ParamPanics
<1>11. ASSUME NEW code \in Codes, InvokeMethod(code)
       PROVE  AuditInv'
  <2>1. CASE code = "OK"
    BY <1>11, <2>1 DEF InvokeMethod, call, AuditInv, MetadataSent, AuditTruthful
  <2>2. CASE code # "OK"
    <3>0. \A c \in DOMAIN grpcCodeToHTTP : c # "OK" => grpcCodeToHTTP[c] # 200
      BY DEF grpcCodeToHTTP
    <3>1. TransformError(code) # 200
      BY <2>2, <3>0 DEF TransformError
    <3>c. code # ""
      BY TranscodeAssumption, Zenon
    <3>e. Explained(TransformError(code), code)
      BY <3>1, <3>c, Zenon DEF Explained
    <3>2. Return(TransformError(code), code) /\ UNCHANGED <<r, method, md>> /\ md = injectAuthContext(r)
      BY <1>0, <1>11, <2>2 DEF InvokeMethod, call
    <3> QED
      BY <3>2, <3>e, ReturnTruthful, Zenon
  <2> QED
    BY <2>1, <2>2
<1>12. CASE TransformResponse
  <2>1. md = <<>> \/ md = injectAuthContext(r)
    BY <1>0, <1>12 DEF TransformResponse
  <2>2. UNCHANGED <<r, method, md>>
    BY <1>12 DEF TransformResponse, call
  <2>3. Return(200, "") \/ Return(500, "RESPONSE_TRANSFORM_ERROR")
    BY <1>12 DEF TransformResponse, writeError
  <2>4. Explained(200, "")
    BY DEF Explained
  <2>5. Explained(500, "RESPONSE_TRANSFORM_ERROR")
    BY DEF Explained
  <2>6. CASE Return(200, "")
    BY <2>1, <2>2, <2>4, <2>6, ReturnTruthful, Zenon
  <2>7. CASE Return(500, "RESPONSE_TRANSFORM_ERROR")
    BY <2>1, <2>2, <2>5, <2>7, ReturnTruthful, Zenon
  <2> QED
    BY <2>3, <2>6, <2>7
<1>13. CASE End
  BY <1>13 DEF End, AuditInv, MetadataSent, AuditTruthful
<1>14. CASE UNCHANGED vars
  BY <1>14 DEF vars, AuditInv, MetadataSent, AuditTruthful
<1> QED
  BY <1>1, <1>2, <1>3, <1>4, <1>5, <1>6, <1>7, <1>8, <1>9, <1>10, <1>11, <1>12, <1>13, <1>14 DEF Next

\* On each of Handle's returns, whatever the module, the request and the outcome of
\* the call, the deferred entry says what the client was told.
THEOREM AuditSaysWhatWasSent ==
  Spec => []AuditTruthful
<1>1. Init => AuditInv
  BY DEF Init, AuditInv, MetadataSent, AuditTruthful
<1>2. AuditInv => AuditTruthful
  BY DEF AuditInv
<1> QED
  BY <1>1, <1>2, AuditStep, PTL DEF Spec

------------------------------------------------------------------------------
(* What the message says *)

IntKinds == {"int32", "int64", "uint32", "uint64"}

\* A number in an integer field is one of those written, unless it is converted.
AsWritten(type, f, v, W) ==
  (v.is = "num" /\ f.kind \in IntKinds /\ ~Converted(type, f)) => v \in W

LEMMA WrittenMore ==
  ASSUME NEW type, NEW f, NEW v, NEW W, NEW X, AsWritten(type, f, v, W), W \subseteq X
  PROVE  AsWritten(type, f, v, X)
  BY DEF AsWritten

\* What is no number is as it is written.
LEMMA NoNumber ==
  ASSUME NEW type, NEW f, NEW W
  PROVE  /\ AsWritten(type, f, Unset, W) /\ AsWritten(type, f, Present, W)
         /\ Stored(Present) = Present /\ Present # Unset
  BY DEF AsWritten, Unset, Present, Stored, Num, Txt, Many

\* What a text gives to a field of its own kind: a message for the well-known types, and
\* a number that is written for the integers.
LEMMA ParsedSingle ==
  ASSUME NEW kind, NEW text, NEW v \in parseSingleValue(kind, text)
  PROVE  /\ kind \in WellKnown => v.is = "parts"
         /\ kind \notin WellKnown => v.is # "parts"
         /\ kind # "message"
         /\ kind \in IntKinds => v \in Read(Lexicon.num, text)
         /\ kind = "StringValue" => v = Wrap(Txt(text))
         /\ kind = "Int64Value" => \E w \in Read(Lexicon.num, text) : v = Wrap(w)
<1>1. \A a, b : Within(text, a, b) \subseteq Read(Lexicon.num, text)
  BY DEF Within
<1>2. \A w : (SInt(text, w) \cup UInt(text, w)) \subseteq Read(Lexicon.num, text)
  BY <1>1 DEF SInt, UInt
<1>3. \A table : \A w \in Read(table, text) : w.is = "num"
  BY DEF Read, Num
<1>w. \A w : Wrap(w).is = "parts"
  BY DEF Wrap, Parts
<1>4. CASE kind \in IntKinds
  <2>1. v \in Read(Lexicon.num, text)
    BY <1>2, <1>4 DEF parseSingleValue, IntKinds
  <2> QED
    BY <1>3, <1>4, <2>1 DEF IntKinds, WellKnown
<1>5. CASE kind = "text"
  <2>1. v = Txt(text)
    BY <1>5 DEF parseSingleValue
  <2> QED
    BY <1>5, <2>1 DEF Txt, IntKinds, WellKnown
<1>6. CASE kind \in {"bool", "float"}
  <2>1. v \in Read(Lexicon[kind], text)
    BY <1>6 DEF parseSingleValue
  <2> QED
    BY <1>3, <1>6, <2>1 DEF IntKinds, WellKnown
<1>7. CASE kind = "enum"
  <2>1. v \in SInt(text, Width32) \/ v \in Read(Lexicon.enum, text)
    BY <1>7 DEF parseSingleValue
  <2> QED
    BY <1>2, <1>3, <1>7, <2>1 DEF IntKinds, WellKnown
<1>8. CASE kind = "StringValue"
  <2>1. v = Wrap(Txt(text))
    BY <1>8 DEF parseSingleValue
  <2> QED
    BY <1>w, <1>8, <2>1 DEF IntKinds, WellKnown
<1>9. CASE kind = "Int64Value"
  <2>1. \E w \in SInt(text, Width64) : v = Wrap(w)
    BY <1>9 DEF parseSingleValue
  <2>2. \E w \in Read(Lexicon.num, text) : v = Wrap(w)
    BY <1>2, <2>1
  <2> QED
    BY <1>w, <1>9, <2>2 DEF IntKinds, WellKnown
<1>10. CASE kind \in {"Int32Value", "BoolValue"}
  <2>1. \E w : v = Wrap(w)
    BY <1>10 DEF parseSingleValue
  <2> QED
    BY <1>w, <1>10, <2>1 DEF IntKinds, WellKnown
<1>11. CASE kind = "Timestamp"
  <2>1. \E p : v = Parts(p)
    BY <1>11 DEF parseSingleValue
  <2> QED
    BY <1>11, <2>1 DEF IntKinds, WellKnown, Parts
<1>12. CASE kind \notin IntKinds \union WellKnown \union {"text", "bool", "float", "enum"}
  BY <1>12 DEF parseSingleValue, IntKinds, WellKnown
<1> QED
  BY <1>4, <1>5, <1>6, <1>7, <1>8, <1>9, <1>10, <1>11, <1>12 DEF WellKnown

\* Only a text for a field of a well-known type makes a message.
LEMMA ParsedParts ==
  ASSUME NEW f, NEW text, NEW v \in parseStringValue(f, text)
  PROVE  /\ f.list => v.is = "list"
         /\ ~f.list => v \in parseSingleValue(f.kind, text)
         /\ (v.is = "parts") = (~f.list /\ f.kind \in WellKnown)
<1>1. CASE f.list
  <2>1. v.is = "list"
    BY <1>1 DEF parseStringValue, Many
  <2> QED
    BY <1>1, <2>1
<1>2. CASE ~f.list
  <2>1. v \in parseSingleValue(f.kind, text)
    BY <1>2 DEF parseStringValue
  <2> QED
    BY <1>2, <2>1, ParsedSingle
<1> QED
  BY <1>1, <1>2

\* What a text for field f makes of f, or of a field inside of it.
LEMMA ParsedPart ==
  ASSUME NEW type \in DOMAIN Fields, NEW f \in Fields[type], NEW g \in Fields[type], NEW text,
         NEW v \in parseStringValue(f, text), Touches(f, v, g)
  PROVE  /\ AsWritten(type, g, Part(f, v, g), Read(Lexicon.num, text))
         /\ (g.kind \in MessageKinds /\ ~g.list) => Part(f, v, g) # Unset
<1> DEFINE W == Read(Lexicon.num, text)
<1>0. \A x : Stored(x) \in {x, Unset}
  BY DEF Stored
<1>u. AsWritten(type, g, Unset, W)
  BY NoNumber
<1>1. CASE v.is # "parts"
  <2>1. g = f /\ Part(f, v, g) = Stored(v)
    BY <1>1 DEF Touches, Part
  <2>2. ~(g.kind \in MessageKinds /\ ~g.list)
    <3>1. SUFFICES ASSUME g.kind \in MessageKinds, ~g.list PROVE FALSE
      OBVIOUS
    <3>2. v \in parseSingleValue(f.kind, text) /\ f.kind \notin WellKnown
      BY <1>1, <2>1, <3>1, ParsedParts
    <3>3. f.kind # "message"
      BY <3>2, ParsedSingle
    <3> QED
      BY <2>1, <3>1, <3>2, <3>3 DEF MessageKinds
  <2>3. AsWritten(type, g, v, W)
    <3>1. CASE f.list
      <4>1. v.is = "list"
        BY <3>1, ParsedParts
      <4> QED
        BY <4>1 DEF AsWritten
    <3>2. CASE ~f.list
      <4>1. v \in parseSingleValue(f.kind, text)
        BY <3>2, ParsedParts
      <4>2. f.kind \in IntKinds => v \in W
        BY <4>1, ParsedSingle
      <4> QED
        BY <2>1, <4>2 DEF AsWritten
    <3> QED
      BY <3>1, <3>2
  <2>4. Part(f, v, g) \in {v, Unset}
    BY <1>0, <2>1
  <2> QED
    BY <1>u, <2>2, <2>3, <2>4
<1>2. CASE v.is = "parts" /\ g = f
  <2>1. Part(f, v, g) = Stored(Present)
    BY <1>2 DEF Part
  <2> QED
    BY <2>1, NoNumber
<1>3. CASE v.is = "parts" /\ g # f
  <2>1. f.kind \in WellKnown /\ v \in parseSingleValue(f.kind, text)
    BY <1>3, ParsedParts
  <2>2. Inside(g, f)
    BY <1>3 DEF Touches
  <2>3. g.kind \notin MessageKinds /\ (f.kind = "BoolValue" => g.kind = "bool")
    BY <2>1, <2>2, FieldsAssumption
  <2> DEFINE x == IF Last(g.at) \in DOMAIN v.parts THEN v.parts[Last(g.at)] ELSE Unset
  <2>4. Part(f, v, g) = Stored(x)
    BY <1>3 DEF Part
  <2>5. \A w : v = Wrap(w) => x \in {w, Unset}
    <3> SUFFICES ASSUME NEW w, v = Wrap(w) PROVE x \in {w, Unset}
      OBVIOUS
    <3>1. v.parts = [n \in {"value"} |-> w]
      BY DEF Wrap, Parts
    <3> QED
      BY <3>1
  <2> HIDE DEF x
  <2>6. AsWritten(type, g, x, W)
    <3>1. CASE f.kind \in {"Int32Value", "Timestamp"}
      BY <2>2, <3>1 DEF AsWritten, Converted
    <3>2. CASE f.kind = "BoolValue"
      BY <2>3, <3>2 DEF AsWritten, IntKinds
    <3>3. CASE f.kind = "StringValue"
      <4>1. x \in {Txt(text), Unset}
        BY <2>1, <2>5, <3>3, ParsedSingle
      <4> QED
        BY <1>u, <4>1 DEF AsWritten, Txt
    <3>4. CASE f.kind = "Int64Value"
      <4>1. PICK w \in W : v = Wrap(w)
        BY <2>1, <3>4, ParsedSingle
      <4>2. x \in {w, Unset}
        BY <2>5, <4>1
      <4> QED
        BY <1>u, <4>1, <4>2 DEF AsWritten
    <3> QED
      BY <2>1, <3>1, <3>2, <3>3, <3>4 DEF WellKnown
  <2>7. Part(f, v, g) \in {x, Unset}
    BY <1>0, <2>4
  <2> QED
    BY <1>u, <2>3, <2>6, <2>7
<1> QED
  BY <1>1, <1>2, <1>3

\* The values a text under a name gives to a field.
Values(type, g, n, text) ==
  UNION { {Part(f, v, g) : v \in {w \in parseStringValue(f, text) : Touches(f, w, g)}} :
          f \in Target(type, n) }

LEMMA ValuesAsWritten ==
  ASSUME NEW type \in DOMAIN Fields, NEW g \in Fields[type], NEW n, NEW text,
         NEW x \in Values(type, g, n, text)
  PROVE  /\ AsWritten(type, g, x, Read(Lexicon.num, text))
         /\ (g.kind \in MessageKinds /\ ~g.list) => x # Unset
<1>1. PICK f \in Target(type, n) : x \in {Part(f, v, g) : v \in {w \in parseStringValue(f, text) : Touches(f, w, g)}}
  BY DEF Values
<1>2. PICK v \in parseStringValue(f, text) : Touches(f, v, g) /\ x = Part(f, v, g)
  BY <1>1
<1>3. f \in Fields[type]
  BY DEF Target
<1> QED
  BY <1>2, <1>3, ParsedPart

\* A message that is created on the way to another field.
Created(f, v, w) == v = Unset /\ f.kind \in MessageKinds /\ ~f.list /\ w = Present

\* Setting a field by its name gives it one of these values, if there are any; to the
\* other fields nothing happens, except that messages on the way are created.
LEMMA SetByPath ==
  ASSUME NEW m, NEW type, NEW n, NEW text, NEW g \in DOMAIN m, ~PathPanics(type, n)
  PROVE  LET s == setFieldByPath(m, type, n, text)
             vals == Values(type, g, n, text)
         IN  /\ DOMAIN s = DOMAIN m
             /\ vals = {} => s[g] = m[g] \/ Created(g, m[g], s[g])
             /\ vals # {} => s[g] \in vals
<1> DEFINE made == [f \in DOMAIN m |-> IF f \in Over(type, n) /\ m[f] = Unset THEN Present ELSE m[f]]
           all  == {f \in Target(type, n) : parseStringValue(f, text) # {}}
           val(f) == CHOOSE v \in parseStringValue(f, text) : TRUE
           sets == {Set(made, f, val(f)) : f \in all}
           s    == setFieldByPath(m, type, n, text)
           vals == Values(type, g, n, text)
<1>1. s = IF sets = {} THEN made ELSE CHOOSE t \in sets : TRUE
  BY DEF setFieldByPath
<1>2. DOMAIN made = DOMAIN m /\ (made[g] = m[g] \/ Created(g, m[g], made[g]))
  <2>1. g \in Over(type, n) => g.kind \in MessageKinds /\ ~g.list
    BY DEF Over, PathPanics
  <2> QED
    BY <2>1 DEF Created
<1>3. \A f, v : /\ DOMAIN Set(made, f, v) = DOMAIN m
                /\ Set(made, f, v)[g] = IF Touches(f, v, g) THEN Part(f, v, g) ELSE made[g]
  <2> HIDE DEF made
  <2> QED
    BY <1>2 DEF Set
<1>4. \A e, f \in Target(type, n) : e = f
  BY DEF Target
<1> HIDE DEF made, s
<1>5. CASE sets = {}
  <2>1. all = {}
    BY <1>5
  <2>2. vals = {}
    BY <2>1 DEF Values
  <2> QED
    BY <1>1, <1>2, <1>5, <2>2 DEF s
<1>6. CASE sets # {}
  <2>1. PICK f \in all : s = Set(made, f, val(f))
    BY <1>1, <1>6
  <2>2. f \in Target(type, n) /\ val(f) \in parseStringValue(f, text)
    BY <2>1
  <2> DEFINE v == val(f)
  <2>3. DOMAIN s = DOMAIN m /\ s[g] = IF Touches(f, v, g) THEN Part(f, v, g) ELSE made[g]
    BY <1>3, <2>1
  <2>v. v \in parseStringValue(f, text)
    BY <2>2
  <2> HIDE DEF v
  <2>4. CASE Touches(f, v, g)
    <3>1. s[g] \in vals
      BY <2>2, <2>3, <2>v, <2>4 DEF Values
    <3> QED
      BY <2>3, <3>1 DEF s
  <2>5. CASE ~Touches(f, v, g)
    <3>1. \A w \in parseStringValue(f, text) : ~Touches(f, w, g)
      <4> SUFFICES ASSUME NEW w \in parseStringValue(f, text) PROVE ~Touches(f, w, g)
        OBVIOUS
      <4>1. (v.is = "parts") = (w.is = "parts")
        <5>1. (v.is = "parts") = (~f.list /\ f.kind \in WellKnown)
          BY <2>v, ParsedParts
        <5>2. (w.is = "parts") = (~f.list /\ f.kind \in WellKnown)
          BY ParsedParts
        <5> QED
          BY <5>1, <5>2
      <4> QED
        BY <2>5, <4>1 DEF Touches
    <3>2. vals = {}
      BY <1>4, <2>2, <3>1 DEF Values
    <3> QED
      BY <1>2, <2>3, <2>5, <3>2 DEF s
  <2> QED
    BY <2>4, <2>5
<1> QED
  BY <1>5, <1>6

\* The parameters BuildRequest has come to, what it takes of a body that came whole, and
\* the numbers that are written anywhere in the request.
PathDone  == IF pc = "path" THEN DOMAIN params \ left ELSE DOMAIN params
QueryDone == IF pc = "path" THEN {} ELSE (DOMAIN r.query \ left) \ DOMAIN params
WholeBody == IF r.body.is = "obj" /\ r.sized /\ ~r.torn THEN FromBody(method.in, rule, r.body) ELSE {}
Written   == Numbers(params) \union Numbers(r.query) \union Numbers(BodyTexts)

\* What value v of field f has to do with what the parameters so far, and the body of
\* request q, gave it.
FieldFaithful(q, byBody, type, f, v, byPath, byQuery, W) ==
  /\ (byPath # {} /\ byQuery = {}) => v \in byPath
  /\ byQuery # {} => v \in byQuery
  /\ byPath \union byQuery = {} =>
       /\ \A b \in byBody : b[f] \in {Unset, v}
       /\ ((q.body.is = "none" \/ ~q.sized) /\ f.kind \notin MessageKinds) => v = Unset
  /\ AsWritten(type, f, v, W)

\* Between two turns of BuildRequest's loops the message says of every field what the
\* parameters so far say; the methods of the module take messages that are known.
MessageInv ==
  /\ \A m \in ListMethods(parsed) : m.in \in DOMAIN Fields
  /\ pc \in {"build", "path", "query"} => method.in \in DOMAIN Fields
  /\ pc = "path" => left \subseteq DOMAIN params
  /\ pc = "query" => left \subseteq DOMAIN r.query
  /\ pc \in {"path", "query"} =>
       /\ DOMAIN msg = Fields[method.in]
       /\ \A f \in DOMAIN msg :
            FieldFaithful(r, WholeBody, method.in, f, msg[f], Given(method.in, f, params, PathDone),
                          Given(method.in, f, r.query, QueryDone), Written)
  /\ MessageFaithful

\* A message that may be created on the way is set by what gives it a value.
LEMMA GivenIsSet ==
  ASSUME NEW type \in DOMAIN Fields, NEW g \in Fields[type], NEW texts, NEW S,
         g.kind \in MessageKinds, ~g.list
  PROVE  Unset \notin Given(type, g, texts, S)
<1>1. \A n : Unset \notin Values(type, g, n, texts[n])
  BY ValuesAsWritten
<1>2. Given(type, g, texts, S) = UNION {Values(type, g, k, texts[k]) : k \in S}
  BY DEF Given, Values
<1> QED
  BY <1>1, <1>2

\* A field that a parameter does not name stays as faithful as it was, also if it is
\* a message that is created on the way.
LEMMA NotNamed ==
  ASSUME NEW q, NEW B, NEW type, NEW f, NEW v, NEW w, NEW P, NEW Q, NEW W,
         FieldFaithful(q, B, type, f, v, P, Q, W),
         w = v \/ (Created(f, v, w) /\ Unset \notin P /\ Unset \notin Q)
  PROVE  FieldFaithful(q, B, type, f, w, P, Q, W)
<1>1. CASE w = v
  BY <1>1
<1>2. CASE Created(f, v, w) /\ Unset \notin P /\ Unset \notin Q
  <2>1. AsWritten(type, f, w, W)
    BY <1>2, NoNumber DEF Created
  <2> QED
    BY <1>2, <2>1 DEF FieldFaithful, Created
<1> QED
  BY <1>1, <1>2

\* A field that a parameter of the path, or then one of the query, names is as
\* faithful to it.
LEMMA NamedByPath ==
  ASSUME NEW q, NEW B, NEW type, NEW f, NEW P, NEW V, NEW v \in V, NEW W, AsWritten(type, f, v, W)
  PROVE  FieldFaithful(q, B, type, f, v, P \union V, {}, W)
  BY DEF FieldFaithful

LEMMA NamedByQuery ==
  ASSUME NEW q, NEW B, NEW type, NEW f, NEW P, NEW Q, NEW V, NEW v \in V, NEW W, AsWritten(type, f, v, W)
  PROVE  FieldFaithful(q, B, type, f, v, P, Q \union V, W)
  BY DEF FieldFaithful

\* A JSON object that a message takes gives its fields values as they are written.
LEMMA UnmarshalFaithful ==
  ASSUME NEW type \in DOMAIN Fields, NEW parent, NEW obj, NEW s \in Unmarshal(type, parent, obj)
  PROVE  /\ Unmarshal(type, parent, obj) = {s}
         /\ DOMAIN s = Fields[type]
         /\ \A g \in DOMAIN s : AsWritten(type, g, s[g], Numbers(obj))
<1> DEFINE fs == Children(type, parent)
           named(k) == IF ByJSONName(fs, k) # {} THEN ByJSONName(fs, k) ELSE ByName(fs, k)
           field(k) == CHOOSE f \in named(k) : TRUE
           vals(k)  == parseStringValue(field(k), obj[k])
           val(k)   == CHOOSE v \in vals(k) : TRUE
           keys(g)  == {k \in DOMAIN obj : Touches(field(k), val(k), g)}
           res      == [g \in Fields[type] |->
                          IF keys(g) = {} THEN Unset
                          ELSE LET k == CHOOSE x \in keys(g) : TRUE IN Part(field(k), val(k), g)]
<1>1. /\ Unmarshal(type, parent, obj) = {res} /\ s = res
      /\ \A k \in DOMAIN obj : named(k) # {} /\ vals(k) # {}
  BY DEF Unmarshal
<1>2. ASSUME NEW g \in Fields[type]
      PROVE  AsWritten(type, g, res[g], Numbers(obj))
  <2>1. CASE keys(g) = {}
    <3>1. res[g] = Unset
      BY <2>1
    <3> QED
      BY <3>1, NoNumber
  <2>2. CASE keys(g) # {}
    <3> DEFINE k == CHOOSE x \in keys(g) : TRUE
    <3>1. k \in keys(g)
      BY <2>2
    <3>2. k \in DOMAIN obj /\ Touches(field(k), val(k), g)
      BY <3>1
    <3>3. res[g] = Part(field(k), val(k), g)
      BY <2>2
    <3>4. named(k) # {} /\ vals(k) # {}
      BY <1>1, <3>2, Zenon
    <3> HIDE DEF k
    <3>5. field(k) \in Fields[type]
      <4>1. field(k) \in named(k)
        BY <3>4
      <4> QED
        BY <4>1 DEF Children, ByJSONName, ByName
    <3>6. val(k) \in parseStringValue(field(k), obj[k])
      BY <3>4
    <3> DEFINE f == field(k)
               v == val(k)
    <3>7. f \in Fields[type] /\ v \in parseStringValue(f, obj[k]) /\ Touches(f, v, g) /\ res[g] = Part(f, v, g)
      BY <3>2, <3>3, <3>5, <3>6
    <3> HIDE DEF f, v, res
    <3>8. AsWritten(type, g, Part(f, v, g), Read(Lexicon.num, obj[k]))
      BY <3>7, ParsedPart
    <3>9. Read(Lexicon.num, obj[k]) \subseteq Numbers(obj)
      BY <3>2 DEF Numbers
    <3> QED
      BY <3>7, <3>8, <3>9, WrittenMore
  <2> QED
    BY <2>1, <2>2
<1>3. DOMAIN res = Fields[type]
  OBVIOUS
<1> HIDE DEF res
<1> QED
  BY <1>1, <1>2, <1>3

\* The texts of a body under a rule.
Texts(ru, body) ==
  IF body.is # "obj" THEN <<>> ELSE IF ru.body = "*" THEN body.obj ELSE reMarshal(body.obj)

\* A body gives one message or none, with numbers as they are written; no body gives
\* an empty one.
LEMMA BodyFaithful ==
  ASSUME NEW type \in DOMAIN Fields, NEW ru, NEW body, NEW m \in FromBody(type, ru, body)
  PROVE  /\ FromBody(type, ru, body) = {m} /\ DOMAIN m = Fields[type]
         /\ \A f \in DOMAIN m : /\ AsWritten(type, f, m[f], Numbers(Texts(ru, body)))
                                /\ body.is = "none" => m[f] = Unset
<1>1. CASE body.is = "none" \/ ru.body = ""
  <2>1. FromBody(type, ru, body) = {Empty(type)}
    BY <1>1 DEF FromBody
  <2>2. DOMAIN Empty(type) = Fields[type] /\ \A f \in DOMAIN Empty(type) : Empty(type)[f] = Unset
    BY DEF Empty
  <2> QED
    BY <2>1, <2>2, NoNumber
<1>2. CASE ~(body.is = "none" \/ ru.body = "") /\ body.is = "obj" /\ ru.body = "*"
  <2>1. FromBody(type, ru, body) = Unmarshal(type, <<>>, body.obj) /\ Texts(ru, body) = body.obj
    BY <1>2 DEF FromBody, Texts
  <2> QED
    BY <1>2, <2>1, UnmarshalFaithful
<1>3. CASE ~(body.is = "none" \/ ru.body = "") /\ body.is = "obj" /\ ru.body # "*"
  <2> DEFINE found == findField(type, <<>>, ru.body)
             f     == CHOOSE g \in found : TRUE
             obj   == reMarshal(body.obj)
             all   == Unmarshal(type, f.at, obj)
             full(s) == [s EXCEPT ![f] = Present]
  <2>1. FromBody(type, ru, body) = setField(type, ru.body, body.obj) /\ Texts(ru, body) = obj
    BY <1>3 DEF FromBody, Texts
  <2>2. FromBody(type, ru, body) = {full(s) : s \in all}
    BY <2>1 DEF setField, convertToProtoValue
  <2>3. PICK s \in all : m = full(s)
    BY <2>2
  <2>4. all = {s} /\ DOMAIN s = Fields[type] /\ \A g \in DOMAIN s : AsWritten(type, g, s[g], Numbers(obj))
    BY <2>3, UnmarshalFaithful
  <2>5. \A x \in FromBody(type, ru, body) : x = m
    BY <2>2, <2>3, <2>4, Zenon
  <2>6. FromBody(type, ru, body) = {m}
    BY <2>5, Zenon
  <2> HIDE DEF f, obj, all
  <2>7. DOMAIN m = DOMAIN s /\ \A g \in DOMAIN m : m[g] \in {Present, s[g]}
    BY <2>3
  <2>8. \A g \in DOMAIN m : AsWritten(type, g, m[g], Numbers(obj))
    BY <2>4, <2>7, NoNumber
  <2> QED
    BY <1>3, <2>1, <2>4, <2>6, <2>7, <2>8
<1>4. CASE ~(body.is = "none" \/ ru.body = "") /\ body.is # "obj"
  BY <1>4 DEF FromBody
<1> QED
  BY <1>1, <1>2, <1>3, <1>4

\* One turn of either loop keeps every field faithful.
LEMMA TurnFaithful ==
  ASSUME NEW q, NEW B, NEW m, NEW type \in DOMAIN Fields, DOMAIN m = Fields[type], NEW n, NEW text,
         NEW f \in DOMAIN m, NEW P, NEW Q, NEW W, ~PathPanics(type, n),
         FieldFaithful(q, B, type, f, m[f], P, Q, W), Read(Lexicon.num, text) \subseteq W,
         f.kind \notin MessageKinds \/ f.list \/ (Unset \notin P /\ Unset \notin Q)
  PROVE  LET s == setFieldByPath(m, type, n, text)
             V == Values(type, f, n, text)
         IN  /\ FieldFaithful(q, B, type, f, s[f], P, Q \union V, W)
             /\ Q = {} => FieldFaithful(q, B, type, f, s[f], P \union V, {}, W)
<1> DEFINE s == setFieldByPath(m, type, n, text)
           V == Values(type, f, n, text)
<1>1. /\ V = {} => s[f] = m[f] \/ Created(f, m[f], s[f])
      /\ V # {} => s[f] \in V
  BY SetByPath
<1>2. \A v \in V : AsWritten(type, f, v, W)
  <2> SUFFICES ASSUME NEW v \in V PROVE AsWritten(type, f, v, W)
    OBVIOUS
  <2>1. AsWritten(type, f, v, Read(Lexicon.num, text))
    BY ValuesAsWritten
  <2> QED
    BY <2>1, WrittenMore
<1> HIDE DEF s, V
<1>3. CASE V = {}
  <2>0. s[f] = m[f] \/ (Created(f, m[f], s[f]) /\ Unset \notin P /\ Unset \notin Q)
    BY <1>1, <1>3 DEF Created
  <2>1. FieldFaithful(q, B, type, f, s[f], P, Q, W)
    BY <2>0, NotNamed
  <2>2. P \union V = P /\ Q \union V = Q
    BY <1>3
  <2> QED
    BY <2>1, <2>2 DEF s, V
<1>4. CASE V # {}
  <2>1. s[f] \in V /\ AsWritten(type, f, s[f], W)
    BY <1>1, <1>2, <1>4
  <2>2. FieldFaithful(q, B, type, f, s[f], P, Q \union V, W)
    BY <2>1, NamedByQuery
  <2>3. FieldFaithful(q, B, type, f, s[f], P \union V, {}, W)
    BY <2>1, NamedByPath
  <2> QED
    BY <2>2, <2>3 DEF s, V
<1> QED
  BY <1>3, <1>4

\* The message that comes out of the body is faithful to it.
LEMMA BodyStep ==
  ASSUME MessageInv, BuildBody, pc' = "path"
  PROVE  MessageInv'
<1>1. /\ pc = "build" /\ method.in \in DOMAIN Fields /\ left' = DOMAIN params
      /\ UNCHANGED <<parsed, r, method, params, rule>>
  BY DEF BuildBody, MessageInv, writeError, Return, Panic
<1>2. PICK body \in ReadBody(r) : msg' \in Built(body)
  BY DEF BuildBody, writeError, Return, Panic
<1>3. msg' \in FromBody(method.in, rule, body) /\ body # Torn
  BY <1>2 DEF Built
<1>4. /\ FromBody(method.in, rule, body) = {msg'} /\ DOMAIN msg' = Fields[method.in]
      /\ \A f \in DOMAIN msg' : /\ AsWritten(method.in, f, msg'[f], Numbers(Texts(rule, body)))
                                /\ body.is = "none" => msg'[f] = Unset
  BY <1>1, <1>3, BodyFaithful
<1>5. /\ (r.body.is = "none" \/ ~r.sized) => body.is = "none"
      /\ (r.body.is = "obj" /\ r.sized /\ ~r.torn) => body = r.body
      /\ body.is = "none" \/ body = r.body
  BY <1>3 DEF ReadBody, NoBody
<1>6. \A b \in WholeBody : b = msg'
  BY <1>4, <1>5 DEF WholeBody
<1>7. PathDone' = {} /\ QueryDone' = {} /\ WholeBody' = WholeBody /\ Written' = Written
  BY <1>1 DEF PathDone, QueryDone, WholeBody, Written, BodyTexts
<1>8. \A f, t : Given(method.in, f, t, {}) = {}
  BY DEF Given
<1>w. \A f \in DOMAIN msg' : AsWritten(method.in, f, msg'[f], Written)
  <2>1. CASE body.is = "none"
    BY <1>4, <2>1, NoNumber
  <2>2. CASE body = r.body
    <3>1. Texts(rule, body) = BodyTexts
      BY <2>2 DEF Texts, BodyTexts
    <3>2. Numbers(Texts(rule, body)) \subseteq Written
      BY <3>1 DEF Written
    <3> QED
      BY <1>4, <3>2, WrittenMore
  <2> QED
    BY <1>5, <2>1, <2>2
<1>9. \A f \in DOMAIN msg' : FieldFaithful(r, WholeBody, method.in, f, msg'[f], {}, {}, Written)
  BY <1>4, <1>5, <1>6, <1>w DEF FieldFaithful
<1> QED
  BY <1>1, <1>4, <1>7, <1>8, <1>9 DEF MessageInv, MessageFaithful

\* A parameter of the path that has been set counts among those that were.
LEMMA PathTurn ==
  ASSUME MessageInv, NEW n \in left, SetPathParam(n)
  PROVE  MessageInv'
<1>1. /\ pc = "path" /\ left \subseteq DOMAIN params /\ left' = left \ {n} /\ ~PathPanics(method.in, n)
      /\ msg' = setFieldByPath(msg, method.in, n, params[n])
      /\ UNCHANGED <<parsed, pc, r, method, params, rule>>
      /\ method.in \in DOMAIN Fields /\ DOMAIN msg = Fields[method.in]
  BY DEF SetPathParam, MessageInv
<1>2. /\ PathDone' = PathDone \union {n} /\ QueryDone' = {} /\ QueryDone = {}
      /\ WholeBody' = WholeBody /\ Written' = Written
  BY <1>1 DEF PathDone, QueryDone, WholeBody, Written, BodyTexts
<1>3. \A f, t : Given(method.in, f, t, {}) = {}
  BY DEF Given
<1>d. DOMAIN msg' = DOMAIN msg
  BY <1>1, SetByPath DEF setFieldByPath, Set
<1>w. Read(Lexicon.num, params[n]) \subseteq Written
  BY <1>1 DEF Written, Numbers
<1>4. ASSUME NEW f \in DOMAIN msg
      PROVE  FieldFaithful(r, WholeBody, method.in, f, msg'[f], Given(method.in, f, params, PathDone'), {}, Written)
  <2>2. FieldFaithful(r, WholeBody, method.in, f, msg[f], Given(method.in, f, params, PathDone), {}, Written)
    BY <1>1, <1>2, <1>3, <1>4 DEF MessageInv
  <2>3. f.kind \notin MessageKinds \/ f.list \/ Unset \notin Given(method.in, f, params, PathDone)
    BY <1>1, <1>4, GivenIsSet
  <2>4. FieldFaithful(r, WholeBody, method.in, f, msg'[f],
          Given(method.in, f, params, PathDone) \union Values(method.in, f, n, params[n]), {}, Written)
    BY <1>1, <1>4, <1>w, <2>2, <2>3, TurnFaithful
  <2>5. Given(method.in, f, params, PathDone') =
          Given(method.in, f, params, PathDone) \union Values(method.in, f, n, params[n])
    <3>1. \A S : Given(method.in, f, params, S) = UNION {Values(method.in, f, k, params[k]) : k \in S}
      BY DEF Given, Values
    <3> QED
      BY <1>2, <3>1
  <2> QED
    BY <2>4, <2>5
<1> QED
  BY <1>1, <1>2, <1>3, <1>4, <1>d DEF MessageInv, MessageFaithful

\* So does a parameter of the query, or else it has the name of one of the path.
LEMMA QueryTurn ==
  ASSUME MessageInv, NEW n \in left, SetQueryParam(n)
  PROVE  MessageInv'
<1>1. /\ pc = "query" /\ left \subseteq DOMAIN r.query /\ left' = left \ {n}
      /\ msg' = IF n \in DOMAIN params THEN msg ELSE setFieldByPath(msg, method.in, n, r.query[n])
      /\ UNCHANGED <<parsed, pc, r, method, params, rule>>
      /\ n \in DOMAIN params \/ ~PathPanics(method.in, n)
      /\ method.in \in DOMAIN Fields /\ DOMAIN msg = Fields[method.in]
  BY DEF SetQueryParam, MessageInv
<1>2. PathDone' = PathDone /\ WholeBody' = WholeBody /\ Written' = Written
  BY <1>1 DEF PathDone, WholeBody, Written, BodyTexts
<1>3. QueryDone' = IF n \in DOMAIN params THEN QueryDone ELSE QueryDone \union {n}
  BY <1>1 DEF QueryDone
<1>d. DOMAIN msg' = DOMAIN msg
  BY <1>1, SetByPath DEF setFieldByPath, Set
<1>w. Read(Lexicon.num, r.query[n]) \subseteq Written
  BY <1>1 DEF Written, Numbers
<1>4. ASSUME NEW f \in DOMAIN msg
      PROVE  FieldFaithful(r, WholeBody, method.in, f, msg'[f], Given(method.in, f, params, PathDone),
                           Given(method.in, f, r.query, QueryDone'), Written)
  <2> DEFINE P == Given(method.in, f, params, PathDone)
             Q == Given(method.in, f, r.query, QueryDone)
  <2>2. FieldFaithful(r, WholeBody, method.in, f, msg[f], P, Q, Written)
    BY <1>1, <1>4 DEF MessageInv
  <2>3. f.kind \notin MessageKinds \/ f.list \/ (Unset \notin P /\ Unset \notin Q)
    BY <1>1, <1>4, GivenIsSet
  <2>4. CASE n \in DOMAIN params
    BY <1>1, <1>3, <2>2, <2>4
  <2>5. CASE n \notin DOMAIN params
    <3>1. /\ msg' = setFieldByPath(msg, method.in, n, r.query[n]) /\ QueryDone' = QueryDone \union {n}
          /\ ~PathPanics(method.in, n)
      BY <1>1, <1>3, <2>5
    <3>2. Given(method.in, f, r.query, QueryDone') = Q \union Values(method.in, f, n, r.query[n])
      <4>1. \A S : Given(method.in, f, r.query, S) = UNION {Values(method.in, f, k, r.query[k]) : k \in S}
        BY DEF Given, Values
      <4> QED
        BY <3>1, <4>1
    <3> HIDE DEF P, Q
    <3>3. FieldFaithful(r, WholeBody, method.in, f, msg'[f], P, Q \union Values(method.in, f, n, r.query[n]), Written)
      BY <1>1, <1>4, <1>w, <2>2, <2>3, <3>1, TurnFaithful
    <3> QED
      BY <3>2, <3>3 DEF P
  <2> QED
    BY <2>4, <2>5
<1> QED
  BY <1>1, <1>2, <1>4, <1>d DEF MessageInv, MessageFaithful

\* Between the loops nothing is lost.
LEMMA LoopsTurn ==
  ASSUME MessageInv, PathParamsSet
  PROVE  MessageInv'
<1>1. /\ pc = "path" /\ left = {} /\ left' = DOMAIN r.query /\ pc' = "query"
      /\ UNCHANGED <<parsed, r, method, params, rule, msg>>
  BY DEF PathParamsSet
<1>2. PathDone' = PathDone /\ QueryDone' = QueryDone /\ WholeBody' = WholeBody /\ Written' = Written
  BY <1>1 DEF PathDone, QueryDone, WholeBody, Written, BodyTexts
<1> QED
  BY <1>1, <1>2 DEF MessageInv, MessageFaithful

\* The tenant goes only where nothing else has put a value.
LEMMA TenantStep ==
  ASSUME MessageInv, InjectTenantID
  PROVE  MessageInv'
<1>1. /\ pc = "query" /\ left = {} /\ pc' = "invoke"
      /\ UNCHANGED <<parsed, r, method, params, rule>>
      /\ msg' = [f \in DOMAIN msg |-> IF f \in TenantFieldUnset THEN Num(r.tenant) ELSE msg[f]]
  BY DEF InjectTenantID, RequestBuilt
<1>2. TenantField' = TenantField /\ WholeBody' = WholeBody /\ Written' = Written
  BY <1>1 DEF TenantField, WholeBody, Written, BodyTexts
<1>3. PathDone = DOMAIN params /\ QueryDone = DOMAIN r.query \ DOMAIN params
  BY <1>1 DEF PathDone, QueryDone
<1>4. MessageFaithful'
  <2> SUFFICES ASSUME NEW f \in DOMAIN msg
               PROVE  LET byPath  == Given(method.in, f, params, DOMAIN params)
                          byQuery == Given(method.in, f, r.query, DOMAIN r.query \ DOMAIN params)
                          filled  == f \in TenantField /\ msg'[f] = Num(r.tenant)
                      IN  /\ (byPath # {} /\ byQuery = {}) => msg'[f] \in byPath \/ (filled /\ Unset \in byPath)
                          /\ byQuery # {} => msg'[f] \in byQuery \/ (filled /\ Unset \in byQuery)
                          /\ byPath \union byQuery = {} => \A b \in WholeBody : b[f] \in {Unset, msg'[f]}
                          /\ (f \in TenantField /\ r.tenant # 0) => msg'[f] # Unset
                          /\ (byPath \union byQuery = {} /\ (r.body.is = "none" \/ ~r.sized)
                                /\ f.kind \notin MessageKinds) => filled \/ msg'[f] = Unset
                          /\ (msg'[f].is = "num" /\ f.kind \in IntKinds /\ ~Converted(method.in, f)) =>
                               filled \/ msg'[f] \in Written
    BY <1>1, <1>2 DEF MessageFaithful, WholeBody, Written, IntKinds
  <2> DEFINE P == Given(method.in, f, params, DOMAIN params)
             Q == Given(method.in, f, r.query, DOMAIN r.query \ DOMAIN params)
  <2>1. FieldFaithful(r, WholeBody, method.in, f, msg[f], P, Q, Written)
    BY <1>1, <1>3 DEF MessageInv
  <2> HIDE DEF P, Q
  <2>3. CASE f \in TenantFieldUnset
    <3>1. msg[f] = Unset /\ f \in TenantField /\ msg'[f] = Num(r.tenant)
      BY <1>1, <2>3 DEF TenantFieldUnset
    <3>2. Num(r.tenant) # Unset
      BY DEF Num, Unset
    <3> QED
      BY <2>1, <3>1, <3>2 DEF FieldFaithful, P, Q
  <2>4. CASE f \notin TenantFieldUnset
    <3>1. msg'[f] = msg[f] /\ ((f \in TenantField /\ r.tenant # 0) => msg[f] # Unset)
      BY <1>1, <2>4 DEF TenantFieldUnset
    <3> QED
      BY <2>1, <3>1 DEF FieldFaithful, AsWritten, P, Q
  <2> QED
    BY <2>3, <2>4
<1> QED
  BY <1>1, <1>4 DEF MessageInv

\* The methods a descriptor has take messages that are known, and the one that is found
\* is one of them.
LEMMA ParseKnown ==
  ASSUME NEW fds \in Descriptors, NEW pd \in Parse(fds), NEW m \in ListMethods(pd)
  PROVE  m.in \in DOMAIN Fields
<1> DEFINE names == {sd.name : sd \in fds}
<1>1. PICK f \in [names -> fds] : pd = [n \in names |-> parseService(f[n])]
  BY DEF Parse
<1>2. PICK s \in DOMAIN pd : \E n \in DOMAIN pd[s] : m = pd[s][n]
  BY DEF ListMethods
<1>3. s \in names /\ f[s] \in fds /\ pd[s] = parseService(f[s])
  BY <1>1, <1>2
<1>4. PICK n \in DOMAIN pd[s] : m = pd[s][n]
  BY <1>2
<1>5. n \in DOMAIN f[s].methods /\ m = parseMethod(f[s], n)
  BY <1>3, <1>4 DEF parseService
<1>6. m.in = f[s].methods[n].in
  BY <1>5 DEF parseMethod
<1> QED
  BY <1>3, <1>5, <1>6, TranscodeAssumption

\* A step that leaves the request and its message alone leaves them as faithful.
LEMMA SameMessage ==
  ASSUME MessageFaithful,
         pc' \in {"invoke", "transform"} => pc \in {"invoke", "transform"},
         UNCHANGED <<r, method, params, rule, msg>>
  PROVE  MessageFaithful'
<1>1. UNCHANGED <<TenantField, BodyTexts>>
  BY DEF TenantField, BodyTexts
<1> QED
  BY <1>1, ZenonT(60) DEF MessageFaithful

LEMMA MessageStep ==
  MessageInv /\ [Next]_vars => MessageInv'
<1> SUFFICES ASSUME MessageInv, [Next]_vars
             PROVE  MessageInv'
  OBVIOUS
<1>1. ASSUME NEW fds \in Descriptors, RegisterModule(fds)
      PROVE  MessageInv'
  BY <1>1, ParseKnown DEF RegisterModule, MessageInv, MessageFaithful
<1>2. CASE UnregisterModule
  <2>1. ListMethods(NoModule) = {}
    BY DEF ListMethods, NoModule
  <2> QED
    BY <1>2, <2>1 DEF UnregisterModule, MessageInv, MessageFaithful
<1>3. ASSUME NEW q \in Requests, Begin(q)
      PROVE  MessageInv'
  BY <1>3 DEF Begin, MessageInv, MessageFaithful
<1>4. CASE Find
  <2>1. PICK found \in FindMethodByHTTP(parsed, r.verb, r.path) : method' = found.method
    BY <1>4 DEF Find
  <2>2. PICK y \in ListRoutes(parsed) : y.method = method'
    BY <2>1, FoundScoresBest
  <2>3. method' \in ListMethods(parsed)
    BY <2>2 DEF ListRoutes
  <2> QED
    BY <1>4, <2>3 DEF Find, MessageInv, MessageFaithful
<1>5. CASE BuildBody
  <2>1. CASE pc' = "path"
    BY <1>5, <2>1, BodyStep
  <2>2. CASE pc' # "path"
    <3>1. pc' = "done" /\ UNCHANGED parsed
      BY <1>5, <2>2 DEF BuildBody, writeError, Return, Panic
    <3> QED
      BY <3>1 DEF MessageInv, MessageFaithful
  <2> QED
    BY <2>1, <2>2
<1>6. ASSUME NEW n \in left, SetPathParam(n) \/ SetQueryParam(n)
      PROVE  MessageInv'
  BY <1>6, PathTurn, QueryTurn
<1>7. CASE PathParamsSet
  BY <1>7, LoopsTurn
<1>8. CASE InjectTenantID
  BY <1>8, TenantStep
<1>9. CASE \/ NotFound \/ Streaming \/ InjectPanic \/ TransformResponse \/ TransformPanics \/ End
           \/ \E n \in left : ParamPanics(n)
  <2>1. UNCHANGED parsed /\ pc' \in {"done", "idle"}
    BY <1>9 DEF NotFound, Streaming, InjectPanic, TransformResponse, TransformPanics, ParamPanics, End,
         writeError, Return, Panic
  <2> QED
    BY <2>1 DEF MessageInv, MessageFaithful
<1>10. ASSUME NEW code \in Codes, InvokeMethod(code)
       PROVE  MessageInv'
  <2>1. /\ pc = "invoke" /\ pc' \in {"transform", "done"}
        /\ UNCHANGED <<parsed, r, method, params, rule, msg>>
    BY <1>10 DEF InvokeMethod, Return, call
  <2>2. MessageFaithful'
    BY <2>1, SameMessage DEF MessageInv
  <2> QED
    BY <2>1, <2>2 DEF MessageInv
<1>11. CASE UNCHANGED vars
  <2>1. UNCHANGED <<parsed, pc, r, method, params, rule, msg, left>>
    BY <1>11 DEF vars, call
  <2>2. MessageFaithful'
    BY <2>1, SameMessage DEF MessageInv
  <2>3. UNCHANGED <<PathDone, QueryDone, WholeBody, Written>>
    BY <2>1 DEF PathDone, QueryDone, WholeBody, Written, BodyTexts
  <2> QED
    BY <2>1, <2>2, <2>3 DEF MessageInv
<1> QED
  BY <1>1, <1>2, <1>3, <1>4, <1>5, <1>6, <1>7, <1>8, <1>9, <1>10, <1>11 DEF Next

\* What a module is sent is what the request says, for every set of messages, patterns
\* and requests and whatever the order of the loops in BuildRequest: no value of the
\* path gives way to one of the query of the same name, none of either to the body's,
\* and the caller's tenant replaces nothing but a zero.
THEOREM MessageSaysWhatWasAsked ==
  Spec => []MessageFaithful
<1>1. Init => MessageInv
  BY DEF Init, MessageInv, MessageFaithful, ListMethods, NoModule
<1>2. MessageInv => MessageFaithful
  BY DEF MessageInv
<1> QED
  BY <1>1, <1>2, MessageStep, PTL DEF Spec
==============================================================================
