------------------------------ MODULE RouteMatch ------------------------------
(***************************************************************************)
(* How a path finds its gRPC method (descriptor_parser.go): the services   *)
(* of a parsed descriptor, matching of URL patterns and the choice between *)
(* the routes that match.                                                  *)
(*                                                                         *)
(* A path is a sequence of segments.  A pattern is a sequence of segments  *)
(* too, each a literal or a variable in braces.  The names of variables    *)
(* and of fields are sequences, one element per part between dots.         *)
(***************************************************************************)
EXTENDS Integers, Sequences, FiniteSets, FiniteSetsExt

Lit(s)  == [is |-> "lit",  name |-> <<s>>]     \* messages
Var(n)  == [is |-> "var",  name |-> <<n>>]     \* {n}
Glob(n) == [is |-> "glob", name |-> <<n>>]     \* {n=**}
Rest    == [is |-> "rest", name |-> <<"**">>]  \* {**}

\* A google.api.http annotation has one of these patterns, or none.
VerbOf == [get |-> "GET", put |-> "PUT", post |-> "POST", delete |-> "DELETE",
           patch |-> "PATCH", none |-> ""]

convertHTTPRule(a) ==
  [verb |-> IF a.kind \in DOMAIN VerbOf THEN VerbOf[a.kind] ELSE a.kind,
   pattern |-> IF a.kind = "none" THEN <<>> ELSE a.pattern, body |-> a.body, out |-> a.out]

\* The annotation's own binding first, then its additional ones; no annotation,
\* no rule.
extractHTTPRule(http) == [i \in DOMAIN http |-> convertHTTPRule(http[i])]

parseMethod(sd, n) ==
  [pkg |-> sd.pkg, name |-> n, in |-> sd.methods[n].in, reply |-> sd.methods[n].reply,
   stream |-> sd.methods[n].stream, rules |-> extractHTTPRule(sd.methods[n].http)]

parseService(sd) == [n \in DOMAIN sd.methods |-> parseMethod(sd, n)]

\* What Parse may return for a descriptor set.  Services are kept under their
\* short names, and files come in the order of a Go map: of two services with
\* one name, in two packages, either may be the one that stays.
Parse(fds) ==
  LET names == {sd.name : sd \in fds}
      kept  == {f \in [names -> fds] : \A n \in names : f[n].name = n}
  IN  { [n \in names |-> parseService(f[n])] : f \in kept }

ListMethods(parsed) == UNION { {parsed[s][n] : n \in DOMAIN parsed[s]} : s \in DOMAIN parsed }

\* The routes GetModuleRoutes and ListRoutes show.
ListRoutes(parsed) ==
  UNION { {[method |-> m, rule |-> m.rules[i]] : i \in DOMAIN m.rules} : m \in ListMethods(parsed) }

----------------------------------------------------------------------------
IsPattern(pattern) ==
  pattern \in Seq([is : {"lit", "var", "glob", "rest"}, name : Seq(STRING)])

Wild(pattern) == \E i \in DOMAIN pattern : pattern[i].is \in {"glob", "rest"}

\* "**" stands at the end of a pattern only.
WildcardLast(pattern) ==
  \A i \in DOMAIN pattern : pattern[i].is \in {"glob", "rest"} => i = Len(pattern)

\* How far MatchPath reads a pattern: up to {**}, which takes all the rest.
\* {n=**} loses its "=**" before the test for it: it takes one segment, and the
\* segments after the pattern's last are not looked at.
Reach(pattern) ==
  LET ends == {i \in DOMAIN pattern : pattern[i].is = "rest"}
  IN  IF ends = {} THEN Len(pattern) ELSE Min(ends)

Matches(pattern, path) ==
  /\ Len(pattern) = Len(path) \/ Wild(pattern)
  /\ \A i \in 1 .. Reach(pattern) :
       i <= Len(path) /\ (pattern[i].is = "lit" => pattern[i].name = <<path[i]>>)

\* The parameters of a match: of two variables of one name the later counts.
MatchPath(pattern, path) ==
  LET vs == {i \in 1 .. Reach(pattern) : pattern[i].is # "lit"}
      at(n) == Max({i \in vs : pattern[i].name = n})
  IN  [n \in {pattern[i].name : i \in vs} |->
         IF pattern[at(n)].is = "rest" THEN SubSeq(path, at(n), Len(path)) ELSE <<path[at(n)]>>]

\* MUTANT: literals and variables count alike.
SpecificityByLength(pattern) == Len(pattern)

\* Ten for a literal, minus ten for a wildcard, one for every segment.
calculateSpecificity(pattern) ==
  LET count(is) == Cardinality({i \in DOMAIN pattern : pattern[i].is \in is})
  IN  10 * count({"lit"}) - 10 * count({"glob", "rest"}) + Len(pattern)

\* The results FindMethodByHTTP may return, none when nothing matches: services
\* and methods come in the order of Go maps, the rules of a method in their own,
\* and the first of the best wins.
FindMethodByHTTP(parsed, verb, path) ==
  LET hit(m) == {i \in DOMAIN m.rules : m.rules[i].verb = verb /\ Matches(m.rules[i].pattern, path)}
      score(m, i) == calculateSpecificity(m.rules[i].pattern)
      all == UNION { {<<m, i>> : i \in hit(m)} : m \in ListMethods(parsed) }
  IN  { [method |-> x[1], params |-> MatchPath(x[1].rules[x[2]].pattern, path), rule |-> x[2]] :
          x \in {c \in all : /\ \A d \in all : score(d[1], d[2]) <= score(c[1], c[2])
                             /\ \A i \in hit(c[1]) : i < c[2] => score(c[1], i) < score(c[1], c[2])} }

\* The rule Handle works with: the first of the method's that matches, which need
\* not be the one the parameters come from.
MatchingRule(m, verb, path) ==
  m.rules[Min({i \in DOMAIN m.rules : m.rules[i].verb = verb /\ Matches(m.rules[i].pattern, path)})]
==============================================================================
