----------------------------- MODULE GatewayProofs -----------------------------
(***************************************************************************)
(* Proofs about Gateway, for any number of modules, requests and changes   *)
(* to the registry: the two maps against each other, against the registry, *)
(* and against the requests that read them one after the other.            *)
(***************************************************************************)
EXTENDS Gateway, TLAPS

------------------------------------------------------------------------------
(* Types *)

Conn == [mod : Modules, ver : 1 .. MaxChanges, open : BOOLEAN]

\* A change that happened: they are numbered from 1.
Numbered == [mod : Modules, ver : 1 .. MaxChanges, is : {"good", "bad", "gone", "health"}]

\* The fields of a goroutine's job and of a request.
JobType(j, n) == /\ j \in [at : {"idle", "connect", "route", "unroute", "evict", "close"},
                           of : Change, conn : 0 .. n]
                 /\ j.at = "close" => j.conn # 0
                 /\ j.at # "idle" => j.of \in Numbered

ReqType(r, n) == /\ r \in [at : {"new", "handle", "build", "flight", "done"}, mod : Modules,
                           conn : 0 .. n, floor : 0 .. MaxChanges]
                 /\ r.at \in {"build", "flight"} => r.conn # 0

RegistryShape ==
  /\ registry \in [Modules -> Numbered] /\ changes \in 1 .. MaxChanges
  /\ queue \in Seq(Numbered)
  /\ listed \in BOOLEAN /\ list \subseteq Numbered
  /\ taken \in [Modules -> 0 .. MaxChanges] /\ handled \in [Modules -> 0 .. MaxChanges]

MapShape ==
  /\ handlers \subseteq Modules
  /\ connections \in [Modules -> 0 .. Len(conns)]
  /\ conns \in Seq(Conn)
  /\ raced \subseteq Modules /\ superseded \subseteq DOMAIN conns
  /\ shut \in {"no", "running", "done"} /\ left \subseteq Modules

JobShape ==
  /\ DOMAIN job = Goroutines /\ job = [g \in Goroutines |-> job[g]]
  /\ \A g \in Goroutines : JobType(job[g], Len(conns))

ReqShape ==
  /\ DOMAIN req = Requests /\ req = [r \in Requests |-> req[r]]
  /\ \A r \in Requests : ReqType(req[r], Len(conns))

\* TypeOK by the parts that change together, and with no change numbered 0.
Shape == RegistryShape /\ MapShape /\ JobShape /\ ReqShape

\* The same connections, with those in K closed.
Closing(s, K) == [i \in DOMAIN s |-> IF i \in K THEN [s[i] EXCEPT !.open = FALSE] ELSE s[i]]

LEMMA ClosingType ==
  ASSUME NEW s \in Seq(Conn), NEW K
  PROVE  /\ Closing(s, K) \in Seq(Conn) /\ Len(Closing(s, K)) = Len(s)
         /\ \A i \in DOMAIN s : /\ Closing(s, K)[i].mod = s[i].mod /\ Closing(s, K)[i].ver = s[i].ver
                                /\ Closing(s, K)[i].open => s[i].open /\ i \notin K
<1>1. DOMAIN s = 1 .. Len(s) /\ Len(s) \in Nat
  OBVIOUS
<1>2. ASSUME NEW i \in DOMAIN s
      PROVE  /\ Closing(s, K)[i] \in Conn
             /\ Closing(s, K)[i].mod = s[i].mod /\ Closing(s, K)[i].ver = s[i].ver
             /\ Closing(s, K)[i].open => s[i].open /\ i \notin K
  <2>1. s[i] \in Conn
    OBVIOUS
  <2>2. Closing(s, K)[i] = IF i \in K THEN [s[i] EXCEPT !.open = FALSE] ELSE s[i]
    BY DEF Closing
  <2> QED  BY <2>1, <2>2 DEF Conn
<1>3. Closing(s, K) \in [1 .. Len(s) -> Conn]
  BY <1>1, <1>2 DEF Closing
<1> HIDE DEF Closing
<1>4. Closing(s, K) \in Seq(Conn) /\ Len(Closing(s, K)) = Len(s)
  BY <1>1, <1>3
<1> QED  BY <1>2, <1>4

\* One more connection.
LEMMA AppendType ==
  ASSUME NEW s \in Seq(Conn), NEW e \in Conn
  PROVE  /\ Append(s, e) \in Seq(Conn) /\ Len(Append(s, e)) = Len(s) + 1 /\ Len(s) \in Nat
         /\ Append(s, e)[Len(s) + 1] = e
         /\ \A i \in DOMAIN s : Append(s, e)[i] = s[i]
         /\ DOMAIN Append(s, e) = 1 .. (Len(s) + 1) /\ DOMAIN s = 1 .. Len(s)
  OBVIOUS

LEMMA NoJobType == /\ NoJob.at = "idle" /\ NoJob.of \in Change /\ NoJob.conn = 0
                   /\ \A n \in Nat : JobType(NoJob, n)
<1>1. PICK m \in Modules : TRUE
  BY ModulesAssumption
<1>2. [mod |-> m, ver |-> 0, is |-> "good"] \in Change
  BY ChangesAssumption DEF Change
<1>3. (CHOOSE x \in Change : TRUE) \in Change
  BY <1>2
<1> QED  BY <1>3 DEF NoJob, JobType

\* The indices a job and a request hold stay in range when connections are added.
LEMMA MoreConns ==
  ASSUME NEW n \in Nat, NEW k \in Nat, n <= k
  PROVE  /\ \A j : JobType(j, n) => JobType(j, k)
         /\ \A r : ReqType(r, n) => ReqType(r, k)
<1>1. 0 .. n \subseteq 0 .. k
  OBVIOUS
<1> QED  BY <1>1 DEF JobType, ReqType

LEMMA NumberedIsChange == Numbered \subseteq Change
  BY ChangesAssumption DEF Numbered, Change

LEMMA ShapeIsType == Shape => TypeOK
<1> SUFFICES ASSUME Shape PROVE TypeOK
  OBVIOUS
<1>1. job \in [Goroutines -> Job] /\ \A g \in Goroutines : job[g].at = "close" => job[g].conn # 0
  <2>1. \A g \in Goroutines : job[g] \in Job /\ (job[g].at = "close" => job[g].conn # 0)
    BY DEF Shape, JobShape, JobType, Job
  <2> QED  BY <2>1 DEF Shape, JobShape
<1>2. /\ req \in [Requests -> Request]
      /\ \A r \in Requests : req[r].at \in {"build", "flight"} => req[r].conn # 0
  <2>1. \A r \in Requests : req[r] \in Request /\ (req[r].at \in {"build", "flight"} => req[r].conn # 0)
    BY DEF Shape, ReqShape, ReqType, Request
  <2> QED  BY <2>1 DEF Shape, ReqShape
<1>3. /\ registry \in [Modules -> Change] /\ queue \in Seq(Change) /\ list \subseteq Change
  BY NumberedIsChange DEF Shape, RegistryShape
<1> QED
  BY <1>1, <1>2, <1>3 DEF TypeOK, Shape, RegistryShape, MapShape, Conn

------------------------------------------------------------------------------
(* What the actions do, field by field *)

E == job["events"]
L == job["loader"]

\* A goroutine's job is replaced, and only its own.
LEMMA JobUpdate ==
  ASSUME JobShape, NEW g \in Goroutines, NEW w, job' = [job EXCEPT ![g] = w]
  PROVE  /\ job'[g] = w /\ \A h \in Goroutines \ {g} : job'[h] = job[h]
         /\ DOMAIN job' = Goroutines /\ job' = [h \in Goroutines |-> job'[h]]
  BY DEF JobShape

LEMMA JobMoves ==
  ASSUME JobShape, Len(conns) \in Nat, Len(conns') \in Nat, Len(conns) <= Len(conns'),
         NEW g \in Goroutines, NEW w, job' = [job EXCEPT ![g] = w], JobType(w, Len(conns'))
  PROVE  JobShape'
<1>1. \A h \in Goroutines : JobType(job'[h], Len(conns'))
  BY JobUpdate, MoreConns DEF JobShape
<1> QED  BY <1>1, JobUpdate DEF JobShape

LEMMA JobStays ==
  ASSUME JobShape, Len(conns) \in Nat, Len(conns') \in Nat, Len(conns) <= Len(conns'), job' = job
  PROVE  JobShape'
  BY MoreConns DEF JobShape

LEMMA ReqStays ==
  ASSUME ReqShape, Len(conns) \in Nat, Len(conns') \in Nat, Len(conns) <= Len(conns'), req' = req
  PROVE  ReqShape'
  BY MoreConns DEF ReqShape

LEMMA ChangeEffect ==
  ASSUME Shape, NEW m \in Modules, NEW is \in {"good", "bad", "gone", "health"},
         RegistryChange(m, is)
  PROVE  LET c == [mod |-> m, ver |-> changes + 1, is |-> is]
         IN /\ c \in Numbered /\ changes' = changes + 1
            /\ queue' \in Seq(Numbered)
            /\ DOMAIN queue = 1 .. Len(queue) /\ DOMAIN queue' = 1 .. (Len(queue) + 1)
            /\ Len(queue) \in Nat
            /\ \A i \in DOMAIN queue : queue'[i] = queue[i]
            /\ queue'[Len(queue) + 1] = c
            /\ registry' \in [Modules -> Numbered]
            /\ \A n \in Modules : registry'[n] = IF n = m /\ is # "health" THEN c ELSE registry[n]
<1> DEFINE c == [mod |-> m, ver |-> changes + 1, is |-> is]
<1>1. c \in Numbered /\ changes' = changes + 1
  BY ChangesAssumption DEF Shape, RegistryShape, RegistryChange, Numbered
<1>2. queue \in Seq(Numbered) /\ queue' = Append(queue, c)
  BY DEF Shape, RegistryShape, RegistryChange
<1>3. registry \in [Modules -> Numbered]
      /\ registry' = IF is = "health" THEN registry ELSE [registry EXCEPT ![m] = c]
  BY DEF Shape, RegistryShape, RegistryChange
<1> HIDE DEF c
<1>4. /\ registry' \in [Modules -> Numbered]
      /\ \A n \in Modules : registry'[n] = IF n = m /\ is # "health" THEN c ELSE registry[n]
  BY <1>1, <1>3
<1>5. /\ queue' \in Seq(Numbered)
      /\ DOMAIN queue = 1 .. Len(queue) /\ DOMAIN queue' = 1 .. (Len(queue) + 1)
      /\ Len(queue) \in Nat
      /\ \A i \in DOMAIN queue : queue'[i] = queue[i]
      /\ queue'[Len(queue) + 1] = c
  BY <1>1, <1>2
<1> QED  BY <1>1, <1>4, <1>5 DEF c

\* The head of the queue becomes the event, and the others move up.
LEMMA TakeEffect ==
  ASSUME Shape, TakeEvent
  PROVE  LET c == Head(queue)
         IN /\ c \in Numbered /\ 1 \in DOMAIN queue /\ queue[1] = c
            /\ queue' \in Seq(Numbered)
            /\ \A i \in DOMAIN queue' : i + 1 \in DOMAIN queue /\ queue'[i] = queue[i + 1]
            /\ \A i \in DOMAIN queue : i # 1 => i - 1 \in DOMAIN queue' /\ queue'[i - 1] = queue[i]
            /\ DOMAIN queue \subseteq Nat \ {0} /\ DOMAIN queue' \subseteq Nat \ {0}
            /\ taken' \in [Modules -> 0 .. MaxChanges]
            /\ \A n \in Modules : taken'[n] = IF n = c.mod THEN c.ver ELSE taken[n]
            /\ job["events"].at = "idle" /\ job'["loader"] = job["loader"]
            /\ job'["events"].at = IF c.is = "good" THEN "connect"
                                   ELSE IF c.is = "gone" THEN "unroute" ELSE "idle"
            /\ c.is \in {"good", "gone"} => job'["events"].of = c
            /\ JobShape'
<1> DEFINE c == Head(queue)
<1>1. queue \in Seq(Numbered) /\ queue # <<>> /\ queue' = Tail(queue)
  BY DEF Shape, RegistryShape, TakeEvent
<1>2. /\ c \in Numbered /\ 1 \in DOMAIN queue /\ queue[1] = c
      /\ queue' \in Seq(Numbered)
      /\ \A i \in DOMAIN queue' : i + 1 \in DOMAIN queue /\ queue'[i] = queue[i + 1]
      /\ \A i \in DOMAIN queue : i # 1 => i - 1 \in DOMAIN queue' /\ queue'[i - 1] = queue[i]
      /\ DOMAIN queue \subseteq Nat \ {0} /\ DOMAIN queue' \subseteq Nat \ {0}
  BY <1>1
<1>3. /\ taken' = [taken EXCEPT ![c.mod] = c.ver] /\ taken \in [Modules -> 0 .. MaxChanges]
      /\ job["events"].at = "idle" /\ conns' = conns
      /\ Len(conns) \in Nat /\ Len(conns') \in Nat /\ Len(conns) <= Len(conns')
      /\ JobShape /\ "events" \in Goroutines /\ "loader" \in Goroutines
  BY DEF TakeEvent, Shape, RegistryShape, MapShape, Free, maps, Goroutines
<1>4. CASE c.is = "good"
  <2>1. job' = [job EXCEPT !["events"] = [at |-> "connect", of |-> c, conn |-> 0]]
    BY <1>4 DEF TakeEvent, Start
  <2>2. JobType([at |-> "connect", of |-> c, conn |-> 0], Len(conns'))
    BY <1>2, <1>3, NumberedIsChange DEF JobType
  <2>3. /\ job'["events"] = [at |-> "connect", of |-> c, conn |-> 0]
        /\ job'["loader"] = job["loader"]
    BY <1>3, <2>1, JobUpdate
  <2>4. JobShape'
    BY <1>3, <2>1, <2>2, JobMoves
  <2> HIDE DEF c
  <2> QED  BY <1>2, <1>3, <1>4, <2>3, <2>4 DEF Numbered, c
<1>5. CASE c.is = "gone"
  <2>1. job' = [job EXCEPT !["events"] = [at |-> "unroute", of |-> c, conn |-> 0]]
    BY <1>5 DEF TakeEvent, Start
  <2>2. JobType([at |-> "unroute", of |-> c, conn |-> 0], Len(conns'))
    BY <1>2, <1>3, NumberedIsChange DEF JobType
  <2>3. /\ job'["events"] = [at |-> "unroute", of |-> c, conn |-> 0]
        /\ job'["loader"] = job["loader"]
    BY <1>3, <2>1, JobUpdate
  <2>4. JobShape'
    BY <1>3, <2>1, <2>2, JobMoves
  <2> HIDE DEF c
  <2> QED  BY <1>2, <1>3, <1>5, <2>3, <2>4 DEF Numbered, c
<1>6. CASE c.is \notin {"good", "gone"}
  <2>1. job' = job
    BY <1>6 DEF TakeEvent
  <2>2. JobShape'
    BY <1>3, <2>1, JobStays
  <2> HIDE DEF c
  <2> QED  BY <1>2, <1>3, <1>6, <2>1, <2>2 DEF Numbered, c
<1> QED  BY <1>4, <1>5, <1>6

LEMMA LoadNextEffect ==
  ASSUME Shape, LoadNext
  PROVE  /\ JobShape' /\ job'["events"] = job["events"] /\ job["loader"].at = "idle"
         /\ \E c \in list : /\ list' = list \ {c}
                            /\ IF c.is = "good"
                               THEN job'["loader"].at = "connect" /\ job'["loader"].of = c
                               ELSE job' = job
<1>1. PICK c \in list :
        /\ list' = list \ {c}
        /\ IF c.is = "good" THEN Start("loader", c, "connect") ELSE UNCHANGED job
  BY DEF LoadNext
<1>2. /\ c \in Numbered /\ conns' = conns
      /\ Len(conns) \in Nat /\ Len(conns') \in Nat /\ Len(conns) <= Len(conns')
      /\ JobShape /\ "events" \in Goroutines /\ "loader" \in Goroutines
      /\ job["loader"].at = "idle"
  BY DEF LoadNext, Shape, RegistryShape, MapShape, Free, maps, Goroutines
<1>3. CASE c.is = "good"
  <2>1. job' = [job EXCEPT !["loader"] = [at |-> "connect", of |-> c, conn |-> 0]]
    BY <1>1, <1>3 DEF Start
  <2>2. JobType([at |-> "connect", of |-> c, conn |-> 0], Len(conns'))
    BY <1>2, NumberedIsChange DEF JobType
  <2>3. /\ job'["loader"] = [at |-> "connect", of |-> c, conn |-> 0]
        /\ job'["events"] = job["events"]
    BY <1>2, <2>1, JobUpdate
  <2>4. JobShape'
    BY <1>2, <2>1, <2>2, JobMoves
  <2> QED  BY <1>1, <1>2, <1>3, <2>3, <2>4
<1>4. CASE c.is # "good"
  <2>1. job' = job
    BY <1>1, <1>4
  <2>2. JobShape'
    BY <1>2, <2>1, JobStays
  <2> QED  BY <1>1, <1>2, <1>4, <2>1, <2>2
<1> QED  BY <1>3, <1>4

\* The module's entry becomes the new connection.
LEMMA RegisterEffect ==
  ASSUME Shape, NEW g \in Goroutines, RegisterModule(g)
  PROVE  LET c == job[g].of
         IN /\ c \in Numbered /\ job[g].at = "connect"
            /\ Len(conns) \in Nat /\ Len(conns') = Len(conns) + 1
            /\ DOMAIN conns = 1 .. Len(conns) /\ DOMAIN conns' = 1 .. (Len(conns) + 1)
            /\ conns' \in Seq(Conn)
            /\ \A i \in DOMAIN conns : conns'[i] = conns[i]
            /\ conns'[Len(conns) + 1].mod = c.mod /\ conns'[Len(conns) + 1].ver = c.ver
            /\ connections' \in [Modules -> 0 .. Len(conns')]
            /\ \A m \in Modules :
                 connections'[m] = IF m = c.mod THEN Len(conns) + 1 ELSE connections[m]
            /\ job'[g].at = "route" /\ job'[g].of = c
            /\ \A h \in Goroutines \ {g} : job'[h] = job[h]
            /\ JobShape'
<1> DEFINE c == job[g].of
<1>1. /\ JobShape /\ JobType(job[g], Len(conns)) /\ job[g].at = "connect" /\ c \in Numbered
  BY DEF Shape, JobShape, JobType, RegisterModule
<1>2. /\ conns' = Append(conns, [mod |-> c.mod, ver |-> c.ver, open |-> TRUE])
      /\ connections' = [connections EXCEPT ![c.mod] = Len(conns')]
      /\ job' = [job EXCEPT ![g] = [job[g] EXCEPT !.at = "route"]]
      /\ conns \in Seq(Conn) /\ connections \in [Modules -> 0 .. Len(conns)]
  BY DEF RegisterModule, Shape, MapShape
<1>3. [mod |-> c.mod, ver |-> c.ver, open |-> TRUE] \in Conn
  BY <1>1 DEF Numbered, Conn
<1>4. /\ Len(conns) \in Nat /\ Len(conns') = Len(conns) + 1
      /\ DOMAIN conns = 1 .. Len(conns) /\ DOMAIN conns' = 1 .. (Len(conns) + 1)
      /\ conns' \in Seq(Conn)
      /\ \A i \in DOMAIN conns : conns'[i] = conns[i]
      /\ conns'[Len(conns) + 1] = [mod |-> c.mod, ver |-> c.ver, open |-> TRUE]
  BY <1>2, <1>3, AppendType
<1>5. /\ connections' \in [Modules -> 0 .. Len(conns')]
      /\ \A m \in Modules :
           connections'[m] = IF m = c.mod THEN Len(conns) + 1 ELSE connections[m]
  BY <1>1, <1>2, <1>4 DEF Numbered
<1>6. JobType([job[g] EXCEPT !.at = "route"], Len(conns))
  BY <1>1 DEF JobType
<1>7. JobType([job[g] EXCEPT !.at = "route"], Len(conns'))
  BY <1>4, <1>6, MoreConns
<1>8. JobShape'
  <2>1. Len(conns) \in Nat /\ Len(conns') \in Nat /\ Len(conns) <= Len(conns')
    BY <1>4
  <2> QED  BY <1>1, <1>2, <1>7, <2>1, JobMoves
<1>9. /\ job'[g] = [job[g] EXCEPT !.at = "route"]
      /\ \A h \in Goroutines \ {g} : job'[h] = job[h]
  BY <1>1, <1>2, JobUpdate
<1>10. job'[g].at = "route" /\ job'[g].of = c
  BY <1>1, <1>9 DEF JobType
<1> QED  BY <1>1, <1>4, <1>5, <1>8, <1>9, <1>10

\* The goroutine is free, and of the two only the events' one counts.
LEMMA FinishEffect ==
  ASSUME Shape, NEW g \in Goroutines, job[g].at # "idle", Finish(g, job[g].of),
         Len(conns') = Len(conns)
  PROVE  LET c == job[g].of
         IN /\ c \in Numbered /\ JobShape' /\ job'[g].at = "idle"
            /\ \A h \in Goroutines \ {g} : job'[h] = job[h]
            /\ handled' \in [Modules -> 0 .. MaxChanges]
            /\ \A m \in Modules :
                 handled'[m] = IF g = "events" /\ m = c.mod THEN c.ver ELSE handled[m]
<1> DEFINE c == job[g].of
<1>1. /\ JobShape /\ c \in Numbered /\ Len(conns) \in Nat /\ Len(conns') \in Nat
      /\ Len(conns) <= Len(conns') /\ handled \in [Modules -> 0 .. MaxChanges]
  BY DEF Shape, JobShape, JobType, MapShape, RegistryShape
<1>2. /\ job' = [job EXCEPT ![g] = NoJob]
      /\ handled' = IF g = "events" THEN [handled EXCEPT ![c.mod] = c.ver] ELSE handled
  BY DEF Finish
<1>3. JobShape'
  BY <1>1, <1>2, NoJobType, JobMoves
<1>4. job'[g] = NoJob /\ \A h \in Goroutines \ {g} : job'[h] = job[h]
  BY <1>1, <1>2, JobUpdate
<1>5. /\ handled' \in [Modules -> 0 .. MaxChanges]
      /\ \A m \in Modules :
           handled'[m] = IF g = "events" /\ m = c.mod THEN c.ver ELSE handled[m]
  BY <1>1, <1>2 DEF Numbered
<1> QED  BY <1>1, <1>3, <1>4, <1>5, NoJobType

\* The handler's entry goes in; the connections are as before.
LEMMA StoreEffect ==
  ASSUME Shape, NEW g \in Goroutines, StoreHandler(g)
  PROVE  LET c == job[g].of
         IN /\ c \in Numbered /\ job[g].at = "route" /\ handlers' = handlers \cup {c.mod}
            /\ conns' = conns /\ connections' = connections
            /\ JobShape' /\ job'[g].at = "idle"
            /\ \A h \in Goroutines \ {g} : job'[h] = job[h]
            /\ handled' \in [Modules -> 0 .. MaxChanges]
            /\ \A m \in Modules :
                 handled'[m] = IF g = "events" /\ m = c.mod THEN c.ver ELSE handled[m]
<1>1. /\ job[g].at = "route" /\ handlers' = handlers \cup {job[g].of.mod} /\ conns' = conns
      /\ connections' = connections /\ Finish(g, job[g].of)
  BY DEF StoreHandler
<1> QED  BY <1>1, FinishEffect

LEMMA DeleteEffect ==
  ASSUME Shape, NEW g \in Goroutines, DeleteHandler(g)
  PROVE  LET c == job[g].of
         IN /\ c \in Numbered /\ job[g].at = "unroute" /\ handlers' = handlers \ {c.mod}
            /\ JobShape' /\ job'[g].at = "evict" /\ job'[g].of = c
            /\ \A h \in Goroutines \ {g} : job'[h] = job[h]
<1> DEFINE c == job[g].of
<1>1. /\ JobShape /\ JobType(job[g], Len(conns)) /\ job[g].at = "unroute" /\ c \in Numbered
  BY DEF Shape, JobShape, JobType, DeleteHandler
<1>2. /\ job' = [job EXCEPT ![g] = [job[g] EXCEPT !.at = "evict"]]
      /\ handlers' = handlers \ {c.mod} /\ conns' = conns
      /\ Len(conns) \in Nat /\ Len(conns') \in Nat /\ Len(conns) <= Len(conns')
  BY DEF DeleteHandler, Shape, MapShape
<1>3. JobType([job[g] EXCEPT !.at = "evict"], Len(conns'))
  BY <1>1, <1>2 DEF JobType
<1>4. JobShape'
  BY <1>1, <1>2, <1>3, JobMoves
<1>5. /\ job'[g] = [job[g] EXCEPT !.at = "evict"]
      /\ \A h \in Goroutines \ {g} : job'[h] = job[h]
  BY <1>1, <1>2, JobUpdate
<1>6. job'[g].at = "evict" /\ job'[g].of = c
  BY <1>1, <1>5 DEF JobType
<1> QED  BY <1>1, <1>2, <1>4, <1>5, <1>6

\* The entry is deleted, and the connection that was there is the one to close.
LEMMA EvictEffect ==
  ASSUME Shape, NEW g \in Goroutines, Evict(g)
  PROVE  LET c == job[g].of
             i == connections[c.mod]
         IN /\ c \in Numbered /\ job[g].at = "evict" /\ conns' = conns
            /\ connections' \in [Modules -> 0 .. Len(conns)]
            /\ \A m \in Modules : connections'[m] = IF m = c.mod THEN 0 ELSE connections[m]
            /\ JobShape' /\ \A h \in Goroutines \ {g} : job'[h] = job[h]
            /\ handled' \in [Modules -> 0 .. MaxChanges]
            /\ IF i = 0
               THEN /\ job'[g].at = "idle"
                    /\ \A m \in Modules :
                         handled'[m] = IF g = "events" /\ m = c.mod THEN c.ver ELSE handled[m]
               ELSE /\ job'[g].at = "close" /\ job'[g].of = c /\ job'[g].conn = i
                    /\ handled' = handled
<1> DEFINE c == job[g].of
           i == connections[c.mod]
<1>1. /\ JobShape /\ JobType(job[g], Len(conns)) /\ job[g].at = "evict" /\ c \in Numbered
  BY DEF Shape, JobShape, JobType, Evict
<1>2. /\ connections' = [connections EXCEPT ![c.mod] = 0] /\ conns' = conns
      /\ connections \in [Modules -> 0 .. Len(conns)]
      /\ Len(conns) \in Nat /\ Len(conns') \in Nat /\ Len(conns) <= Len(conns')
      /\ handled \in [Modules -> 0 .. MaxChanges]
  BY DEF Evict, Shape, MapShape, RegistryShape
<1>3. /\ connections' \in [Modules -> 0 .. Len(conns)] /\ i \in 0 .. Len(conns)
      /\ \A m \in Modules : connections'[m] = IF m = c.mod THEN 0 ELSE connections[m]
  BY <1>1, <1>2 DEF Numbered
<1>4. CASE i = 0
  <2>1. Finish(g, job[g].of)
    BY <1>4 DEF Evict
  <2> QED  BY <1>1, <1>2, <1>3, <1>4, <2>1, FinishEffect
<1>5. CASE i # 0
  <2> DEFINE w == [job[g] EXCEPT !.at = "close", !.conn = i]
  <2>1. job' = [job EXCEPT ![g] = w] /\ handled' = handled
    BY <1>5 DEF Evict
  <2>2. w.at = "close" /\ w.of = c /\ w.conn = i /\ JobType(w, Len(conns'))
    BY <1>1, <1>2, <1>3, <1>5 DEF JobType
  <2> HIDE DEF w
  <2>3. JobShape'
    BY <1>1, <1>2, <2>1, <2>2, JobMoves
  <2>4. job'[g] = w /\ \A h \in Goroutines \ {g} : job'[h] = job[h]
    BY <1>1, <2>1, JobUpdate
  <2> QED  BY <1>1, <1>2, <1>3, <1>5, <2>1, <2>2, <2>3, <2>4
<1> QED  BY <1>4, <1>5

\* Closing(s, {k}), seen from outside.
LEMMA CloseEffect ==
  ASSUME Shape, NEW g \in Goroutines, CloseConn(g)
  PROVE  LET c == job[g].of
         IN /\ c \in Numbered /\ job[g].at = "close" /\ connections' = connections
            /\ conns' \in Seq(Conn) /\ Len(conns') = Len(conns) /\ DOMAIN conns' = DOMAIN conns
            /\ \A i \in DOMAIN conns :
                 /\ conns'[i].mod = conns[i].mod /\ conns'[i].ver = conns[i].ver
                 /\ conns'[i].open => conns[i].open /\ i # job[g].conn
            /\ JobShape' /\ job'[g].at = "idle"
            /\ \A h \in Goroutines \ {g} : job'[h] = job[h]
            /\ handled' \in [Modules -> 0 .. MaxChanges]
            /\ \A m \in Modules :
                 handled'[m] = IF g = "events" /\ m = c.mod THEN c.ver ELSE handled[m]
<1>1. /\ job[g].at = "close" /\ connections' = connections /\ Finish(g, job[g].of)
      /\ conns' = [conns EXCEPT ![job[g].conn].open = FALSE] /\ conns \in Seq(Conn)
  BY DEF CloseConn, Shape, MapShape
<1>2. conns' = Closing(conns, {job[g].conn})
  BY <1>1 DEF Closing
<1>3. /\ conns' \in Seq(Conn) /\ Len(conns') = Len(conns)
      /\ \A i \in DOMAIN conns :
           /\ conns'[i].mod = conns[i].mod /\ conns'[i].ver = conns[i].ver
           /\ conns'[i].open => conns[i].open /\ i \notin {job[g].conn}
  <2> DEFINE K == {job[g].conn}
  <2>1. conns' = Closing(conns, K) /\ conns \in Seq(Conn)
    BY <1>1, <1>2
  <2> HIDE DEF K
  <2>2. /\ conns' \in Seq(Conn) /\ Len(conns') = Len(conns)
        /\ \A i \in DOMAIN conns :
             /\ conns'[i].mod = conns[i].mod /\ conns'[i].ver = conns[i].ver
             /\ conns'[i].open => conns[i].open /\ i \notin K
    BY <2>1, ClosingType
  <2> QED  BY <2>2 DEF K
<1>4. DOMAIN conns' = DOMAIN conns
  BY <1>1, <1>3
<1> QED  BY <1>1, <1>3, <1>4, FinishEffect

LEMMA CloseNextEffect ==
  ASSUME Shape, CloseNext
  PROVE  /\ conns' \in Seq(Conn) /\ Len(conns') = Len(conns) /\ DOMAIN conns' = DOMAIN conns
         /\ \A i \in DOMAIN conns :
              /\ conns'[i].mod = conns[i].mod /\ conns'[i].ver = conns[i].ver
              /\ conns'[i].open => conns[i].open
<1>1. conns \in Seq(Conn)
  BY DEF Shape, MapShape
<1>2. CASE conns' = conns
  BY <1>1, <1>2
<1>3. ASSUME NEW m \in left,
             conns' = [i \in DOMAIN conns |->
                         IF i = connections[m] THEN [conns[i] EXCEPT !.open = FALSE]
                                               ELSE conns[i]]
      PROVE  /\ conns' \in Seq(Conn) /\ Len(conns') = Len(conns) /\ DOMAIN conns' = DOMAIN conns
             /\ \A i \in DOMAIN conns :
                  /\ conns'[i].mod = conns[i].mod /\ conns'[i].ver = conns[i].ver
                  /\ conns'[i].open => conns[i].open
  <2>1. conns' = Closing(conns, {connections[m]})
    BY <1>3 DEF Closing
  <2>2. /\ conns' \in Seq(Conn) /\ Len(conns') = Len(conns)
        /\ \A i \in DOMAIN conns :
             /\ conns'[i].mod = conns[i].mod /\ conns'[i].ver = conns[i].ver
             /\ conns'[i].open => conns[i].open
    BY <1>1, <2>1, ClosingType
  <2> QED  BY <1>1, <2>2
<1> QED  BY <1>2, <1>3 DEF CloseNext

\* What a step does to the request that takes it.
Asks(r) == (\E m \in Modules : ServeHTTP(r, m)) \/ Handle(r) \/ Answer(r)

SameFields(v, w) == w.mod = v.mod /\ w.conn = v.conn /\ w.floor = v.floor

Routed(v, w) == /\ v.at = "new" /\ w.at = "handle" /\ w.conn = v.conn
                /\ w.mod \in Modules /\ w.floor = handled[w.mod]

Looked(v, w) == /\ v.at = "handle" /\ w.at = "build" /\ w.mod = v.mod /\ w.floor = v.floor
                /\ w.conn = connections[w.mod] /\ w.conn # 0

LEMMA ReqUpdate ==
  ASSUME ReqShape, NEW r \in Requests, NEW w, req' = [req EXCEPT ![r] = w]
  PROVE  /\ req'[r] = w /\ \A q \in Requests \ {r} : req'[q] = req[q]
         /\ DOMAIN req' = Requests /\ req' = [q \in Requests |-> req'[q]]
  BY DEF ReqShape

LEMMA ReqMoves ==
  ASSUME ReqShape, conns' = conns, NEW r \in Requests, NEW w, req' = [req EXCEPT ![r] = w],
         ReqType(w, Len(conns))
  PROVE  ReqShape'
<1>1. \A q \in Requests : ReqType(req'[q], Len(conns'))
  BY ReqUpdate DEF ReqShape
<1> QED  BY <1>1, ReqUpdate DEF ReqShape

LEMMA AskEffect ==
  ASSUME Shape, NEW r \in Requests, Asks(r)
  PROVE  /\ QuietMaps /\ ReqShape' /\ \A q \in Requests \ {r} : req'[q] = req[q]
         /\ \/ req'[r].at \in {"flight", "done"} /\ SameFields(req[r], req'[r])
            \/ Routed(req[r], req'[r])
            \/ Looked(req[r], req'[r])
<1> DEFINE n == Len(conns)
<1>1. /\ ReqShape /\ ReqType(req[r], n) /\ QuietMaps /\ conns' = conns
      /\ handled \in [Modules -> 0 .. MaxChanges] /\ connections \in [Modules -> 0 .. n]
  BY DEF Shape, ReqShape, RegistryShape, MapShape, Asks, ServeHTTP, Handle, GetModuleConnection,
         Invoke, InvokeFails, Answer, QuietMaps, maps
<1>2. CASE Served(r)
  <2> DEFINE w == [req[r] EXCEPT !.at = "done"]
  <2>1. req' = [req EXCEPT ![r] = w]
    BY <1>2 DEF Served
  <2>2. w.at = "done" /\ SameFields(req[r], w) /\ ReqType(w, n)
    BY <1>1 DEF ReqType, SameFields
  <2> HIDE DEF w
  <2>3. ReqShape' /\ req'[r] = w /\ \A q \in Requests \ {r} : req'[q] = req[q]
    BY <1>1, <2>1, <2>2, ReqMoves, ReqUpdate
  <2> QED  BY <1>1, <2>2, <2>3
<1>3. ASSUME NEW m \in Modules, req[r].at = "new",
             req' = [req EXCEPT ![r] = [@ EXCEPT !.at = "handle", !.mod = m,
                                                 !.floor = handled[m]]]
      PROVE  /\ ReqShape' /\ Routed(req[r], req'[r])
             /\ \A q \in Requests \ {r} : req'[q] = req[q]
  <2> DEFINE w == [req[r] EXCEPT !.at = "handle", !.mod = m, !.floor = handled[m]]
  <2>1. req' = [req EXCEPT ![r] = w]
    BY <1>1, <1>3 DEF ReqShape
  <2>2. /\ w.at = "handle" /\ w.mod = m /\ w.floor = handled[m] /\ w.conn = req[r].conn
        /\ ReqType(w, n)
    BY <1>1 DEF ReqType
  <2> HIDE DEF w
  <2>3. ReqShape' /\ req'[r] = w /\ \A q \in Requests \ {r} : req'[q] = req[q]
    BY <1>1, <2>1, <2>2, ReqMoves, ReqUpdate
  <2> QED  BY <1>3, <2>2, <2>3 DEF Routed
<1>4. ASSUME req[r].at = "handle", connections[req[r].mod] # 0,
             req' = [req EXCEPT ![r].at = "build", ![r].conn = connections[req[r].mod]]
      PROVE  /\ ReqShape' /\ Looked(req[r], req'[r])
             /\ \A q \in Requests \ {r} : req'[q] = req[q]
  <2> DEFINE w == [req[r] EXCEPT !.at = "build", !.conn = connections[req[r].mod]]
  <2>1. req' = [req EXCEPT ![r] = w]
    BY <1>1, <1>4 DEF ReqShape
  <2>2. /\ w.at = "build" /\ w.mod = req[r].mod /\ w.floor = req[r].floor
        /\ w.conn = connections[w.mod] /\ w.conn # 0 /\ ReqType(w, n)
    BY <1>1, <1>4 DEF ReqType
  <2> HIDE DEF w
  <2>3. ReqShape' /\ req'[r] = w /\ \A q \in Requests \ {r} : req'[q] = req[q]
    BY <1>1, <2>1, <2>2, ReqMoves, ReqUpdate
  <2> QED  BY <1>4, <2>2, <2>3 DEF Looked
<1>5. ASSUME req[r].at = "build", req' = [req EXCEPT ![r].at = "flight"]
      PROVE  /\ ReqShape' /\ req'[r].at = "flight" /\ SameFields(req[r], req'[r])
             /\ \A q \in Requests \ {r} : req'[q] = req[q]
  <2> DEFINE w == [req[r] EXCEPT !.at = "flight"]
  <2>1. req' = [req EXCEPT ![r] = w]
    BY <1>5
  <2>2. w.at = "flight" /\ SameFields(req[r], w) /\ ReqType(w, n)
    BY <1>1, <1>5 DEF ReqType, SameFields
  <2> HIDE DEF w
  <2>3. ReqShape' /\ req'[r] = w /\ \A q \in Requests \ {r} : req'[q] = req[q]
    BY <1>1, <2>1, <2>2, ReqMoves, ReqUpdate
  <2> QED  BY <2>2, <2>3
<1>6. \/ Served(r)
      \/ \E m \in Modules : /\ req[r].at = "new"
                            /\ req' = [req EXCEPT ![r] = [@ EXCEPT !.at = "handle", !.mod = m,
                                                                   !.floor = handled[m]]]
      \/ /\ req[r].at = "handle" /\ connections[req[r].mod] # 0
         /\ req' = [req EXCEPT ![r].at = "build", ![r].conn = connections[req[r].mod]]
      \/ req[r].at = "build" /\ req' = [req EXCEPT ![r].at = "flight"]
  BY DEF Asks, ServeHTTP, Handle, GetModuleConnection, Invoke, InvokeFails, Answer
<1> QED  BY <1>1, <1>2, <1>3, <1>4, <1>5, <1>6

------------------------------------------------------------------------------
(* Type correctness *)

\* The next-state relation with the requests' actions as one.
LEMMA Steps ==
  ASSUME [Next]_vars
  PROVE  \/ \E m \in Modules, is \in {"good", "bad", "gone", "health"} : RegistryChange(m, is)
         \/ TakeEvent \/ LoadList \/ LoadNext
         \/ \E g \in Goroutines : \/ RegisterModule(g) \/ StoreHandler(g)
                                  \/ DeleteHandler(g) \/ Evict(g) \/ CloseConn(g)
         \/ CloseBegin \/ CloseNext
         \/ \E r \in Requests : Asks(r)
         \/ UNCHANGED vars
  BY DEF Next, Work, Over, Asks

LEMMA ShapeInit == Init => Shape
<1> SUFFICES ASSUME Init PROVE Shape
  OBVIOUS
<1>1. RegistryShape
  <2>1. PICK start \in [Modules -> {"good", "bad", "gone"}] :
          registry = [m \in Modules |-> [mod |-> m, ver |-> 1, is |-> start[m]]]
    BY DEF Init
  <2>2. registry \in [Modules -> Numbered]
    BY <2>1, ChangesAssumption DEF Numbered
  <2>3. changes \in 1 .. MaxChanges /\ queue \in Seq(Numbered)
    BY ChangesAssumption DEF Init
  <2>4. taken \in [Modules -> 0 .. MaxChanges] /\ handled \in [Modules -> 0 .. MaxChanges]
    BY ChangesAssumption DEF Init
  <2> QED  BY <2>2, <2>3, <2>4 DEF Init, RegistryShape
<1>2. MapShape /\ conns = <<>>
  BY DEF Init, MapShape
<1>3. JobShape
  BY <1>2, NoJobType DEF Init, JobShape
<1>4. ReqShape
  <2> DEFINE w == [at |-> "new", mod |-> CHOOSE m \in Modules : TRUE, conn |-> 0, floor |-> 0]
  <2>1. (CHOOSE m \in Modules : TRUE) \in Modules
    BY ModulesAssumption
  <2>2. ReqType(w, 0)
    BY <2>1, ChangesAssumption DEF ReqType
  <2>3. req = [r \in Requests |-> w]
    BY DEF Init
  <2> HIDE DEF w
  <2> QED  BY <1>2, <2>2, <2>3 DEF ReqShape
<1> QED  BY <1>1, <1>2, <1>3, <1>4 DEF Shape

LEMMA ShapeStep ==
  ASSUME Shape, [Next]_vars
  PROVE  Shape'
<1>0. Len(conns) \in Nat /\ RegistryShape /\ MapShape /\ JobShape /\ ReqShape
  BY DEF Shape, MapShape
<1>1. ASSUME NEW m \in Modules, NEW is \in {"good", "bad", "gone", "health"}, RegistryChange(m, is)
      PROVE  Shape'
  <2>1. UNCHANGED <<maps, job, listed, list, shut, left, req, hist>> /\ changes' \in 1 .. MaxChanges
    BY <1>0, <1>1, ChangesAssumption DEF RegistryChange, RegistryShape
  <2>2. RegistryShape'
    BY <1>0, <1>1, <2>1, ChangeEffect DEF RegistryShape, hist
  <2>3. MapShape' /\ JobShape' /\ ReqShape'
    BY <1>0, <2>1 DEF MapShape, JobShape, ReqShape, maps, hist
  <2> QED  BY <2>2, <2>3 DEF Shape
<1>2. CASE TakeEvent
  <2>1. UNCHANGED <<registry, changes, maps, listed, list, shut, left, req,
                    handled, raced, superseded>>
    BY <1>2 DEF TakeEvent
  <2>2. RegistryShape' /\ JobShape'
    BY <1>0, <1>2, <2>1, TakeEffect DEF RegistryShape
  <2>3. MapShape' /\ ReqShape'
    BY <1>0, <2>1 DEF MapShape, ReqShape, maps
  <2> QED  BY <2>2, <2>3 DEF Shape
<1>3. CASE LoadList
  <2>1. UNCHANGED <<registry, changes, queue, maps, job, shut, left, req, hist>>
    BY <1>3 DEF LoadList
  <2>2. RegistryShape'
    BY <1>0, <1>3, <2>1 DEF LoadList, RegistryShape, hist
  <2>3. MapShape' /\ JobShape' /\ ReqShape'
    BY <1>0, <2>1 DEF MapShape, JobShape, ReqShape, maps, hist
  <2> QED  BY <2>2, <2>3 DEF Shape
<1>4. CASE LoadNext
  <2>1. UNCHANGED <<registry, changes, queue, maps, listed, shut, left, req, hist>>
    BY <1>4 DEF LoadNext
  <2>2. list' \subseteq list /\ JobShape'
    BY <1>4, LoadNextEffect
  <2>3. RegistryShape' /\ MapShape' /\ ReqShape'
    BY <1>0, <2>1, <2>2 DEF RegistryShape, MapShape, ReqShape, maps, hist
  <2> QED  BY <2>2, <2>3 DEF Shape
<1>5. ASSUME NEW g \in Goroutines, RegisterModule(g)
      PROVE  Shape'
  <2>1. UNCHANGED <<registry, changes, queue, handlers, listed, list, shut, left, req,
                    taken, handled>>
    BY <1>5 DEF RegisterModule
  <2>2. /\ JobShape' /\ job[g].of \in Numbered /\ Len(conns') = Len(conns) + 1
        /\ connections' \in [Modules -> 0 .. Len(conns')] /\ conns' \in Seq(Conn)
        /\ DOMAIN conns = 1 .. Len(conns) /\ DOMAIN conns' = 1 .. (Len(conns) + 1)
    BY <1>5, RegisterEffect
  <2>3. superseded' \subseteq DOMAIN conns' /\ raced' \subseteq Modules
    <3>1. /\ superseded' = superseded \cup ({connections[job[g].of.mod]} \ {0})
          /\ raced' \subseteq raced \cup {job[g].of.mod}
      BY <1>5 DEF RegisterModule, Race
    <3>2. job[g].of.mod \in Modules /\ connections[job[g].of.mod] \in 0 .. Len(conns)
      BY <1>0, <2>2 DEF MapShape, Numbered
    <3> QED  BY <1>0, <2>2, <3>1, <3>2 DEF MapShape
  <2>4. ReqShape'
    <3>1. Len(conns') \in Nat /\ Len(conns) <= Len(conns')
      BY <1>0, <2>2
    <3> QED  BY <1>0, <2>1, <3>1, ReqStays
  <2>5. RegistryShape' /\ MapShape'
    BY <1>0, <2>1, <2>2, <2>3 DEF RegistryShape, MapShape
  <2> QED  BY <2>2, <2>4, <2>5 DEF Shape
<1>6. ASSUME NEW g \in Goroutines, StoreHandler(g)
      PROVE  Shape'
  <2>1. UNCHANGED <<registry, changes, queue, connections, conns, listed, list, shut, left, req,
                    taken, superseded>>
    BY <1>6 DEF StoreHandler
  <2>2. /\ JobShape' /\ job[g].of \in Numbered /\ handled' \in [Modules -> 0 .. MaxChanges]
        /\ handlers' = handlers \cup {job[g].of.mod}
    BY <1>6, StoreEffect
  <2>3. raced' \subseteq Modules /\ handlers' \subseteq Modules
    <3>1. raced' \subseteq raced \cup {job[g].of.mod}
      BY <1>6 DEF StoreHandler, Race
    <3> QED  BY <1>0, <2>2, <3>1 DEF MapShape, Numbered
  <2>4. RegistryShape' /\ MapShape' /\ ReqShape'
    BY <1>0, <2>1, <2>2, <2>3 DEF RegistryShape, MapShape, ReqShape
  <2> QED  BY <2>2, <2>4 DEF Shape
<1>7. ASSUME NEW g \in Goroutines, DeleteHandler(g)
      PROVE  Shape'
  <2>1. UNCHANGED <<registry, changes, queue, connections, conns, listed, list, shut,
                    left, req, hist>>
    BY <1>7 DEF DeleteHandler
  <2>2. JobShape' /\ handlers' \subseteq handlers
    BY <1>7, DeleteEffect
  <2>3. RegistryShape' /\ MapShape' /\ ReqShape'
    BY <1>0, <2>1, <2>2 DEF RegistryShape, MapShape, ReqShape, hist
  <2> QED  BY <2>2, <2>3 DEF Shape
<1>8. ASSUME NEW g \in Goroutines, Evict(g)
      PROVE  Shape'
  <2>1. UNCHANGED <<registry, changes, queue, handlers, conns, listed, list, shut, left, req,
                    taken, raced, superseded>>
    BY <1>8 DEF Evict
  <2>2. /\ JobShape' /\ connections' \in [Modules -> 0 .. Len(conns)]
        /\ handled' \in [Modules -> 0 .. MaxChanges]
    BY <1>8, EvictEffect
  <2>3. RegistryShape' /\ MapShape' /\ ReqShape'
    BY <1>0, <2>1, <2>2 DEF RegistryShape, MapShape, ReqShape
  <2> QED  BY <2>2, <2>3 DEF Shape
<1>9. ASSUME NEW g \in Goroutines, CloseConn(g)
      PROVE  Shape'
  <2>1. UNCHANGED <<registry, changes, queue, handlers, connections, listed, list, shut, left, req,
                    taken, raced, superseded>>
    BY <1>9 DEF CloseConn
  <2>2. /\ JobShape' /\ handled' \in [Modules -> 0 .. MaxChanges]
        /\ conns' \in Seq(Conn) /\ Len(conns') = Len(conns) /\ DOMAIN conns' = DOMAIN conns
    BY <1>9, CloseEffect
  <2>3. RegistryShape' /\ MapShape' /\ ReqShape'
    BY <1>0, <2>1, <2>2 DEF RegistryShape, MapShape, ReqShape
  <2> QED  BY <2>2, <2>3 DEF Shape
<1>10. CASE CloseBegin
  BY <1>0, <1>10 DEF CloseBegin, Shape, RegistryShape, MapShape, JobShape, ReqShape, maps, hist
<1>11. CASE CloseNext
  <2>1. UNCHANGED <<registry, changes, queue, handlers, connections, job, listed, list, req, hist>>
        /\ left' \subseteq left /\ shut' \in {shut, "done"}
    BY <1>11 DEF CloseNext
  <2>2. conns' \in Seq(Conn) /\ Len(conns') = Len(conns) /\ DOMAIN conns' = DOMAIN conns
    BY <1>11, CloseNextEffect
  <2>3. RegistryShape' /\ MapShape' /\ JobShape' /\ ReqShape'
    BY <1>0, <2>1, <2>2 DEF RegistryShape, MapShape, JobShape, ReqShape, hist
  <2> QED  BY <2>3 DEF Shape
<1>12. ASSUME NEW r \in Requests, Asks(r)
       PROVE  Shape'
  <2>1. QuietMaps /\ ReqShape'
    BY <1>12, AskEffect
  <2>2. RegistryShape' /\ MapShape' /\ JobShape'
    BY <1>0, <2>1 DEF QuietMaps, RegistryShape, MapShape, JobShape, maps, hist
  <2> QED  BY <2>1, <2>2 DEF Shape
<1>13. CASE UNCHANGED vars
  BY <1>0, <1>13 DEF vars, Shape, RegistryShape, MapShape, JobShape, ReqShape, maps, hist
<1> QED
  BY <1>1, <1>2, <1>3, <1>4, <1>5, <1>6, <1>7, <1>8, <1>9, <1>10, <1>11, <1>12, <1>13, Steps

LEMMA ShapeHolds == Spec => []Shape
  BY ShapeInit, ShapeStep, PTL DEF Spec

\* The router's two maps, the goroutines that fill them and the requests that read
\* them are well typed; nobody closes or calls a connection that was not found.
THEOREM TypeCorrect == Spec => []TypeOK
  BY ShapeHolds, ShapeIsType, PTL

------------------------------------------------------------------------------
(* No connection leaks but the ones RegisterModule overwrites *)

\* The connection in a module's entry was dialled for it.
Owned == \A m \in Modules : connections[m] # 0 => conns[connections[m]].mod = m

\* The connection is in the map, about to be closed, or was overwritten.
Accounted(i) ==
  \/ connections[conns[i].mod] = i
  \/ \E g \in Goroutines : job[g].at = "close" /\ job[g].conn = i
  \/ i \in superseded

OwnInv == Owned /\ \A i \in DOMAIN conns : conns[i].open => Accounted(i)

\* An entry is the index of a connection, and a connection has a module.
LEMMA Entries ==
  ASSUME Shape
  PROVE  /\ Len(conns) \in Nat /\ DOMAIN conns = 1 .. Len(conns)
         /\ \A m \in Modules : connections[m] # 0 => connections[m] \in DOMAIN conns
         /\ \A i \in DOMAIN conns : conns[i].mod \in Modules /\ conns[i].ver \in Nat
<1>1. conns \in Seq(Conn) /\ connections \in [Modules -> 0 .. Len(conns)]
  BY DEF Shape, MapShape
<1>2. Len(conns) \in Nat /\ DOMAIN conns = 1 .. Len(conns) /\ \A i \in DOMAIN conns : conns[i] \in Conn
  BY <1>1
<1>3. \A m \in Modules : connections[m] # 0 => connections[m] \in DOMAIN conns
  BY <1>1, <1>2
<1> QED  BY <1>2, <1>3 DEF Conn

\* Nothing happens to the connections, and no goroutine gives up one to close.
LEMMA OwnQuiet ==
  ASSUME Shape, OwnInv, UNCHANGED <<connections, superseded>>,
         DOMAIN conns' = DOMAIN conns,
         \A i \in DOMAIN conns : conns'[i].mod = conns[i].mod /\ (conns'[i].open => conns[i].open),
         \A g \in Goroutines : job[g].at = "close" =>
           \/ job'[g] = job[g]
           \/ \A i \in DOMAIN conns : conns'[i].open => i # job[g].conn
  PROVE  OwnInv'
<1>1. Owned'
  BY Entries DEF OwnInv, Owned
<1>2. ASSUME NEW i \in DOMAIN conns', conns'[i].open
      PROVE  Accounted(i)'
  <2>1. i \in DOMAIN conns /\ Accounted(i) /\ conns'[i].mod = conns[i].mod
    BY <1>2 DEF OwnInv
  <2>2. CASE connections[conns[i].mod] = i \/ i \in superseded
    BY <2>1, <2>2 DEF Accounted
  <2>3. ASSUME NEW g \in Goroutines, job[g].at = "close", job[g].conn = i
        PROVE  Accounted(i)'
    BY <1>2, <2>1, <2>3 DEF Accounted
  <2> QED  BY <2>1, <2>2, <2>3 DEF Accounted
<1> QED  BY <1>1, <1>2 DEF OwnInv

LEMMA OwnStep ==
  ASSUME Shape, OwnInv, [Next]_vars
  PROVE  OwnInv'
<1>1. ASSUME NEW m \in Modules, NEW is \in {"good", "bad", "gone", "health"}, RegistryChange(m, is)
      PROVE  OwnInv'
  <2>1. UNCHANGED <<maps, job, hist>>
    BY <1>1 DEF RegistryChange
  <2> QED  BY <2>1, OwnQuiet DEF maps, hist
<1>2. CASE TakeEvent
  <2>1. UNCHANGED <<connections, conns, superseded>>
    BY <1>2 DEF TakeEvent, maps
  <2>2. \A g \in Goroutines : job[g].at = "close" => job'[g] = job[g]
    BY <1>2, TakeEffect DEF Goroutines
  <2> QED  BY <2>1, <2>2, OwnQuiet
<1>3. CASE LoadList
  <2>1. UNCHANGED <<maps, job, hist>>
    BY <1>3 DEF LoadList
  <2> QED  BY <2>1, OwnQuiet DEF maps, hist
<1>4. CASE LoadNext
  <2>1. UNCHANGED <<connections, conns, superseded>>
    BY <1>4 DEF LoadNext, maps, hist
  <2>2. \A g \in Goroutines : job[g].at = "close" => job'[g] = job[g]
    BY <1>4, LoadNextEffect DEF Goroutines
  <2> QED  BY <2>1, <2>2, OwnQuiet
<1>5. ASSUME NEW g \in Goroutines, RegisterModule(g)
      PROVE  OwnInv'
  <2> DEFINE c == job[g].of
             k == Len(conns) + 1
  <2>1. /\ c.mod \in Modules /\ job[g].at = "connect" /\ Len(conns) \in Nat
        /\ DOMAIN conns = 1 .. Len(conns) /\ DOMAIN conns' = 1 .. k
        /\ \A i \in DOMAIN conns : conns'[i] = conns[i]
        /\ conns'[k].mod = c.mod
        /\ \A m \in Modules : connections'[m] = IF m = c.mod THEN k ELSE connections[m]
        /\ \A h \in Goroutines \ {g} : job'[h] = job[h]
    BY <1>5, RegisterEffect DEF Numbered
  <2>2. superseded' = superseded \cup ({connections[c.mod]} \ {0})
    BY <1>5 DEF RegisterModule
  <2>3. Owned'
    BY <2>1, Entries DEF OwnInv, Owned
  <2>4. ASSUME NEW i \in DOMAIN conns', conns'[i].open
        PROVE  Accounted(i)'
    <3>1. CASE i = k
      BY <2>1, <3>1 DEF Accounted
    <3>2. CASE i # k
      <4>1. i \in DOMAIN conns /\ conns'[i] = conns[i] /\ Accounted(i) /\ conns[i].mod \in Modules
        BY <2>1, <2>4, <3>2, Entries DEF OwnInv
      <4>2. CASE connections[conns[i].mod] = i
        BY <2>1, <2>2, <4>1, <4>2 DEF Accounted
      <4>3. ASSUME NEW h \in Goroutines, job[h].at = "close", job[h].conn = i
            PROVE  Accounted(i)'
        BY <2>1, <4>3 DEF Accounted
      <4>4. CASE i \in superseded
        BY <2>2, <4>4 DEF Accounted
      <4> QED  BY <4>1, <4>2, <4>3, <4>4 DEF Accounted
    <3> QED  BY <3>1, <3>2
  <2> QED  BY <2>3, <2>4 DEF OwnInv
<1>6. ASSUME NEW g \in Goroutines, StoreHandler(g)
      PROVE  OwnInv'
  <2>1. UNCHANGED <<connections, conns, superseded>>
    BY <1>6 DEF StoreHandler
  <2>2. \A h \in Goroutines : job[h].at = "close" => job'[h] = job[h]
    BY <1>6, StoreEffect
  <2> QED  BY <2>1, <2>2, OwnQuiet
<1>7. ASSUME NEW g \in Goroutines, DeleteHandler(g)
      PROVE  OwnInv'
  <2>1. UNCHANGED <<connections, conns, superseded>>
    BY <1>7 DEF DeleteHandler, hist
  <2>2. \A h \in Goroutines : job[h].at = "close" => job'[h] = job[h]
    BY <1>7, DeleteEffect
  <2> QED  BY <2>1, <2>2, OwnQuiet
<1>8. ASSUME NEW g \in Goroutines, Evict(g)
      PROVE  OwnInv'
  <2> DEFINE c == job[g].of
  <2>1. /\ c.mod \in Modules /\ job[g].at = "evict" /\ conns' = conns
        /\ \A m \in Modules : connections'[m] = IF m = c.mod THEN 0 ELSE connections[m]
        /\ \A h \in Goroutines \ {g} : job'[h] = job[h]
        /\ connections[c.mod] # 0 => job'[g].at = "close" /\ job'[g].conn = connections[c.mod]
    BY <1>8, EvictEffect DEF Numbered
  <2>2. superseded' = superseded
    BY <1>8 DEF Evict
  <2>3. Owned'
    BY <2>1 DEF OwnInv, Owned
  <2>4. ASSUME NEW i \in DOMAIN conns', conns'[i].open
        PROVE  Accounted(i)'
    <3>1. i \in DOMAIN conns /\ conns'[i] = conns[i] /\ Accounted(i) /\ conns[i].mod \in Modules
          /\ i # 0
      BY <2>1, <2>4, Entries DEF OwnInv
    <3>2. CASE connections[conns[i].mod] = i
      BY <2>1, <2>2, <3>1, <3>2 DEF Accounted
    <3>3. ASSUME NEW h \in Goroutines, job[h].at = "close", job[h].conn = i
          PROVE  Accounted(i)'
      BY <2>1, <3>3 DEF Accounted
    <3>4. CASE i \in superseded
      BY <2>2, <3>4 DEF Accounted
    <3> QED  BY <3>1, <3>2, <3>3, <3>4 DEF Accounted
  <2> QED  BY <2>3, <2>4 DEF OwnInv
<1>9. ASSUME NEW g \in Goroutines, CloseConn(g)
      PROVE  OwnInv'
  <2>1. UNCHANGED <<connections, superseded>>
    BY <1>9 DEF CloseConn
  <2>2. /\ DOMAIN conns' = DOMAIN conns
        /\ \A i \in DOMAIN conns :
             /\ conns'[i].mod = conns[i].mod
             /\ conns'[i].open => conns[i].open /\ i # job[g].conn
        /\ \A h \in Goroutines \ {g} : job'[h] = job[h]
    BY <1>9, CloseEffect
  <2> QED  BY <2>1, <2>2, OwnQuiet
<1>10. CASE CloseBegin
  <2>1. UNCHANGED <<maps, job, hist>>
    BY <1>10 DEF CloseBegin
  <2> QED  BY <2>1, OwnQuiet DEF maps, hist
<1>11. CASE CloseNext
  <2>1. UNCHANGED <<connections, superseded, job>>
    BY <1>11 DEF CloseNext, hist
  <2> QED  BY <1>11, <2>1, CloseNextEffect, OwnQuiet
<1>12. ASSUME NEW r \in Requests, Asks(r)
       PROVE  OwnInv'
  <2>1. UNCHANGED <<maps, job, hist>>
    BY <1>12, AskEffect DEF QuietMaps
  <2> QED  BY <2>1, OwnQuiet DEF maps, hist
<1>13. CASE UNCHANGED vars
  <2>1. UNCHANGED <<maps, job, hist>>
    BY <1>13 DEF vars
  <2> QED  BY <2>1, OwnQuiet DEF maps, hist
<1> QED
  BY <1>1, <1>2, <1>3, <1>4, <1>5, <1>6, <1>7, <1>8, <1>9, <1>10, <1>11, <1>12, <1>13, Steps

\* Whatever the two goroutines and Close do, and in whatever order, an open connection
\* that nothing refers to any more is one that RegisterModule overwrote.
THEOREM OnlyOverwrittenLeak == Spec => []OpenAccounted
<1>1. Init => OwnInv
  BY DEF Init, OwnInv, Owned
<1>2. OwnInv => OpenAccounted
  BY DEF OwnInv, OpenAccounted, Accounted
<1> QED  BY <1>1, <1>2, OwnStep, ShapeHolds, PTL DEF Spec

------------------------------------------------------------------------------
(* The order of the registry's changes *)

\* The goroutine of the events registers and unregisters; the loader registers.
Duties ==
  /\ E.at \in {"connect", "route"} => E.of.is = "good"
  /\ E.at \in {"unroute", "evict", "close"} => E.of.is = "gone"
  /\ L.at \in {"idle", "connect", "route"}
  /\ L.at # "idle" => L.of.is = "good"

\* Changes wait in the order of their numbers, and the ones taken are older.
Ordered ==
  /\ \A m \in Modules : /\ registry[m].mod = m /\ registry[m].ver <= changes
                        /\ registry[m].is # "health"
                        /\ handled[m] <= taken[m] /\ taken[m] <= changes
  /\ \A i \in DOMAIN queue :
       /\ 1 < queue[i].ver /\ queue[i].ver <= changes
       /\ queue[i].is = "health" \/ queue[i].ver <= registry[queue[i].mod].ver
       /\ \A m \in Modules : taken[m] < queue[i].ver
       /\ \A k \in DOMAIN queue : i < k => queue[i].ver < queue[k].ver
  /\ E.at # "idle" => /\ E.of.ver = taken[E.of.mod] /\ 1 < E.of.ver
                      /\ E.of.ver <= registry[E.of.mod].ver

\* d is, or was, what the registry holds: it is still to be taken, is being applied
\* or has been applied, and no other change has its number.
TracedIn(d, reg, tak, q, e) ==
  /\ d.ver <= reg[d.mod].ver
  /\ d.ver = reg[d.mod].ver => d = reg[d.mod]
  /\ (1 < d.ver /\ tak[d.mod] < d.ver) => \E i \in DOMAIN q : q[i] = d
  /\ (e.at # "idle" /\ e.of.ver = d.ver) => e.of = d

Traced(d) == TracedIn(d, registry, taken, queue, E)

\* What List returned can be traced however long the loader takes.
AllTraced ==
  /\ \A m \in Modules : Traced(registry[m])
  /\ \A d \in list : Traced(d)
  /\ L.at # "idle" => Traced(L.of)

OrderInv == Duties /\ Ordered /\ AllTraced

LEMMA Numbers ==
  ASSUME Shape
  PROVE  /\ \A m \in Modules : /\ registry[m] \in Numbered /\ registry[m].ver \in Nat
                               /\ taken[m] \in Nat /\ handled[m] \in Nat
         /\ changes \in Nat
         /\ \A i \in DOMAIN queue : queue[i].mod \in Modules /\ queue[i].ver \in Nat
         /\ \A d \in list : d.mod \in Modules /\ d.ver \in Nat
         /\ E.at # "idle" => E.of.mod \in Modules /\ E.of.ver \in Nat
         /\ L.at # "idle" => L.of.mod \in Modules /\ L.of.ver \in Nat
<1>1. \A d \in Numbered : d.mod \in Modules /\ d.ver \in Nat
  BY DEF Numbered
<1>2. /\ \A m \in Modules : registry[m] \in Numbered /\ taken[m] \in Nat /\ handled[m] \in Nat
      /\ changes \in Nat /\ \A i \in DOMAIN queue : queue[i] \in Numbered
      /\ list \subseteq Numbered
  BY DEF Shape, RegistryShape
<1>3. /\ E.at # "idle" => E.of \in Numbered
      /\ L.at # "idle" => L.of \in Numbered
  BY DEF Shape, JobShape, JobType, Goroutines, E, L
<1> QED  BY <1>1, <1>2, <1>3

\* A step that leaves the registry and its events alone.
LEMMA OrderQuiet ==
  ASSUME Shape, OrderInv, UNCHANGED <<registry, changes, queue, taken>>, list' \subseteq list,
         E'.at = "idle" \/ (E.at # "idle" /\ E'.of = E.of),
         L'.at = "idle" \/ (L.at # "idle" /\ L'.of = L.of) \/ L'.of \in list,
         \A m \in Modules : handled'[m] = handled[m] \/ handled'[m] = taken[m],
         Duties'
  PROVE  OrderInv'
<1>1. \A d : Traced(d) => TracedIn(d, registry', taken', queue', E')
  BY DEF Traced, TracedIn
<1>2. AllTraced'
  BY <1>1 DEF OrderInv, AllTraced, Traced
<1>3. Ordered'
  BY Numbers DEF OrderInv, Ordered
<1> QED  BY <1>2, <1>3 DEF OrderInv

LEMMA OrderChange ==
  ASSUME Shape, OrderInv, NEW m \in Modules, NEW is \in {"good", "bad", "gone", "health"},
         RegistryChange(m, is)
  PROVE  OrderInv'
<1> DEFINE c == [mod |-> m, ver |-> changes + 1, is |-> is]
<1>1. /\ c \in Numbered /\ changes' = changes + 1 /\ Len(queue) \in Nat
      /\ DOMAIN queue = 1 .. Len(queue) /\ DOMAIN queue' = 1 .. (Len(queue) + 1)
      /\ \A i \in DOMAIN queue : queue'[i] = queue[i]
      /\ queue'[Len(queue) + 1] = c
      /\ \A n \in Modules : registry'[n] = IF n = m /\ is # "health" THEN c ELSE registry[n]
  BY ChangeEffect
<1>2. c.mod = m /\ c.ver = changes + 1 /\ c.is = is
  OBVIOUS
<1> HIDE DEF c
<1>3. job' = job /\ list' = list /\ taken' = taken /\ handled' = handled /\ E' = E /\ L' = L
  BY DEF RegistryChange, hist, E, L
<1>4. Duties'
  BY <1>3 DEF OrderInv, Duties
<1>5. \A n \in Modules : /\ registry[n].ver <= registry'[n].ver
                         /\ registry'[n] = registry[n] \/ registry[n].ver < registry'[n].ver
  BY <1>1, <1>2, Numbers DEF OrderInv, Ordered
<1>6. Ordered'
  <2>1. ASSUME NEW n \in Modules
        PROVE  /\ registry'[n].mod = n /\ registry'[n].ver <= changes'
               /\ registry'[n].is # "health"
               /\ handled'[n] <= taken'[n] /\ taken'[n] <= changes'
    BY <1>1, <1>2, <1>3, Numbers DEF OrderInv, Ordered
  <2>2. ASSUME NEW i \in DOMAIN queue'
        PROVE  /\ 1 < queue'[i].ver /\ queue'[i].ver <= changes'
               /\ queue'[i].is = "health" \/ queue'[i].ver <= registry'[queue'[i].mod].ver
               /\ \A n \in Modules : taken'[n] < queue'[i].ver
               /\ \A k \in DOMAIN queue' : i < k => queue'[i].ver < queue'[k].ver
    <3>1. CASE i = Len(queue) + 1
      <4>1. changes \in 1 .. MaxChanges
        BY DEF Shape, RegistryShape
      <4> QED  BY <1>1, <1>2, <1>3, <3>1, <4>1, Numbers DEF OrderInv, Ordered
    <3>2. CASE i # Len(queue) + 1
      <4>1. i \in DOMAIN queue /\ queue'[i] = queue[i]
        BY <1>1, <3>2
      <4>2. /\ 1 < queue[i].ver /\ queue[i].ver <= changes
            /\ queue[i].is = "health" \/ queue[i].ver <= registry'[queue[i].mod].ver
            /\ \A n \in Modules : taken[n] < queue[i].ver
        BY <1>1, <1>2, <1>5, <4>1, Numbers DEF OrderInv, Ordered
      <4>3. \A k \in DOMAIN queue' : i < k => queue[i].ver < queue'[k].ver
        BY <1>1, <1>2, <4>1, <4>2, Numbers DEF OrderInv, Ordered
      <4> QED  BY <1>1, <1>3, <4>1, <4>2, <4>3, Numbers
    <3> QED  BY <3>1, <3>2
  <2>3. E.at # "idle" => /\ E.of.ver = taken[E.of.mod] /\ 1 < E.of.ver
                         /\ E.of.ver <= registry'[E.of.mod].ver
    <3> SUFFICES ASSUME E.at # "idle"
                 PROVE  /\ E.of.ver = taken[E.of.mod] /\ 1 < E.of.ver
                        /\ E.of.ver <= registry'[E.of.mod].ver
      OBVIOUS
    <3>1. E.of.mod \in Modules /\ E.of.ver \in Nat /\ registry'[E.of.mod].ver \in Nat
      BY <1>1, <1>2, Numbers
    <3> QED  BY <1>5, <3>1, Numbers DEF OrderInv, Ordered
  <2> QED  BY <1>3, <2>1, <2>2, <2>3 DEF Ordered
<1>7. ASSUME NEW d, d.mod \in Modules, d.ver \in Nat, Traced(d)
      PROVE  TracedIn(d, registry', taken', queue', E')
  <2>1. d.ver <= registry'[d.mod].ver /\ (d.ver = registry'[d.mod].ver => d = registry'[d.mod])
    BY <1>1, <1>2, <1>7, Numbers DEF Traced, TracedIn, OrderInv, Ordered
  <2> QED  BY <1>1, <1>3, <1>7, <2>1 DEF Traced, TracedIn
<1>8. ASSUME NEW n \in Modules
      PROVE  TracedIn(registry'[n], registry', taken', queue', E')
  <2>1. CASE n = m /\ is # "health"
    <3>1. \E i \in DOMAIN queue' : queue'[i] = c
      BY <1>1
    <3>2. E.at # "idle" => E.of.ver # c.ver
      BY <1>2, Numbers DEF OrderInv, Ordered
    <3>3. registry'[n] = c /\ registry'[c.mod] = c /\ c.ver \in Nat
      BY <1>1, <1>2, <2>1, Numbers
    <3> QED  BY <1>3, <3>1, <3>2, <3>3 DEF TracedIn
  <2>2. CASE ~(n = m /\ is # "health")
    BY <1>1, <1>7, <2>2, Numbers DEF OrderInv, AllTraced, Ordered
  <2> QED  BY <2>1, <2>2
<1>9. AllTraced'
  <2>1. \A d \in list : TracedIn(d, registry', taken', queue', E')
    BY <1>7, Numbers DEF OrderInv, AllTraced
  <2>2. L.at # "idle" => TracedIn(L.of, registry', taken', queue', E')
    BY <1>7, Numbers DEF OrderInv, AllTraced
  <2> QED  BY <1>3, <1>8, <2>1, <2>2 DEF AllTraced, Traced
<1> QED  BY <1>4, <1>6, <1>9 DEF OrderInv

LEMMA OrderTake ==
  ASSUME Shape, OrderInv, TakeEvent
  PROVE  OrderInv'
<1> DEFINE c == Head(queue)
<1>1. /\ c.mod \in Modules /\ c.ver \in Nat
      /\ c.is \in {"good", "bad", "gone", "health"} /\ 1 \in DOMAIN queue /\ queue[1] = c
      /\ \A i \in DOMAIN queue' : i + 1 \in DOMAIN queue /\ queue'[i] = queue[i + 1]
      /\ \A i \in DOMAIN queue : i # 1 => i - 1 \in DOMAIN queue' /\ queue'[i - 1] = queue[i]
      /\ DOMAIN queue \subseteq Nat \ {0} /\ DOMAIN queue' \subseteq Nat \ {0}
      /\ \A n \in Modules : taken'[n] = IF n = c.mod THEN c.ver ELSE taken[n]
  <2>1. \A d \in Numbered : /\ d.mod \in Modules /\ d.ver \in Nat
                            /\ d.is \in {"good", "bad", "gone", "health"}
    BY DEF Numbered
  <2> HIDE DEF c
  <2> QED  BY <2>1, TakeEffect DEF c
<1>2. /\ E.at = "idle" /\ L' = L
      /\ E'.at = IF c.is = "good" THEN "connect" ELSE IF c.is = "gone" THEN "unroute" ELSE "idle"
      /\ c.is \in {"good", "gone"} => E'.of = c
  BY TakeEffect DEF E, L
<1>3. registry' = registry /\ changes' = changes /\ list' = list /\ handled' = handled
  BY DEF TakeEvent
<1> HIDE DEF c
<1>4. /\ 1 < c.ver /\ c.ver <= changes /\ (c.is = "health" \/ c.ver <= registry[c.mod].ver)
      /\ \A n \in Modules : taken[n] < c.ver
      /\ \A i \in DOMAIN queue : i # 1 => c.ver < queue[i].ver
  BY <1>1 DEF OrderInv, Ordered
<1>5. Duties'
  BY <1>1, <1>2 DEF OrderInv, Duties
<1>6. Ordered'
  <2>1. ASSUME NEW n \in Modules
        PROVE  handled'[n] <= taken'[n] /\ taken'[n] <= changes
    BY <1>1, <1>3, <1>4, Numbers DEF OrderInv, Ordered
  <2>2. ASSUME NEW i \in DOMAIN queue'
        PROVE  /\ 1 < queue'[i].ver /\ queue'[i].ver <= changes
               /\ queue'[i].is = "health" \/ queue'[i].ver <= registry[queue'[i].mod].ver
               /\ \A n \in Modules : taken'[n] < queue'[i].ver
               /\ \A k \in DOMAIN queue' : i < k => queue'[i].ver < queue'[k].ver
    <3>1. i + 1 \in DOMAIN queue /\ queue'[i] = queue[i + 1] /\ i + 1 # 1
      BY <1>1
    <3>2. /\ 1 < queue'[i].ver /\ queue'[i].ver <= changes
          /\ queue'[i].is = "health" \/ queue'[i].ver <= registry[queue'[i].mod].ver
      BY <3>1 DEF OrderInv, Ordered
    <3>3. \A n \in Modules : taken'[n] < queue'[i].ver
      BY <1>1, <1>4, <3>1 DEF OrderInv, Ordered
    <3>4. ASSUME NEW k \in DOMAIN queue', i < k
          PROVE  queue'[i].ver < queue'[k].ver
      <4>1. k + 1 \in DOMAIN queue /\ queue'[k] = queue[k + 1] /\ i + 1 < k + 1
        BY <1>1, <3>4
      <4> QED  BY <3>1, <4>1 DEF OrderInv, Ordered
    <3> QED  BY <3>2, <3>3, <3>4
  <2>3. E'.at # "idle" => /\ E'.of.ver = taken'[E'.of.mod] /\ 1 < E'.of.ver
                          /\ E'.of.ver <= registry[E'.of.mod].ver
    BY <1>1, <1>2, <1>4
  <2> QED  BY <1>3, <2>1, <2>2, <2>3 DEF OrderInv, Ordered
<1>7. ASSUME NEW d, d.mod \in Modules, d.ver \in Nat, Traced(d)
      PROVE  TracedIn(d, registry', taken', queue', E')
  <2>1. ASSUME 1 < d.ver, taken'[d.mod] < d.ver
        PROVE  \E i \in DOMAIN queue' : queue'[i] = d
    <3>1. taken[d.mod] < d.ver
      BY <1>1, <1>4, <1>7, <2>1, Numbers
    <3>2. PICK i \in DOMAIN queue : queue[i] = d
      BY <1>7, <2>1, <3>1 DEF Traced, TracedIn
    <3>3. i # 1
      BY <1>1, <1>7, <2>1, <3>2
    <3> QED  BY <1>1, <3>2, <3>3
  <2>2. ASSUME E'.at # "idle", E'.of.ver = d.ver
        PROVE  E'.of = d
    <3>1. E'.of = c /\ c.ver = d.ver
      BY <1>1, <1>2, <2>2
    <3>2. PICK i \in DOMAIN queue : queue[i] = d
      BY <1>4, <1>7, <3>1 DEF Traced, TracedIn
    <3>3. i = 1
      BY <1>4, <1>7, <3>1, <3>2
    <3> QED  BY <1>1, <3>1, <3>2, <3>3
  <2> QED  BY <1>3, <1>7, <2>1, <2>2 DEF Traced, TracedIn
<1>8. AllTraced'
  <2>1. \A m \in Modules : TracedIn(registry[m], registry', taken', queue', E')
    BY <1>7, Numbers DEF OrderInv, AllTraced, Ordered
  <2>2. \A d \in list : TracedIn(d, registry', taken', queue', E')
    BY <1>7, Numbers DEF OrderInv, AllTraced
  <2>3. L.at # "idle" => TracedIn(L.of, registry', taken', queue', E')
    BY <1>7, Numbers DEF OrderInv, AllTraced
  <2> QED  BY <1>2, <1>3, <2>1, <2>2, <2>3 DEF AllTraced, Traced
<1> QED  BY <1>5, <1>6, <1>8 DEF OrderInv

LEMMA OrderLoad ==
  ASSUME Shape, OrderInv, LoadList
  PROVE  OrderInv'
<1>1. UNCHANGED <<registry, changes, queue, job, taken, handled>> /\ E' = E /\ L' = L
      /\ list' = {registry[m] : m \in {n \in Modules : registry[n].is # "gone"}}
  BY DEF LoadList, hist, E, L
<1>2. \A d : Traced(d) => TracedIn(d, registry', taken', queue', E')
  BY <1>1 DEF Traced
<1>3. AllTraced'
  <2>1. \A d \in list' : Traced(d)
    BY <1>1 DEF OrderInv, AllTraced
  <2> QED  BY <1>1, <1>2, <2>1 DEF OrderInv, AllTraced, Traced
<1>4. Duties'
  BY <1>1 DEF OrderInv, Duties
<1>5. Ordered'
  BY <1>1 DEF OrderInv, Ordered
<1> QED  BY <1>3, <1>4, <1>5 DEF OrderInv

\* Only the events' goroutine unregisters.
LEMMA EventsOnly ==
  ASSUME OrderInv, NEW g \in Goroutines, job[g].at \in {"unroute", "evict", "close"}
  PROVE  g = "events"
  BY DEF OrderInv, Duties, Goroutines, L

LEMMA OrderStep ==
  ASSUME Shape, OrderInv, [Next]_vars
  PROVE  OrderInv'
<1>0. E = job["events"] /\ L = job["loader"] /\ E' = job'["events"] /\ L' = job'["loader"]
      /\ "events" \in Goroutines /\ "loader" \in Goroutines
  BY DEF E, L, Goroutines
<1>1. ASSUME NEW g \in Goroutines, RegisterModule(g)
      PROVE  OrderInv'
  <2>1. UNCHANGED <<registry, changes, queue, taken, list, handled>>
    BY <1>1 DEF RegisterModule
  <2>2. /\ job[g].at = "connect" /\ job'[g].at = "route" /\ job'[g].of = job[g].of
        /\ \A h \in Goroutines \ {g} : job'[h] = job[h]
    BY <1>1, RegisterEffect
  <2>3. Duties'
    BY <1>0, <2>2 DEF OrderInv, Duties, Goroutines
  <2> QED  BY <1>0, <2>1, <2>2, <2>3, OrderQuiet DEF Goroutines
<1>2. ASSUME NEW g \in Goroutines, StoreHandler(g)
      PROVE  OrderInv'
  <2>1. UNCHANGED <<registry, changes, queue, taken, list>>
    BY <1>2 DEF StoreHandler
  <2>2. /\ job[g].at = "route" /\ job'[g].at = "idle"
        /\ \A h \in Goroutines \ {g} : job'[h] = job[h]
        /\ \A m \in Modules :
             handled'[m] = IF g = "events" /\ m = job[g].of.mod THEN job[g].of.ver ELSE handled[m]
    BY <1>2, StoreEffect
  <2>3. Duties'
    BY <1>0, <2>2 DEF OrderInv, Duties, Goroutines
  <2>4. \A m \in Modules : handled'[m] = handled[m] \/ handled'[m] = taken[m]
    BY <1>0, <2>2 DEF OrderInv, Ordered
  <2> QED  BY <1>0, <2>1, <2>2, <2>3, <2>4, OrderQuiet DEF Goroutines
<1>3. ASSUME NEW g \in Goroutines, DeleteHandler(g)
      PROVE  OrderInv'
  <2>1. UNCHANGED <<registry, changes, queue, taken, list, handled>>
    BY <1>3 DEF DeleteHandler, hist
  <2>2. /\ job[g].at = "unroute" /\ job'[g].at = "evict" /\ job'[g].of = job[g].of
        /\ \A h \in Goroutines \ {g} : job'[h] = job[h]
    BY <1>3, DeleteEffect
  <2>3. g = "events"
    BY <2>2, EventsOnly
  <2>4. Duties'
    BY <1>0, <2>2, <2>3 DEF OrderInv, Duties
  <2> QED  BY <1>0, <2>1, <2>2, <2>3, <2>4, OrderQuiet
<1>4. ASSUME NEW g \in Goroutines, Evict(g)
      PROVE  OrderInv'
  <2>1. UNCHANGED <<registry, changes, queue, taken, list>>
    BY <1>4 DEF Evict
  <2>2. /\ job[g].at = "evict" /\ \A h \in Goroutines \ {g} : job'[h] = job[h]
        /\ job'[g].at = "idle" \/ (job'[g].at = "close" /\ job'[g].of = job[g].of)
        /\ \A m \in Modules : handled'[m] = handled[m] \/
             (m = job[g].of.mod /\ handled'[m] = job[g].of.ver)
    BY <1>4, EvictEffect
  <2>3. g = "events"
    BY <2>2, EventsOnly
  <2>4. Duties'
    BY <1>0, <2>2, <2>3 DEF OrderInv, Duties
  <2>5. \A m \in Modules : handled'[m] = handled[m] \/ handled'[m] = taken[m]
    BY <1>0, <2>2, <2>3 DEF OrderInv, Ordered
  <2> QED  BY <1>0, <2>1, <2>2, <2>3, <2>4, <2>5, OrderQuiet
<1>5. ASSUME NEW g \in Goroutines, CloseConn(g)
      PROVE  OrderInv'
  <2>1. UNCHANGED <<registry, changes, queue, taken, list>>
    BY <1>5 DEF CloseConn
  <2>2. /\ job[g].at = "close" /\ job'[g].at = "idle"
        /\ \A h \in Goroutines \ {g} : job'[h] = job[h]
        /\ \A m \in Modules :
             handled'[m] = IF g = "events" /\ m = job[g].of.mod THEN job[g].of.ver ELSE handled[m]
    BY <1>5, CloseEffect
  <2>3. g = "events"
    BY <2>2, EventsOnly
  <2>4. Duties'
    BY <1>0, <2>2, <2>3 DEF OrderInv, Duties
  <2>5. \A m \in Modules : handled'[m] = handled[m] \/ handled'[m] = taken[m]
    BY <1>0, <2>2, <2>3 DEF OrderInv, Ordered
  <2> QED  BY <1>0, <2>1, <2>2, <2>3, <2>4, <2>5, OrderQuiet
<1>6. CASE LoadNext
  <2>1. UNCHANGED <<registry, changes, queue, taken, handled>>
    BY <1>6 DEF LoadNext, hist
  <2>2. PICK c \in list : /\ list' = list \ {c}
                          /\ IF c.is = "good"
                             THEN job'["loader"].at = "connect" /\ job'["loader"].of = c
                             ELSE job' = job
    BY <1>6, LoadNextEffect
  <2>3. E' = E /\ L.at = "idle"
    BY <1>0, <1>6, LoadNextEffect
  <2>4. Duties'
    BY <1>0, <2>2, <2>3 DEF OrderInv, Duties
  <2> QED  BY <1>0, <2>1, <2>2, <2>3, <2>4, OrderQuiet
<1>7. ASSUME UNCHANGED <<registry, changes, queue, taken, list, handled, job>>
      PROVE  OrderInv'
  <2>1. E' = E /\ L' = L
    BY <1>0, <1>7
  <2>2. Duties'
    BY <2>1 DEF OrderInv, Duties
  <2> QED  BY <1>7, <2>1, <2>2, OrderQuiet
<1>8. (CloseBegin \/ CloseNext \/ UNCHANGED vars \/ \E r \in Requests : Asks(r)) =>
        UNCHANGED <<registry, changes, queue, taken, list, handled, job>>
  <2>1. \A r \in Requests : Asks(r) => QuietMaps
    BY AskEffect
  <2> QED  BY <2>1 DEF CloseBegin, CloseNext, vars, QuietMaps, hist
<1> QED
  BY <1>1, <1>2, <1>3, <1>4, <1>5, <1>6, <1>7, <1>8, Steps, OrderChange, OrderTake, OrderLoad

LEMMA OrderInit == Init => OrderInv
<1> SUFFICES ASSUME Init PROVE OrderInv
  OBVIOUS
<1>1. PICK start \in [Modules -> {"good", "bad", "gone"}] :
        registry = [m \in Modules |-> [mod |-> m, ver |-> 1, is |-> start[m]]]
  BY DEF Init
<1>2. /\ \A m \in Modules : registry[m].mod = m /\ registry[m].ver = 1 /\ registry[m].is # "health"
      /\ queue = <<>> /\ list = {} /\ changes = 1
      /\ \A m \in Modules : handled[m] = 0 /\ taken[m] = 0
  BY <1>1 DEF Init
<1>3. E.at = "idle" /\ L.at = "idle"
  BY NoJobType DEF Init, E, L, Goroutines
<1> QED  BY <1>2, <1>3 DEF OrderInv, Duties, Ordered, AllTraced, Traced, TracedIn

LEMMA OrderHolds == Spec => []OrderInv
  BY OrderInit, OrderStep, ShapeHolds, PTL DEF Spec

------------------------------------------------------------------------------
(* No request is sent over a connection older than what it was let in for *)

\* The entry of a module is no older than the last event applied, or than the one
\* whose connection has just been stored or deleted.
EntryFresh(m) ==
  connections[m] # 0 =>
    /\ conns[connections[m]].ver >= handled[m]
    /\ (E.at \in {"route", "close"} /\ E.of.mod = m) => conns[connections[m]].ver >= E.of.ver

MapsFresh == \A m \in Modules \ raced : EntryFresh(m)

RequestFresh(r) ==
  /\ req[r].at \in {"new", "handle"} => req[r].conn = 0
  /\ req[r].at = "handle" => req[r].floor <= handled[req[r].mod]
  /\ (req[r].conn # 0 /\ req[r].mod \notin raced) => conns[req[r].conn].ver >= req[r].floor

FreshInv == MapsFresh /\ \A r \in Requests : RequestFresh(r)

\* Events are applied in order.
LEMMA HandledGrows ==
  ASSUME Shape, OrderInv, NEW g \in Goroutines, job[g].at # "idle",
         \A m \in Modules : handled'[m] = handled[m] \/
           (g = "events" /\ m = job[g].of.mod /\ handled'[m] = job[g].of.ver)
  PROVE  \A m \in Modules : handled[m] <= handled'[m] /\ handled'[m] \in Nat
  BY Numbers DEF OrderInv, Ordered, E

\* A step of somebody else does not make a request stale.
LEMMA RequestsStay ==
  ASSUME Shape, FreshInv, req' = req, raced \subseteq raced',
         \A i \in DOMAIN conns : conns'[i].ver = conns[i].ver,
         \A m \in Modules : handled[m] <= handled'[m] /\ handled'[m] \in Nat
  PROVE  \A r \in Requests : RequestFresh(r)'
<1> SUFFICES ASSUME NEW r \in Requests PROVE RequestFresh(r)'
  OBVIOUS
<1>1. /\ req[r].mod \in Modules /\ req[r].floor \in Nat /\ req[r].conn \in 0 .. Len(conns)
      /\ Len(conns) \in Nat /\ DOMAIN conns = 1 .. Len(conns) /\ RequestFresh(r)
  BY Entries DEF Shape, ReqShape, ReqType, FreshInv
<1>2. req[r].conn # 0 => req[r].conn \in DOMAIN conns
  BY <1>1
<1>3. handled[req[r].mod] \in Nat
  BY <1>1, Numbers
<1> QED  BY <1>1, <1>2, <1>3 DEF RequestFresh

\* A step that stores and deletes no entry.
LEMMA FreshQuiet ==
  ASSUME Shape, FreshInv, UNCHANGED <<connections, handled, req>>, raced \subseteq raced',
         \A i \in DOMAIN conns : conns'[i].ver = conns[i].ver,
         E'.at \in {"route", "close"} => E' = E
  PROVE  FreshInv'
<1>1. ASSUME NEW m \in Modules \ raced'
      PROVE  EntryFresh(m)'
  BY Entries DEF FreshInv, MapsFresh, EntryFresh
<1>2. \A r \in Requests : RequestFresh(r)'
  BY RequestsStay, Numbers
<1> QED  BY <1>1, <1>2 DEF FreshInv, MapsFresh

\* The loader stores the entry of a module it does not race on: it is as new as
\* anything the events' goroutine has taken.
LEMMA NotRaced ==
  ASSUME Shape, OrderInv, L.at # "idle", Race("loader", L.of), NEW m \in Modules, m = L.of.mod,
         m \notin raced'
  PROVE  taken[m] <= L.of.ver
  BY Numbers DEF Race

LEMMA FreshStep ==
  ASSUME Shape, OrderInv, FreshInv, [Next]_vars
  PROVE  FreshInv'
<1>0. /\ E = job["events"] /\ L = job["loader"] /\ E' = job'["events"] /\ L' = job'["loader"]
      /\ "events" \in Goroutines /\ "loader" \in Goroutines
      /\ \A g \in Goroutines : g = "events" \/ g = "loader"
  BY DEF E, L, Goroutines
<1>1. ASSUME NEW g \in Goroutines, RegisterModule(g)
      PROVE  FreshInv'
  <2> DEFINE c == job[g].of
             k == Len(conns) + 1
  <2>1. /\ c.mod \in Modules /\ c.ver \in Nat /\ job[g].at = "connect"
        /\ \A i \in DOMAIN conns : conns'[i] = conns[i]
        /\ conns'[k].ver = c.ver
        /\ \A m \in Modules : connections'[m] = IF m = c.mod THEN k ELSE connections[m]
        /\ job'[g].of = c /\ \A h \in Goroutines \ {g} : job'[h] = job[h]
    <3>1. \A d \in Numbered : d.mod \in Modules /\ d.ver \in Nat
      BY DEF Numbered
    <3> QED  BY <1>1, <3>1, RegisterEffect
  <2>2. UNCHANGED <<req, handled, taken>> /\ Race(g, c)
    BY <1>1 DEF RegisterModule
  <2>3. raced \subseteq raced'
    BY <2>2 DEF Race
  <2>4. ASSUME NEW m \in Modules \ raced'
        PROVE  EntryFresh(m)'
    <3>1. m \notin raced /\ EntryFresh(m)
      BY <2>3, <2>4 DEF FreshInv, MapsFresh
    <3>2. CASE m # c.mod
      <4>1. connections'[m] = connections[m]
            /\ (connections[m] # 0 => conns'[connections[m]] = conns[connections[m]])
        BY <2>1, <3>2, Entries
      <4>2. (E'.at \in {"route", "close"} /\ E'.of.mod = m) => E' = E
        BY <1>0, <2>1, <3>2
      <4> QED  BY <2>2, <3>1, <4>1, <4>2 DEF EntryFresh
    <3>3. CASE m = c.mod
      <4>1. connections'[m] = k /\ conns'[k].ver = c.ver /\ handled[m] \in Nat /\ taken[m] \in Nat
            /\ handled[m] <= taken[m]
        BY <2>1, <3>3, Numbers DEF OrderInv, Ordered
      <4>2. taken[m] <= c.ver
        <5>1. CASE g = "events"
          BY <1>0, <2>1, <3>3, <5>1, <4>1 DEF OrderInv, Ordered
        <5>2. CASE g = "loader"
          BY <1>0, <2>1, <2>2, <2>4, <3>3, <5>2, NotRaced
        <5> QED  BY <1>0, <5>1, <5>2
      <4>3. (E'.at \in {"route", "close"} /\ E'.of.mod = m) => c.ver >= E'.of.ver
        <5>1. CASE g = "events"
          BY <1>0, <2>1, <5>1
        <5>2. CASE g = "loader"
          BY <1>0, <2>1, <4>1, <4>2, <5>2 DEF OrderInv, Ordered
        <5> QED  BY <1>0, <5>1, <5>2
      <4>4. c.ver >= handled[m]
        BY <2>1, <4>1, <4>2
      <4> HIDE DEF c, k
      <4> QED  BY <2>2, <4>1, <4>3, <4>4 DEF EntryFresh
    <3> QED  BY <3>2, <3>3
  <2>5. \A r \in Requests : RequestFresh(r)'
    BY <2>1, <2>2, <2>3, RequestsStay, Numbers
  <2> QED  BY <2>4, <2>5 DEF FreshInv, MapsFresh
<1>2. ASSUME NEW g \in Goroutines, StoreHandler(g) \/ CloseConn(g)
      PROVE  FreshInv'
  <2>1. /\ job[g].at \in {"route", "close"} /\ job[g].of.mod \in Modules
        /\ job'[g].at = "idle"
        /\ connections' = connections /\ \A i \in DOMAIN conns : conns'[i].ver = conns[i].ver
        /\ \A h \in Goroutines \ {g} : job'[h] = job[h]
        /\ \A m \in Modules :
             handled'[m] = IF g = "events" /\ m = job[g].of.mod THEN job[g].of.ver ELSE handled[m]
    <3>1. \A d \in Numbered : d.mod \in Modules
      BY DEF Numbered
    <3> QED  BY <1>2, <3>1, StoreEffect, CloseEffect
  <2>2. req' = req /\ raced \subseteq raced'
    BY <1>2 DEF StoreHandler, CloseConn, Race
  <2>3. ASSUME NEW m \in Modules \ raced'
        PROVE  EntryFresh(m)'
    <3>1. EntryFresh(m)
      BY <2>2, <2>3 DEF FreshInv, MapsFresh
    <3>2. connections[m] # 0 => conns'[connections[m]].ver = conns[connections[m]].ver
      BY <2>1, Entries
    <3>3. (E'.at \in {"route", "close"} /\ E'.of.mod = m) => E' = E
      BY <1>0, <2>1
    <3>4. connections[m] # 0 => conns[connections[m]].ver >= handled'[m]
      BY <1>0, <2>1, <3>1 DEF EntryFresh
    <3> QED  BY <2>1, <3>1, <3>2, <3>3, <3>4 DEF EntryFresh
  <2>4. \A m \in Modules : handled[m] <= handled'[m] /\ handled'[m] \in Nat
    BY <2>1, HandledGrows
  <2>5. \A r \in Requests : RequestFresh(r)'
    BY <2>1, <2>2, <2>4, RequestsStay
  <2> QED  BY <2>3, <2>5 DEF FreshInv, MapsFresh
<1>3. ASSUME NEW g \in Goroutines, DeleteHandler(g)
      PROVE  FreshInv'
  <2>1. UNCHANGED <<connections, conns, handled, req, raced>>
    BY <1>3 DEF DeleteHandler, hist
  <2>2. job'[g].at = "evict" /\ \A h \in Goroutines \ {g} : job'[h] = job[h]
    BY <1>3, DeleteEffect
  <2>3. E'.at \in {"route", "close"} => E' = E
    BY <1>0, <2>2
  <2> QED  BY <2>1, <2>3, FreshQuiet
<1>4. ASSUME NEW g \in Goroutines, Evict(g)
      PROVE  FreshInv'
  <2> DEFINE c == job[g].of
  <2>1. /\ job[g].at = "evict" /\ conns' = conns
        /\ \A m \in Modules : connections'[m] = IF m = c.mod THEN 0 ELSE connections[m]
        /\ \A h \in Goroutines \ {g} : job'[h] = job[h]
        /\ job'[g].at = "idle" \/ job'[g].of = c
        /\ \A m \in Modules : handled'[m] = handled[m] \/
             (g = "events" /\ m = c.mod /\ handled'[m] = c.ver)
    BY <1>4, EvictEffect
  <2>2. req' = req /\ raced' = raced
    BY <1>4 DEF Evict
  <2>3. ASSUME NEW m \in Modules \ raced'
        PROVE  EntryFresh(m)'
    <3>1. CASE m = c.mod
      BY <2>1, <3>1 DEF EntryFresh
    <3>2. CASE m # c.mod
      <4>1. EntryFresh(m) /\ connections'[m] = connections[m] /\ handled'[m] = handled[m]
        BY <2>1, <2>2, <3>2 DEF FreshInv, MapsFresh
      <4>2. (E'.at \in {"route", "close"} /\ E'.of.mod = m) => E' = E
        BY <1>0, <2>1, <3>2
      <4> QED  BY <2>1, <4>1, <4>2 DEF EntryFresh
    <3> QED  BY <3>1, <3>2
  <2>4. \A m \in Modules : handled[m] <= handled'[m] /\ handled'[m] \in Nat
    BY <2>1, HandledGrows
  <2>5. \A r \in Requests : RequestFresh(r)'
    BY <2>1, <2>2, <2>4, RequestsStay
  <2> QED  BY <2>3, <2>5 DEF FreshInv, MapsFresh
<1>5. CASE TakeEvent
  <2>1. UNCHANGED <<connections, conns, handled, req, raced>>
    BY <1>5 DEF TakeEvent, maps
  <2>2. E'.at \notin {"route", "close"}
    BY <1>0, <1>5, TakeEffect
  <2> QED  BY <2>1, <2>2, FreshQuiet
<1>6. CASE LoadNext
  <2>1. UNCHANGED <<connections, conns, handled, req, raced>>
    BY <1>6 DEF LoadNext, maps, hist
  <2>2. E' = E
    BY <1>0, <1>6, LoadNextEffect
  <2> QED  BY <2>1, <2>2, FreshQuiet
<1>7. CASE CloseNext
  <2>1. UNCHANGED <<connections, handled, req, raced, job>>
    BY <1>7 DEF CloseNext, hist
  <2> QED  BY <1>0, <1>7, <2>1, CloseNextEffect, FreshQuiet
<1>8. ASSUME UNCHANGED <<connections, conns, handled, req, raced, job>>
      PROVE  FreshInv'
  BY <1>0, <1>8, FreshQuiet
<1>9. /\ LoadList \/ CloseBegin \/ UNCHANGED vars =>
           UNCHANGED <<connections, conns, handled, req, raced, job>>
      /\ \A m \in Modules, is \in {"good", "bad", "gone", "health"} :
           RegistryChange(m, is) => UNCHANGED <<connections, conns, handled, req, raced, job>>
  BY DEF LoadList, CloseBegin, vars, RegistryChange, maps, hist
<1>10. ASSUME NEW r \in Requests, Asks(r)
       PROVE  FreshInv'
  <2>1. UNCHANGED <<connections, conns, handled, raced, job>>
    BY <1>10, AskEffect DEF QuietMaps, maps, hist
  <2>2. MapsFresh'
    BY <1>0, <2>1 DEF FreshInv, MapsFresh, EntryFresh
  <2>3. ASSUME NEW q \in Requests \ {r}
        PROVE  RequestFresh(q)'
    <3>1. req'[q] = req[q] /\ RequestFresh(q)
      BY <1>10, <2>3, AskEffect DEF FreshInv
    <3> QED  BY <2>1, <3>1 DEF RequestFresh
  <2>4. RequestFresh(r)'
    <3>1. /\ RequestFresh(r) /\ req[r].mod \in Modules /\ req[r].floor \in Nat
          /\ \A m \in Modules : handled[m] \in Nat
      BY Numbers DEF FreshInv, Shape, ReqShape, ReqType
    <3>2. CASE req'[r].at \in {"flight", "done"} /\ SameFields(req[r], req'[r])
      BY <2>1, <3>1, <3>2 DEF SameFields, RequestFresh
    <3>3. CASE Routed(req[r], req'[r])
      BY <2>1, <3>1, <3>3 DEF Routed, RequestFresh
    <3>4. CASE Looked(req[r], req'[r])
      <4> DEFINE m == req[r].mod
      <4>1. m \in Modules /\ req'[r].mod = m /\ req'[r].conn = connections[m] /\ connections[m] # 0
            /\ req'[r].floor = req[r].floor /\ req[r].floor <= handled[m] /\ req'[r].at = "build"
        BY <3>1, <3>4 DEF Looked, RequestFresh
      <4>2. m \notin raced => conns[connections[m]].ver >= handled[m]
        BY <4>1 DEF FreshInv, MapsFresh, EntryFresh
      <4>3. conns[connections[m]].ver \in Nat
        BY <4>1, Entries
      <4>4. m \notin raced => conns[connections[m]].ver >= req[r].floor
        BY <3>1, <4>1, <4>2, <4>3
      <4> HIDE DEF m
      <4> QED  BY <2>1, <4>1, <4>4 DEF RequestFresh
    <3> QED  BY <1>10, <3>2, <3>3, <3>4, AskEffect
  <2> QED  BY <2>2, <2>3, <2>4 DEF FreshInv
<1> QED
  BY <1>1, <1>2, <1>3, <1>4, <1>5, <1>6, <1>7, <1>8, <1>9, <1>10, Steps

\* A request that was let in after an event had been applied never goes out over an
\* older connection, although Handle looks the connection up again later.
THEOREM NeverStale == Spec => []NoStaleRoute
<1>1. Init => FreshInv
  <2> SUFFICES ASSUME Init PROVE FreshInv
    OBVIOUS
  <2>1. \A m \in Modules : connections[m] = 0 /\ handled[m] = 0
    BY DEF Init
  <2>2. \A r \in Requests : req[r].conn = 0 /\ req[r].at = "new"
    BY DEF Init
  <2> QED  BY <2>1, <2>2 DEF FreshInv, MapsFresh, EntryFresh, RequestFresh
<1>2. FreshInv => NoStaleRoute
  BY DEF FreshInv, RequestFresh, NoStaleRoute
<1> QED  BY <1>1, <1>2, FreshStep, OrderHolds, ShapeHolds, PTL DEF Spec

------------------------------------------------------------------------------
(* A handler has a connection to call *)

Backed(m) == connections[m] # 0 \/ Coming(m)

\* RegisterModule is done before dr.handlers.Store; the loader's entry may have been
\* evicted in between, and the handler it stores may come after dr.handlers.Delete,
\* but only when its own event is still to come.
Backing(m) ==
  /\ m \in handlers \ raced => Backed(m)
  /\ (E.at = "route" /\ E.of.mod = m) => connections[m] # 0
  /\ (L.at = "route" /\ L.of.mod = m /\ taken[m] <= L.of.ver) => Backed(m)
  /\ (E.at = "evict" /\ E.of.mod = m /\ m \in handlers \ raced) => Coming(m)

BackInv == \A m \in Modules : Backing(m)

\* A module that is being unregistered while the loader registers it, from a list
\* that no event has overtaken, will be registered again.
LEMMA Ahead ==
  ASSUME Shape, OrderInv, NEW m \in Modules, E.at \in {"unroute", "evict", "close"}, E.of.mod = m,
         L.at # "idle", L.of.mod = m, taken[m] <= L.of.ver
  PROVE  Coming(m)
<1>1. E.of.ver = taken[m] /\ 1 < E.of.ver /\ E.of.is = "gone" /\ L.of.is = "good"
      /\ E.of.ver \in Nat /\ L.of.ver \in Nat /\ Traced(L.of)
  BY Numbers DEF OrderInv, Ordered, Duties, AllTraced
<1>2. E.of.ver # L.of.ver
  BY <1>1 DEF Traced, TracedIn
<1>3. \E i \in DOMAIN queue : queue[i] = L.of
  BY <1>1, <1>2 DEF Traced, TracedIn
<1> QED  BY <1>1, <1>3 DEF Coming

\* Coming, where a step keeps the events and what the events' goroutine connects.
LEMMA ComingStays ==
  ASSUME NEW m \in Modules, queue' = queue,
         (E.at = "connect" /\ E.of.mod = m) => (E'.at = "connect" /\ E'.of = E.of)
  PROVE  Coming(m) => Coming(m)'
  BY DEF Coming, E

\* A step that changes neither map nor, but for the loader's start, a job.
LEMMA BackQuiet ==
  ASSUME Shape, BackInv, UNCHANGED <<handlers, connections, raced, taken, queue>>, E' = E,
         L' = L \/ L'.at # "route"
  PROVE  BackInv'
<1> SUFFICES ASSUME NEW m \in Modules PROVE Backing(m)'
  BY DEF BackInv
<1>1. Coming(m) => Coming(m)'
  BY ComingStays
<1> QED  BY <1>1 DEF BackInv, Backing, Backed

LEMMA BackStep ==
  ASSUME Shape, OrderInv, BackInv, [Next]_vars
  PROVE  BackInv'
<1>0. /\ E = job["events"] /\ L = job["loader"] /\ E' = job'["events"] /\ L' = job'["loader"]
      /\ "events" \in Goroutines /\ "loader" \in Goroutines
      /\ \A g \in Goroutines : g = "events" \/ g = "loader"
  BY DEF E, L, Goroutines
<1>1. ASSUME NEW n \in Modules, NEW is \in {"good", "bad", "gone", "health"}, RegistryChange(n, is)
      PROVE  BackInv'
  <2> SUFFICES ASSUME NEW m \in Modules PROVE Backing(m)'
    BY DEF BackInv
  <2>1. UNCHANGED <<handlers, connections, raced, taken, job>>
    BY <1>1 DEF RegistryChange, maps, hist
  <2>2. Coming(m) => Coming(m)'
    <3>1. /\ DOMAIN queue = 1 .. Len(queue) /\ DOMAIN queue' = 1 .. (Len(queue) + 1)
          /\ Len(queue) \in Nat /\ \A i \in DOMAIN queue : queue'[i] = queue[i]
      BY <1>1, ChangeEffect
    <3>2. DOMAIN queue \subseteq DOMAIN queue'
      BY <3>1
    <3> QED  BY <2>1, <3>1, <3>2 DEF Coming
  <2> QED  BY <1>0, <2>1, <2>2 DEF BackInv, Backing, Backed
<1>2. CASE TakeEvent
  <2> SUFFICES ASSUME NEW m \in Modules PROVE Backing(m)'
    BY DEF BackInv
  <2> DEFINE c == Head(queue)
  <2>1. UNCHANGED <<handlers, connections, raced>>
    BY <1>2 DEF TakeEvent, maps
  <2>2. /\ 1 \in DOMAIN queue /\ queue[1] = c /\ c.ver \in Nat
        /\ \A i \in DOMAIN queue : i # 1 => i - 1 \in DOMAIN queue' /\ queue'[i - 1] = queue[i]
        /\ \A k \in Modules : taken'[k] = IF k = c.mod THEN c.ver ELSE taken[k]
        /\ E.at = "idle" /\ L' = L
        /\ E'.at = IF c.is = "good" THEN "connect" ELSE IF c.is = "gone" THEN "unroute" ELSE "idle"
        /\ c.is = "good" => E'.of = c
    <3>1. \A d \in Numbered : d.ver \in Nat
      BY DEF Numbered
    <3> HIDE DEF c
    <3> QED  BY <1>0, <1>2, <3>1, TakeEffect DEF c
  <2> HIDE DEF c
  <2>3. taken[m] <= taken'[m] /\ taken'[m] \in Nat /\ taken[m] \in Nat
    BY <2>2, Numbers DEF OrderInv, Ordered
  <2>4. Coming(m) => Coming(m)'
    <3>1. CASE \E i \in DOMAIN queue : queue[i].mod = m /\ queue[i].is = "good"
      <4>1. PICK i \in DOMAIN queue : queue[i].mod = m /\ queue[i].is = "good"
        BY <3>1
      <4>2. CASE i = 1
        BY <1>0, <2>2, <4>1, <4>2 DEF Coming
      <4>3. CASE i # 1
        BY <2>2, <4>1, <4>3 DEF Coming
      <4> QED  BY <4>2, <4>3
    <3> QED  BY <1>0, <2>2, <3>1 DEF Coming
  <2>5. (L.at = "route" /\ L.of.mod = m /\ taken'[m] <= L.of.ver) => taken[m] <= L.of.ver
    BY <2>3, Numbers
  <2> QED  BY <2>1, <2>2, <2>4, <2>5 DEF BackInv, Backing, Backed
<1>3. CASE LoadNext
  <2>1. UNCHANGED <<handlers, connections, raced, taken, queue>>
    BY <1>3 DEF LoadNext, maps, hist
  <2>2. E' = E /\ (L' = L \/ L'.at # "route")
    BY <1>0, <1>3, LoadNextEffect
  <2> QED  BY <2>1, <2>2, BackQuiet
<1>4. ASSUME NEW g \in Goroutines, RegisterModule(g)
      PROVE  BackInv'
  <2> SUFFICES ASSUME NEW m \in Modules PROVE Backing(m)'
    BY DEF BackInv
  <2> DEFINE c == job[g].of
  <2>1. /\ job[g].at = "connect" /\ job'[g].at = "route" /\ job'[g].of = c
        /\ \A h \in Goroutines \ {g} : job'[h] = job[h]
        /\ connections'[m] = IF m = c.mod THEN Len(conns) + 1 ELSE connections[m]
        /\ Len(conns) \in Nat
    BY <1>4, RegisterEffect
  <2>2. UNCHANGED <<handlers, taken, queue>> /\ raced \subseteq raced'
    BY <1>4 DEF RegisterModule, Race
  <2>3. CASE m = c.mod
    <3>1. connections'[m] # 0
      BY <2>1, <2>3
    <3>2. E'.at = "evict" => E' = E
      BY <1>0, <2>1
    <3>3. E'.at = "evict" => (Coming(m) => Coming(m)')
      BY <2>2, <3>2, ComingStays
    <3> QED  BY <2>2, <3>1, <3>2, <3>3 DEF BackInv, Backing, Backed
  <2>4. CASE m # c.mod
    <3>1. Coming(m) => Coming(m)'
      BY <1>0, <2>1, <2>2, <2>4, ComingStays
    <3>2. /\ (E'.at = "route" /\ E'.of.mod = m) => E' = E
          /\ E'.at = "evict" => E' = E
          /\ (L'.at = "route" /\ L'.of.mod = m) => L' = L
      BY <1>0, <2>1, <2>4
    <3> QED  BY <2>1, <2>2, <2>4, <3>1, <3>2 DEF BackInv, Backing, Backed
  <2> QED  BY <2>3, <2>4
<1>5. ASSUME NEW g \in Goroutines, StoreHandler(g)
      PROVE  BackInv'
  <2> SUFFICES ASSUME NEW m \in Modules PROVE Backing(m)'
    BY DEF BackInv
  <2> DEFINE c == job[g].of
  <2>1. /\ job[g].at = "route" /\ job'[g].at = "idle" /\ handlers' = handlers \cup {c.mod}
        /\ \A h \in Goroutines \ {g} : job'[h] = job[h]
    BY <1>5, StoreEffect
  <2>2. UNCHANGED <<connections, taken, queue>> /\ Race(g, c) /\ raced \subseteq raced'
    BY <1>5 DEF StoreHandler, Race
  <2>3. Coming(m) => Coming(m)'
    BY <1>0, <2>1, <2>2, ComingStays
  <2>4. CASE g = "events"
    BY <1>0, <2>1, <2>2, <2>3, <2>4 DEF BackInv, Backing, Backed
  <2>5. CASE g = "loader"
    <3>1. (m = c.mod /\ m \notin raced') => taken[m] <= L.of.ver
      BY <1>0, <2>1, <2>2, <2>5, NotRaced
    <3>2. (m = c.mod /\ m \notin raced' /\ E.at = "evict" /\ E.of.mod = m) => Coming(m)
      BY <1>0, <2>1, <2>5, <3>1, Ahead
    <3>3. E' = E /\ L'.at = "idle" /\ L.at = "route" /\ c = L.of
      BY <1>0, <2>1, <2>5
    <3> HIDE DEF c
    <3> QED  BY <2>1, <2>2, <2>3, <3>1, <3>2, <3>3 DEF BackInv, Backing, Backed
  <2> QED  BY <1>0, <2>4, <2>5
<1>6. ASSUME NEW g \in Goroutines, DeleteHandler(g) \/ Evict(g) \/ CloseConn(g)
      PROVE  BackInv'
  <2> SUFFICES ASSUME NEW m \in Modules PROVE Backing(m)'
    BY DEF BackInv
  <2>1. job[g].at \in {"unroute", "evict", "close"}
    BY <1>6 DEF DeleteHandler, Evict, CloseConn
  <2>2. g = "events" /\ E.at \in {"unroute", "evict", "close"} /\ L' = L
    <3>1. g = "events"
      BY <2>1, EventsOnly
    <3> QED  BY <1>0, <1>6, <2>1, <3>1, DeleteEffect, EvictEffect, CloseEffect
  <2>3. UNCHANGED <<raced, taken, queue>>
    BY <1>6 DEF DeleteHandler, Evict, CloseConn, hist
  <2>4. Coming(m) => Coming(m)'
    BY <2>2, <2>3, ComingStays
  <2>5. CASE DeleteHandler(g)
    <3>1. /\ handlers' = handlers \ {E.of.mod} /\ connections' = connections
          /\ E'.at = "evict" /\ E'.of = E.of
      BY <1>0, <2>2, <2>5, DeleteEffect DEF DeleteHandler
    <3> QED  BY <2>2, <2>3, <2>4, <3>1 DEF BackInv, Backing, Backed
  <2>6. CASE Evict(g)
    <3>1. /\ handlers' = handlers /\ E.at = "evict" /\ E'.at \in {"idle", "close"}
          /\ connections'[m] = IF m = E.of.mod THEN 0 ELSE connections[m]
      BY <1>0, <2>2, <2>6, EvictEffect DEF Evict
    <3>2. (L.at = "route" /\ L.of.mod = m /\ taken[m] <= L.of.ver /\ m = E.of.mod) => Coming(m)
      BY <2>2, Ahead
    <3> QED  BY <2>2, <2>3, <2>4, <3>1, <3>2 DEF BackInv, Backing, Backed
  <2>7. CASE CloseConn(g)
    <3>1. handlers' = handlers /\ connections' = connections /\ E'.at = "idle"
      BY <1>0, <2>2, <2>7, CloseEffect DEF CloseConn
    <3> QED  BY <2>2, <2>3, <2>4, <3>1 DEF BackInv, Backing, Backed
  <2> QED  BY <1>6, <2>5, <2>6, <2>7
<1>7. ASSUME UNCHANGED <<handlers, connections, raced, taken, queue, job>>
      PROVE  BackInv'
  BY <1>0, <1>7, BackQuiet
<1>8. (LoadList \/ CloseBegin \/ CloseNext \/ UNCHANGED vars \/ \E r \in Requests : Asks(r)) =>
        UNCHANGED <<handlers, connections, raced, taken, queue, job>>
  <2>1. \A r \in Requests : Asks(r) => QuietMaps
    BY AskEffect
  <2> QED  BY <2>1 DEF LoadList, CloseBegin, CloseNext, vars, QuietMaps, maps, hist
<1> QED  BY <1>1, <1>2, <1>3, <1>4, <1>5, <1>6, <1>7, <1>8, Steps

\* Although no lock spans the two maps, a module that is routed has a connection or is
\* about to get one, unless LoadExistingModules registered it behind a newer event.
THEOREM RoutedIsBacked == Spec => []HandlerBacked
<1>1. Init => BackInv
  <2> SUFFICES ASSUME Init PROVE BackInv
    OBVIOUS
  <2>1. E.at = "idle" /\ L.at = "idle"
    BY NoJobType DEF Init, E, L, Goroutines
  <2> QED  BY <2>1 DEF Init, BackInv, Backing
<1>2. Shape /\ BackInv => HandlerBacked
  BY DEF BackInv, Backing, Backed, HandlerBacked, Shape, MapShape
<1> QED  BY <1>1, <1>2, BackStep, OrderHolds, ShapeHolds, PTL DEF Spec

------------------------------------------------------------------------------
(* The routes follow the registry *)

Connected(m, v) == connections[m] # 0 /\ conns[connections[m]].ver = v
RoutedAt(m, v) == m \in handlers /\ Connected(m, v)
Unrouted(m) == m \notin handlers /\ connections[m] = 0

\* The events' goroutine has taken the registry's last change of m and is done with it.
Applied(m) == /\ 1 < registry[m].ver /\ registry[m].ver <= taken[m]
              /\ E.at = "idle" \/ E.of.mod # m

\* An applied change is in both maps; one that is being applied is in those that the
\* goroutine has got to; what the registry held at the start is left to the loader.
Followed(m) ==
  /\ Applied(m) => /\ registry[m].is = "gone" => Unrouted(m)
                   /\ registry[m].is = "good" => RoutedAt(m, registry[m].ver)
  /\ (E.at # "idle" /\ E.of = registry[m]) =>
       /\ E.at \in {"evict", "close"} => m \notin handlers
       /\ E.at = "close" => connections[m] = 0
       /\ E.at = "route" => Connected(m, registry[m].ver)
  /\ (registry[m].ver = 1 /\ registry[m].is = "gone") => Unrouted(m)
  /\ (registry[m].ver = 1 /\ registry[m].is = "good" /\ listed) =>
       \/ registry[m] \in list
       \/ L.at = "connect" /\ L.of = registry[m]
       \/ L.at = "route" /\ L.of = registry[m] /\ Connected(m, 1)
       \/ RoutedAt(m, 1)

FollowInv == \A m \in Modules \ raced : Followed(m)

\* What the loader registers without racing is what the registry holds, when that
\* has been taken or was there from the start.
LEMMA LoaderCurrent ==
  ASSUME Shape, OrderInv, NEW m \in Modules, L.at # "idle", L.of.mod = m, taken[m] <= L.of.ver,
         registry[m].ver <= taken[m] \/ registry[m].ver = 1
  PROVE  L.of = registry[m] /\ L.of.is = "good"
<1>1. /\ L.of.ver <= registry[m].ver /\ (L.of.ver = registry[m].ver => L.of = registry[m])
      /\ L.of.is = "good"
  BY DEF OrderInv, Duties, AllTraced, Traced, TracedIn
<1>2. L.of.ver \in Nat /\ L.of.ver >= 1
  BY DEF Shape, JobShape, JobType, Goroutines, Numbered, L
<1> QED  BY <1>1, <1>2, Numbers

\* The events' goroutine works on changes that came after the start, and on the last
\* one when that has been taken.
LEMMA EventCurrent ==
  ASSUME Shape, OrderInv, NEW m \in Modules, E.at # "idle", E.of.mod = m
  PROVE  /\ registry[m].ver # 1 /\ E.of.ver = taken[m]
         /\ registry[m].ver <= taken[m] => E.of = registry[m]
         /\ E.of = registry[m] => registry[m].ver <= taken[m]
<1>1. E.of.ver = taken[m] /\ 1 < E.of.ver /\ E.of.ver <= registry[m].ver /\ Traced(registry[m])
      /\ registry[m].mod = m
  BY DEF OrderInv, Ordered, AllTraced
<1> QED  BY <1>1, Numbers DEF Traced, TracedIn

\* A step that does nothing to m, and nothing to a job on m.
LEMMA FollowQuiet ==
  ASSUME Shape, OrderInv, NEW m \in Modules, Followed(m),
         registry'[m] = registry[m], taken'[m] = taken[m], m \in handlers' <=> m \in handlers,
         connections'[m] = connections[m], listed' = listed, list' = list,
         connections[m] # 0 => conns'[connections[m]].ver = conns[connections[m]].ver,
         (E.at # "idle" /\ E.of.mod = m) => E' = E, (E'.at # "idle" /\ E'.of.mod = m) => E' = E,
         (L.at # "idle" /\ L.of.mod = m) => L' = L
  PROVE  Followed(m)'
<1>1. registry[m].mod = m
  BY DEF OrderInv, Ordered
<1>2. Applied(m)' => Applied(m)
  BY DEF Applied
<1>3. \A v : /\ Connected(m, v) => Connected(m, v)'
             /\ RoutedAt(m, v) => RoutedAt(m, v)'
  BY DEF Connected, RoutedAt
<1>4. Unrouted(m) => Unrouted(m)'
  BY DEF Unrouted
<1>5. Applied(m)' => /\ registry'[m].is = "gone" => Unrouted(m)'
                     /\ registry'[m].is = "good" => RoutedAt(m, registry[m].ver)'
  BY <1>2 DEF Followed, RoutedAt, Connected, Unrouted
<1>6. (E'.at # "idle" /\ E'.of = registry'[m]) =>
        /\ E'.at \in {"evict", "close"} => m \notin handlers'
        /\ E'.at = "close" => connections'[m] = 0
        /\ E'.at = "route" => Connected(m, registry[m].ver)'
  BY <1>1 DEF Followed, Connected
<1>7. (registry'[m].ver = 1 /\ registry'[m].is = "gone") => Unrouted(m)'
  BY <1>4 DEF Followed
<1>8. (registry'[m].ver = 1 /\ registry'[m].is = "good" /\ listed') =>
        \/ registry'[m] \in list'
        \/ L'.at = "connect" /\ L'.of = registry'[m]
        \/ L'.at = "route" /\ L'.of = registry'[m] /\ Connected(m, 1)'
        \/ RoutedAt(m, 1)'
  BY <1>1, <1>3 DEF Followed
<1> QED  BY <1>5, <1>6, <1>7, <1>8 DEF Followed

LEMMA FollowRegister ==
  ASSUME Shape, OrderInv, FollowInv, NEW g \in Goroutines, RegisterModule(g)
  PROVE  FollowInv'
<1> DEFINE c == job[g].of
           k == Len(conns) + 1
<1>1. /\ job[g].at = "connect" /\ job'[g].at = "route" /\ job'[g].of = c /\ Len(conns) \in Nat
      /\ \A h \in Goroutines \ {g} : job'[h] = job[h]
      /\ \A i \in DOMAIN conns : conns'[i] = conns[i]
      /\ conns'[k].ver = c.ver
      /\ \A m \in Modules : connections'[m] = IF m = c.mod THEN k ELSE connections[m]
  BY RegisterEffect
<1>2. UNCHANGED <<registry, handlers, listed, list, taken>> /\ Race(g, c) /\ raced \subseteq raced'
  BY DEF RegisterModule, Race
<1>3. /\ E = job["events"] /\ L = job["loader"] /\ E' = job'["events"] /\ L' = job'["loader"]
      /\ "events" \in Goroutines /\ "loader" \in Goroutines
      /\ g = "events" \/ g = "loader"
  BY DEF E, L, Goroutines
<1> SUFFICES ASSUME NEW m \in Modules \ raced' PROVE Followed(m)'
  BY DEF FollowInv
<1>4. Followed(m) /\ m \in Modules /\ registry[m].mod = m
  BY <1>2 DEF FollowInv, OrderInv, Ordered
<1>5. CASE m # c.mod
  <2>1. connections[m] # 0 => conns'[connections[m]] = conns[connections[m]]
    BY <1>1, <1>4, Entries
  <2> QED  BY <1>1, <1>2, <1>3, <1>4, <1>5, <2>1, FollowQuiet
<1>6. CASE m = c.mod /\ g = "events"
  <2>1. E.at = "connect" /\ E'.at = "route" /\ E'.of = E.of /\ E.of.mod = m /\ L' = L
    BY <1>1, <1>3, <1>6
  <2>2. registry'[m].ver # 1 /\ ~Applied(m)'
    BY <1>2, <1>4, <2>1, EventCurrent DEF Applied
  <2>3. (E'.of = registry'[m]) => Connected(m, registry[m].ver)'
    BY <1>1, <1>2, <1>3, <1>4, <1>6, <2>1 DEF Connected
  <2> QED  BY <2>1, <2>2, <2>3 DEF Followed
<1>7. CASE m = c.mod /\ g = "loader"
  <2>1. L.at = "connect" /\ L.of = c /\ L'.at = "route" /\ L'.of = c /\ E' = E
    BY <1>1, <1>3, <1>7
  <2>2. taken[m] <= L.of.ver
    BY <1>2, <1>4, <1>7, <2>1, NotRaced
  <2>3. (registry[m].ver <= taken[m] \/ registry[m].ver = 1) =>
          c = registry[m] /\ registry[m].is = "good" /\ Connected(m, registry[m].ver)'
    BY <1>1, <1>2, <1>4, <1>7, <2>1, <2>2, LoaderCurrent DEF Connected
  <2>4. Applied(m)' => Applied(m) /\ registry[m].ver <= taken[m]
    BY <1>2, <2>1 DEF Applied
  <2>5. (E.at # "idle" /\ E.of = registry[m]) => registry[m].ver <= taken[m]
    BY <1>4, EventCurrent
  <2>6. (E.at # "idle" /\ E.of = registry[m] /\ E.at \in {"evict", "close"}) =>
          registry[m].is = "gone"
    BY DEF OrderInv, Duties
  <2>7. Applied(m)' => RoutedAt(m, registry[m].ver)' /\ registry[m].is = "good"
    <3>1. (Applied(m) /\ registry[m].is = "good") => m \in handlers
      BY <1>4 DEF Followed, RoutedAt
    <3> QED  BY <1>2, <2>3, <2>4, <3>1 DEF RoutedAt
  <2>8. (E'.at # "idle" /\ E'.of = registry'[m]) =>
          E'.at \notin {"evict", "close"} /\ Connected(m, registry[m].ver)'
    BY <1>2, <2>1, <2>3, <2>5, <2>6
  <2>9. registry'[m].ver = 1 => /\ registry'[m].is = "good" /\ L'.of = registry'[m]
                                /\ Connected(m, 1)'
    BY <1>2, <2>1, <2>3 DEF Connected
  <2> QED  BY <1>2, <2>1, <2>7, <2>8, <2>9 DEF Followed
<1> QED  BY <1>3, <1>5, <1>6, <1>7

LEMMA FollowStore ==
  ASSUME Shape, OrderInv, FollowInv, NEW g \in Goroutines, StoreHandler(g)
  PROVE  FollowInv'
<1> DEFINE c == job[g].of
<1>1. /\ job[g].at = "route" /\ job'[g].at = "idle" /\ handlers' = handlers \cup {c.mod}
      /\ \A h \in Goroutines \ {g} : job'[h] = job[h]
  BY StoreEffect
<1>2. UNCHANGED <<registry, connections, conns, listed, list, taken>>
      /\ Race(g, c) /\ raced \subseteq raced'
  BY DEF StoreHandler, Race
<1>3. /\ E = job["events"] /\ L = job["loader"] /\ E' = job'["events"] /\ L' = job'["loader"]
      /\ "events" \in Goroutines /\ "loader" \in Goroutines
      /\ g = "events" \/ g = "loader"
  BY DEF E, L, Goroutines
<1> SUFFICES ASSUME NEW m \in Modules \ raced' PROVE Followed(m)'
  BY DEF FollowInv
<1>4. Followed(m) /\ m \in Modules /\ registry[m].mod = m
  BY <1>2 DEF FollowInv, OrderInv, Ordered
<1>5. CASE m # c.mod
  BY <1>1, <1>2, <1>3, <1>4, <1>5, FollowQuiet
<1>6. \A v : Connected(m, v) => Connected(m, v)'
  BY <1>2 DEF Connected
<1>7. CASE m = c.mod /\ g = "events"
  <2>1. E.at = "route" /\ E'.at = "idle" /\ E.of.mod = m /\ L' = L
    BY <1>1, <1>3, <1>7
  <2>2. registry'[m].ver # 1 /\ (registry[m].ver <= taken[m] => E.of = registry[m])
    BY <1>2, <1>4, <2>1, EventCurrent
  <2>3. E.of = registry[m] =>
          Connected(m, registry[m].ver) /\ registry[m].is = "good" /\ m \in handlers'
    BY <1>1, <1>4, <1>7, <2>1 DEF Followed, OrderInv, Duties
  <2>4. Applied(m)' => RoutedAt(m, registry[m].ver)' /\ registry'[m].is = "good"
    BY <1>2, <2>2, <2>3 DEF Applied, RoutedAt, Connected
  <2> QED  BY <1>2, <2>1, <2>2, <2>4 DEF Followed
<1>8. CASE m = c.mod /\ g = "loader"
  <2>1. L.at = "route" /\ L.of = c /\ L'.at = "idle" /\ E' = E /\ m \in handlers'
    BY <1>1, <1>3, <1>8
  <2>2. taken[m] <= L.of.ver
    BY <1>2, <1>4, <1>8, <2>1, NotRaced
  <2>3. (registry[m].ver <= taken[m] \/ registry[m].ver = 1) =>
          c = registry[m] /\ registry[m].is = "good"
    BY <1>4, <1>8, <2>1, <2>2, LoaderCurrent
  <2>4. Applied(m)' => RoutedAt(m, registry[m].ver)' /\ registry[m].is = "good"
    <3>1. Applied(m)' => Applied(m) /\ registry[m].ver <= taken[m]
      BY <1>2, <2>1 DEF Applied
    <3>2. (Applied(m) /\ registry[m].is = "good") => Connected(m, registry[m].ver)
      BY <1>4 DEF Followed, RoutedAt
    <3> QED  BY <1>2, <2>1, <2>3, <3>1, <3>2 DEF RoutedAt, Connected
  <2>5. (E'.at # "idle" /\ E'.of = registry'[m]) =>
          /\ E'.at \notin {"evict", "close"}
          /\ E'.at = "route" => Connected(m, registry[m].ver)'
    <3>1. (E.at # "idle" /\ E.of = registry[m]) => registry[m].ver <= taken[m]
      BY <1>4, EventCurrent
    <3>2. (E.at # "idle" /\ E.of = registry[m] /\ E.at \in {"evict", "close"}) =>
            registry[m].is = "gone"
      BY DEF OrderInv, Duties
    <3>3. (E.at = "route" /\ E.of = registry[m]) => Connected(m, registry[m].ver)
      BY <1>4 DEF Followed
    <3> QED  BY <1>2, <2>1, <2>3, <3>1, <3>2, <3>3 DEF Connected
  <2>6. registry'[m].ver = 1 => registry'[m].is = "good"
    BY <1>2, <2>3
  <2>7. (registry'[m].ver = 1 /\ listed') => registry'[m] \in list' \/ RoutedAt(m, 1)'
    BY <1>2, <1>4, <2>1, <2>3 DEF Followed, RoutedAt, Connected
  <2> QED  BY <1>2, <2>1, <2>4, <2>5, <2>6, <2>7 DEF Followed
<1> QED  BY <1>3, <1>5, <1>7, <1>8

LEMMA FollowUnregister ==
  ASSUME Shape, OrderInv, FollowInv, NEW g \in Goroutines,
         DeleteHandler(g) \/ Evict(g) \/ CloseConn(g)
  PROVE  FollowInv'
<1>1. g = "events" /\ "events" \in Goroutines /\ "loader" \in Goroutines
  <2>1. job[g].at \in {"unroute", "evict", "close"}
    BY DEF DeleteHandler, Evict, CloseConn
  <2> QED  BY <2>1, EventsOnly DEF Goroutines
<1>2. E = job[g] /\ E' = job'[g] /\ L' = L
  <2>1. E = job[g] /\ E' = job'[g] /\ L = job["loader"] /\ L' = job'["loader"]
    BY <1>1 DEF E, L
  <2> QED  BY <1>1, <2>1, DeleteEffect, EvictEffect, CloseEffect
<1>3. UNCHANGED <<registry, listed, list, taken, raced>>
  BY DEF DeleteHandler, Evict, CloseConn, hist
<1> SUFFICES ASSUME NEW m \in Modules \ raced' PROVE Followed(m)'
  BY DEF FollowInv
<1>4. Followed(m) /\ m \in Modules /\ registry[m].mod = m
  BY <1>3 DEF FollowInv, OrderInv, Ordered
<1>5. /\ E.at \in {"unroute", "evict", "close"}
      /\ E'.at = "idle" \/ E'.of = E.of
      /\ \A n \in Modules : n # E.of.mod =>
           (n \in handlers' <=> n \in handlers) /\ connections'[n] = connections[n]
      /\ \A i \in DOMAIN conns : conns'[i].ver = conns[i].ver
  <2>1. CASE DeleteHandler(g)
    BY <1>2, <2>1, DeleteEffect DEF DeleteHandler
  <2>2. CASE Evict(g)
    BY <1>2, <2>2, EvictEffect DEF Evict
  <2>3. CASE CloseConn(g)
    BY <1>2, <2>3, CloseEffect DEF CloseConn
  <2> QED  BY <2>1, <2>2, <2>3
<1>6. CASE m # E.of.mod
  <2>1. connections[m] # 0 => conns'[connections[m]].ver = conns[connections[m]].ver
    BY <1>4, <1>5, Entries
  <2> QED  BY <1>2, <1>3, <1>4, <1>5, <1>6, <2>1, FollowQuiet
<1>7. CASE m = E.of.mod
  <2>1. registry'[m].ver # 1 /\ (registry[m].ver <= taken[m] => E.of = registry[m])
    BY <1>3, <1>4, <1>5, <1>7, EventCurrent
  <2>2. E.of.is = "gone"
    BY <1>5 DEF OrderInv, Duties
  <2>3. CASE DeleteHandler(g)
    <3>1. E'.at = "evict" /\ E'.of = E.of /\ m \notin handlers'
      BY <1>2, <1>7, <2>3, DeleteEffect
    <3>2. ~Applied(m)'
      BY <1>7, <3>1 DEF Applied
    <3> QED  BY <2>1, <3>1, <3>2 DEF Followed
  <2>4. CASE Evict(g)
    <3>1. E.at = "evict" /\ E'.at \in {"idle", "close"} /\ connections'[m] = 0
          /\ handlers' = handlers
      BY <1>2, <1>4, <1>7, <2>4, EvictEffect DEF Evict
    <3>2. E.of = registry[m] => m \notin handlers'
      BY <1>4, <3>1 DEF Followed
    <3>3. Applied(m)' => Unrouted(m)' /\ registry'[m].is = "gone"
      BY <1>3, <2>1, <2>2, <3>1, <3>2 DEF Applied, Unrouted
    <3>4. (E'.at # "idle" /\ E'.of = registry'[m]) => m \notin handlers' /\ connections'[m] = 0
      BY <1>3, <1>5, <3>1, <3>2
    <3> QED  BY <2>1, <3>1, <3>3, <3>4 DEF Followed
  <2>5. CASE CloseConn(g)
    <3>1. E.at = "close" /\ E'.at = "idle" /\ connections' = connections /\ handlers' = handlers
      BY <1>2, <2>5, CloseEffect DEF CloseConn
    <3>2. E.of = registry[m] => Unrouted(m)'
      BY <1>4, <3>1 DEF Followed, Unrouted
    <3>3. Applied(m)' => Unrouted(m)' /\ registry'[m].is = "gone"
      BY <1>3, <2>1, <2>2, <3>2 DEF Applied
    <3> QED  BY <2>1, <3>1, <3>3 DEF Followed
  <2> QED  BY <2>3, <2>4, <2>5
<1> QED  BY <1>6, <1>7

LEMMA FollowTake ==
  ASSUME Shape, OrderInv, FollowInv, TakeEvent
  PROVE  FollowInv'
<1> DEFINE c == Head(queue)
<1>1. /\ 1 \in DOMAIN queue /\ queue[1] = c /\ c.ver \in Nat
      /\ \A n \in Modules : taken'[n] = IF n = c.mod THEN c.ver ELSE taken[n]
      /\ E.at = "idle" /\ L' = L
      /\ E'.at = IF c.is = "good" THEN "connect" ELSE IF c.is = "gone" THEN "unroute" ELSE "idle"
      /\ c.is \in {"good", "gone"} => E'.of = c
  <2>1. \A d \in Numbered : d.ver \in Nat
    BY DEF Numbered
  <2> HIDE DEF c
  <2> QED  BY <2>1, TakeEffect DEF c, E, L
<1>2. UNCHANGED <<registry, handlers, connections, conns, listed, list, raced>>
  BY DEF TakeEvent, maps
<1> HIDE DEF c
<1> SUFFICES ASSUME NEW m \in Modules \ raced' PROVE Followed(m)'
  BY DEF FollowInv
<1>3. /\ Followed(m) /\ m \in Modules /\ registry[m].mod = m /\ Traced(registry[m])
      /\ registry[m].ver \in Nat /\ taken[m] \in Nat
  BY <1>2, Numbers DEF FollowInv, OrderInv, Ordered, AllTraced
<1>4. ASSUME Applied(m)', registry[m].is \in {"good", "gone"}
      PROVE  Applied(m)
  <2>1. CASE c.mod # m
    BY <1>1, <1>2, <1>3, <1>4, <2>1 DEF Applied
  <2>2. CASE c.mod = m
    <3>1. c.is \notin {"good", "gone"} /\ 1 < registry[m].ver /\ registry[m].ver <= c.ver
      BY <1>1, <1>2, <1>3, <1>4, <2>2 DEF Applied
    <3>2. ASSUME taken[m] < registry[m].ver
          PROVE  FALSE
      <4>1. PICK i \in DOMAIN queue : queue[i] = registry[m]
        BY <1>3, <3>1, <3>2 DEF Traced, TracedIn
      <4>2. i # 1
        BY <1>1, <1>4, <3>1, <4>1
      <4>3. 1 < i
        <5>1. DOMAIN queue \subseteq Nat \ {0}
          BY TakeEffect
        <5> QED  BY <4>1, <4>2, <5>1
      <4>4. c.ver < registry[m].ver
        BY <1>1, <4>1, <4>3 DEF OrderInv, Ordered
      <4> QED  BY <1>1, <1>3, <3>1, <4>4
    <3> QED  BY <1>1, <1>3, <3>1, <3>2 DEF Applied
  <2> QED  BY <2>1, <2>2
<1>5. Applied(m)' => /\ registry'[m].is = "gone" => Unrouted(m)'
                     /\ registry'[m].is = "good" => RoutedAt(m, registry[m].ver)'
  BY <1>2, <1>3, <1>4 DEF Followed, RoutedAt, Connected, Unrouted
<1>6. E'.at \notin {"evict", "close", "route"}
  BY <1>1
<1>7. (registry'[m].ver = 1 /\ registry'[m].is = "gone") => Unrouted(m)'
  BY <1>2, <1>3 DEF Followed, Unrouted
<1>8. (registry'[m].ver = 1 /\ registry'[m].is = "good" /\ listed') =>
        \/ registry'[m] \in list'
        \/ L'.at = "connect" /\ L'.of = registry'[m]
        \/ L'.at = "route" /\ L'.of = registry'[m] /\ Connected(m, 1)'
        \/ RoutedAt(m, 1)'
  BY <1>1, <1>2, <1>3 DEF Followed, RoutedAt, Connected
<1> QED  BY <1>2, <1>5, <1>6, <1>7, <1>8 DEF Followed

\* registry.List, and the loader's next module.
LEMMA FollowLoad ==
  ASSUME Shape, OrderInv, FollowInv, LoadList \/ LoadNext
  PROVE  FollowInv'
<1>1. UNCHANGED <<registry, taken, handlers, connections, conns, raced>>
  BY DEF LoadList, LoadNext, maps, hist
<1>2. E' = E
  <2>1. CASE LoadList
    BY <2>1 DEF LoadList, E
  <2>2. CASE LoadNext
    BY <2>2, LoadNextEffect DEF E
  <2> QED  BY <2>1, <2>2
<1> SUFFICES ASSUME NEW m \in Modules \ raced' PROVE Followed(m)'
  BY DEF FollowInv
<1>3. Followed(m)
  BY <1>1 DEF FollowInv
<1>4. /\ Applied(m)' => Applied(m)
      /\ \A v : /\ Connected(m, v) => Connected(m, v)'
                /\ RoutedAt(m, v) => RoutedAt(m, v)'
      /\ Unrouted(m) => Unrouted(m)'
  BY <1>1, <1>2 DEF Applied, RoutedAt, Connected, Unrouted
<1>5. (registry'[m].ver = 1 /\ registry'[m].is = "good" /\ listed') =>
        \/ registry'[m] \in list'
        \/ L'.at = "connect" /\ L'.of = registry'[m]
        \/ RoutedAt(m, 1)'
  <2>1. CASE LoadList
    <3>1. list' = {registry[n] : n \in {k \in Modules : registry[k].is # "gone"}}
      BY <2>1 DEF LoadList
    <3> QED  BY <1>1, <3>1
  <2>2. CASE LoadNext
    <3>1. listed' = listed
      BY <2>2 DEF LoadNext
    <3>2. PICK c \in list : /\ list' = list \ {c}
                            /\ IF c.is = "good" THEN L'.at = "connect" /\ L'.of = c ELSE job' = job
      BY <2>2, LoadNextEffect DEF L
    <3>3. L.at = "idle"
      BY <2>2, LoadNextEffect DEF L
    <3> QED  BY <1>1, <1>3, <1>4, <3>1, <3>2, <3>3 DEF Followed
  <2> QED  BY <2>1, <2>2
<1>6. Applied(m)' => /\ registry'[m].is = "gone" => Unrouted(m)'
                     /\ registry'[m].is = "good" => RoutedAt(m, registry[m].ver)'
  BY <1>1, <1>3, <1>4 DEF Followed, RoutedAt, Connected
<1>7. (E'.at # "idle" /\ E'.of = registry'[m]) =>
        /\ E'.at \in {"evict", "close"} => m \notin handlers'
        /\ E'.at = "close" => connections'[m] = 0
        /\ E'.at = "route" => Connected(m, registry[m].ver)'
  BY <1>1, <1>2, <1>3 DEF Followed, Connected
<1> QED  BY <1>1, <1>3, <1>4, <1>5, <1>6, <1>7 DEF Followed

LEMMA FollowStep ==
  ASSUME Shape, OrderInv, FollowInv, [Next]_vars
  PROVE  FollowInv'
<1>1. ASSUME NEW n \in Modules, NEW is \in {"good", "bad", "gone", "health"}, RegistryChange(n, is)
      PROVE  FollowInv'
  <2>1. UNCHANGED <<handlers, connections, conns, job, listed, list, raced, taken>>
        /\ E' = E /\ L' = L
    BY <1>1 DEF RegistryChange, maps, hist, E, L
  <2> SUFFICES ASSUME NEW m \in Modules \ raced' PROVE Followed(m)'
    BY DEF FollowInv
  <2>2. Followed(m) /\ m \in Modules
    BY <2>1 DEF FollowInv
  <2>3. CASE registry'[m] = registry[m]
    BY <2>1, <2>2, <2>3, FollowQuiet
  <2>4. CASE registry'[m] # registry[m]
    <3> DEFINE c == [mod |-> n, ver |-> changes + 1, is |-> is]
    <3>1. registry'[m] = c
      BY <1>1, <2>4, ChangeEffect
    <3>2. registry'[m].ver = changes + 1 /\ registry'[m].mod = n /\ changes \in Nat /\ changes >= 1
      BY <3>1 DEF Shape, RegistryShape
    <3>3. ~Applied(m)' /\ registry'[m].ver # 1
      BY <2>1, <2>2, <3>2, Numbers DEF Applied, OrderInv, Ordered
    <3>4. E'.at # "idle" => E'.of # registry'[m]
      BY <2>1, <3>2, Numbers DEF OrderInv, Ordered
    <3> QED  BY <3>3, <3>4 DEF Followed
  <2> QED  BY <2>3, <2>4
<1>2. CASE CloseNext
  <2>1. UNCHANGED <<registry, handlers, connections, job, listed, list, raced, taken>>
        /\ E' = E /\ L' = L
    BY <1>2 DEF CloseNext, hist, E, L
  <2> SUFFICES ASSUME NEW m \in Modules \ raced' PROVE Followed(m)'
    BY DEF FollowInv
  <2>2. Followed(m) /\ m \in Modules
    BY <2>1 DEF FollowInv
  <2>3. connections[m] # 0 => conns'[connections[m]].ver = conns[connections[m]].ver
    BY <1>2, <2>2, CloseNextEffect, Entries
  <2> QED  BY <2>1, <2>2, <2>3, FollowQuiet
<1>3. ASSUME UNCHANGED <<registry, handlers, connections, conns, job, listed, list, raced, taken>>
      PROVE  FollowInv'
  <2>1. E' = E /\ L' = L
    BY <1>3 DEF E, L
  <2> SUFFICES ASSUME NEW m \in Modules \ raced' PROVE Followed(m)'
    BY DEF FollowInv
  <2>2. Followed(m) /\ m \in Modules
    BY <1>3 DEF FollowInv
  <2> QED  BY <1>3, <2>1, <2>2, FollowQuiet
<1>4. (CloseBegin \/ UNCHANGED vars \/ \E r \in Requests : Asks(r)) =>
        UNCHANGED <<registry, handlers, connections, conns, job, listed, list, raced, taken>>
  <2>1. \A r \in Requests : Asks(r) => QuietMaps
    BY AskEffect
  <2> QED  BY <2>1 DEF CloseBegin, vars, QuietMaps, maps, hist
<1> QED
  BY <1>1, <1>2, <1>3, <1>4, Steps, FollowTake, FollowLoad, FollowRegister, FollowStore,
     FollowUnregister

\* Once every event of a module has been applied and LoadExistingModules is done with
\* it, the module is routed exactly when it is registered, over a connection to its
\* last registration; LoadExistingModules being overtaken is the only exception.
THEOREM RoutesFollow == Spec => []RoutesFollowRegistry
<1>1. Init => FollowInv
  <2> SUFFICES ASSUME Init PROVE FollowInv
    OBVIOUS
  <2>1. E.at = "idle" /\ L.at = "idle"
    BY NoJobType DEF Init, E, L, Goroutines
  <2>2. \A m \in Modules : taken[m] = 0 /\ connections[m] = 0 /\ handlers = {} /\ ~listed
    BY DEF Init
  <2>3. \A m \in Modules : registry[m].ver \in Nat
    BY ShapeInit, Numbers
  <2>4. ASSUME NEW m \in Modules PROVE ~Applied(m)
    <3>1. ~(1 < registry[m].ver /\ registry[m].ver <= taken[m])
      BY <2>2, <2>3
    <3> QED  BY <3>1 DEF Applied
  <2>5. \A m \in Modules : Unrouted(m)
    BY <2>2 DEF Unrouted
  <2> QED  BY <2>1, <2>2, <2>4, <2>5 DEF FollowInv, Followed
<1>2. Shape /\ OrderInv /\ FollowInv => RoutesFollowRegistry
  <2> SUFFICES ASSUME Shape, OrderInv, FollowInv, NEW m \in Modules, Settled(m), m \notin raced
               PROVE  /\ registry[m].is = "gone" => m \notin handlers /\ connections[m] = 0
                      /\ registry[m].is = "good" => /\ m \in handlers /\ connections[m] # 0
                                                    /\ conns[connections[m]].ver = registry[m].ver
    BY DEF RoutesFollowRegistry
  <2>1. /\ Followed(m) /\ registry[m].mod = m /\ Traced(registry[m])
        /\ registry[m].ver \in Nat /\ registry[m].ver >= 1 /\ taken[m] \in Nat
    BY Numbers DEF FollowInv, OrderInv, Ordered, AllTraced, Numbered
  <2>2. /\ \A i \in DOMAIN queue : queue[i] # registry[m]
        /\ E.at = "idle" \/ E.of.mod # m
        /\ L.at = "idle" \/ L.of # registry[m]
        /\ listed /\ registry[m] \notin list
    BY <2>1 DEF Settled, Goroutines, Free, E, L
  <2>3. CASE registry[m].ver = 1
    BY <2>1, <2>2, <2>3 DEF Followed, Unrouted, RoutedAt, Connected
  <2>4. CASE registry[m].ver # 1
    <3>1. Applied(m)
      BY <2>1, <2>2, <2>4 DEF Applied, Traced, TracedIn
    <3> QED  BY <2>1, <3>1 DEF Followed, Unrouted, RoutedAt, Connected
  <2> QED  BY <2>3, <2>4
<1> QED  BY <1>1, <1>2, FollowStep, OrderHolds, ShapeHolds, PTL DEF Spec
==============================================================================
