-------------------------------- MODULE Gateway --------------------------------
(***************************************************************************)
(* The admin gateway's dynamic routing (src/gateway): DynamicRouter, which *)
(* maps module ids to handlers, over Transcoder, which maps module ids to  *)
(* gRPC connections.  Both maps are sync.Maps; no lock spans the two.      *)
(*                                                                         *)
(* Two goroutines change them: the one on which the registry calls         *)
(* handleModuleEvent, and the one that runs LoadExistingModules at startup.*)
(* Every HTTP request is a goroutine that reads both, and Close may run at *)
(* any time.  A ModuleConnection's mutex only ever guards one statement    *)
(* (LastUsed in Handle, Conn.Close in UnregisterModule), so these are      *)
(* single steps.                                                           *)
(*                                                                         *)
(* The registry is external.  Its changes are numbered, it calls back once *)
(* per change, in order, and List returns what it holds.                   *)
(***************************************************************************)
EXTENDS Naturals, Sequences

CONSTANTS
  Modules,     \* module ids
  Requests,    \* HTTP requests
  MaxChanges   \* bound on the changes to the registry

ASSUME ChangesAssumption == MaxChanges \in Nat \ {0}
ASSUME ModulesAssumption == Modules # {}

VARIABLES
  registry,     \* the registry's last change of each module
  changes,      \* how many changes it has seen
  queue,        \* its events that handleModuleEvent has not been called with
  handlers,     \* dr.handlers: the modules that have one
  connections,  \* t.connections: per module an index into conns, or 0
  conns,        \* every connection ever dialled
  job,          \* what the two goroutines are doing
  listed,       \* LoadExistingModules has called registry.List
  list,         \* what it returned and is left to register
  shut,         \* Close: "no", "running" or "done"
  left,         \* the modules its Range has not visited
  req,          \* the requests
  \* history
  taken,        \* per module, the last change handleModuleEvent was called with
  handled,      \* per module, the last one it was done with and could apply
  raced,        \* modules LoadExistingModules registered after a newer event
  superseded    \* connections that RegisterModule overwrote

maps == <<handlers, connections, conns>>
hist == <<taken, handled, raced, superseded>>
vars == <<registry, changes, queue, maps, job, listed, list, shut, left, req, hist>>

\* good:    registered, or updated, with a usable descriptor and endpoint
\* bad:     with no descriptor, or one that cannot be parsed or dialled
\* gone:    never registered, or unregistered
\* health:  only the health changed
Change == [mod : Modules, ver : 0 .. MaxChanges, is : {"good", "bad", "gone", "health"}]

Goroutines == {"events", "loader"}

\* connect: in RegisterModule            unroute: at dr.handlers.Delete
\* route:   at dr.handlers.Store         evict:   at t.connections.LoadAndDelete
\*                                       close:   at Conn.Close
Job == [at : {"idle", "connect", "route", "unroute", "evict", "close"}, of : Change,
        conn : 0 .. Len(conns)]

NoJob == [at |-> "idle", of |-> CHOOSE c \in Change : TRUE, conn |-> 0]

Request == [at : {"new", "handle", "build", "flight", "done"}, mod : Modules,
            conn : 0 .. Len(conns), floor : 0 .. MaxChanges]

----------------------------------------------------------------------------
\* NewDynamicRouter and NewTranscoder; the registry has loaded its database.
Init ==
  /\ changes = 1 /\ queue = <<>>
  /\ \E start \in [Modules -> {"good", "bad", "gone"}] :
       registry = [m \in Modules |-> [mod |-> m, ver |-> 1, is |-> start[m]]]
  /\ handlers = {} /\ connections = [m \in Modules |-> 0] /\ conns = <<>>
  /\ job = [g \in Goroutines |-> NoJob]
  /\ listed = FALSE /\ list = {} /\ shut = "no" /\ left = {}
  /\ req = [r \in Requests |-> [at |-> "new", mod |-> CHOOSE m \in Modules : TRUE,
                                conn |-> 0, floor |-> 0]]
  /\ taken = [m \in Modules |-> 0] /\ handled = [m \in Modules |-> 0]
  /\ raced = {} /\ superseded = {}

\* A module registers, changes or goes.
RegistryChange(m, is) ==
  LET c == [mod |-> m, ver |-> changes + 1, is |-> is]
  IN /\ changes < MaxChanges
     /\ is \in {"gone", "health"} => registry[m].is # "gone"
     /\ changes' = changes + 1
     /\ queue' = Append(queue, c)
     /\ registry' = IF is = "health" THEN registry ELSE [registry EXCEPT ![m] = c]
     /\ UNCHANGED <<maps, job, listed, list, shut, left, req, hist>>

----------------------------------------------------------------------------
(* The two goroutines *)

Start(g, c, at) == job' = [job EXCEPT ![g] = [at |-> at, of |-> c, conn |-> 0]]

Free(g) == job[g].at = "idle"

\* handleModuleEvent: a health change is logged, and registerModuleHandler
\* returns early when the descriptor cannot be used.
TakeEvent ==
  LET c == Head(queue)
  IN /\ Free("events") /\ queue # <<>>
     /\ queue' = Tail(queue)
     /\ taken' = [taken EXCEPT ![c.mod] = c.ver]
     /\ CASE c.is = "good" -> Start("events", c, "connect")
          [] c.is = "gone" -> Start("events", c, "unroute")
          [] OTHER         -> UNCHANGED job
     /\ UNCHANGED <<registry, changes, maps, listed, list, shut, left, req,
                    handled, raced, superseded>>

\* LoadExistingModules: registry.List, then one module after the other.
LoadList ==
  /\ ~listed /\ listed' = TRUE
  /\ list' = {registry[m] : m \in {n \in Modules : registry[n].is # "gone"}}
  /\ UNCHANGED <<registry, changes, queue, maps, job, shut, left, req, hist>>

LoadNext ==
  /\ Free("loader")
  /\ \E c \in list :
       /\ list' = list \ {c}
       /\ IF c.is = "good" THEN Start("loader", c, "connect") ELSE UNCHANGED job
  /\ UNCHANGED <<registry, changes, queue, maps, listed, shut, left, req, hist>>

\* The goroutine is done with c.
Finish(g, c) ==
  /\ job' = [job EXCEPT ![g] = NoJob]
  /\ handled' = IF g = "events" THEN [handled EXCEPT ![c.mod] = c.ver] ELSE handled

\* LoadExistingModules applies what List returned although a later event has
\* already been taken.
Race(g, c) ==
  raced' = IF g = "loader" /\ c.ver < taken[c.mod] THEN raced \cup {c.mod} ELSE raced

\* MUTANT: the handler is stored before the connection.
RegisterModuleLate(g) ==
  /\ job[g].at = "connect" /\ job[g].of.mod \notin handlers
  /\ handlers' = handlers \cup {job[g].of.mod}
  /\ Race(g, job[g].of)
  /\ UNCHANGED <<registry, changes, queue, connections, conns, job, listed, list, shut, left,
                 req, taken, handled, superseded>>

\* MUTANT: LoadOrStore, so that an update keeps the connection there is.
RegisterModuleKeepsOld(g) ==
  /\ job[g].at = "connect"
  /\ LET c == job[g].of
     IN /\ conns' = Append(conns, [mod |-> c.mod, ver |-> c.ver, open |-> TRUE])
        /\ connections' = [connections EXCEPT ![c.mod] = IF @ = 0 THEN Len(conns') ELSE @]
        /\ job' = [job EXCEPT ![g].at = "route"]
        /\ Race(g, c)
  /\ UNCHANGED <<registry, changes, queue, handlers, listed, list, shut, left, req,
                 taken, handled, superseded>>

\* Transcoder.RegisterModule: dial, and store whatever was there before.
RegisterModule(g) ==
  /\ job[g].at = "connect"
  /\ LET c == job[g].of
     IN /\ conns' = Append(conns, [mod |-> c.mod, ver |-> c.ver, open |-> TRUE])
        /\ connections' = [connections EXCEPT ![c.mod] = Len(conns')]
        /\ superseded' = superseded \cup ({connections[c.mod]} \ {0})
        /\ job' = [job EXCEPT ![g].at = "route"]
        /\ Race(g, c)
  /\ UNCHANGED <<registry, changes, queue, handlers, listed, list, shut, left, req,
                 taken, handled>>

\* dr.handlers.Store ends registerModuleHandler.
StoreHandler(g) ==
  /\ job[g].at = "route"
  /\ LET c == job[g].of
     IN handlers' = handlers \cup {c.mod} /\ Race(g, c) /\ Finish(g, c)
  /\ UNCHANGED <<registry, changes, queue, connections, conns, listed, list, shut, left, req,
                 taken, superseded>>

\* unregisterModuleHandler: dr.handlers.Delete.
DeleteHandler(g) ==
  /\ job[g].at = "unroute"
  /\ handlers' = handlers \ {job[g].of.mod}
  /\ job' = [job EXCEPT ![g].at = "evict"]
  /\ UNCHANGED <<registry, changes, queue, connections, conns, listed, list, shut,
                 left, req, hist>>

\* MUTANT: Load instead of LoadAndDelete.
EvictKeeps(g) ==
  /\ job[g].at = "evict"
  /\ LET c == job[g].of
         i == connections[c.mod]
     IN IF i = 0 THEN Finish(g, c)
        ELSE job' = [job EXCEPT ![g].at = "close", ![g].conn = i] /\ UNCHANGED handled
  /\ UNCHANGED <<registry, changes, queue, maps, listed, list, shut, left, req,
                 taken, raced, superseded>>

\* MUTANT: whether there was a connection is not looked at.
EvictUnchecked(g) ==
  /\ job[g].at = "evict"
  /\ connections' = [connections EXCEPT ![job[g].of.mod] = 0]
  /\ job' = [job EXCEPT ![g].at = "close", ![g].conn = connections[job[g].of.mod]]
  /\ UNCHANGED <<registry, changes, queue, handlers, conns, listed, list, shut, left,
                 req, hist>>

\* MUTANT: Delete, and the connection is not closed.
EvictOnly(g) ==
  /\ job[g].at = "evict"
  /\ connections' = [connections EXCEPT ![job[g].of.mod] = 0]
  /\ Finish(g, job[g].of)
  /\ UNCHANGED <<registry, changes, queue, handlers, conns, listed, list, shut, left,
                 req, taken, raced, superseded>>

\* UnregisterModule: LoadAndDelete; without a connection it only returns an error.
Evict(g) ==
  /\ job[g].at = "evict"
  /\ LET c == job[g].of
         i == connections[c.mod]
     IN /\ connections' = [connections EXCEPT ![c.mod] = 0]
        /\ IF i = 0
           THEN Finish(g, c)
           ELSE /\ job' = [job EXCEPT ![g].at = "close", ![g].conn = i]
                /\ UNCHANGED handled
  /\ UNCHANGED <<registry, changes, queue, handlers, conns, listed, list, shut, left, req,
                 taken, raced, superseded>>

\* Conn.Close under the connection's mutex.
CloseConn(g) ==
  /\ job[g].at = "close"
  /\ conns' = [conns EXCEPT ![job[g].conn].open = FALSE]
  /\ Finish(g, job[g].of)
  /\ UNCHANGED <<registry, changes, queue, handlers, connections, listed, list, shut, left, req,
                 taken, raced, superseded>>

Work(g) == RegisterModule(g) \/ StoreHandler(g) \/ DeleteHandler(g) \/ Evict(g) \/ CloseConn(g)

----------------------------------------------------------------------------
(* Transcoder.Close: Range over the connections; they stay in the map *)

CloseBegin ==
  /\ shut = "no" /\ shut' = "running" /\ left' = Modules
  /\ UNCHANGED <<registry, changes, queue, maps, job, listed, list, req, hist>>

CloseNext ==
  /\ shut = "running"
  /\ \/ \E m \in left :
          /\ left' = left \ {m}
          /\ conns' = [i \in DOMAIN conns |->
                         IF i = connections[m] THEN [conns[i] EXCEPT !.open = FALSE]
                                               ELSE conns[i]]
          /\ UNCHANGED shut
     \/ left = {} /\ shut' = "done" /\ UNCHANGED <<left, conns>>
  /\ UNCHANGED <<registry, changes, queue, handlers, connections, job, listed, list, req, hist>>

----------------------------------------------------------------------------
(* Requests *)

Served(r) == req' = [req EXCEPT ![r].at = "done"]

QuietMaps == UNCHANGED <<registry, changes, queue, maps, job, listed, list, shut, left, hist>>

\* DynamicRouter.ServeHTTP: no module id or no valid token, no handler, or on to
\* the module's handler, which calls Handle.
ServeHTTP(r, m) ==
  /\ req[r].at = "new"
  /\ \/ Served(r)
     \/ /\ m \in handlers
        /\ req' = [req EXCEPT ![r] = [@ EXCEPT !.at = "handle", !.mod = m,
                                               !.floor = handled[m]]]
  /\ QuietMaps

\* Handle: GetModuleConnection, and 404 without one.
GetModuleConnection(r) ==
  /\ req[r].at = "handle"
  /\ LET i == connections[req[r].mod]
     IN IF i = 0 THEN Served(r)
                 ELSE req' = [req EXCEPT ![r].at = "build", ![r].conn = i]
  /\ QuietMaps

\* The rest of Handle up to the call: no method for the path, a streaming
\* method, a request that cannot be built (or a tenant_id field that is no
\* uint32, which panics); else Invoke, which fails on a closed connection.
Invoke(r) ==
  /\ req[r].at = "build"
  /\ \/ Served(r)
     \/ conns[req[r].conn].open /\ req' = [req EXCEPT ![r].at = "flight"]
  /\ QuietMaps

\* The module answers.
Answer(r) ==
  /\ req[r].at = "flight" /\ conns[req[r].conn].open
  /\ Served(r)
  /\ QuietMaps

\* MUTANT: the call has no deadline and waits for the module to be ready.
InvokeFailsOnlyCut(r) ==
  /\ req[r].at = "flight" /\ ~conns[req[r].conn].open
  /\ Served(r)
  /\ QuietMaps

\* The call fails: requestTimeout, or the connection was closed under it.
InvokeFails(r) ==
  /\ req[r].at = "flight"
  /\ Served(r)
  /\ QuietMaps

Handle(r) == GetModuleConnection(r) \/ Invoke(r) \/ InvokeFails(r)

----------------------------------------------------------------------------
\* Every change has been applied and every request answered.
Over ==
  /\ changes = MaxChanges /\ queue = <<>> /\ listed /\ list = {} /\ shut = "done"
  /\ \A g \in Goroutines : Free(g)
  /\ \A r \in Requests : req[r].at = "done"
  /\ UNCHANGED vars

Next ==
  \/ \E m \in Modules, is \in {"good", "bad", "gone", "health"} : RegistryChange(m, is)
  \/ TakeEvent \/ LoadList \/ LoadNext
  \/ \E g \in Goroutines : Work(g)
  \/ CloseBegin \/ CloseNext
  \/ \E r \in Requests, m \in Modules : ServeHTTP(r, m)
  \/ \E r \in Requests : Handle(r) \/ Answer(r)
  \/ Over

Spec == Init /\ [][Next]_vars

\* Goroutines are scheduled and every call meets its deadline.  No module has to
\* answer, and nobody has to send a request or change the registry.
Fairness ==
  /\ \A r \in Requests : WF_vars(Handle(r))
  /\ WF_vars(TakeEvent) /\ WF_vars(LoadNext)
  /\ \A g \in Goroutines : WF_vars(Work(g))

FairSpec == Spec /\ Fairness

----------------------------------------------------------------------------
(* Properties *)

\* Type correctness of the registry, the two maps and the goroutines; nobody
\* closes or calls a connection that was not found.
TypeOK ==
  /\ registry \in [Modules -> Change] /\ changes \in 1 .. MaxChanges
  /\ queue \in Seq(Change)
  /\ handlers \subseteq Modules
  /\ connections \in [Modules -> 0 .. Len(conns)]
  /\ conns \in Seq([mod : Modules, ver : 1 .. MaxChanges, open : BOOLEAN])
  /\ job \in [Goroutines -> Job]
  /\ listed \in BOOLEAN /\ list \subseteq Change
  /\ shut \in {"no", "running", "done"} /\ left \subseteq Modules
  /\ req \in [Requests -> Request]
  /\ \A g \in Goroutines : job[g].at = "close" => job[g].conn # 0
  /\ \A r \in Requests : req[r].at \in {"build", "flight"} => req[r].conn # 0
  /\ taken \in [Modules -> 0 .. MaxChanges] /\ handled \in [Modules -> 0 .. MaxChanges]
  /\ raced \subseteq Modules /\ superseded \subseteq DOMAIN conns

\* No event of the module is waiting, and no goroutine will touch it.
Settled(m) ==
  /\ \A i \in DOMAIN queue : queue[i].mod # m
  /\ \A g \in Goroutines : Free(g) \/ job[g].of.mod # m
  /\ listed /\ \A c \in list : c.mod # m

\* Once everything is applied, a module is routed exactly when it is registered,
\* over a connection to its last registration: unless LoadExistingModules
\* registered it from a List that an event had already overtaken.  (After an
\* update that could not be applied, the previous route stays.)
RoutesFollowRegistry ==
  \A m \in Modules : (Settled(m) /\ m \notin raced) =>
    /\ registry[m].is = "gone" => m \notin handlers /\ connections[m] = 0
    /\ registry[m].is = "good" => /\ m \in handlers /\ connections[m] # 0
                                  /\ conns[connections[m]].ver = registry[m].ver

\* A registration of the module is still to be applied.
Coming(m) ==
  \/ \E i \in DOMAIN queue : queue[i].mod = m /\ queue[i].is = "good"
  \/ job["events"].at = "connect" /\ job["events"].of.mod = m

\* A module that is routed has a connection, because RegisterModule stores it
\* before the handler and unregisterModuleHandler deletes the handler before it.
\* Only LoadExistingModules can break this: for good when it is overtaken by an
\* event, and until the event for what List returned is applied when it is ahead.
HandlerBacked == \A m \in handlers \ raced : connections[m] # 0 \/ Coming(m)

\* A request that came in after an event had been applied is never sent over an
\* older connection, although Handle looks the connection up again.
NoStaleRoute ==
  \A r \in Requests :
    (req[r].conn # 0 /\ req[r].mod \notin raced) =>
      conns[req[r].conn].ver >= req[r].floor

\* Every open connection is in the map, about to be closed, or was overwritten by
\* a later RegisterModule, which does not close it: nothing else leaks.
OpenAccounted ==
  \A i \in DOMAIN conns : conns[i].open =>
    \/ connections[conns[i].mod] = i
    \/ \E g \in Goroutines : job[g].at = "close" /\ job[g].conn = i
    \/ i \in superseded

\* Every request is answered, whether its module answers or not.
RequestsAnswered == \A r \in Requests : (req[r].at # "new") ~> (req[r].at = "done")

==============================================================================
