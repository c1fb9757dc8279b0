------------------------------- MODULE BusManager -------------------------------
(***************************************************************************)
(* Manager (src/eventbus/manager.go), which keeps event buses by name, and *)
(* the handler middleware (middleware.go): Retry, Timeout and Recovery,    *)
(* put around each handler by Chain.                                       *)
(*                                                                         *)
(* The buses are what module EventBus describes, reduced to their lock,    *)
(* closed and the number of subscribers.  A member of Calls is one call of *)
(* a method, used once.  A Publish holds its bus's read lock while the     *)
(* handler chain runs; Timeout runs the handler on a goroutine of its own, *)
(* here a worker, which may outlive the Publish.  A handler may itself     *)
(* publish, on the global bus or through the manager.                      *)
(***************************************************************************)
EXTENDS Naturals, Sequences, FiniteSets

CONSTANTS
  Calls,       \* 1 .. n, used in this order
  Names,
  Orders,      \* orders of the middlewares, outermost first
  MaxRetries,  \* of Retry
  MaxBuses     \* bound on the buses created

\* Chain is given the three middlewares, in some order.
Middlewares == {"retry", "timeout", "recovery"}

ASSUME CallsAssumption == Calls \subseteq Nat \ {0}
ASSUME OrdersAssumption ==
  Orders \subseteq {ms \in [1 .. 3 -> Middlewares] : \A i, j \in 1 .. 3 : ms[i] = ms[j] => i = j}
ASSUME BusesAssumption ==
  IsFiniteSet(Names) /\ MaxBuses \in Nat /\ Cardinality(Names) < MaxBuses

None == 0

VARIABLES
  buses,    \* m.buses: per name the bus, 0 if there is none
  made,     \* buses created; bus 1 is m.global
  closed,   \* per bus
  subs,     \* per bus, its subscribers
  lock,     \* m.mu (at 0) and the buses' locks
  listed,   \* the middlewares around every handler, as they are passed to Chain
  order,    \* as they wrap it, the outermost first
  pc, op, name,
  bus,      \* the bus a call works on
  rest,     \* the buses Close or GetStats still has to visit
  hd,       \* where a Publish is in its handlers: [i, attempt, st]
  workers,  \* Timeout's goroutines: [c, b, i, attempt, tries, child]
  crashed,  \* an unrecovered panic ended the process
  \* history
  ended     \* the buses that were there when a Manager.Close returned

busVars  == <<buses, made, closed, subs>>
chain    == <<listed, order>>
callVars == <<op, name, bus, rest>>
vars == <<busVars, lock, chain, pc, callVars, hd, workers, crashed, ended>>

M == INSTANCE RWMutex

Global  == 1
Ids     == 1 .. MaxBuses
InMap   == {buses[n] : n \in Names} \ {0}
NoName  == ""
NoHd    == [i |-> 1, attempt |-> 0, st |-> "start"]

\* A middleware around what it gets as the next handler.
Wrap(mw, next) == <<mw>> \o next

\* MUTANT: the middlewares are applied in the order they are listed.
ChainForwards(ms) == Wrap(ms[3], Wrap(ms[2], Wrap(ms[1], <<>>)))

\* Chain: from the last to the first, so that the first is the outermost.
Chain(ms) == Wrap(ms[1], Wrap(ms[2], Wrap(ms[3], <<>>)))

Pos(mw) == CHOOSE i \in 1 .. 3 : order[i] = mw
Inside(x, y) == Pos(x) > Pos(y)

\* NewManager; every bus of Names has been used and has a subscriber.
Init ==
  /\ \E f \in [Names -> 2 .. Cardinality(Names) + 1] :
       (\A m, n \in Names : f[m] = f[n] => m = n) /\ buses = f
  /\ made = 1 + Cardinality(Names)
  /\ closed = [b \in Ids |-> FALSE] /\ subs = [b \in Ids |-> IF b <= made THEN 1 ELSE 0]
  /\ lock = [x \in {0} \union Ids |-> M!Unlocked]
  /\ listed \in Orders /\ order = Chain(listed)
  /\ pc = [c \in Calls |-> "idle"] /\ op = [c \in Calls |-> "none"] /\ name = [c \in Calls |-> NoName]
  /\ bus = [c \in Calls |-> 0] /\ rest = [c \in Calls |-> {}] /\ hd = [c \in Calls |-> NoHd]
  /\ workers = {} /\ crashed = FALSE /\ ended = {}

----------------------------------------------------------------------------
(* Calls and locks *)

\* Methods on the global bus go to it directly; the others ask the manager.
Start(c, o, n) ==
  /\ pc[c] = "idle" /\ \A d \in Calls : d < c => pc[d] # "idle"
  /\ op' = [op EXCEPT ![c] = o] /\ name' = [name EXCEPT ![c] = n]
  /\ pc' = [pc EXCEPT ![c] = CASE o = "publishGlobal"   -> "publish"
                               [] o = "subscribeGlobal" -> "subscribe"
                               [] o \in {"close", "stats"} -> o
                               [] OTHER                 -> "get"]
  /\ bus' = [bus EXCEPT ![c] = IF o \in {"publishGlobal", "subscribeGlobal"} THEN Global ELSE 0]
  /\ UNCHANGED <<busVars, lock, chain, rest, hd, crashed, ended>>

Invoke(c) ==
  /\ \/ \E o \in {"publishGlobal", "subscribeGlobal", "close", "stats"} : Start(c, o, NoName)
     \/ \E o \in {"publish", "subscribe", "closeBus"}, n \in Names : Start(c, o, n)
  /\ UNCHANGED workers

\* The lock a call asks for or holds where it is.
LockAt(c) == IF pc[c] \in {"get", "close", "stats"} THEN 0 ELSE bus[c]
Writes(c) == pc[c] \in {"get", "close", "subscribe", "closeBus", "closing"}
Reads(c)  == pc[c] \in {"stats", "publish", "visiting"}

Shared(c)    == c \in lock[LockAt(c)].readers
Exclusive(c) == M!Locked(lock[LockAt(c)], c)

AskLock(c) ==
  LET l == lock[LockAt(c)]
  IN /\ \/ Writes(c) /\ M!CanLock(l) /\ lock' = [lock EXCEPT ![LockAt(c)] = M!Lock(l, c)]
        \/ Reads(c) /\ ~Shared(c) /\ ~M!Parked(l, c)
             /\ lock' = [lock EXCEPT ![LockAt(c)] = M!RLock(l, c)]
     /\ UNCHANGED <<busVars, chain, pc, callVars, hd, workers, crashed, ended>>

Go(c, to) == pc' = [pc EXCEPT ![c] = to]

\* The call returns; its variables are gone.
Return(c) ==
  /\ Go(c, "done") /\ hd' = [hd EXCEPT ![c] = NoHd]
  /\ op' = [op EXCEPT ![c] = "none"] /\ name' = [name EXCEPT ![c] = NoName]
  /\ bus' = [bus EXCEPT ![c] = 0] /\ rest' = [rest EXCEPT ![c] = {}]

Unlock(c)  == lock' = [lock EXCEPT ![LockAt(c)] = M!Unlock(@)]
RUnlock(c) == lock' = [lock EXCEPT ![LockAt(c)] = M!RUnlock(@, c)]

\* GetBus, as the first step of Publish, Subscribe and of a client's Close.
GetBus(c) ==
  /\ pc[c] = "get" /\ Exclusive(c) /\ Unlock(c)
  /\ IF buses[name[c]] # 0
     THEN bus' = [bus EXCEPT ![c] = buses[name[c]]] /\ UNCHANGED <<buses, made>>
     ELSE /\ made < MaxBuses /\ made' = made + 1
          /\ buses' = [buses EXCEPT ![name[c]] = made'] /\ bus' = [bus EXCEPT ![c] = made']
  /\ Go(c, op[c])
  /\ UNCHANGED <<closed, subs, chain, op, name, rest, hd, workers, crashed, ended>>

Subscribe(c) ==
  /\ pc[c] = "subscribe" /\ Exclusive(c) /\ Unlock(c) /\ Return(c)
  /\ subs' = IF closed[bus[c]] THEN subs ELSE [subs EXCEPT ![bus[c]] = @ + 1]
  /\ UNCHANGED <<buses, made, closed, chain, workers, crashed, ended>>

\* A client closes a bus it got from GetBus.
CloseBus(c) ==
  /\ pc[c] = "closeBus" /\ Exclusive(c) /\ Unlock(c) /\ Return(c)
  /\ closed' = [closed EXCEPT ![bus[c]] = TRUE] /\ subs' = [subs EXCEPT ![bus[c]] = 0]
  /\ UNCHANGED <<buses, made, chain, workers, crashed, ended>>

----------------------------------------------------------------------------
(* Manager.Close and GetStats: both keep the manager's lock while they visit *)
(* the named buses in any order, then the global one.                        *)

Visit(c, to, left) ==
  /\ rest' = [rest EXCEPT ![c] = left] /\ Go(c, to)

NextBus(left) == IF left = {Global} THEN left ELSE left \ {Global}

Close(c) ==
  /\ pc[c] = "close" /\ Exclusive(c)
  /\ \E b \in NextBus(InMap \union {Global}) :
       bus' = [bus EXCEPT ![c] = b] /\ Visit(c, "closing", InMap \union {Global})
  /\ UNCHANGED <<busVars, lock, chain, op, name, hd, workers, crashed, ended>>

\* MUTANT: the first bus that returns an error (it was closed before) ends Close.
LeftStops(c) == IF closed[bus[c]] THEN {} ELSE rest[c] \ {bus[c]}

\* An error of a bus is only logged.
Left(c) == rest[c] \ {bus[c]}

CloseNext(c) ==
  LET b == bus[c] left == Left(c)
  IN /\ pc[c] = "closing" /\ Exclusive(c)
     /\ closed' = [closed EXCEPT ![b] = TRUE] /\ subs' = [subs EXCEPT ![b] = 0]
     /\ IF left # {}
        THEN /\ lock' = [lock EXCEPT ![b] = M!Unlock(@)]
             /\ \E n \in NextBus(left) : bus' = [bus EXCEPT ![c] = n] /\ Visit(c, "closing", left)
             /\ UNCHANGED <<buses, op, name, hd, ended>>
        ELSE /\ lock' = [lock EXCEPT ![b] = M!Unlock(@), ![0] = M!Unlock(@)]
             /\ buses' = [n \in Names |-> 0] /\ ended' = ended \union InMap \union {Global}
             /\ Return(c)
     /\ UNCHANGED <<made, chain, workers, crashed>>

GetStats(c) ==
  /\ pc[c] = "stats" /\ Shared(c)
  /\ \E b \in NextBus(InMap \union {Global}) :
       bus' = [bus EXCEPT ![c] = b] /\ Visit(c, "visiting", InMap \union {Global})
  /\ UNCHANGED <<busVars, lock, chain, op, name, hd, workers, crashed, ended>>

StatsNext(c) ==
  LET b == bus[c] left == rest[c] \ {b}
  IN /\ pc[c] = "visiting" /\ Shared(c)
     /\ IF left # {}
        THEN /\ lock' = [lock EXCEPT ![b] = M!RUnlock(@, c)]
             /\ \E n \in NextBus(left) : bus' = [bus EXCEPT ![c] = n] /\ Visit(c, "visiting", left)
             /\ UNCHANGED <<op, name, hd>>
        ELSE /\ lock' = [lock EXCEPT ![b] = M!RUnlock(@, c), ![0] = M!RUnlock(@, c)]
             /\ Return(c)
     /\ UNCHANGED <<busVars, chain, workers, crashed, ended>>

----------------------------------------------------------------------------
(* Publish: the handlers of the bus one after the other, each in its chain *)

Publish(c) ==
  /\ pc[c] = "publish" /\ Shared(c)
  /\ IF closed[bus[c]] \/ subs[bus[c]] = 0
     THEN RUnlock(c) /\ Return(c)
     ELSE Go(c, "handling") /\ UNCHANGED <<lock, callVars, hd>>
  /\ UNCHANGED <<busVars, chain, workers, crashed, ended>>

Published(c) ==
  /\ pc[c] = "handling" /\ hd[c].i > subs[bus[c]]
  /\ RUnlock(c) /\ Return(c)
  /\ UNCHANGED <<busVars, chain, workers, crashed, ended>>

\* Timeout starts its goroutine and waits.
StartWorker(c) ==
  /\ pc[c] = "handling" /\ hd[c].st = "start" /\ hd[c].i <= subs[bus[c]]
  /\ workers' = workers \union {[c |-> c, b |-> bus[c], i |-> hd[c].i, attempt |-> hd[c].attempt,
                                 tries |-> 0, child |-> None]}
  /\ hd' = [hd EXCEPT ![c].st = "wait"]
  /\ UNCHANGED <<busVars, lock, chain, pc, callVars, crashed, ended>>

Waiting(w) == w.c # None /\ pc[w.c] = "handling" /\ hd[w.c] = [i |-> w.i, attempt |-> w.attempt, st |-> "wait"]

\* What Timeout returns: Retry around it tries again; Publish only logs an error.
Result(c, failed) ==
  hd' = [hd EXCEPT ![c] = IF failed /\ Inside("timeout", "retry") /\ @.attempt < MaxRetries
                          THEN [@ EXCEPT !.attempt = @ + 1, !.st = "start"]
                          ELSE [i |-> @.i + 1, attempt |-> 0, st |-> "start"]]

\* A worker nobody waits for any more; those that are alike count as one.
Abandoned(w) == [w EXCEPT !.c = None, !.i = 0, !.attempt = 0]

\* MUTANT: Timeout waits for its goroutine all the same.
TimeoutWaits(c) ==
  /\ pc[c] = "handling" /\ hd[c].st = "wait" /\ \A w \in workers : ~Waiting(w)
  /\ Result(c, TRUE)
  /\ UNCHANGED <<busVars, lock, chain, pc, callVars, workers, crashed, ended>>

\* The context of Timeout is done first: its time is up, or the context of the
\* Publish was cancelled.  The goroutine goes on.
Timeout(c) ==
  /\ pc[c] = "handling" /\ hd[c].st = "wait"
  /\ Result(c, TRUE)
  /\ workers' = {IF Waiting(w) /\ w.c = c THEN Abandoned(w) ELSE w : w \in workers}
  /\ UNCHANGED <<busVars, lock, chain, pc, callVars, crashed, ended>>

\* The goroutine ends; its result counts when somebody still waits for it.
WorkerEnds(w, failed) ==
  /\ workers' = workers \ {w}
  /\ IF Waiting(w) THEN Result(w.c, failed) ELSE UNCHANGED hd
  /\ UNCHANGED crashed

\* A handler publishes on the global bus, or on a named one, for which it needs
\* the manager's lock.
NestedPublish(w, d) ==
  /\ w.child = None
  /\ \/ Start(d, "publishGlobal", NoName)
     \/ \E n \in Names : Start(d, "publish", n)
  /\ workers' = (workers \ {w}) \union {[w EXCEPT !.child = d]}

\* The handler [external] returns or panics.  Recovery catches what is on its own
\* goroutine; a Retry inside of Timeout runs the handler again.
HandlerReturns(w, how) ==
  /\ w.child # None => pc[w.child] = "done"
  /\ CASE how = "panic" /\ Inside("timeout", "recovery") ->
            crashed' = TRUE /\ UNCHANGED <<workers, hd>>
       [] how = "ok" -> WorkerEnds(w, FALSE)
       [] OTHER ->
            IF /\ Inside("retry", "timeout") /\ w.tries < MaxRetries
               /\ how = "error" \/ Inside("recovery", "retry")
            THEN /\ workers' = (workers \ {w}) \union {[w EXCEPT !.tries = @ + 1, !.child = None]}
                 /\ UNCHANGED <<hd, crashed>>
            ELSE WorkerEnds(w, TRUE)
  /\ UNCHANGED <<busVars, lock, chain, pc, callVars, ended>>

----------------------------------------------------------------------------
Step(c) ==
  \/ AskLock(c) \/ GetBus(c) \/ Subscribe(c) \/ CloseBus(c)
  \/ Close(c) \/ CloseNext(c) \/ GetStats(c) \/ StatsNext(c)
  \/ Publish(c) \/ StartWorker(c) \/ Timeout(c) \/ Published(c)

Next ==
  /\ ~crashed
  /\ \/ \E c \in Calls : Invoke(c) \/ Step(c)
     \/ \E w \in workers, d \in Calls : NestedPublish(w, d)
     \/ \E w \in workers, how \in {"ok", "error", "panic"} : HandlerReturns(w, how)

\* A call goes on and a timer fires; a handler need not ever return.
Fairness == \A c \in Calls : WF_vars(~crashed /\ Step(c))

Spec == Init /\ [][Next]_vars /\ Fairness

----------------------------------------------------------------------------
(* Properties *)

\* No call is under way.  Calls are used once, so by such a moment every call that
\* was made has returned.
Quiet == crashed \/ \A c \in Calls : pc[c] \in {"idle", "done"}

\* Every call of the manager returns, whatever the handlers do: Close waits, under
\* the manager's lock, for buses whose handlers hang or publish themselves, and
\* every other call waits for Close; the Timeout middleware is what resolves it.
ManagerCallsReturn == ~Quiet ~> Quiet

\* A handler whose Recovery is listed after Timeout, so that it runs on Timeout's
\* goroutine, may panic as it likes: the process goes on.  What the other order does,
\* the one the package's documentation shows, is RecoveryRecovers.
PanicContained ==
  (\E i, j \in 1 .. 3 : i < j /\ listed[i] = "timeout" /\ listed[j] = "recovery") => ~crashed

\* "RecoveryMiddleware creates a middleware that recovers from panics in handlers"
\* (middleware.go:27) and is to be placed "first in the chain" (eventbus/README.md:229):
\* with it in the chain no panic of a handler ends the process.  The code breaks this
\* when a Timeout is further in, as in the README's own chain.
RecoveryRecovers == ~crashed

\* When Manager.Close has returned, every bus it knew is closed and no Publish is
\* in a handler on it, also when a client had closed one of them before; only what
\* Timeout gave up on may still run.
CloseClosesAll ==
  \A b \in ended : /\ closed[b] /\ subs[b] = 0
                   /\ \A c \in Calls : pc[c] = "handling" => bus[c] # b
                   /\ \A w \in workers : w.b = b => ~Waiting(w)
================================================================================
