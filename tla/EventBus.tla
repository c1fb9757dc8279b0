------------------------------- MODULE EventBus -------------------------------
(***************************************************************************)
(* DefaultEventBus (src/eventbus/eventbus.go): one bus, shared by any      *)
(* number of goroutines.                                                   *)
(*                                                                         *)
(* A member of Calls is one activation of a bus method.  It is used once,  *)
(* so Calls bounds a behaviour.  A goroutine is a chain of activations: a  *)
(* handler that publishes on the bus starts an activation whose parent is  *)
(* the Publish that runs the handler, and the parent waits for it.  Go's   *)
(* RWMutex has no owner, so nothing else ties an activation to its         *)
(* goroutine.                                                              *)
(*                                                                         *)
(* A subscription is named by the call that made it.  Events carry no data *)
(* and handlers' errors are only logged by Publish, so neither is state.   *)
(***************************************************************************)
EXTENDS Naturals, SequencesExt

CONSTANTS
  Calls,       \* activations of the bus's methods
  Types,       \* event types
  Handlers,    \* handler values that clients pass in
  Ptr,         \* what fmt's %p prints for a handler (closures of one literal agree)
  Emits,       \* the event types a handler may publish, on this bus, while it runs
  Methods,     \* the methods the clients use
  None

ASSUME CallsAssumption == None \notin Calls
ASSUME EmitsAssumption == Emits \in [Handlers -> SUBSET Types]
ASSUME PtrAssumption   == DOMAIN Ptr = Handlers
ASSUME SomeAssumption  == Types # {} /\ Handlers # {}

VARIABLES
  handlers,      \* eb.handlers: per event type, a sequence of subscriptions
  onceHandlers,  \* eb.onceHandlers
  closed,        \* eb.closed
  mu,            \* eb.mu
  pc,            \* where each call is
  arg,           \* its method and arguments
  snap,          \* what a Publish read: handlers, then once handlers
  idx,           \* the next handler it runs
  ret,           \* what the call returned
  spawned,       \* AsyncHandler goroutines that have not run their handler yet
  \* history
  delivered,     \* <<publish, subscription>>: the publish called the handler
  removed,       \* subscriptions taken off the bus
  known,         \* per call, the subscriptions on the bus when it was made
  inGap          \* once subscriptions made between a publish's RUnlock and its Lock

bus  == <<handlers, onceHandlers, closed>>
hist == <<delivered, removed, known, inGap>>
vars == <<bus, mu, pc, arg, snap, idx, ret, spawned, hist>>

M == INSTANCE RWMutex

----------------------------------------------------------------------------
(* Types *)

Subscription == [sub : Calls, h : Handlers, async : BOOLEAN]

AllMethods == {"publish", "publishAsync", "subscribe", "subscribeAsync",
               "once", "unsubscribe", "close", "query"}

Arg == [op : AllMethods \cup {"none"}, t : Types, h : Handlers,
        parent : Calls \cup {None}]

\* For the arguments a method does not have.
AnyType    == CHOOSE t \in Types : TRUE
AnyHandler == CHOOSE h \in Handlers : TRUE

NoArg == [op |-> "none", t |-> AnyType, h |-> AnyHandler, parent |-> None]

\* rlock:   at Publish's first RLock, or in the query methods' RLock
\* run:     between two handlers, read lock held
\* busy:    inside a handler, read lock held
\* lock:    at a Lock (the writing methods', or Publish's second lock)
\* relock:  at Publish's second RLock
PCs == {"idle", "rlock", "run", "busy", "lock", "relock", "done"}

Returns == {"none", "ok", "closed", "notFound", "panic"}

NoSubs == [t \in Types |-> <<>>]

IsPublish(c)   == arg[c].op \in {"publish", "publishAsync"}
IsSubscribe(c) == arg[c].op \in {"subscribe", "subscribeAsync"}

SubsIn(s) == {s[i].sub : i \in DOMAIN s}

\* The subscriptions on the bus for an event type.
OnBus(t) == SubsIn(handlers[t]) \cup SubsIn(onceHandlers[t])

----------------------------------------------------------------------------
(* The bus *)

\* NewEventBus
Init ==
  /\ handlers = NoSubs /\ onceHandlers = NoSubs /\ closed = FALSE
  /\ mu = M!Unlocked
  /\ pc = [c \in Calls |-> "idle"]
  /\ arg = [c \in Calls |-> NoArg]
  /\ snap = [c \in Calls |-> [reg |-> <<>>, once |-> <<>>]]
  /\ idx = [c \in Calls |-> 1]
  /\ ret = [c \in Calls |-> "none"]
  /\ spawned = {} /\ delivered = {} /\ removed = {}
  /\ known = [c \in Calls |-> {}] /\ inGap = {}

\* A method is called; the lock it asks for first decides where it starts.
Invoke(c, op, t, h, parent) ==
  /\ pc[c] = "idle" /\ op \in Methods
  /\ pc' = [pc EXCEPT ![c] = IF op \in {"publish", "publishAsync", "query"}
                             THEN "rlock" ELSE "lock"]
  /\ arg' = [arg EXCEPT ![c] = [op |-> op, t |-> t, h |-> h, parent |-> parent]]
  /\ known' = [known EXCEPT ![c] = OnBus(t)]
  /\ UNCHANGED <<bus, mu, snap, idx, ret, spawned, delivered, removed, inGap>>

\* What a client may call.  PublishAsync is the goroutine it starts, which runs
\* Publish with a context of its own; the call itself returns at once.
ClientCall(c) ==
  \/ \E op \in {"query", "close"} : Invoke(c, op, AnyType, AnyHandler, None)
  \/ \E op \in {"publish", "publishAsync"}, t \in Types :
       Invoke(c, op, t, AnyHandler, None)
  \/ \E op \in {"subscribe", "subscribeAsync", "once", "unsubscribe"},
         t \in Types, h \in Handlers : Invoke(c, op, t, h, None)

----------------------------------------------------------------------------
(* The lock *)

RLockCall(c) ==
  /\ pc[c] \in {"rlock", "relock"}
  /\ c \notin mu.readers /\ ~M!Parked(mu, c)
  /\ mu' = M!RLock(mu, c)
  /\ UNCHANGED <<bus, pc, arg, snap, idx, ret, spawned, hist>>

LockCall(c) ==
  /\ pc[c] = "lock" /\ M!CanLock(mu)
  /\ mu' = M!Lock(mu, c)
  /\ UNCHANGED <<bus, pc, arg, snap, idx, ret, spawned, hist>>

\* The call has the write lock, runs its critical section and unlocks.
Exclusive(c) ==
  /\ pc[c] = "lock" /\ M!Locked(mu, c)
  /\ mu' = M!Unlock(mu)

\* The call has the read lock.
Shared(c, at) == pc[c] = at /\ c \in mu.readers

Return(c, r) ==
  /\ pc' = [pc EXCEPT ![c] = "done"]
  /\ ret' = [ret EXCEPT ![c] = r]

----------------------------------------------------------------------------
(* Subscribe, SubscribeAsync, SubscribeOnce, Unsubscribe, Close *)

Subscribe(c) ==
  LET a == arg[c]
      e == [sub |-> c, h |-> a.h, async |-> a.op = "subscribeAsync"]
  IN /\ IsSubscribe(c) /\ Exclusive(c)
     /\ IF closed
        THEN Return(c, "closed") /\ UNCHANGED handlers
        ELSE /\ Return(c, "ok")
             /\ handlers' = [handlers EXCEPT ![a.t] = Append(@, e)]
     /\ UNCHANGED <<onceHandlers, closed, arg, snap, idx, spawned, hist>>

\* Some publish of the type has run its once handlers, released the read lock
\* and not yet deleted them (lines 143 and 144).
GapOpen(t) == \E p \in Calls : pc[p] = "lock" /\ IsPublish(p) /\ arg[p].t = t

SubscribeOnce(c) ==
  LET a == arg[c]
      e == [sub |-> c, h |-> a.h, async |-> FALSE]
  IN /\ a.op = "once" /\ Exclusive(c)
     /\ IF closed
        THEN Return(c, "closed") /\ UNCHANGED <<onceHandlers, inGap>>
        ELSE /\ Return(c, "ok")
             /\ onceHandlers' = [onceHandlers EXCEPT ![a.t] = Append(@, e)]
             /\ inGap' = IF GapOpen(a.t) THEN inGap \cup {c} ELSE inGap
     /\ UNCHANGED <<handlers, closed, arg, snap, idx, spawned, delivered, removed, known>>

\* The handler on the bus prints like the one passed in.  An AsyncHandler
\* wrapper is a new object, so it never does.
SamePointer(e, h) == ~e.async /\ Ptr[e.h] = Ptr[h]

\* Where the handlers for a type match; Unsubscribe takes off the first.
Matches(t, h) == {i \in DOMAIN handlers[t] : SamePointer(handlers[t][i], h)}

Unsubscribe(c) ==
  LET t == arg[c].t
      found == Matches(t, arg[c].h)
  IN /\ arg[c].op = "unsubscribe" /\ Exclusive(c)
     /\ \/ /\ found = {}
           /\ Return(c, "notFound")
           /\ UNCHANGED <<handlers, removed>>
        \/ \E i \in found :
             /\ \A j \in found : i <= j
             /\ Return(c, "ok")
             /\ handlers' = [handlers EXCEPT ![t] = RemoveAt(@, i)]
             /\ removed' = removed \cup {handlers[t][i].sub}
     /\ UNCHANGED <<onceHandlers, closed, arg, snap, idx, spawned,
                    delivered, known, inGap>>

\* MUTANT: the maps are dropped instead of remade.
CloseDropsMaps(c) ==
  /\ arg[c].op = "close" /\ Exclusive(c)
  /\ Return(c, "ok")
  /\ closed' = TRUE
  /\ handlers' = <<>> /\ onceHandlers' = <<>>
  /\ UNCHANGED <<arg, snap, idx, spawned, hist>>

Close(c) ==
  /\ arg[c].op = "close" /\ Exclusive(c)
  /\ IF closed
     THEN Return(c, "closed") /\ UNCHANGED <<bus, removed>>
     ELSE /\ Return(c, "ok")
          /\ closed' = TRUE
          /\ handlers' = NoSubs /\ onceHandlers' = NoSubs
          /\ removed' = removed \cup UNION {OnBus(t) : t \in Types}
  /\ UNCHANGED <<arg, snap, idx, spawned, delivered, known, inGap>>

----------------------------------------------------------------------------
(* GetSubscriberCount, GetEventTypes *)

Query(c) ==
  /\ arg[c].op = "query" /\ Shared(c, "rlock")
  /\ mu' = M!RUnlock(mu, c)
  /\ Return(c, "ok")
  /\ UNCHANGED <<bus, arg, snap, idx, spawned, hist>>

----------------------------------------------------------------------------
(* Publish *)

\* All the handlers a publish runs, in order: regular ones, then once handlers.
Plan(c) == snap[c].reg \o snap[c].once

\* The one it runs, or runs next.
Current(c) == Plan(c)[idx[c]]

\* MUTANT: the read lock is released once the handlers are copied.
PublishBeginCopies(c) ==
  LET t == arg[c].t
  IN /\ IsPublish(c) /\ Shared(c, "rlock") /\ ~closed
     /\ mu' = M!RUnlock(mu, c)
     /\ pc' = [pc EXCEPT ![c] = "run"]
     /\ snap' = [snap EXCEPT ![c] = [reg |-> handlers[t], once |-> onceHandlers[t]]]
     /\ UNCHANGED <<bus, ret, arg, idx, spawned, hist>>

\* Read the handlers under the read lock.
PublishBegin(c) ==
  LET t == arg[c].t
      seen == [reg |-> handlers[t], once |-> onceHandlers[t]]
  IN /\ IsPublish(c) /\ Shared(c, "rlock")
     /\ IF closed \/ OnBus(t) = {}
        THEN /\ Return(c, IF closed THEN "closed" ELSE "ok")
             /\ mu' = M!RUnlock(mu, c)
             /\ UNCHANGED snap
        ELSE /\ pc' = [pc EXCEPT ![c] = "run"]
             /\ snap' = [snap EXCEPT ![c] = seen]
             /\ UNCHANGED <<mu, ret>>
     /\ UNCHANGED <<bus, arg, idx, spawned, hist>>

\* Call the next handler.  AsyncHandler.Handle starts a goroutine and returns.
HandlerStart(c) ==
  /\ IsPublish(c) /\ pc[c] = "run" /\ idx[c] <= Len(Plan(c))
  /\ LET e == Current(c)
     IN /\ delivered' = delivered \cup {<<c, e.sub>>}
        /\ IF e.async
           THEN /\ spawned' = spawned \cup {<<c, e.sub>>}
                /\ idx' = [idx EXCEPT ![c] = @ + 1]
                /\ UNCHANGED pc
           ELSE /\ pc' = [pc EXCEPT ![c] = "busy"]
                /\ UNCHANGED <<spawned, idx>>
  /\ UNCHANGED <<bus, mu, arg, snap, ret, removed, known, inGap>>

\* The calls c made from its handler have returned.
NoPendingChild(c) == \A d \in Calls : arg[d].parent = c => pc[d] = "done"

\* The handler c is running publishes on the same bus and waits for the result.
NestedPublish(c, d) ==
  /\ pc[c] = "busy" /\ NoPendingChild(c)
  /\ \E t \in Types :
       /\ t \in Emits[Current(c).h]
       /\ Invoke(d, "publish", t, AnyHandler, c)

\* The handler returns; an error would only be logged.
HandlerReturn(c) ==
  /\ pc[c] = "busy" /\ NoPendingChild(c)
  /\ pc' = [pc EXCEPT ![c] = "run"]
  /\ idx' = [idx EXCEPT ![c] = @ + 1]
  /\ UNCHANGED <<bus, mu, arg, snap, ret, spawned, hist>>

\* MUTANT: the RUnlock is not deferred.
HandlerPanicKeepsLock(c) ==
  /\ pc[c] = "busy" /\ NoPendingChild(c) /\ arg[c].op = "publish"
  /\ Return(c, "panic")
  /\ UNCHANGED <<bus, mu, arg, snap, idx, spawned, hist>>

\* The handler panics: the deferred RUnlock runs and the caller recovers.  On
\* PublishAsync's goroutine nobody recovers and the process ends.
HandlerPanic(c) ==
  /\ pc[c] = "busy" /\ NoPendingChild(c) /\ arg[c].op = "publish"
  /\ mu' = M!RUnlock(mu, c)
  /\ Return(c, "panic")
  /\ UNCHANGED <<bus, arg, snap, idx, spawned, hist>>

\* MUTANT: the loop stops one handler short.
PublishRanShort(c) ==
  /\ IsPublish(c) /\ pc[c] = "run" /\ idx[c] >= Len(Plan(c))
  /\ mu' = M!RUnlock(mu, c)
  /\ IF snap[c].once = <<>>
     THEN Return(c, "ok")
     ELSE pc' = [pc EXCEPT ![c] = "lock"] /\ UNCHANGED ret
  /\ UNCHANGED <<bus, arg, snap, idx, spawned, hist>>

\* After the last handler: return, or release the read lock to take the write lock.
PublishRan(c) ==
  /\ IsPublish(c) /\ pc[c] = "run" /\ idx[c] > Len(Plan(c))
  /\ mu' = M!RUnlock(mu, c)
  /\ IF snap[c].once = <<>>
     THEN Return(c, "ok")
     ELSE pc' = [pc EXCEPT ![c] = "lock"] /\ UNCHANGED ret
  /\ UNCHANGED <<bus, arg, snap, idx, spawned, hist>>

\* MUTANT: only the first once handler is deleted.
PublishForgetFirst(c) ==
  LET t == arg[c].t
  IN /\ IsPublish(c) /\ Exclusive(c) /\ onceHandlers[t] # <<>>
     /\ onceHandlers' = [onceHandlers EXCEPT ![t] = Tail(@)]
     /\ removed' = removed \cup {Head(onceHandlers[t]).sub}
     /\ pc' = [pc EXCEPT ![c] = "relock"]
     /\ UNCHANGED <<handlers, closed, arg, snap, idx, ret, spawned,
                    delivered, known, inGap>>

\* delete(eb.onceHandlers, event.Type), whatever the type holds by now.
PublishForget(c) ==
  LET t == arg[c].t
  IN /\ IsPublish(c) /\ Exclusive(c)
     /\ onceHandlers' = [onceHandlers EXCEPT ![t] = <<>>]
     /\ removed' = removed \cup SubsIn(onceHandlers[t])
     /\ pc' = [pc EXCEPT ![c] = "relock"]
     /\ UNCHANGED <<handlers, closed, arg, snap, idx, ret, spawned,
                    delivered, known, inGap>>

\* The second RLock was only for the deferred RUnlock.
PublishEnd(c) ==
  /\ Shared(c, "relock")
  /\ mu' = M!RUnlock(mu, c)
  /\ Return(c, "ok")
  /\ UNCHANGED <<bus, arg, snap, idx, spawned, hist>>

\* An AsyncHandler goroutine runs its handler.
AsyncHandle ==
  /\ \E g \in spawned : spawned' = spawned \ {g}
  /\ UNCHANGED <<bus, mu, pc, arg, snap, idx, ret, hist>>

----------------------------------------------------------------------------
Step(c) ==
  \/ RLockCall(c) \/ LockCall(c)
  \/ Subscribe(c) \/ SubscribeOnce(c) \/ Unsubscribe(c) \/ Close(c) \/ Query(c)
  \/ PublishBegin(c) \/ HandlerStart(c) \/ HandlerReturn(c) \/ HandlerPanic(c)
  \/ PublishRan(c) \/ PublishForget(c) \/ PublishEnd(c)

\* Every call of this behaviour has been made and has returned.
Quiet ==
  /\ \A c \in Calls : pc[c] = "done"
  /\ spawned = {}
  /\ UNCHANGED vars

Next ==
  \/ \E c \in Calls : ClientCall(c)
  \/ \E c, d \in Calls : NestedPublish(c, d)
  \/ \E c \in Calls : Step(c)
  \/ AsyncHandle
  \/ Quiet

\* The Go scheduler runs every goroutine, the mutex starves nobody, and
\* handlers return.  No client has to make a call.
Fairness == (\A c \in Calls : WF_vars(Step(c))) /\ WF_vars(AsyncHandle)

Spec == Init /\ [][Next]_vars

FairSpec == Spec /\ Fairness

----------------------------------------------------------------------------
(* Properties *)

\* Type correctness of the bus, its lock and its calls.
TypeOK ==
  /\ handlers \in [Types -> Seq(Subscription)]
  /\ onceHandlers \in [Types -> Seq(Subscription)]
  /\ closed \in BOOLEAN
  /\ mu \in [readers : SUBSET Calls, writer : Calls \cup {None}, parked : SUBSET Calls]
  /\ pc \in [Calls -> PCs]
  /\ arg \in [Calls -> Arg]
  /\ snap \in [Calls -> [reg : Seq(Subscription), once : Seq(Subscription)]]
  /\ idx \in [Calls -> Nat \ {0}]
  /\ ret \in [Calls -> Returns]
  /\ spawned \in SUBSET (Calls \X Calls)
  /\ delivered \in SUBSET (Calls \X Calls)
  /\ removed \in SUBSET Calls
  /\ known \in [Calls -> SUBSET Calls]
  /\ inGap \in SUBSET Calls

\* While a Publish runs handlers, the bus is open and still holds exactly the
\* handlers it read: nobody who called Unsubscribe or Close has been answered
\* while one of their handlers may still be called, and Unsubscribe, which
\* shifts the slice in place, never moves it under a range loop.
SnapshotStable ==
  \A c \in Calls :
    pc[c] \in {"run", "busy"} =>
      /\ ~closed
      /\ snap[c].reg = handlers[arg[c].t]
      /\ snap[c].once = onceHandlers[arg[c].t]

\* A Publish that returns nil called the handler of every subscription that was
\* on the bus when it was called, unless that subscription has been taken off
\* since (by Unsubscribe, Close, or as a once handler).
VisibleSubscribersCalled ==
  \A c \in Calls :
    (pc[c] = "done" /\ ret[c] = "ok" /\ IsPublish(c)) =>
      \A s \in known[c] : <<c, s>> \in delivered \/ s \in removed

\* The Publish is past its deletion of once handlers.
Forgot(c) == pc[c] = "relock" \/ (pc[c] = "done" /\ ret[c] = "ok")

\* Once a Publish has deleted them, the once handlers it called are off the bus
\* for good: only a Publish that overlaps it can call one of them again.
OnceRetired ==
  \A c \in Calls : Forgot(c) =>
    \A t \in Types : \A s \in SubsIn(onceHandlers[t]) : <<c, s>> \notin delivered

\* The only once handlers that leave an open bus without having been called are
\* the ones that were subscribed while a Publish of the type stood between its
\* RUnlock and its Lock (lines 143 and 144).
OnceLostOnlyInGap ==
  \A s \in removed :
    \/ closed
    \/ arg[s].op # "once"
    \/ s \in inGap
    \/ \E c \in Calls : <<c, s>> \in delivered

\* Every method call returns, whatever the others do, and every AsyncHandler
\* goroutine runs its handler.
EveryCallReturns ==
  /\ \A c \in Calls : (pc[c] # "idle") ~> (pc[c] = "done")
  /\ (spawned # {}) ~> (spawned = {})

\* What the README's nested publishing example relies on: a Publish called from
\* a handler returns.
NestedPublishReturns ==
  \A c \in Calls : (pc[c] # "idle" /\ arg[c].parent # None) ~> (pc[c] = "done")
==============================================================================
