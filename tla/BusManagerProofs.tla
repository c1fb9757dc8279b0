--------------------------- MODULE BusManagerProofs ---------------------------
(***************************************************************************)
(* Proofs about BusManager, for every number of calls, names and retries:  *)
(* what a Manager.Close that returned has closed, while clients, handlers  *)
(* and abandoned goroutines go on, and which panic ends the process.       *)
(***************************************************************************)
EXTENDS BusManager, FiniteSetTheorems, TLAPS

------------------------------------------------------------------------------
(* Types *)

LockType == [readers : SUBSET Calls, writer : Calls \cup {None}, parked : SUBSET Calls]

PCs == {"idle", "get", "subscribe", "closeBus", "close", "closing", "stats", "visiting",
        "publish", "handling", "done"}

\* Where a call has a bus in hand.
OnBus == {"subscribe", "closeBus", "closing", "visiting", "publish", "handling"}

ManagerType ==
  /\ buses \in [Names -> {0} \cup Ids] /\ made \in Ids
  /\ closed \in [Ids -> BOOLEAN] /\ DOMAIN subs = Ids
  /\ lock \in [{0} \cup Ids -> LockType]
  /\ pc \in [Calls -> PCs]
  /\ bus \in [Calls -> {0} \cup Ids] /\ \A c \in Calls : pc[c] \in OnBus => bus[c] # 0
  /\ DOMAIN op = Calls /\ \A c \in Calls : pc[c] = "get" =>
       op[c] \in {"publish", "subscribe", "closeBus"}
  /\ DOMAIN name = Calls /\ \A c \in Calls : pc[c] = "get" => name[c] \in Names
  /\ rest \in [Calls -> SUBSET Ids] /\ DOMAIN hd = Calls
  /\ ended \subseteq Ids

------------------------------------------------------------------------------
(* The invariant *)

\* A Publish in its handlers has the read lock of a bus that is open; a Close that
\* visits the buses has the manager's lock, and has closed all it has visited.
HeldAt(c) ==
  /\ pc[c] = "handling" => c \in lock[bus[c]].readers /\ ~closed[bus[c]]
  /\ pc[c] = "closing" => /\ M!Locked(lock[0], c) /\ bus[c] \in rest[c]
                          /\ \A b \in InMap \cup {Global} : b \in rest[c] \/ closed[b]

Held == \A c \in Calls : HeldAt(c)

\* A closed bus has no subscribers, and what Close has ended is closed.
ClosedForGood == /\ \A b \in Ids : closed[b] => subs[b] = 0
                 /\ \A b \in ended : closed[b]

\* A goroutine that a Publish may wait for works on the bus of that Publish.
WorkerOf(w) ==
  /\ DOMAIN w = {"c", "b", "i", "attempt", "tries", "child"}
  /\ w.c # None => /\ w.c \in Calls /\ pc[w.c] \in {"handling", "done"}
                   /\ pc[w.c] = "handling" => bus[w.c] = w.b

WorkersPlaced == \A w \in workers : WorkerOf(w)

ManagerInv == ManagerType /\ Held /\ ClosedForGood /\ WorkersPlaced

\* A process that crashed had Recovery around Timeout.
CrashedBy ==
  /\ listed \in Orders /\ order = Chain(listed)
  /\ crashed => Inside("timeout", "recovery")

------------------------------------------------------------------------------
(* Locks *)

\* What the operations on a lock do to those who hold it.
LEMMA LockFacts ==
  ASSUME NEW m \in LockType, NEW c \in Calls
  PROVE  /\ M!RLock(m, c) \in LockType /\ m.readers \subseteq M!RLock(m, c).readers
         /\ m.writer # None => /\ M!RLock(m, c).writer = m.writer
                              /\ M!RLock(m, c).readers = m.readers
         /\ M!Lock(m, c) \in LockType /\ M!Lock(m, c).readers = m.readers
         /\ M!RUnlock(m, c) \in LockType /\ M!RUnlock(m, c).readers = m.readers \ {c}
         /\ M!RUnlock(m, c).writer = m.writer
         /\ M!Unlock(m) \in LockType /\ m.readers \subseteq M!Unlock(m).readers
  BY DEF LockType, M!RLock, M!Lock, M!RUnlock, M!Unlock

\* A call in Calls is not None.
LEMMA CallIsSome ==
  ASSUME NEW c \in Calls PROVE c # None
  BY CallsAssumption DEF None

\* The bus of a call is one that exists, and the locks are those of the buses.
LEMMA BusFacts ==
  ASSUME ManagerType
  PROVE  /\ Global \in Ids /\ 0 \notin Ids
         /\ \A c \in Calls : pc[c] \in OnBus => bus[c] \in Ids
         /\ \A x \in {0} \cup Ids : lock[x] \in LockType
         /\ \A c \in Calls : LockAt(c) \in {0} \cup Ids
         /\ InMap \subseteq Ids
<1>1. Global \in Ids /\ 0 \notin Ids
  BY BusesAssumption DEF ManagerType, Ids, Global
<1>2. \A c \in Calls : bus[c] \in {0} \cup Ids /\ (pc[c] \in OnBus => bus[c] # 0)
  BY DEF ManagerType
<1>3. InMap \subseteq Ids
  BY DEF ManagerType, InMap
<1> QED
  BY <1>1, <1>2, <1>3 DEF ManagerType, LockAt

\* A step of c that takes nobody else's lock away, closes no bus under a handler
\* and changes the map only when no other Close is under way, leaves the others as
\* they were.
LEMMA OthersKept ==
  ASSUME Held, NEW c \in Calls,
         \A d \in Calls \ {c} : pc'[d] = pc[d] /\ bus'[d] = bus[d] /\ rest'[d] = rest[d],
         \A d \in Calls \ {c} : pc[d] = "handling" =>
           /\ d \in lock[bus[d]].readers => d \in lock'[bus[d]].readers
           /\ ~closed'[bus[d]],
         \A d \in Calls \ {c} : pc[d] = "closing" => M!Locked(lock'[0], d) /\ buses' = buses,
         \A b \in InMap \cup {Global} : closed[b] => closed'[b]
  PROVE  \A d \in Calls \ {c} : HeldAt(d)'
  BY DEF Held, HeldAt, InMap

\* The worker was there before, for the same Publish, or nobody waits for it.
From(w) ==
  /\ DOMAIN w = {"c", "b", "i", "attempt", "tries", "child"}
  /\ w.c = None \/ \E v \in workers : v.c = w.c /\ v.b = w.b

LEMMA WorkersSame ==
  ASSUME ManagerInv, workers' \subseteq workers
  PROVE  \A w \in workers' : From(w)
  BY DEF ManagerInv, WorkersPlaced, WorkerOf, From

\* Where the workers are is changed only by the Publish they belong to.
LEMMA WorkersKept ==
  ASSUME WorkersPlaced, NEW c \in Calls,
         \A d \in Calls \ {c} : pc'[d] = pc[d] /\ bus'[d] = bus[d],
         pc[c] = "handling" => pc'[c] = "done" \/ (pc'[c] = "handling" /\ bus'[c] = bus[c]),
         pc[c] # "done",
         \A w \in workers' : From(w)
  PROVE  WorkersPlaced'
  BY DEF WorkersPlaced, WorkerOf, From

\* What a call may do to a lock.
LockStep(c, x) ==
  \/ lock'[x] = lock[x]
  \/ lock'[x] = M!RLock(lock[x], c)
  \/ M!CanLock(lock[x]) /\ lock'[x] = M!Lock(lock[x], c)
  \/ M!Locked(lock[x], c) /\ lock'[x] = M!Unlock(lock[x])
  \/ lock'[x] = M!RUnlock(lock[x], c)

\* It takes no lock away from another call.
LEMMA LocksKept ==
  ASSUME ManagerType, Held, NEW c \in Calls, \A x \in {0} \cup Ids : LockStep(c, x)
  PROVE  /\ \A d \in Calls \ {c}, x \in {0} \cup Ids :
              d \in lock[x].readers => d \in lock'[x].readers
         /\ \A d \in Calls \ {c} : pc[d] = "closing" => M!Locked(lock'[0], d)
<1>1. \A x \in {0} \cup Ids : lock[x] \in LockType
  BY BusFacts
<1>2. ASSUME NEW d \in Calls \ {c}, NEW x \in {0} \cup Ids, d \in lock[x].readers
      PROVE  d \in lock'[x].readers
  <2> DEFINE l == lock[x]
  <2>1. /\ l.readers \subseteq M!RLock(l, c).readers /\ M!Lock(l, c).readers = l.readers
        /\ M!RUnlock(l, c).readers = l.readers \ {c} /\ l.readers \subseteq M!Unlock(l).readers
    BY <1>1, LockFacts
  <2>2. lock'[x] \in {l, M!RLock(l, c), M!Lock(l, c), M!Unlock(l), M!RUnlock(l, c)}
    BY DEF LockStep
  <2> QED
    BY <1>2, <2>1, <2>2
<1>3. ASSUME NEW d \in Calls \ {c}, pc[d] = "closing"
      PROVE  M!Locked(lock'[0], d)
  <2>1. lock[0].writer = d /\ lock[0].readers = {} /\ d # None
    BY <1>3, CallIsSome DEF Held, HeldAt, M!Locked
  <2>2. /\ M!RLock(lock[0], c).writer = d /\ M!RLock(lock[0], c).readers = {}
        /\ M!RUnlock(lock[0], c).writer = d /\ M!RUnlock(lock[0], c).readers = {}
    <3>1. lock[0] \in LockType
      BY <1>1
    <3>2. /\ lock[0].writer # None => /\ M!RLock(lock[0], c).writer = lock[0].writer
                                     /\ M!RLock(lock[0], c).readers = lock[0].readers
          /\ M!RUnlock(lock[0], c).readers = lock[0].readers \ {c}
          /\ M!RUnlock(lock[0], c).writer = lock[0].writer
      BY <3>1, LockFacts
    <3> QED
      BY <2>1, <3>2
  <2>3. lock'[0] \in {lock[0], M!RLock(lock[0], c), M!RUnlock(lock[0], c)}
    BY <2>1 DEF LockStep, M!CanLock, M!Locked
  <2>4. lock'[0].writer = d /\ lock'[0].readers = {}
    BY <2>1, <2>2, <2>3
  <2> QED
    BY <2>4 DEF M!Locked
<1> QED
  BY <1>2, <1>3

------------------------------------------------------------------------------
(* Steps *)

\* What most steps of a call have in common: they touch its own variables and a
\* lock, and close nothing.
LEMMA OwnStep ==
  ASSUME ManagerInv, NEW c \in Calls,
         \A d \in Calls \ {c} : pc'[d] = pc[d] /\ bus'[d] = bus[d] /\ rest'[d] = rest[d],
         \A x \in {0} \cup Ids : LockStep(c, x), HeldAt(c)',
         UNCHANGED <<closed, ended>>, \A b \in Ids : closed[b] => subs'[b] = subs[b],
         buses' = buses \/ \A d \in Calls \ {c} : pc[d] # "closing",
         pc[c] = "handling" => pc'[c] = "done" \/ (pc'[c] = "handling" /\ bus'[c] = bus[c]),
         pc[c] # "done",
         \A w \in workers' : From(w)
  PROVE  Held' /\ ClosedForGood' /\ WorkersPlaced'
<1>1. ManagerType /\ Held /\ ClosedForGood /\ WorkersPlaced
  BY DEF ManagerInv
<1>2. /\ \A d \in Calls \ {c}, x \in {0} \cup Ids : d \in lock[x].readers => d \in lock'[x].readers
      /\ \A d \in Calls \ {c} : pc[d] = "closing" => M!Locked(lock'[0], d)
  BY <1>1, LocksKept
<1>3. \A d \in Calls : pc[d] = "handling" => bus[d] \in Ids /\ ~closed[bus[d]]
  BY <1>1, BusFacts DEF Held, HeldAt, OnBus
<1>4. \A d \in Calls \ {c} : HeldAt(d)'
  BY <1>1, <1>2, <1>3, OthersKept
<1>5. Held'
  BY <1>4 DEF Held
<1>6. ClosedForGood'
  BY <1>1 DEF ClosedForGood, ManagerType
<1>7. WorkersPlaced'
  BY <1>1, WorkersKept
<1> QED
  BY <1>5, <1>6, <1>7

LEMMA StartStep ==
  ASSUME ManagerInv, NEW c \in Calls, NEW o, NEW n, Start(c, o, n),
         \/ o \in {"publishGlobal", "subscribeGlobal", "close", "stats"} /\ n = NoName
         \/ o \in {"publish", "subscribe", "closeBus"} /\ n \in Names,
         \A w \in workers' : From(w)
  PROVE  ManagerInv'
<1>1. /\ pc[c] = "idle" /\ UNCHANGED <<buses, made, closed, subs, lock, rest, hd, ended>>
      /\ pc'[c] \in {"publish", "subscribe", "close", "stats", "get"}
      /\ pc' = [pc EXCEPT ![c] = pc'[c]] /\ bus' = [bus EXCEPT ![c] = bus'[c]]
      /\ bus'[c] \in {0, Global} /\ (pc'[c] \in {"publish", "subscribe"} => bus'[c] = Global)
      /\ pc'[c] = "get" => o \in {"publish", "subscribe", "closeBus"}
      /\ op' = [op EXCEPT ![c] = o] /\ name' = [name EXCEPT ![c] = n]
  BY DEF Start, busVars, ManagerInv, ManagerType
<1>2. ManagerType'
  BY <1>1, BusFacts DEF ManagerInv, ManagerType, PCs, OnBus
<1>3. HeldAt(c)'
  BY <1>1 DEF HeldAt
<1>4. \A x \in {0} \cup Ids : LockStep(c, x)
  BY <1>1 DEF LockStep
<1>5. \A d \in Calls \ {c} : pc'[d] = pc[d] /\ bus'[d] = bus[d] /\ rest'[d] = rest[d]
  BY <1>1 DEF ManagerInv, ManagerType
<1>6. Held' /\ ClosedForGood' /\ WorkersPlaced'
  BY <1>1, <1>3, <1>4, <1>5, OwnStep
<1> QED
  BY <1>2, <1>6 DEF ManagerInv

LEMMA AskLockStep ==
  ASSUME ManagerInv, NEW c \in Calls, AskLock(c)
  PROVE  ManagerInv'
<1>1. ManagerType /\ LockAt(c) \in {0} \cup Ids
  BY BusFacts DEF ManagerInv
<1> DEFINE l == lock[LockAt(c)]
<1>2. l \in LockType
  BY <1>1, BusFacts
<1>3. /\ UNCHANGED <<busVars, chain, pc, callVars, hd, workers, crashed, ended>>
      /\ \/ M!CanLock(l) /\ lock' = [lock EXCEPT ![LockAt(c)] = M!Lock(l, c)]
         \/ lock' = [lock EXCEPT ![LockAt(c)] = M!RLock(l, c)]
  BY DEF AskLock
<1>4. lock' \in [{0} \cup Ids -> LockType]
  <2>1. M!Lock(l, c) \in LockType /\ M!RLock(l, c) \in LockType
    BY <1>2, LockFacts
  <2> QED
    BY <1>1, <1>3, <2>1 DEF ManagerType
<1>5. \A x \in {0} \cup Ids : LockStep(c, x)
  BY <1>1, <1>3 DEF LockStep, ManagerType
<1>6. /\ UNCHANGED <<buses, made, closed, subs, pc, op, name, bus, rest, hd, workers, ended>>
      /\ pc[c] \in {"get", "close", "subscribe", "closeBus", "closing", "stats", "publish", "visiting"}
  BY <1>3 DEF busVars, callVars, AskLock, Writes, Reads
<1>7. ManagerType'
  BY <1>1, <1>4, <1>6 DEF ManagerType
<1>8. HeldAt(c)'
  <2>1. CASE pc[c] # "closing"
    BY <1>6, <2>1 DEF HeldAt
  <2>2. CASE pc[c] = "closing"
    <3>1. LockAt(c) = bus[c] /\ bus[c] # 0
      BY <1>1, <2>2 DEF LockAt, ManagerType, OnBus
    <3>2. lock'[0] = lock[0]
      BY <1>1, <1>3, <3>1 DEF ManagerType
    <3> QED
      BY <1>6, <2>2, <3>2 DEF ManagerInv, Held, HeldAt, InMap, M!Locked
  <2> QED
    BY <2>1, <2>2
<1>9. Held' /\ ClosedForGood' /\ WorkersPlaced'
  BY <1>5, <1>6, <1>8, OwnStep, WorkersSame
<1> QED
  BY <1>7, <1>9 DEF ManagerInv

\* Releasing the lock a call has.
LEMMA ReleaseFacts ==
  ASSUME ManagerType, NEW c \in Calls, (Exclusive(c) /\ Unlock(c)) \/ RUnlock(c)
  PROVE  lock' \in [{0} \cup Ids -> LockType] /\ \A x \in {0} \cup Ids : LockStep(c, x)
<1>1. LockAt(c) \in {0} \cup Ids /\ lock[LockAt(c)] \in LockType
  BY BusFacts
<1>2. M!Unlock(lock[LockAt(c)]) \in LockType /\ M!RUnlock(lock[LockAt(c)], c) \in LockType
  BY <1>1, LockFacts
<1>3. CASE Exclusive(c) /\ Unlock(c)
  BY <1>1, <1>2, <1>3 DEF Unlock, Exclusive, LockStep, ManagerType
<1>4. CASE RUnlock(c)
  BY <1>1, <1>2, <1>4 DEF RUnlock, LockStep, ManagerType
<1> QED
  BY <1>3, <1>4

\* Returning to the caller.
LEMMA ReturnFacts ==
  ASSUME ManagerType, NEW c \in Calls, Return(c)
  PROVE  /\ pc'[c] = "done" /\ pc' \in [Calls -> PCs]
         /\ \A d \in Calls \ {c} : /\ pc'[d] = pc[d] /\ bus'[d] = bus[d] /\ rest'[d] = rest[d]
                                   /\ op'[d] = op[d] /\ name'[d] = name[d]
         /\ bus' \in [Calls -> {0} \cup Ids] /\ rest' \in [Calls -> SUBSET Ids]
         /\ DOMAIN op' = Calls /\ DOMAIN name' = Calls /\ DOMAIN hd' = Calls
         /\ HeldAt(c)'
<1>1. /\ pc'[c] = "done" /\ pc' \in [Calls -> PCs]
      /\ \A d \in Calls \ {c} : /\ pc'[d] = pc[d] /\ bus'[d] = bus[d] /\ rest'[d] = rest[d]
                                /\ op'[d] = op[d] /\ name'[d] = name[d]
      /\ bus' \in [Calls -> {0} \cup Ids] /\ rest' \in [Calls -> SUBSET Ids]
      /\ DOMAIN op' = Calls /\ DOMAIN name' = Calls /\ DOMAIN hd' = Calls
  BY DEF Return, Go, ManagerType, PCs
<1> QED
  BY <1>1 DEF HeldAt

\* No other call is in Close when this one has the manager's lock.
LEMMA ManagerLocked ==
  ASSUME ManagerInv, NEW c \in Calls, M!Locked(lock[0], c)
  PROVE  \A d \in Calls \ {c} : pc[d] # "closing"
  BY DEF ManagerInv, Held, HeldAt, M!Locked

LEMMA GetBusStep ==
  ASSUME ManagerInv, NEW c \in Calls, GetBus(c)
  PROVE  ManagerInv'
<1>1. /\ pc[c] = "get" /\ LockAt(c) = 0 /\ Exclusive(c) /\ Unlock(c)
      /\ UNCHANGED <<closed, subs, op, name, rest, hd, workers, ended>>
      /\ op[c] \in {"publish", "subscribe", "closeBus"} /\ name[c] \in Names
      /\ pc' = [pc EXCEPT ![c] = op[c]]
  BY DEF GetBus, LockAt, ManagerInv, ManagerType, Go
<1>2. lock' \in [{0} \cup Ids -> LockType] /\ \A x \in {0} \cup Ids : LockStep(c, x)
  BY <1>1, ReleaseFacts DEF ManagerInv
<1>3. /\ made' \in Ids /\ buses' \in [Names -> {0} \cup Ids]
      /\ bus' = [bus EXCEPT ![c] = bus'[c]] /\ bus'[c] \in Ids /\ bus'[c] # 0
  <2>1. CASE buses[name[c]] # 0
    BY <1>1, <2>1 DEF GetBus, ManagerInv, ManagerType
  <2>2. CASE buses[name[c]] = 0
    <3>1. made' \in Ids /\ made' # 0
      BY <1>1, <2>2, BusesAssumption DEF GetBus, ManagerInv, ManagerType, Ids
    <3> QED
      BY <1>1, <2>2, <3>1 DEF GetBus, ManagerInv, ManagerType
  <2> QED
    BY <2>1, <2>2
<1>4. ManagerType'
  BY <1>1, <1>2, <1>3 DEF ManagerInv, ManagerType, PCs, OnBus
<1>5. \A d \in Calls \ {c} : pc'[d] = pc[d] /\ bus'[d] = bus[d] /\ rest'[d] = rest[d]
  BY <1>1, <1>3 DEF ManagerInv, ManagerType
<1>6. HeldAt(c)' /\ pc'[c] # "closing"
  BY <1>1 DEF HeldAt, ManagerInv, ManagerType
<1>7. \A d \in Calls \ {c} : pc[d] # "closing"
  BY <1>1, ManagerLocked DEF Exclusive
<1>8. Held' /\ ClosedForGood' /\ WorkersPlaced'
  BY <1>1, <1>2, <1>5, <1>6, <1>7, OwnStep, WorkersSame
<1> QED
  BY <1>4, <1>8 DEF ManagerInv

\* A call that returns, having released its lock, and closed nothing.
LEMMA LeaveStep ==
  ASSUME ManagerInv, NEW c \in Calls, pc[c] # "done", Return(c),
         lock' \in [{0} \cup Ids -> LockType], \A x \in {0} \cup Ids : LockStep(c, x),
         UNCHANGED <<buses, made, closed, workers, ended>>,
         DOMAIN subs' = Ids, \A b \in Ids : closed[b] => subs'[b] = subs[b]
  PROVE  ManagerInv'
<1>1. ManagerType'
  BY ReturnFacts DEF ManagerInv, ManagerType, OnBus
<1>2. Held' /\ ClosedForGood' /\ WorkersPlaced'
  BY ReturnFacts, OwnStep, WorkersSame DEF ManagerInv
<1> QED
  BY <1>1, <1>2 DEF ManagerInv

LEMMA SubscribeStep ==
  ASSUME ManagerInv, NEW c \in Calls, Subscribe(c)
  PROVE  ManagerInv'
<1>1. /\ pc[c] = "subscribe" /\ Exclusive(c) /\ Unlock(c) /\ Return(c)
      /\ UNCHANGED <<buses, made, closed, workers, ended>> /\ bus[c] \in Ids
      /\ subs' = IF closed[bus[c]] THEN subs ELSE [subs EXCEPT ![bus[c]] = @ + 1]
  BY BusFacts DEF Subscribe, ManagerInv, OnBus
<1>2. lock' \in [{0} \cup Ids -> LockType] /\ \A x \in {0} \cup Ids : LockStep(c, x)
  BY <1>1, ReleaseFacts DEF ManagerInv
<1>3. DOMAIN subs' = Ids /\ \A b \in Ids : closed[b] => subs'[b] = subs[b]
  BY <1>1 DEF ManagerInv, ManagerType
<1> QED
  BY <1>1, <1>2, <1>3, LeaveStep

\* A bus is closed by a call that has its lock: nobody is in a handler on it.
LEMMA ClosingStep ==
  ASSUME ManagerInv, NEW c \in Calls, NEW b \in Ids, M!Locked(lock[b], c),
         closed' = [closed EXCEPT ![b] = TRUE], subs' = [subs EXCEPT ![b] = 0],
         \A d \in Calls \ {c} : pc'[d] = pc[d] /\ bus'[d] = bus[d] /\ rest'[d] = rest[d],
         \A x \in {0} \cup Ids : LockStep(c, x), HeldAt(c)',
         buses' = buses \/ \A d \in Calls \ {c} : pc[d] # "closing",
         \A e \in ended' : e \in ended \/ closed'[e],
         pc[c] \notin {"handling", "done"}, UNCHANGED workers
  PROVE  Held' /\ ClosedForGood' /\ WorkersPlaced'
<1>1. ManagerType /\ Held /\ ClosedForGood /\ WorkersPlaced
  BY DEF ManagerInv
<1>2. /\ \A d \in Calls \ {c}, x \in {0} \cup Ids : d \in lock[x].readers => d \in lock'[x].readers
      /\ \A d \in Calls \ {c} : pc[d] = "closing" => M!Locked(lock'[0], d)
  BY <1>1, LocksKept
<1>3. /\ closed'[b] /\ \A x \in Ids : closed[x] => closed'[x]
      /\ \A x \in Ids \ {b} : closed'[x] = closed[x] /\ subs'[x] = subs[x]
      /\ subs'[b] = 0
  BY <1>1 DEF ManagerType
<1>4. ASSUME NEW d \in Calls, pc[d] = "handling"
      PROVE  bus[d] \in Ids /\ ~closed'[bus[d]]
  <2>1. bus[d] \in Ids /\ d \in lock[bus[d]].readers /\ ~closed[bus[d]]
    BY <1>1, <1>4, BusFacts DEF Held, HeldAt, OnBus
  <2>2. bus[d] # b
    BY <2>1 DEF M!Locked
  <2> QED
    BY <1>3, <2>1, <2>2
<1>5. InMap \cup {Global} \subseteq Ids
  BY <1>1, BusFacts
<1>6. \A d \in Calls \ {c} : HeldAt(d)'
  BY <1>1, <1>2, <1>3, <1>4, <1>5, OthersKept
<1>7. Held'
  BY <1>6 DEF Held
<1>8. ClosedForGood'
  BY <1>1, <1>3 DEF ClosedForGood, ManagerType
<1>9. WorkersPlaced'
  BY <1>1, WorkersKept, WorkersSame
<1> QED
  BY <1>7, <1>8, <1>9

LEMMA CloseBusStep ==
  ASSUME ManagerInv, NEW c \in Calls, CloseBus(c)
  PROVE  ManagerInv'
<1>1. /\ pc[c] = "closeBus" /\ Exclusive(c) /\ Unlock(c) /\ Return(c)
      /\ UNCHANGED <<buses, made, workers, ended>> /\ bus[c] \in Ids /\ LockAt(c) = bus[c]
      /\ closed' = [closed EXCEPT ![bus[c]] = TRUE] /\ subs' = [subs EXCEPT ![bus[c]] = 0]
  BY BusFacts DEF CloseBus, ManagerInv, OnBus, LockAt
<1>2. lock' \in [{0} \cup Ids -> LockType] /\ \A x \in {0} \cup Ids : LockStep(c, x)
  BY <1>1, ReleaseFacts DEF ManagerInv
<1>3. ManagerType'
  BY <1>1, <1>2, ReturnFacts DEF ManagerInv, ManagerType, OnBus
<1>4. M!Locked(lock[bus[c]], c)
  BY <1>1 DEF Exclusive
<1>5. Held' /\ ClosedForGood' /\ WorkersPlaced'
  BY <1>1, <1>2, <1>4, ReturnFacts, ClosingStep DEF ManagerInv
<1> QED
  BY <1>3, <1>5 DEF ManagerInv

\* Where a visit of the buses goes next.
LEMMA NextBusFacts ==
  ASSUME NEW left PROVE NextBus(left) \subseteq left
  BY DEF NextBus

\* Close and GetStats begin their visit.
LEMMA VisitStep ==
  ASSUME ManagerInv, NEW c \in Calls, Close(c) \/ GetStats(c)
  PROVE  ManagerInv'
<1> DEFINE all == InMap \cup {Global}
<1>0. all \subseteq Ids /\ NextBus(all) \subseteq all
  BY BusFacts, NextBusFacts DEF ManagerInv
<1>1. /\ pc[c] \in {"close", "stats"} /\ LockAt(c) = 0
      /\ UNCHANGED <<buses, made, closed, subs, lock, op, name, hd, workers, ended>>
  BY DEF Close, GetStats, LockAt, busVars
<1>2. /\ pc' = [pc EXCEPT ![c] = pc'[c]] /\ pc'[c] \in {"closing", "visiting"}
      /\ pc'[c] = "closing" => M!Locked(lock[0], c)
      /\ bus' = [bus EXCEPT ![c] = bus'[c]] /\ bus'[c] \in NextBus(all)
      /\ rest' = [rest EXCEPT ![c] = all]
  BY <1>1 DEF Close, GetStats, Visit, Go, Exclusive, ManagerInv, ManagerType
<1>3. bus'[c] \in all /\ bus'[c] \in Ids /\ bus'[c] # 0 /\ rest'[c] = all /\ rest'[c] \subseteq Ids
  BY <1>0, <1>2, BusFacts DEF ManagerInv, ManagerType
<1>4. ManagerType'
  BY <1>1, <1>2, <1>3 DEF ManagerInv, ManagerType, PCs, OnBus
<1>5. HeldAt(c)'
  BY <1>1, <1>2, <1>3 DEF HeldAt, InMap, M!Locked
<1>6. \A x \in {0} \cup Ids : LockStep(c, x)
  BY <1>1 DEF LockStep
<1>7. \A d \in Calls \ {c} : pc'[d] = pc[d] /\ bus'[d] = bus[d] /\ rest'[d] = rest[d]
  BY <1>2 DEF ManagerInv, ManagerType
<1>8. Held' /\ ClosedForGood' /\ WorkersPlaced'
  BY <1>1, <1>5, <1>6, <1>7, OwnStep, WorkersSame
<1> QED
  BY <1>4, <1>8 DEF ManagerInv

LEMMA CloseNextStep ==
  ASSUME ManagerInv, NEW c \in Calls, CloseNext(c)
  PROVE  ManagerInv'
<1> DEFINE b == bus[c]
           all == InMap \cup {Global}
<1>1. /\ pc[c] = "closing" /\ LockAt(c) = b /\ M!Locked(lock[b], c)
      /\ closed' = [closed EXCEPT ![b] = TRUE] /\ subs' = [subs EXCEPT ![b] = 0]
      /\ UNCHANGED <<made, workers>>
  BY DEF CloseNext, Exclusive, LockAt
<1>2. b \in Ids /\ b # 0 /\ all \subseteq Ids
  BY <1>1, BusFacts DEF ManagerInv, OnBus
<1>3. /\ M!Locked(lock[0], c) /\ b \in rest[c]
      /\ \A x \in all : x \in rest[c] \/ closed[x]
  BY <1>1 DEF ManagerInv, Held, HeldAt
<1>4. \A x \in all : x \in rest[c] \ {b} \/ closed'[x]
  BY <1>1, <1>2, <1>3 DEF ManagerInv, ManagerType
<1>5. closed' \in [Ids -> BOOLEAN] /\ DOMAIN subs' = Ids
  BY <1>1 DEF ManagerInv, ManagerType
<1>6. /\ lock[0] \in LockType /\ lock[b] \in LockType
      /\ M!Unlock(lock[0]) \in LockType /\ M!Unlock(lock[b]) \in LockType
  BY <1>2, BusFacts, LockFacts DEF ManagerInv
<1>7. CASE Left(c) # {}
  <2> DEFINE left == rest[c] \ {b}
  <2>1. /\ lock' = [lock EXCEPT ![b] = M!Unlock(@)] /\ UNCHANGED <<buses, op, name, hd, ended>>
        /\ pc' = [pc EXCEPT ![c] = "closing"] /\ rest' = [rest EXCEPT ![c] = left]
        /\ bus' = [bus EXCEPT ![c] = bus'[c]] /\ bus'[c] \in NextBus(left)
    BY <1>7 DEF CloseNext, Left, Visit, Go, ManagerInv, ManagerType
  <2>2. /\ bus'[c] \in left /\ bus'[c] \in Ids /\ bus'[c] # 0
        /\ rest'[c] = left /\ left \subseteq Ids /\ pc'[c] = "closing"
    BY <1>2, <2>1, NextBusFacts, BusFacts DEF ManagerInv, ManagerType
  <2>3. lock' \in [{0} \cup Ids -> LockType] /\ lock'[0] = lock[0]
    BY <1>2, <1>6, <2>1 DEF ManagerInv, ManagerType
  <2>4. \A x \in {0} \cup Ids : LockStep(c, x)
    BY <1>1, <1>2, <2>1 DEF LockStep, ManagerInv, ManagerType
  <2>5. ManagerType'
    BY <1>1, <1>5, <2>1, <2>2, <2>3 DEF ManagerInv, ManagerType, PCs
  <2>6. HeldAt(c)'
    BY <1>3, <1>4, <2>1, <2>2, <2>3 DEF HeldAt, InMap, M!Locked
  <2>7. \A d \in Calls \ {c} : pc'[d] = pc[d] /\ bus'[d] = bus[d] /\ rest'[d] = rest[d]
    BY <2>1 DEF ManagerInv, ManagerType
  <2>8. Held' /\ ClosedForGood' /\ WorkersPlaced'
    BY <1>1, <1>2, <2>1, <2>4, <2>6, <2>7, ClosingStep
  <2> QED
    BY <2>5, <2>8 DEF ManagerInv
<1>8. CASE Left(c) = {}
  <2>1. /\ lock' = [lock EXCEPT ![b] = M!Unlock(@), ![0] = M!Unlock(@)]
        /\ buses' = [n \in Names |-> 0] /\ ended' = ended \cup all /\ Return(c)
        /\ rest[c] \ {b} = {}
    BY <1>8 DEF CloseNext, Left
  <2>2. lock' \in [{0} \cup Ids -> LockType]
    BY <1>2, <1>6, <2>1 DEF ManagerInv, ManagerType
  <2>3. \A x \in {0} \cup Ids : LockStep(c, x)
    BY <1>1, <1>2, <1>3, <2>1 DEF LockStep, ManagerInv, ManagerType
  <2>4. ManagerType'
    <3>1. buses' \in [Names -> {0} \cup Ids] /\ ended' \subseteq Ids
      BY <1>2, <2>1 DEF ManagerInv, ManagerType
    <3> QED
      BY <1>1, <1>5, <2>1, <2>2, <3>1, ReturnFacts DEF ManagerInv, ManagerType, OnBus
  <2>5. \A d \in Calls \ {c} : pc[d] # "closing"
    BY <1>3, ManagerLocked
  <2>6. \A e \in ended' : e \in ended \/ closed'[e]
    BY <1>4, <2>1
  <2>7. Held' /\ ClosedForGood' /\ WorkersPlaced'
    BY <1>1, <1>2, <2>1, <2>3, <2>5, <2>6, ReturnFacts, ClosingStep DEF ManagerInv
  <2> QED
    BY <2>4, <2>7 DEF ManagerInv
<1> QED
  BY <1>7, <1>8

LEMMA StatsNextStep ==
  ASSUME ManagerInv, NEW c \in Calls, StatsNext(c)
  PROVE  ManagerInv'
<1> DEFINE b == bus[c]
           left == rest[c] \ {b}
<1>1. /\ pc[c] = "visiting" /\ UNCHANGED <<buses, made, closed, subs, workers, ended>>
  BY DEF StatsNext, busVars
<1>2. b \in Ids /\ b # 0
  BY <1>1, BusFacts DEF ManagerInv, OnBus
<1>3. M!RUnlock(lock[0], c) \in LockType /\ M!RUnlock(lock[b], c) \in LockType
  BY <1>2, BusFacts, LockFacts DEF ManagerInv
<1>4. CASE left # {}
  <2>1. /\ lock' = [lock EXCEPT ![b] = M!RUnlock(@, c)] /\ UNCHANGED <<op, name, hd>>
        /\ pc' = [pc EXCEPT ![c] = "visiting"] /\ rest' = [rest EXCEPT ![c] = left]
        /\ bus' = [bus EXCEPT ![c] = bus'[c]] /\ bus'[c] \in NextBus(left)
    BY <1>4 DEF StatsNext, Visit, Go, ManagerInv, ManagerType
  <2>2. /\ bus'[c] \in left /\ bus'[c] \in Ids /\ bus'[c] # 0
        /\ rest'[c] = left /\ left \subseteq Ids /\ pc'[c] = "visiting"
    BY <1>2, <2>1, NextBusFacts, BusFacts DEF ManagerInv, ManagerType
  <2>3. lock' \in [{0} \cup Ids -> LockType] /\ \A x \in {0} \cup Ids : LockStep(c, x)
    BY <1>2, <1>3, <2>1 DEF LockStep, ManagerInv, ManagerType
  <2>4. ManagerType'
    BY <1>1, <2>1, <2>2, <2>3 DEF ManagerInv, ManagerType, PCs
  <2>5. HeldAt(c)'
    BY <2>2 DEF HeldAt
  <2>6. \A d \in Calls \ {c} : pc'[d] = pc[d] /\ bus'[d] = bus[d] /\ rest'[d] = rest[d]
    BY <2>1 DEF ManagerInv, ManagerType
  <2>7. Held' /\ ClosedForGood' /\ WorkersPlaced'
    BY <1>1, <2>3, <2>5, <2>6, OwnStep, WorkersSame
  <2> QED
    BY <2>4, <2>7 DEF ManagerInv
<1>5. CASE left = {}
  <2>1. /\ lock' = [lock EXCEPT ![b] = M!RUnlock(@, c), ![0] = M!RUnlock(@, c)] /\ Return(c)
    BY <1>5 DEF StatsNext
  <2>2. lock' \in [{0} \cup Ids -> LockType] /\ \A x \in {0} \cup Ids : LockStep(c, x)
    BY <1>2, <1>3, <2>1 DEF LockStep, ManagerInv, ManagerType
  <2>3. DOMAIN subs' = Ids
    BY <1>1 DEF ManagerInv, ManagerType
  <2> QED
    BY <1>1, <2>1, <2>2, <2>3, LeaveStep
<1> QED
  BY <1>4, <1>5

LEMMA PublishStep ==
  ASSUME ManagerInv, NEW c \in Calls, Publish(c) \/ Published(c)
  PROVE  ManagerInv'
<1>1. /\ pc[c] \in {"publish", "handling"}
      /\ UNCHANGED <<buses, made, closed, subs, workers, ended>>
  BY DEF Publish, Published, busVars
<1>2. CASE RUnlock(c) /\ Return(c)
  <2>1. lock' \in [{0} \cup Ids -> LockType] /\ \A x \in {0} \cup Ids : LockStep(c, x)
    BY <1>2, ReleaseFacts DEF ManagerInv
  <2>2. DOMAIN subs' = Ids
    BY <1>1 DEF ManagerInv, ManagerType
  <2> QED
    BY <1>1, <1>2, <2>1, <2>2, LeaveStep
<1>3. CASE /\ pc[c] = "publish" /\ Shared(c) /\ ~closed[bus[c]] /\ Go(c, "handling")
           /\ UNCHANGED <<lock, callVars, hd>>
  <2>1. /\ pc' = [pc EXCEPT ![c] = "handling"] /\ UNCHANGED <<lock, op, name, bus, rest, hd>>
        /\ c \in lock[bus[c]].readers
    BY <1>3 DEF Go, callVars, Shared, LockAt
  <2>2. ManagerType'
    BY <1>1, <1>3, <2>1 DEF ManagerInv, ManagerType, PCs, OnBus
  <2>3. HeldAt(c)'
    BY <1>1, <1>3, <2>1 DEF HeldAt, ManagerInv, ManagerType
  <2>4. \A x \in {0} \cup Ids : LockStep(c, x)
    BY <2>1 DEF LockStep
  <2>5. \A d \in Calls \ {c} : pc'[d] = pc[d] /\ bus'[d] = bus[d] /\ rest'[d] = rest[d]
    BY <2>1 DEF ManagerInv, ManagerType
  <2>6. Held' /\ ClosedForGood' /\ WorkersPlaced'
    BY <1>1, <1>3, <2>3, <2>4, <2>5, OwnStep, WorkersSame
  <2> QED
    BY <2>2, <2>6 DEF ManagerInv
<1> QED
  BY <1>2, <1>3 DEF Publish, Published

\* A step of the handlers, which changes neither the buses nor the calls: what is
\* left to see is that the workers are in place.
LEMMA HandlerStep ==
  ASSUME ManagerInv, UNCHANGED <<busVars, lock, pc, callVars, ended>>, DOMAIN hd' = Calls,
         \A w \in workers' : WorkerOf(w)
  PROVE  ManagerInv'
<1>1. UNCHANGED <<buses, made, closed, subs, lock, pc, op, name, bus, rest, ended>>
  BY DEF busVars, callVars
<1>2. ManagerType'
  BY <1>1 DEF ManagerInv, ManagerType
<1>3. Held' /\ ClosedForGood'
  BY <1>1 DEF ManagerInv, Held, HeldAt, ClosedForGood, InMap, M!Locked
<1>4. WorkersPlaced'
  BY <1>1 DEF WorkersPlaced, WorkerOf
<1> QED
  BY <1>2, <1>3, <1>4 DEF ManagerInv

LEMMA StartWorkerStep ==
  ASSUME ManagerInv, NEW c \in Calls, StartWorker(c)
  PROVE  ManagerInv'
<1> DEFINE w == [c |-> c, b |-> bus[c], i |-> hd[c].i, attempt |-> hd[c].attempt,
                 tries |-> 0, child |-> None]
<1>1. /\ pc[c] = "handling" /\ workers' = workers \cup {w} /\ hd' = [hd EXCEPT ![c].st = "wait"]
      /\ UNCHANGED <<busVars, lock, pc, callVars, ended>>
  BY DEF StartWorker
<1>2. WorkerOf(w)
  BY <1>1 DEF WorkerOf
<1>3. \A v \in workers' : WorkerOf(v)
  BY <1>1, <1>2 DEF ManagerInv, WorkersPlaced
<1>4. DOMAIN hd' = Calls
  BY <1>1 DEF ManagerInv, ManagerType
<1> QED
  BY <1>1, <1>3, <1>4, HandlerStep

\* What a goroutine keeps when nobody waits for it any more, and when it tries its
\* handler again.
LEMMA WorkerUpdates ==
  ASSUME NEW w, DOMAIN w = {"c", "b", "i", "attempt", "tries", "child"}
  PROVE  /\ Abandoned(w).c = None /\ DOMAIN Abandoned(w) = DOMAIN w
         /\ LET v == [w EXCEPT !.tries = @ + 1, !.child = None]
            IN v.c = w.c /\ v.b = w.b /\ DOMAIN v = DOMAIN w
  BY DEF Abandoned

LEMMA TimeoutStep ==
  ASSUME ManagerInv, NEW c \in Calls, Timeout(c)
  PROVE  ManagerInv'
<1>1. /\ UNCHANGED <<busVars, lock, pc, callVars, ended>> /\ Result(c, TRUE)
      /\ \A v \in workers' : \E w \in workers : v = w \/ v = Abandoned(w)
  BY DEF Timeout
<1>2. \A w \in workers : WorkerOf(Abandoned(w))
  BY WorkerUpdates DEF ManagerInv, WorkersPlaced, WorkerOf
<1>3. \A v \in workers' : WorkerOf(v)
  BY <1>1, <1>2 DEF ManagerInv, WorkersPlaced
<1>4. DOMAIN hd' = Calls
  BY <1>1 DEF Result, ManagerInv, ManagerType
<1> QED
  BY <1>1, <1>3, <1>4, HandlerStep

LEMMA HandlerReturnsStep ==
  ASSUME ManagerInv, NEW w \in workers, NEW how \in {"ok", "error", "panic"}, HandlerReturns(w, how)
  PROVE  ManagerInv'
<1>1. UNCHANGED <<busVars, lock, pc, callVars, ended>>
  BY DEF HandlerReturns
<1>2. \/ UNCHANGED <<workers, hd>>
      \/ WorkerEnds(w, FALSE) \/ WorkerEnds(w, TRUE)
      \/ /\ workers' = (workers \ {w}) \cup {[w EXCEPT !.tries = @ + 1, !.child = None]}
         /\ UNCHANGED hd
  BY DEF HandlerReturns
<1>3. WorkerOf([w EXCEPT !.tries = @ + 1, !.child = None])
  BY WorkerUpdates DEF ManagerInv, WorkersPlaced, WorkerOf
<1>4. \A v \in workers' : WorkerOf(v)
  BY <1>2, <1>3 DEF ManagerInv, WorkersPlaced, WorkerEnds
<1>5. DOMAIN hd' = Calls
  BY <1>2 DEF WorkerEnds, Result, ManagerInv, ManagerType
<1> QED
  BY <1>1, <1>4, <1>5, HandlerStep

LEMMA NestedStep ==
  ASSUME ManagerInv, NEW w \in workers, NEW d \in Calls, NestedPublish(w, d)
  PROVE  ManagerInv'
<1>1. workers' = (workers \ {w}) \cup {[w EXCEPT !.child = d]}
  BY DEF NestedPublish
<1>2. From([w EXCEPT !.child = d])
  BY DEF ManagerInv, WorkersPlaced, WorkerOf, From
<1>3. \A v \in workers' : From(v)
  BY <1>1, <1>2 DEF ManagerInv, WorkersPlaced, WorkerOf, From
<1>4. \/ Start(d, "publishGlobal", NoName)
      \/ \E n \in Names : Start(d, "publish", n)
  BY DEF NestedPublish
<1> QED
  BY <1>3, <1>4, StartStep

------------------------------------------------------------------------------
(* Theorems *)

LEMMA ManagerStep ==
  ManagerInv /\ [Next]_vars => ManagerInv'
<1> SUFFICES ASSUME ManagerInv, [Next]_vars PROVE ManagerInv'
  OBVIOUS
<1>1. ASSUME NEW c \in Calls, Invoke(c) PROVE ManagerInv'
  <2>1. \A w \in workers' : From(w)
    BY <1>1, WorkersSame DEF Invoke
  <2> QED
    BY <1>1, <2>1, StartStep DEF Invoke
<1>2. ASSUME NEW c \in Calls, Step(c) PROVE ManagerInv'
  BY <1>2, AskLockStep, GetBusStep, SubscribeStep, CloseBusStep, VisitStep, CloseNextStep,
     StatsNextStep, PublishStep, StartWorkerStep, TimeoutStep DEF Step
<1>3. CASE UNCHANGED vars
  BY <1>3, HandlerStep DEF vars, ManagerInv, WorkersPlaced, ManagerType
<1> QED
  BY <1>1, <1>2, <1>3, NestedStep, HandlerReturnsStep DEF Next

LEMMA ManagerInit ==
  Init => ManagerInv
<1> SUFFICES ASSUME Init PROVE ManagerInv
  OBVIOUS
<1>1. Cardinality(Names) \in Nat
  BY BusesAssumption, FS_CardinalityType
<1>2. /\ buses \in [Names -> 2 .. Cardinality(Names) + 1] /\ made = 1 + Cardinality(Names)
  BY DEF Init
<1>3. buses \in [Names -> {0} \cup Ids] /\ made \in Ids
  BY <1>1, <1>2, BusesAssumption DEF Ids
<1>4. lock \in [{0} \cup Ids -> LockType]
  BY DEF Init, M!Unlocked, LockType
<1>5. ManagerType
  BY <1>3, <1>4 DEF Init, ManagerType, PCs, OnBus
<1>6. Held /\ ClosedForGood /\ WorkersPlaced
  BY DEF Init, Held, HeldAt, ClosedForGood, WorkersPlaced
<1> QED
  BY <1>5, <1>6 DEF ManagerInv

\* Whatever calls, handlers and goroutines are under way, the buses a returned
\* Manager.Close knew are closed, without subscribers and without a Publish in a
\* handler.
THEOREM CloseIsFinal ==
  Spec => []CloseClosesAll
<1>1. ManagerInv => CloseClosesAll
  <2> SUFFICES ASSUME ManagerInv, NEW b \in ended
               PROVE  /\ closed[b] /\ subs[b] = 0
                      /\ \A c \in Calls : pc[c] = "handling" => bus[c] # b
                      /\ \A w \in workers : w.b = b => ~Waiting(w)
    BY DEF CloseClosesAll
  <2>1. closed[b] /\ subs[b] = 0
    BY DEF ManagerInv, ManagerType, ClosedForGood
  <2>2. \A c \in Calls : pc[c] = "handling" => bus[c] # b
    BY <2>1 DEF ManagerInv, Held, HeldAt
  <2>3. \A w \in workers : w.b = b => ~Waiting(w)
    BY <2>2 DEF ManagerInv, WorkersPlaced, WorkerOf, Waiting
  <2> QED
    BY <2>1, <2>2, <2>3
<1> QED
  BY <1>1, ManagerInit, ManagerStep, PTL DEF Spec

\* The middlewares wrap the handler in the order they are listed, so a Recovery listed
\* after Timeout is on the goroutine of the handler and lets no panic through.
THEOREM InnerRecoveryContains ==
  Spec => []PanicContained
<1>1. ASSUME NEW ms \in Orders PROVE /\ ms \in [1 .. 3 -> Middlewares]
                                     /\ \A i \in 1 .. 3 : Chain(ms)[i] = ms[i]
                                     /\ \A mw \in Middlewares : \E i \in 1 .. 3 : ms[i] = mw
  <2>1. /\ ms \in [1 .. 3 -> Middlewares]
        /\ \A i, j \in 1 .. 3 : ms[i] = ms[j] => i = j
    BY OrdersAssumption
  <2>2. \A i \in 1 .. 3 : Chain(ms)[i] = ms[i]
    BY DEF Chain, Wrap
  <2>3. /\ ms[1] # ms[2] /\ ms[1] # ms[3] /\ ms[2] # ms[3]
        /\ ms[1] \in Middlewares /\ ms[2] \in Middlewares /\ ms[3] \in Middlewares
    BY <2>1
  <2>4. \A mw \in Middlewares : mw = ms[1] \/ mw = ms[2] \/ mw = ms[3]
    BY <2>3 DEF Middlewares
  <2> QED
    BY <2>1, <2>2, <2>4
<1>2. CrashedBy => PanicContained
  <2> SUFFICES ASSUME CrashedBy, crashed, NEW i \in 1 .. 3, NEW j \in 1 .. 3,
                      i < j, listed[i] = "timeout", listed[j] = "recovery"
               PROVE  FALSE
    BY DEF PanicContained
  <2>1. \A mw \in Middlewares : Pos(mw) \in 1 .. 3 /\ order[Pos(mw)] = mw
    BY <1>1 DEF CrashedBy, Pos
  <2>2. Pos("timeout") > Pos("recovery")
    BY DEF CrashedBy, Inside
  <2>3. listed[Pos("recovery")] = "recovery" /\ listed[Pos("timeout")] = "timeout"
    BY <1>1, <2>1 DEF CrashedBy, Middlewares
  <2>4. i = Pos("timeout") /\ j = Pos("recovery")
    BY OrdersAssumption, <2>1, <2>3 DEF CrashedBy, Middlewares
  <2> QED
    BY <2>1, <2>2, <2>4 DEF Middlewares
<1>3. Init => CrashedBy
  BY DEF Init, CrashedBy
<1>4. CrashedBy /\ [Next]_vars => CrashedBy'
  <2> SUFFICES ASSUME CrashedBy, [Next]_vars PROVE CrashedBy'
    OBVIOUS
  <2>1. UNCHANGED <<listed, order>>
    BY DEF Next, vars, chain, Invoke, Start, Step, AskLock, GetBus, Subscribe, CloseBus, Close, CloseNext,
       GetStats, StatsNext, Publish, Published, StartWorker, Timeout, NestedPublish, HandlerReturns
  <2>2. crashed' => crashed \/ Inside("timeout", "recovery")
    BY DEF Next, vars, Invoke, Start, Step, AskLock, GetBus, Subscribe, CloseBus, Close, CloseNext,
       GetStats, StatsNext, Publish, Published, StartWorker, Timeout, NestedPublish, HandlerReturns, WorkerEnds
  <2> QED
    BY <2>1, <2>2 DEF CrashedBy, Inside, Pos
<1> QED
  BY <1>2, <1>3, <1>4, PTL DEF Spec
==============================================================================
