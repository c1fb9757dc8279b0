---------------------------- MODULE EventBusProofs ----------------------------
(***************************************************************************)
(* What the runs of MCEventBus show on small instances, proved for every   *)
(* number of calls, event types and handlers, with or without handlers     *)
(* that publish on the bus themselves.                                     *)
(***************************************************************************)
EXTENDS EventBus, TLAPS

----------------------------------------------------------------------------
(* Sequences *)

\* Taking one element off a sequence leaves a sequence of the same elements.
LEMMA RemoveAtType ==
  ASSUME NEW S, NEW s \in Seq(S), NEW i \in 1..Len(s)
  PROVE  /\ RemoveAt(s, i) \in Seq(S)
         /\ \A j \in DOMAIN RemoveAt(s, i) : \E k \in DOMAIN s : RemoveAt(s, i)[j] = s[k]
<1> DEFINE l == SubSeq(s, 1, i - 1)
           r == SubSeq(s, i + 1, Len(s))
<1>1. /\ l \in Seq(S) /\ Len(l) = i - 1
      /\ \A j \in 1..(i - 1) : l[j] = s[j]
  OBVIOUS
<1>2. /\ r \in Seq(S) /\ Len(r) = Len(s) - i
      /\ \A j \in 1..(Len(s) - i) : r[j] = s[i + j]
  OBVIOUS
<1> HIDE DEF l, r
<1>3. RemoveAt(s, i) = l \o r
  BY DEF RemoveAt, l, r
<1>4. RemoveAt(s, i) \in Seq(S) /\ Len(RemoveAt(s, i)) = Len(s) - 1
  BY <1>1, <1>2, <1>3
<1>5. ASSUME NEW j \in DOMAIN RemoveAt(s, i)
      PROVE  \E k \in DOMAIN s : RemoveAt(s, i)[j] = s[k]
  <2>1. j \in 1..(Len(s) - 1)
    BY <1>4
  <2>2. CASE j < i
    <3>1. RemoveAt(s, i)[j] = s[j] /\ j \in DOMAIN s
      BY <1>1, <1>2, <1>3, <2>1, <2>2
    <3> QED  BY <3>1
  <2>3. CASE j >= i
    <3>1. RemoveAt(s, i)[j] = r[j - (i - 1)]
      BY <1>1, <1>2, <1>3, <2>1, <2>3
    <3>2. r[j - (i - 1)] = s[j + 1] /\ j + 1 \in DOMAIN s
      BY <1>2, <2>1, <2>3
    <3> QED  BY <3>1, <3>2
  <2> QED  BY <2>1, <2>2, <2>3
<1> QED  BY <1>4, <1>5

\* An element of a concatenation is an element of one of its parts.
LEMMA ConcatElement ==
  ASSUME NEW S, NEW a \in Seq(S), NEW b \in Seq(S), NEW n \in Nat \ {0}, n <= Len(a \o b)
  PROVE  \/ \E i \in DOMAIN a : (a \o b)[n] = a[i]
         \/ \E i \in DOMAIN b : (a \o b)[n] = b[i]
<1>1. Len(a \o b) = Len(a) + Len(b)
  OBVIOUS
<1>2. CASE n <= Len(a)
  <2>1. (a \o b)[n] = a[n] /\ n \in DOMAIN a
    BY <1>2
  <2> QED  BY <2>1
<1>3. CASE n > Len(a)
  <2>1. (a \o b)[n] = b[n - Len(a)] /\ n - Len(a) \in DOMAIN b
    BY <1>1, <1>3
  <2> QED  BY <2>1
<1> QED  BY <1>2, <1>3

----------------------------------------------------------------------------
(* Type correctness *)

\* The argument of a call that has not been made yet is an argument.
LEMMA NoArgType == NoArg \in Arg
<1>1. AnyType \in Types /\ AnyHandler \in Handlers
  BY SomeAssumption DEF AnyType, AnyHandler
<1> QED  BY <1>1 DEF NoArg, Arg

\* What the lock's operators return.
LEMMA LockTypes ==
  ASSUME TypeOK, NEW c \in Calls
  PROVE  LET L == [readers : SUBSET Calls, writer : Calls \cup {None},
                   parked : SUBSET Calls]
         IN /\ M!Unlocked \in L
            /\ M!RLock(mu, c) \in L
            /\ M!RUnlock(mu, c) \in L
            /\ M!Lock(mu, c) \in L
            /\ M!Unlock(mu) \in L
BY DEF TypeOK, M!Unlocked, M!RLock, M!RUnlock, M!Lock, M!Unlock

\* A call that returns gets one of the known results.
LEMMA ReturnTypes ==
  ASSUME TypeOK, NEW c \in Calls, NEW r \in Returns, Return(c, r)
  PROVE  pc' \in [Calls -> PCs] /\ ret' \in [Calls -> Returns]
BY DEF TypeOK, Return, PCs

\* A critical section under the write lock leaves a lock behind.
LEMMA ExclusiveTypes ==
  ASSUME TypeOK, NEW c \in Calls, Exclusive(c)
  PROVE  mu' \in [readers : SUBSET Calls, writer : Calls \cup {None}, parked : SUBSET Calls]
BY LockTypes DEF Exclusive

\* The handler a Publish is about to call is a subscription.
LEMMA CurrentType ==
  ASSUME TypeOK, NEW c \in Calls, idx[c] <= Len(Plan(c))
  PROVE  Current(c) \in Subscription
<1>1. /\ snap[c].reg \in Seq(Subscription) /\ snap[c].once \in Seq(Subscription)
      /\ idx[c] \in Nat \ {0}
  BY DEF TypeOK
<1>2. Plan(c) \in Seq(Subscription)
  BY <1>1 DEF Plan
<1> QED
  BY <1>1, <1>2 DEF Current

\* The state of the bus is well typed in every reachable state.
THEOREM TypeCorrect == Spec => []TypeOK
<1>1. Init => TypeOK
  <2> SUFFICES ASSUME Init PROVE TypeOK
    OBVIOUS
  <2>1. NoSubs \in [Types -> Seq(Subscription)]
    BY DEF NoSubs
  <2>2. mu \in [readers : SUBSET Calls, writer : Calls \cup {None}, parked : SUBSET Calls]
    BY DEF Init, M!Unlocked
  <2>3. snap \in [Calls -> [reg : Seq(Subscription), once : Seq(Subscription)]]
    BY DEF Init
  <2>4. arg \in [Calls -> Arg]
    BY NoArgType DEF Init
  <2>5. pc \in [Calls -> PCs] /\ ret \in [Calls -> Returns] /\ idx \in [Calls -> Nat \ {0}]
    BY DEF Init, PCs, Returns
  <2>6. handlers \in [Types -> Seq(Subscription)] /\ onceHandlers \in [Types -> Seq(Subscription)]
    BY <2>1 DEF Init
  <2> QED
    BY <2>2, <2>3, <2>4, <2>5, <2>6 DEF Init, TypeOK
<1>2. TypeOK /\ [Next]_vars => TypeOK'
  <2> SUFFICES ASSUME TypeOK, [Next]_vars PROVE TypeOK'
    OBVIOUS
  <2>0. AnyType \in Types /\ AnyHandler \in Handlers
    BY SomeAssumption DEF AnyType, AnyHandler
  <2>1. ASSUME NEW t \in Types PROVE OnBus(t) \in SUBSET Calls
    <3>1. handlers[t] \in Seq(Subscription) /\ onceHandlers[t] \in Seq(Subscription)
      BY DEF TypeOK
    <3>2. ASSUME NEW s \in Seq(Subscription) PROVE SubsIn(s) \in SUBSET Calls
      <4>1. ASSUME NEW i \in DOMAIN s PROVE s[i].sub \in Calls
        <5>1. s[i] \in Subscription
          OBVIOUS
        <5> QED  BY <5>1 DEF Subscription
      <4> QED  BY <4>1 DEF SubsIn
    <3> QED  BY <3>1, <3>2 DEF OnBus
  <2>2. ASSUME NEW c \in Calls, NEW op \in AllMethods, NEW t \in Types, NEW h \in Handlers,
               NEW p \in Calls \cup {None}, Invoke(c, op, t, h, p)
        PROVE  TypeOK'
    <3>1. arg' \in [Calls -> Arg] /\ pc' \in [Calls -> PCs] /\ known' \in [Calls -> SUBSET Calls]
      BY <2>1, <2>2 DEF Invoke, TypeOK, Arg, PCs
    <3> QED
      BY <2>2, <3>1 DEF Invoke, TypeOK, bus
  <2>3. ASSUME NEW c \in Calls, ClientCall(c) PROVE TypeOK'
    BY <2>0, <2>2, <2>3 DEF ClientCall, AllMethods
  <2>4. ASSUME NEW c \in Calls, NEW d \in Calls, NestedPublish(c, d) PROVE TypeOK'
    BY <2>0, <2>2, <2>4 DEF NestedPublish, AllMethods
  <2>5. ASSUME NEW c \in Calls, RLockCall(c) PROVE TypeOK'
    BY <2>5, LockTypes DEF RLockCall, TypeOK, bus, hist
  <2>6. ASSUME NEW c \in Calls, LockCall(c) PROVE TypeOK'
    BY <2>6, LockTypes DEF LockCall, TypeOK, bus, hist
  <2>7. ASSUME NEW c \in Calls, Subscribe(c) PROVE TypeOK'
    <3> DEFINE e == [sub |-> c, h |-> arg[c].h, async |-> arg[c].op = "subscribeAsync"]
    <3>1. e \in Subscription /\ arg[c].t \in Types
      BY DEF TypeOK, Arg, Subscription
    <3>2. [handlers EXCEPT ![arg[c].t] = Append(@, e)] \in [Types -> Seq(Subscription)]
      BY <3>1 DEF TypeOK
    <3> QED
      BY <2>7, <3>2, LockTypes DEF Subscribe, Exclusive, Return, TypeOK, hist, PCs, Returns
  <2>8. ASSUME NEW c \in Calls, SubscribeOnce(c) PROVE TypeOK'
    <3> DEFINE e == [sub |-> c, h |-> arg[c].h, async |-> FALSE]
    <3>1. e \in Subscription /\ arg[c].t \in Types
      BY DEF TypeOK, Arg, Subscription
    <3>2. [onceHandlers EXCEPT ![arg[c].t] = Append(@, e)] \in [Types -> Seq(Subscription)]
      BY <3>1 DEF TypeOK
    <3>3. pc' \in [Calls -> PCs] /\ ret' \in [Calls -> Returns]
      BY <2>8, ReturnTypes DEF SubscribeOnce, Returns
    <3>4. inGap' \in SUBSET Calls
      BY <2>8 DEF SubscribeOnce, TypeOK
    <3> QED
      BY <2>8, <3>2, <3>3, <3>4, ExclusiveTypes DEF SubscribeOnce, TypeOK
  <2>9. ASSUME NEW c \in Calls, Unsubscribe(c) PROVE TypeOK'
    <3>1. /\ arg[c].t \in Types /\ handlers[arg[c].t] \in Seq(Subscription)
      BY DEF TypeOK, Arg
    <3>2. ASSUME NEW i \in Matches(arg[c].t, arg[c].h)
          PROVE  /\ RemoveAt(handlers[arg[c].t], i) \in Seq(Subscription)
                 /\ handlers[arg[c].t][i].sub \in Calls
      <4>1. i \in 1..Len(handlers[arg[c].t])
        BY <3>1 DEF Matches
      <4>2. RemoveAt(handlers[arg[c].t], i) \in Seq(Subscription)
        BY <3>1, <4>1, RemoveAtType
      <4>3. handlers[arg[c].t][i] \in Subscription
        BY <3>1, <4>1
      <4> QED  BY <4>2, <4>3 DEF Subscription
    <3>3. handlers' \in [Types -> Seq(Subscription)] /\ removed' \in SUBSET Calls
      <4>1. \/ UNCHANGED <<handlers, removed>>
            \/ \E i \in Matches(arg[c].t, arg[c].h) :
                 /\ handlers' = [handlers EXCEPT ![arg[c].t] = RemoveAt(@, i)]
                 /\ removed' = removed \cup {handlers[arg[c].t][i].sub}
        BY <2>9 DEF Unsubscribe
      <4>2. handlers \in [Types -> Seq(Subscription)] /\ removed \in SUBSET Calls
        BY DEF TypeOK
      <4> QED  BY <3>1, <3>2, <4>1, <4>2
    <3>4. pc' \in [Calls -> PCs] /\ ret' \in [Calls -> Returns]
      BY <2>9, ReturnTypes DEF Unsubscribe, Returns
    <3> QED
      BY <2>9, <3>3, <3>4, ExclusiveTypes DEF Unsubscribe, TypeOK
  <2>10. ASSUME NEW c \in Calls, Close(c) PROVE TypeOK'
    <3>1. NoSubs \in [Types -> Seq(Subscription)]
      BY DEF NoSubs
    <3>2. UNION {OnBus(t) : t \in Types} \in SUBSET Calls
      BY <2>1
    <3>3. pc' \in [Calls -> PCs] /\ ret' \in [Calls -> Returns]
      BY <2>10, ReturnTypes DEF Close, Returns
    <3>4. /\ handlers' \in [Types -> Seq(Subscription)]
          /\ onceHandlers' \in [Types -> Seq(Subscription)]
          /\ removed' \in SUBSET Calls /\ closed' \in BOOLEAN
      BY <2>10, <3>1, <3>2 DEF Close, TypeOK, bus
    <3> QED
      BY <2>10, <3>3, <3>4, ExclusiveTypes DEF Close, TypeOK
  <2>11. ASSUME NEW c \in Calls, Query(c) PROVE TypeOK'
    BY <2>11, LockTypes DEF Query, Return, TypeOK, bus, hist, PCs, Returns
  <2>12. ASSUME NEW c \in Calls, PublishBegin(c) PROVE TypeOK'
    <3>1. arg[c].t \in Types
      BY DEF TypeOK, Arg
    <3>2. [reg |-> handlers[arg[c].t], once |-> onceHandlers[arg[c].t]]
            \in [reg : Seq(Subscription), once : Seq(Subscription)]
      BY <3>1 DEF TypeOK
    <3>3. pc' \in [Calls -> PCs] /\ ret' \in [Calls -> Returns]
      BY <2>12 DEF PublishBegin, Return, TypeOK, PCs, Returns
    <3>4. snap' \in [Calls -> [reg : Seq(Subscription), once : Seq(Subscription)]]
      BY <2>12, <3>2 DEF PublishBegin, TypeOK
    <3>5. mu' \in [readers : SUBSET Calls, writer : Calls \cup {None}, parked : SUBSET Calls]
      <4>1. mu' = mu \/ mu' = M!RUnlock(mu, c)
        BY <2>12 DEF PublishBegin
      <4>2. mu \in [readers : SUBSET Calls, writer : Calls \cup {None}, parked : SUBSET Calls]
        BY DEF TypeOK
      <4>3. M!RUnlock(mu, c) \in [readers : SUBSET Calls, writer : Calls \cup {None},
                                  parked : SUBSET Calls]
        BY LockTypes
      <4> QED  BY <4>1, <4>2, <4>3
    <3> QED
      BY <2>12, <3>3, <3>4, <3>5 DEF PublishBegin, TypeOK, bus, hist
  <2>13. ASSUME NEW c \in Calls, HandlerStart(c) PROVE TypeOK'
    <3>1. Current(c).sub \in Calls
      BY <2>13, CurrentType DEF HandlerStart, Subscription
    <3>2. /\ delivered' \in SUBSET (Calls \X Calls)
          /\ spawned' \in SUBSET (Calls \X Calls)
      BY <2>13, <3>1 DEF HandlerStart, TypeOK
    <3>3. pc' \in [Calls -> PCs]
      BY <2>13 DEF HandlerStart, TypeOK, PCs
    <3>4. idx' = idx \/ idx' = [idx EXCEPT ![c] = @ + 1]
      BY <2>13 DEF HandlerStart
    <3>5. idx' \in [Calls -> Nat \ {0}]
      <4>1. idx \in [Calls -> Nat \ {0}]
        BY DEF TypeOK
      <4>2. \A n \in Nat \ {0} : n + 1 \in Nat \ {0}
        OBVIOUS
      <4>3. idx[c] + 1 \in Nat \ {0}
        BY <4>1, <4>2
      <4> QED  BY <3>4, <4>1, <4>3
    <3> QED
      BY <2>13, <3>2, <3>3, <3>5 DEF HandlerStart, TypeOK, bus
  <2>14. ASSUME NEW c \in Calls, HandlerReturn(c) PROVE TypeOK'
    BY <2>14 DEF HandlerReturn, TypeOK, bus, hist, PCs
  <2>15. ASSUME NEW c \in Calls, HandlerPanic(c) PROVE TypeOK'
    BY <2>15, LockTypes DEF HandlerPanic, Return, TypeOK, bus, hist, PCs, Returns
  <2>16. ASSUME NEW c \in Calls, PublishRan(c) PROVE TypeOK'
    BY <2>16, LockTypes DEF PublishRan, Return, TypeOK, bus, hist, PCs, Returns
  <2>17. ASSUME NEW c \in Calls, PublishForget(c) PROVE TypeOK'
    <3>1. arg[c].t \in Types /\ SubsIn(onceHandlers[arg[c].t]) \in SUBSET Calls
      BY <2>1 DEF TypeOK, Arg, OnBus
    <3>2. onceHandlers' \in [Types -> Seq(Subscription)] /\ removed' \in SUBSET Calls
      BY <2>17, <3>1 DEF PublishForget, TypeOK
    <3> QED
      BY <2>17, <3>2, LockTypes DEF PublishForget, Exclusive, TypeOK, PCs
  <2>18. ASSUME NEW c \in Calls, PublishEnd(c) PROVE TypeOK'
    BY <2>18, LockTypes DEF PublishEnd, Return, TypeOK, bus, hist, PCs, Returns
  <2>19. CASE AsyncHandle
    BY <2>19 DEF AsyncHandle, TypeOK, bus, hist
  <2>20. CASE UNCHANGED vars
    BY <2>20 DEF vars, TypeOK, bus, hist
  <2> QED
    BY <2>3, <2>4, <2>5, <2>6, <2>7, <2>8, <2>9, <2>10, <2>11, <2>12, <2>13, <2>14,
       <2>15, <2>16, <2>17, <2>18, <2>19, <2>20 DEF Next, Step, Quiet
<1> QED
  BY <1>1, <1>2, PTL DEF Spec

----------------------------------------------------------------------------
(* Handlers run against an unchanging bus *)

\* A Publish between its RLock and its RUnlock is one of the lock's readers.
Holding == \A c \in Calls : pc[c] \in {"run", "busy"} => c \in mu.readers

\* The strengthening of SnapshotStable that every step preserves.  A writer acts
\* only on a lock without readers, so by Holding on no Publish's snapshot.
SnapshotInv == TypeOK /\ Holding /\ SnapshotStable

\* A step that leaves the bus, the arguments and the snapshots alone, takes no
\* call but c out of the readers and brings none but c into its loop.
LEMMA QuietStep ==
  ASSUME SnapshotInv, NEW c \in Calls,
         UNCHANGED <<bus, arg, snap>>,
         mu.readers \ {c} \subseteq mu'.readers,
         \A d \in Calls \ {c} : pc'[d] = pc[d],
         pc'[c] \in {"run", "busy"} =>
           pc[c] \in {"run", "busy"} /\ c \in mu'.readers
  PROVE  Holding' /\ SnapshotStable'
BY DEF SnapshotInv, Holding, SnapshotStable, bus

\* A critical section: no Publish is in its loop, and none enters it.
LEMMA WriterStep ==
  ASSUME SnapshotInv, NEW c \in Calls, Exclusive(c),
         \A d \in Calls \ {c} : pc'[d] = pc[d],
         pc'[c] \notin {"run", "busy"}
  PROVE  Holding' /\ SnapshotStable'
<1>1. \A d \in Calls : pc[d] \notin {"run", "busy"}
  BY DEF SnapshotInv, Holding, Exclusive, M!Locked
<1>2. \A d \in Calls : pc'[d] \notin {"run", "busy"}
  BY <1>1
<1> QED
  BY <1>2 DEF Holding, SnapshotStable

\* Every step keeps the read locks held and the snapshots equal to the bus.
LEMMA SnapshotStep == SnapshotInv /\ TypeOK' /\ [Next]_vars => Holding' /\ SnapshotStable'
<1> SUFFICES ASSUME SnapshotInv, TypeOK', [Next]_vars PROVE Holding' /\ SnapshotStable'
  OBVIOUS
<1>0. TypeOK
  BY DEF SnapshotInv
<1>1. pc \in [Calls -> PCs]
  BY <1>0 DEF TypeOK
<1>m. \A c \in Calls : /\ M!RUnlock(mu, c).readers = mu.readers \ {c}
                       /\ mu.readers \subseteq M!RLock(mu, c).readers
                       /\ M!Lock(mu, c).readers = mu.readers
  BY <1>0 DEF TypeOK, M!RUnlock, M!RLock, M!Lock
<1>2. ASSUME NEW c \in Calls, NEW op, NEW t, NEW h, NEW p, Invoke(c, op, t, h, p)
      PROVE  Holding' /\ SnapshotStable'
  <2>1. /\ pc[c] = "idle" /\ pc'[c] \in {"rlock", "lock"}
        /\ \A d \in Calls \ {c} : pc'[d] = pc[d] /\ arg'[d] = arg[d]
    BY <1>0, <1>1, <1>2 DEF Invoke, TypeOK
  <2> QED
    BY <1>2, <2>1 DEF Invoke, SnapshotInv, Holding, SnapshotStable, bus
<1>3. ASSUME NEW c \in Calls, ClientCall(c) PROVE Holding' /\ SnapshotStable'
  BY <1>2, <1>3 DEF ClientCall
<1>4. ASSUME NEW c \in Calls, NEW d \in Calls, NestedPublish(c, d)
      PROVE  Holding' /\ SnapshotStable'
  BY <1>2, <1>4 DEF NestedPublish
<1>5. ASSUME NEW c \in Calls, RLockCall(c) PROVE Holding' /\ SnapshotStable'
  BY <1>1, <1>m, <1>5, QuietStep DEF RLockCall
<1>6. ASSUME NEW c \in Calls, LockCall(c) PROVE Holding' /\ SnapshotStable'
  BY <1>1, <1>m, <1>6, QuietStep DEF LockCall
<1>7. ASSUME NEW c \in Calls,
             Subscribe(c) \/ SubscribeOnce(c) \/ Unsubscribe(c) \/ Close(c)
      PROVE  Holding' /\ SnapshotStable'
  <2>1. Exclusive(c) /\ pc' = [pc EXCEPT ![c] = "done"]
    BY <1>7 DEF Subscribe, SubscribeOnce, Unsubscribe, Close, Return
  <2> QED
    BY <1>1, <2>1, WriterStep
<1>8. ASSUME NEW c \in Calls, Query(c) \/ HandlerPanic(c) \/ PublishEnd(c)
      PROVE  Holding' /\ SnapshotStable'
  <2>1. /\ pc' = [pc EXCEPT ![c] = "done"] /\ mu' = M!RUnlock(mu, c)
        /\ UNCHANGED <<bus, arg, snap>>
    BY <1>8 DEF Query, HandlerPanic, PublishEnd, Return
  <2> QED
    BY <1>1, <1>m, <2>1, QuietStep
<1>9. ASSUME NEW c \in Calls, PublishBegin(c) PROVE Holding' /\ SnapshotStable'
  <2>1. CASE closed \/ OnBus(arg[c].t) = {}
    BY <1>1, <1>m, <1>9, <2>1, QuietStep DEF PublishBegin, Return
  <2>2. CASE ~(closed \/ OnBus(arg[c].t) = {})
    <3>1. /\ c \in mu.readers /\ ~closed
          /\ pc' = [pc EXCEPT ![c] = "run"]
          /\ snap' = [snap EXCEPT ![c] = [reg |-> handlers[arg[c].t],
                                          once |-> onceHandlers[arg[c].t]]]
          /\ UNCHANGED <<bus, arg, mu>>
      BY <1>9, <2>2 DEF PublishBegin, Shared
    <3>2. \A d \in Calls \ {c} : pc'[d] = pc[d] /\ snap'[d] = snap[d]
      BY <1>0, <1>1, <3>1 DEF TypeOK
    <3>3. snap'[c] = [reg |-> handlers[arg[c].t], once |-> onceHandlers[arg[c].t]]
      BY <1>0, <3>1 DEF TypeOK
    <3> QED
      BY <3>1, <3>2, <3>3 DEF SnapshotInv, Holding, SnapshotStable, bus
  <2> QED  BY <2>1, <2>2
<1>10. ASSUME NEW c \in Calls, HandlerStart(c) \/ HandlerReturn(c)
       PROVE  Holding' /\ SnapshotStable'
  <2>1. /\ pc[c] \in {"run", "busy"} /\ UNCHANGED <<bus, arg, snap, mu>>
        /\ \A d \in Calls \ {c} : pc'[d] = pc[d]
    BY <1>1, <1>10 DEF HandlerStart, HandlerReturn
  <2>2. c \in mu.readers
    BY <2>1 DEF SnapshotInv, Holding
  <2> QED
    BY <2>1, <2>2, QuietStep
<1>11. ASSUME NEW c \in Calls, PublishRan(c) PROVE Holding' /\ SnapshotStable'
  <2>1. /\ pc' = [pc EXCEPT ![c] = "done"] \/ pc' = [pc EXCEPT ![c] = "lock"]
        /\ mu' = M!RUnlock(mu, c) /\ UNCHANGED <<bus, arg, snap>>
    BY <1>11 DEF PublishRan, Return
  <2> QED
    BY <1>1, <1>m, <2>1, QuietStep
<1>12. ASSUME NEW c \in Calls, PublishForget(c) PROVE Holding' /\ SnapshotStable'
  BY <1>1, <1>12, WriterStep DEF PublishForget
<1>13. CASE AsyncHandle \/ UNCHANGED vars
  BY <1>13 DEF AsyncHandle, vars, SnapshotInv, Holding, SnapshotStable, bus, hist
<1> QED
  BY <1>3, <1>4, <1>5, <1>6, <1>7, <1>8, <1>9, <1>10, <1>11, <1>12, <1>13
     DEF Next, Step, Quiet

\* The inductive invariant behind SnapshotStable holds in every reachable state.
LEMMA SnapshotHolds == Spec => []SnapshotInv
<1>1. Init => Holding /\ SnapshotStable
  BY DEF Init, Holding, SnapshotStable
<1>2. SnapshotInv /\ TypeOK' /\ [Next]_vars => SnapshotInv'
  BY SnapshotStep DEF SnapshotInv
<1> QED
  BY <1>1, <1>2, TypeCorrect, PTL DEF Spec, SnapshotInv

\* For any number of concurrent calls, and even when handlers publish on the bus
\* they run on: no handler is called on a closed bus or after its Unsubscribe
\* was answered, and no writer touches a list that a Publish ranges over.
THEOREM SnapshotSafe == Spec => []SnapshotStable
BY SnapshotHolds, PTL DEF SnapshotInv

----------------------------------------------------------------------------
(* Once handlers are retired by the Publish that called them *)

\* A subscription on the bus was made by a call that has returned, for the type
\* it is listed under.
Registered == \A t \in Types : \A s \in OnBus(t) : s \in Calls /\ pc[s] = "done" /\ arg[s].t = t

\* A handler was called by a Publish that has begun, for a subscription that had
\* been made, of the same event type.
DeliveredToRegistered ==
  \A c, s \in Calls : <<c, s>> \in delivered =>
    /\ IsPublish(c) /\ pc[c] \in {"run", "busy", "lock", "relock", "done"}
    /\ pc[s] = "done" /\ arg[s].t = arg[c].t

OnceInv == SnapshotInv /\ Registered /\ DeliveredToRegistered /\ OnceRetired

\* Nothing joins the bus, nothing is called, and every call that goes forward
\* other than c stands still.
LEMMA InertStep ==
  ASSUME OnceInv, NEW c \in Calls,
         \A t \in Types : /\ SubsIn(handlers'[t]) \subseteq SubsIn(handlers[t])
                          /\ SubsIn(onceHandlers'[t]) \subseteq SubsIn(onceHandlers[t]),
         UNCHANGED <<arg, delivered>>,
         \A d \in Calls \ {c} : pc'[d] = pc[d] /\ ret'[d] = ret[d],
         pc[c] # "done",
         pc[c] \in {"run", "busy", "lock", "relock"} =>
           pc'[c] \in {"run", "busy", "lock", "relock", "done"},
         Forgot(c)' => Forgot(c) \/ ~IsPublish(c) \/ pc[c] = "rlock"
                       \/ SubsIn(onceHandlers'[arg[c].t]) = {}
  PROVE  Registered' /\ DeliveredToRegistered' /\ OnceRetired'
<1>1. Registered'
  BY DEF OnceInv, Registered, OnBus
<1>2. DeliveredToRegistered'
  BY DEF OnceInv, DeliveredToRegistered, IsPublish
<1>3. OnceRetired'
  <2> SUFFICES ASSUME NEW d \in Calls, Forgot(d)', NEW t \in Types,
                      NEW s \in SubsIn(onceHandlers'[t])
               PROVE  <<d, s>> \notin delivered
    BY DEF OnceRetired
  <2>1. s \in SubsIn(onceHandlers[t]) /\ s \in Calls /\ arg[s].t = t
    BY DEF OnceInv, Registered, OnBus
  <2>2. CASE d # c
    BY <2>1, <2>2 DEF OnceInv, OnceRetired, Forgot
  <2>3. CASE d = c
    BY <2>1, <2>3 DEF OnceInv, OnceRetired, DeliveredToRegistered
  <2> QED  BY <2>2, <2>3
<1> QED  BY <1>1, <1>2, <1>3

\* Who is on a list after one more subscription, after one less, and on none.
LEMMA SubsInLists ==
  ASSUME NEW s \in Seq(Subscription)
  PROVE  /\ \A e \in Subscription : SubsIn(Append(s, e)) = SubsIn(s) \cup {e.sub}
         /\ \A i \in 1..Len(s) : SubsIn(RemoveAt(s, i)) \subseteq SubsIn(s)
         /\ SubsIn(<<>>) = {}
<1>1. ASSUME NEW e \in Subscription PROVE SubsIn(Append(s, e)) = SubsIn(s) \cup {e.sub}
  <2>1. /\ DOMAIN s = 1..Len(s) /\ DOMAIN Append(s, e) = 1..(Len(s) + 1)
        /\ Append(s, e)[Len(s) + 1] = e
        /\ \A i \in 1..Len(s) : Append(s, e)[i] = s[i]
    OBVIOUS
  <2> QED  BY <2>1 DEF SubsIn
<1>2. ASSUME NEW i \in 1..Len(s) PROVE SubsIn(RemoveAt(s, i)) \subseteq SubsIn(s)
  BY RemoveAtType DEF SubsIn
<1>3. SubsIn(<<>>) = {}
  BY DEF SubsIn
<1> QED  BY <1>1, <1>2, <1>3

\* The handler a running Publish is at belongs to a subscription on the bus.
LEMMA CurrentOnBus ==
  ASSUME SnapshotInv, NEW c \in Calls, pc[c] \in {"run", "busy"}, idx[c] <= Len(Plan(c))
  PROVE  Current(c).sub \in OnBus(arg[c].t)
<1>1. /\ snap[c].reg = handlers[arg[c].t] /\ snap[c].once = onceHandlers[arg[c].t]
      /\ snap[c].reg \in Seq(Subscription) /\ snap[c].once \in Seq(Subscription)
      /\ idx[c] \in Nat \ {0}
  BY DEF SnapshotInv, SnapshotStable, TypeOK
<1>2. \/ \E i \in DOMAIN snap[c].reg : Current(c) = snap[c].reg[i]
      \/ \E i \in DOMAIN snap[c].once : Current(c) = snap[c].once[i]
  <2> DEFINE a == snap[c].reg
             b == snap[c].once
             n == idx[c]
  <2>1. a \in Seq(Subscription) /\ b \in Seq(Subscription) /\ n \in Nat \ {0} /\ n <= Len(a \o b)
    BY <1>1 DEF Plan
  <2>2. Current(c) = (a \o b)[n]
    BY DEF Current, Plan
  <2> HIDE DEF a, b, n
  <2>3. \/ \E i \in DOMAIN a : (a \o b)[n] = a[i]
        \/ \E i \in DOMAIN b : (a \o b)[n] = b[i]
    BY <2>1, ConcatElement
  <2> QED
    BY <2>2, <2>3 DEF a, b
<1> QED
  BY <1>1, <1>2 DEF OnBus, SubsIn

\* Every step keeps what is on the bus registered and what was forgotten off it.
LEMMA OnceStep == OnceInv /\ SnapshotInv' /\ [Next]_vars =>
                    Registered' /\ DeliveredToRegistered' /\ OnceRetired'
<1> SUFFICES ASSUME OnceInv, SnapshotInv', [Next]_vars
             PROVE  Registered' /\ DeliveredToRegistered' /\ OnceRetired'
  OBVIOUS
<1> DEFINE Goal == Registered' /\ DeliveredToRegistered' /\ OnceRetired'
<1>0. /\ TypeOK /\ pc \in [Calls -> PCs] /\ ret \in [Calls -> Returns]
      /\ arg \in [Calls -> Arg] /\ \A c \in Calls : arg[c].t \in Types
      /\ handlers \in [Types -> Seq(Subscription)]
      /\ onceHandlers \in [Types -> Seq(Subscription)]
  BY DEF OnceInv, SnapshotInv, TypeOK, Arg
<1>1. ASSUME NEW c \in Calls, NEW op, NEW t, NEW h, NEW p, Invoke(c, op, t, h, p)
      PROVE  Goal
  <2>1. /\ pc[c] = "idle" /\ pc'[c] \in {"rlock", "lock"}
        /\ \A d \in Calls \ {c} : pc'[d] = pc[d] /\ arg'[d] = arg[d]
        /\ UNCHANGED <<handlers, onceHandlers, ret, delivered>>
    BY <1>0, <1>1 DEF Invoke, bus
  <2>2. Registered'
    BY <2>1 DEF OnceInv, Registered, OnBus
  <2>3. DeliveredToRegistered'
    BY <2>1 DEF OnceInv, DeliveredToRegistered, IsPublish
  <2>4. OnceRetired'
    BY <2>1 DEF OnceInv, OnceRetired, Forgot
  <2> QED  BY <2>2, <2>3, <2>4
<1>2. ASSUME NEW c \in Calls, ClientCall(c) PROVE Goal
  BY <1>1, <1>2 DEF ClientCall
<1>3. ASSUME NEW c \in Calls, NEW d \in Calls, NestedPublish(c, d) PROVE Goal
  BY <1>1, <1>3 DEF NestedPublish
<1>4. ASSUME NEW c \in Calls, RLockCall(c) \/ LockCall(c) PROVE Goal
  <2>1. /\ pc[c] \in {"rlock", "relock", "lock"}
        /\ UNCHANGED <<handlers, onceHandlers, pc, arg, ret, delivered>>
    BY <1>4 DEF RLockCall, LockCall, bus, hist
  <2>2. Forgot(c)' => Forgot(c)
    BY <2>1 DEF Forgot
  <2> QED  BY <2>1, <2>2, InertStep
<1>5. ASSUME NEW c \in Calls, Subscribe(c) \/ SubscribeOnce(c) PROVE Goal
  <2> DEFINE t == arg[c].t
  <2>1. /\ pc[c] = "lock" /\ ~IsPublish(c)
        /\ pc' = [pc EXCEPT ![c] = "done"] /\ UNCHANGED <<arg, delivered>>
        /\ \A d \in Calls \ {c} : ret'[d] = ret[d]
    BY <1>0, <1>5 DEF Subscribe, SubscribeOnce, Exclusive, Return, hist, IsPublish, IsSubscribe
  <2>2. \A u \in Types : /\ SubsIn(handlers'[u]) \subseteq SubsIn(handlers[u])
                                            \cup (IF u = t THEN {c} ELSE {})
                         /\ SubsIn(onceHandlers'[u]) \subseteq SubsIn(onceHandlers[u])
                                            \cup (IF u = t THEN {c} ELSE {})
    <3>1. ASSUME NEW b \in BOOLEAN
          PROVE  [sub |-> c, h |-> arg[c].h, async |-> b] \in Subscription
      BY <1>0 DEF Arg, Subscription
    <3>2. CASE Subscribe(c)
      <4> DEFINE e == [sub |-> c, h |-> arg[c].h, async |-> arg[c].op = "subscribeAsync"]
      <4>1. /\ UNCHANGED onceHandlers
            /\ \/ UNCHANGED handlers
               \/ handlers' = [handlers EXCEPT ![t] = Append(@, e)]
        BY <3>2 DEF Subscribe
      <4>2. SubsIn(Append(handlers[t], e)) = SubsIn(handlers[t]) \cup {c}
        <5>1. handlers[t] \in Seq(Subscription) /\ e \in Subscription /\ e.sub = c
          BY <1>0, <3>1
        <5> HIDE DEF t, e
        <5> QED  BY <5>1, SubsInLists
      <4> QED  BY <1>0, <4>1, <4>2
    <3>3. CASE SubscribeOnce(c)
      <4> DEFINE e == [sub |-> c, h |-> arg[c].h, async |-> FALSE]
      <4>1. /\ UNCHANGED handlers
            /\ \/ UNCHANGED onceHandlers
               \/ onceHandlers' = [onceHandlers EXCEPT ![t] = Append(@, e)]
        BY <3>3 DEF SubscribeOnce
      <4>2. SubsIn(Append(onceHandlers[t], e)) = SubsIn(onceHandlers[t]) \cup {c}
        <5>1. onceHandlers[t] \in Seq(Subscription) /\ e \in Subscription /\ e.sub = c
          BY <1>0, <3>1
        <5> HIDE DEF t, e
        <5> QED  BY <5>1, SubsInLists
      <4> QED  BY <1>0, <4>1, <4>2
    <3> QED  BY <1>5, <3>2, <3>3
  <2>3. Registered'
    BY <1>0, <2>1, <2>2 DEF OnceInv, Registered, OnBus
  <2>4. DeliveredToRegistered'
    BY <1>0, <2>1 DEF OnceInv, DeliveredToRegistered, IsPublish
  <2>5. OnceRetired'
    <3> SUFFICES ASSUME NEW d \in Calls, Forgot(d)', NEW u \in Types,
                        NEW s \in SubsIn(onceHandlers'[u])
                 PROVE  <<d, s>> \notin delivered
      BY <2>1 DEF OnceRetired
    <3>1. CASE s = c \/ d = c
      <4>1. s \in Calls
        BY <2>2, <3>1 DEF OnceInv, Registered, OnBus
      <4> QED  BY <2>1, <3>1, <4>1 DEF OnceInv, DeliveredToRegistered
    <3>2. CASE s # c /\ d # c
      BY <1>0, <2>1, <2>2, <3>2 DEF OnceInv, OnceRetired, Forgot
    <3> QED  BY <3>1, <3>2
  <2> QED  BY <2>3, <2>4, <2>5
<1>6. ASSUME NEW c \in Calls, Unsubscribe(c) \/ Close(c) \/ PublishForget(c) PROVE Goal
  <2> DEFINE t == arg[c].t
  <2>1. /\ pc[c] = "lock" /\ UNCHANGED <<arg, delivered>>
        /\ pc' = [pc EXCEPT ![c] = "done"] \/ pc' = [pc EXCEPT ![c] = "relock"]
        /\ \A d \in Calls \ {c} : ret'[d] = ret[d]
    BY <1>0, <1>6 DEF Unsubscribe, Close, PublishForget, Exclusive, Return
  <2>2. \A u \in Types : /\ SubsIn(handlers'[u]) \subseteq SubsIn(handlers[u])
                         /\ SubsIn(onceHandlers'[u]) \subseteq SubsIn(onceHandlers[u])
    <3>1. SubsIn(<<>>) = {}
      BY DEF SubsIn
    <3>2. CASE Unsubscribe(c)
      <4>1. /\ UNCHANGED onceHandlers
            /\ \/ UNCHANGED handlers
               \/ \E i \in DOMAIN handlers[t] :
                    handlers' = [handlers EXCEPT ![t] = RemoveAt(@, i)]
        BY <3>2 DEF Unsubscribe, Matches
      <4>2. \A i \in DOMAIN handlers[t] : SubsIn(RemoveAt(handlers[t], i)) \subseteq SubsIn(handlers[t])
        <5>1. handlers[t] \in Seq(Subscription) /\ DOMAIN handlers[t] = 1..Len(handlers[t])
          BY <1>0
        <5> HIDE DEF t
        <5> QED  BY <5>1, SubsInLists
      <4> QED  BY <1>0, <4>1, <4>2
    <3>3. CASE Close(c)
      BY <1>0, <3>1, <3>3 DEF Close, NoSubs, bus
    <3>4. CASE PublishForget(c)
      BY <1>0, <3>1, <3>4 DEF PublishForget
    <3> QED  BY <1>6, <3>2, <3>3, <3>4
  <2>3. ~IsPublish(c) \/ SubsIn(onceHandlers'[t]) = {}
    BY <1>0, <1>6 DEF Unsubscribe, Close, PublishForget, IsPublish, SubsIn
  <2> QED
    BY <1>0, <2>1, <2>2, <2>3, InertStep
<1>7. ASSUME NEW c \in Calls,
             \/ Query(c) \/ PublishBegin(c) \/ HandlerReturn(c)
             \/ HandlerPanic(c) \/ PublishRan(c) \/ PublishEnd(c)
      PROVE  Goal
  <2>1. /\ UNCHANGED <<handlers, onceHandlers, arg, delivered>>
        /\ \A d \in Calls \ {c} : pc'[d] = pc[d] /\ ret'[d] = ret[d]
    BY <1>0, <1>7 DEF Query, PublishBegin, HandlerReturn, HandlerPanic, PublishRan,
                      PublishEnd, Return, bus, hist
  <2>2. /\ pc[c] \in {"rlock", "run", "busy", "relock"}
        /\ pc'[c] \in {"run", "lock", "done"}
    BY <1>0, <1>7 DEF Query, PublishBegin, HandlerReturn, HandlerPanic, PublishRan,
                      PublishEnd, Return, Shared
  <2>3. Forgot(c)' => Forgot(c) \/ pc[c] = "rlock" \/ SubsIn(onceHandlers'[arg[c].t]) = {}
    <3>1. CASE Query(c) \/ PublishBegin(c)
      BY <3>1 DEF Query, PublishBegin, Shared
    <3>2. CASE HandlerReturn(c)
      BY <1>0, <3>2 DEF HandlerReturn, Forgot
    <3>3. CASE HandlerPanic(c)
      BY <1>0, <3>3 DEF HandlerPanic, Forgot, Return
    <3>4. CASE PublishRan(c)
      <4>1. snap[c].once = onceHandlers[arg[c].t]
        BY <3>4 DEF PublishRan, OnceInv, SnapshotInv, SnapshotStable
      <4> QED  BY <1>0, <2>1, <3>4, <4>1 DEF PublishRan, Forgot, Return, SubsIn
    <3>5. CASE PublishEnd(c)
      BY <3>5 DEF PublishEnd, Shared, Forgot
    <3> QED  BY <1>7, <3>1, <3>2, <3>3, <3>4, <3>5
  <2> QED
    BY <2>1, <2>2, <2>3, InertStep
<1>8. ASSUME NEW c \in Calls, HandlerStart(c) PROVE Goal
  <2> DEFINE s == Current(c).sub
  <2>1. /\ IsPublish(c) /\ pc[c] = "run" /\ pc'[c] \in {"run", "busy"}
        /\ \A d \in Calls \ {c} : pc'[d] = pc[d]
        /\ UNCHANGED <<handlers, onceHandlers, arg, ret>>
        /\ delivered' = delivered \cup {<<c, s>>}
    BY <1>0, <1>8 DEF HandlerStart, bus
  <2>2. s \in OnBus(arg[c].t)
    BY <1>8, <2>1, CurrentOnBus DEF OnceInv, HandlerStart
  <2>3. s \in Calls /\ pc[s] = "done" /\ arg[s].t = arg[c].t
    BY <1>0, <2>2 DEF OnceInv, Registered
  <2>4. Registered'
    BY <2>1 DEF OnceInv, Registered, OnBus
  <2>5. DeliveredToRegistered'
    BY <2>1, <2>3 DEF OnceInv, DeliveredToRegistered, IsPublish
  <2>6. OnceRetired'
    BY <2>1 DEF OnceInv, OnceRetired, Forgot
  <2> QED  BY <2>4, <2>5, <2>6
<1>9. CASE AsyncHandle \/ UNCHANGED vars
  <2>1. UNCHANGED <<handlers, onceHandlers, pc, arg, ret, delivered>>
    BY <1>9 DEF AsyncHandle, vars, bus, hist
  <2> QED
    BY <2>1 DEF OnceInv, Registered, DeliveredToRegistered, OnceRetired, OnBus, Forgot, IsPublish
<1> QED
  BY <1>2, <1>3, <1>4, <1>5, <1>6, <1>7, <1>8, <1>9 DEF Next, Step, Quiet

\* The inductive invariant behind OnceRetired holds in every reachable state.
LEMMA OnceHolds == Spec => []OnceInv
<1>1. Init => Registered /\ DeliveredToRegistered /\ OnceRetired
  BY DEF Init, Registered, DeliveredToRegistered, OnceRetired, OnBus, SubsIn, NoSubs
<1>2. OnceInv /\ SnapshotInv' /\ [Next]_vars => OnceInv'
  BY OnceStep DEF OnceInv
<1>3. Spec => []SnapshotInv
  BY SnapshotHolds
<1> QED
  BY <1>1, <1>2, <1>3, PTL DEF Spec, OnceInv

\* For any number of publishers and subscribers: the once handlers a Publish has
\* called are off the bus when it returns nil, so a Publish that begins later
\* cannot call them again.
THEOREM OnceSafe == Spec => []OnceRetired
BY OnceHolds, PTL DEF OnceInv

----------------------------------------------------------------------------
(* Who is called, and who is lost *)

\* The loop of a Publish starts at the first handler.
AtFirst(c) == pc[c] \in {"idle", "rlock"} => idx[c] = 1

\* The handlers before the one a Publish is at have been called, and so has the
\* one it is inside of.
CalledSoFar(c) ==
  IsPublish(c) /\ pc[c] \in {"run", "busy"} =>
    \A n \in 1..Len(Plan(c)) :
      n < idx[c] \/ (n = idx[c] /\ pc[c] = "busy") => <<c, Plan(c)[n].sub>> \in delivered

\* Until its loop has ended, what a Publish knew is on the bus or was taken off;
\* from then on it is called or was taken off.
Waited(c) ==
  IsPublish(c) /\ pc[c] \in {"rlock", "run", "busy"} =>
    known[c] \subseteq OnBus(arg[c].t) \cup removed

Served(c) ==
  IsPublish(c) /\ (pc[c] = "lock" \/ Forgot(c)) =>
    \A s \in known[c] : <<c, s>> \in delivered \/ s \in removed

CalledAt(c) == AtFirst(c) /\ CalledSoFar(c) /\ Waited(c) /\ Served(c)

CalledInv == \A c \in Calls : CalledAt(c)

\* What was taken off the bus had been put on it, and only SubscribeOnce puts
\* subscriptions on the other list.
Gone == \A s \in removed : s \in Calls /\ pc[s] = "done"

RegularKept == \A t \in Types : \A s \in SubsIn(handlers[t]) : arg[s].op # "once"

\* A Publish in the gap has called all the once handlers it is about to delete,
\* but for those that came in the gap.
GapCovered ==
  \A c \in Calls : pc[c] = "lock" /\ IsPublish(c) =>
    \A s \in SubsIn(onceHandlers[arg[c].t]) : <<c, s>> \in delivered \/ s \in inGap

LostInv == Gone /\ RegularKept /\ GapCovered /\ OnceLostOnlyInGap

\* Who is missing from a list after one has been taken off.
LEMMA SubsInRemoved ==
  ASSUME NEW s \in Seq(Subscription), NEW i \in 1..Len(s)
  PROVE  SubsIn(s) \subseteq SubsIn(RemoveAt(s, i)) \cup {s[i].sub}
<1> DEFINE l == SubSeq(s, 1, i - 1)
           r == SubSeq(s, i + 1, Len(s))
<1>1. /\ l \in Seq(Subscription) /\ Len(l) = i - 1
      /\ \A j \in 1..(i - 1) : l[j] = s[j]
  OBVIOUS
<1>2. /\ r \in Seq(Subscription) /\ Len(r) = Len(s) - i
      /\ \A j \in 1..(Len(s) - i) : r[j] = s[i + j]
  OBVIOUS
<1> HIDE DEF l, r
<1>3. RemoveAt(s, i) = l \o r
  BY DEF RemoveAt, l, r
<1>4. DOMAIN (l \o r) = 1..(Len(s) - 1)
  <2>1. Len(l \o r) = Len(s) - 1
    BY <1>1, <1>2
  <2>2. l \o r \in Seq(Subscription)
    BY <1>1, <1>2
  <2> QED  BY <2>1, <2>2
<1>5. ASSUME NEW k \in DOMAIN s, k # i
      PROVE  \E j \in DOMAIN (l \o r) : (l \o r)[j] = s[k]
  <2>1. k \in 1..Len(s)
    OBVIOUS
  <2>2. CASE k < i
    <3>1. (l \o r)[k] = s[k] /\ k \in 1..(Len(s) - 1)
      BY <1>1, <1>2, <2>1, <2>2
    <3> QED  BY <1>4, <3>1
  <2>3. CASE k > i
    <3>1. (l \o r)[k - 1] = r[k - i] /\ k - 1 \in 1..(Len(s) - 1)
      BY <1>1, <1>2, <2>1, <2>3
    <3>2. r[k - i] = s[k]
      BY <1>2, <2>1, <2>3
    <3> QED  BY <1>4, <3>1, <3>2
  <2> QED  BY <1>5, <2>1, <2>2, <2>3
<1> QED
  BY <1>3, <1>5 DEF SubsIn

\* Every element of either part is in a concatenation.
LEMMA ElementConcat ==
  ASSUME NEW a \in Seq(Subscription), NEW b \in Seq(Subscription)
  PROVE  /\ \A i \in DOMAIN a : \E n \in 1..Len(a \o b) : (a \o b)[n] = a[i]
         /\ \A i \in DOMAIN b : \E n \in 1..Len(a \o b) : (a \o b)[n] = b[i]
<1>1. Len(a \o b) = Len(a) + Len(b)
  OBVIOUS
<1>2. ASSUME NEW i \in DOMAIN a PROVE \E n \in 1..Len(a \o b) : (a \o b)[n] = a[i]
  <2>1. (a \o b)[i] = a[i] /\ i \in 1..Len(a \o b)
    BY <1>1
  <2> QED  BY <2>1
<1>3. ASSUME NEW i \in DOMAIN b PROVE \E n \in 1..Len(a \o b) : (a \o b)[n] = b[i]
  <2>1. (a \o b)[Len(a) + i] = b[i] /\ Len(a) + i \in 1..Len(a \o b)
    BY <1>1
  <2> QED  BY <2>1
<1> QED  BY <1>2, <1>3

\* A running Publish has everybody on the bus in its plan.
LEMMA PlanCovers ==
  ASSUME SnapshotInv, NEW c \in Calls, pc[c] \in {"run", "busy"}, NEW s \in OnBus(arg[c].t)
  PROVE  \E n \in 1..Len(Plan(c)) : Plan(c)[n].sub = s
<1> DEFINE a == snap[c].reg
           b == snap[c].once
<1>1. a \in Seq(Subscription) /\ b \in Seq(Subscription) /\ Plan(c) = a \o b
      /\ s \in SubsIn(a) \cup SubsIn(b)
  BY DEF SnapshotInv, SnapshotStable, TypeOK, Plan, OnBus
<1> HIDE DEF a, b
<1>2. \E i \in DOMAIN a \cup DOMAIN b : \/ i \in DOMAIN a /\ s = a[i].sub
                                        \/ i \in DOMAIN b /\ s = b[i].sub
  BY <1>1 DEF SubsIn
<1>3. \E n \in 1..Len(a \o b) : (a \o b)[n].sub = s
  <2>1. /\ \A i \in DOMAIN a : \E n \in 1..Len(a \o b) : (a \o b)[n] = a[i]
        /\ \A i \in DOMAIN b : \E n \in 1..Len(a \o b) : (a \o b)[n] = b[i]
    BY <1>1, ElementConcat
  <2> QED  BY <1>2, <2>1
<1> QED
  BY <1>1, <1>3

\* A call that does not move is not disturbed by one that does: what leaves the
\* bus is taken off it, and nothing called or taken off is forgotten.
LEMMA OthersServed ==
  ASSUME CalledInv, NEW c \in Calls,
         \A d \in Calls \ {c} : /\ pc'[d] = pc[d] /\ ret'[d] = ret[d] /\ arg'[d] = arg[d]
                                /\ snap'[d] = snap[d] /\ idx'[d] = idx[d] /\ known'[d] = known[d],
         \A d \in Calls : arg[d].t \in Types,
         delivered \subseteq delivered', removed \subseteq removed',
         \A t \in Types : OnBus(t) \subseteq OnBus(t)' \cup removed',
         CalledAt(c)'
  PROVE  CalledInv'
<1> SUFFICES ASSUME NEW d \in Calls \ {c} PROVE CalledAt(d)'
  BY DEF CalledInv
<1>1. CalledAt(d)
  BY DEF CalledInv
<1>2. AtFirst(d)'
  BY <1>1 DEF CalledAt, AtFirst
<1>3. CalledSoFar(d)'
  BY <1>1 DEF CalledAt, CalledSoFar, IsPublish, Plan
<1>4. Waited(d)'
  <2> DEFINE t == arg[d].t
  <2>1. t \in Types /\ arg'[d].t = t
    OBVIOUS
  <2>2. OnBus(t) \subseteq SubsIn(handlers'[t]) \cup SubsIn(onceHandlers'[t]) \cup removed'
    BY <2>1 DEF OnBus
  <2>3. IsPublish(d) /\ pc[d] \in {"rlock", "run", "busy"} => known[d] \subseteq OnBus(t) \cup removed
    BY <1>1 DEF CalledAt, Waited
  <2> HIDE DEF t
  <2> QED  BY <2>1, <2>2, <2>3 DEF Waited, OnBus, IsPublish
<1>5. Served(d)'
  BY <1>1 DEF CalledAt, Served, IsPublish, Forgot
<1> QED  BY <1>2, <1>3, <1>4, <1>5 DEF CalledAt

\* What leaves the bus is taken off it: no step loses a subscription otherwise.
NobodyForgotten ==
  /\ delivered \subseteq delivered' /\ removed \subseteq removed'
  /\ \A t \in Types : OnBus(t) \subseteq OnBus(t)' \cup removed'

LEMMA NothingForgotten == TypeOK /\ [Next]_vars => NobodyForgotten
<1> SUFFICES ASSUME TypeOK, [Next]_vars PROVE NobodyForgotten
  OBVIOUS
<1>0. /\ \A c \in Calls : arg[c].t \in Types /\ arg[c].h \in Handlers
      /\ handlers \in [Types -> Seq(Subscription)]
      /\ onceHandlers \in [Types -> Seq(Subscription)]
  BY DEF TypeOK, Arg
<1>1. ASSUME UNCHANGED <<handlers, onceHandlers, removed>>, delivered \subseteq delivered'
      PROVE  NobodyForgotten
  BY <1>1 DEF NobodyForgotten, OnBus
<1>2. ASSUME NEW c \in Calls, Subscribe(c) \/ SubscribeOnce(c) PROVE NobodyForgotten
  <2> DEFINE t == arg[c].t
  <2>1. UNCHANGED <<delivered, removed>>
    BY <1>2 DEF Subscribe, SubscribeOnce, hist
  <2>2. \E e \in Subscription :
          \/ UNCHANGED <<handlers, onceHandlers>>
          \/ handlers' = [handlers EXCEPT ![t] = Append(@, e)] /\ UNCHANGED onceHandlers
          \/ onceHandlers' = [onceHandlers EXCEPT ![t] = Append(@, e)] /\ UNCHANGED handlers
    <3>1. \A b \in BOOLEAN : [sub |-> c, h |-> arg[c].h, async |-> b] \in Subscription
      BY <1>0 DEF Subscription
    <3> QED  BY <1>2, <3>1 DEF Subscribe, SubscribeOnce
  <2>3. \A s \in Seq(Subscription), e \in Subscription : SubsIn(s) \subseteq SubsIn(Append(s, e))
    BY SubsInLists
  <2>4. \A u \in Types : /\ SubsIn(handlers[u]) \subseteq SubsIn(handlers'[u])
                         /\ SubsIn(onceHandlers[u]) \subseteq SubsIn(onceHandlers'[u])
    <3> HIDE DEF t
    <3> QED  BY <1>0, <2>2, <2>3
  <2> QED  BY <2>1, <2>4 DEF NobodyForgotten, OnBus
<1>3. ASSUME NEW c \in Calls, Unsubscribe(c) PROVE NobodyForgotten
  <2> DEFINE t == arg[c].t
  <2>1. UNCHANGED <<delivered, onceHandlers>>
    BY <1>3 DEF Unsubscribe
  <2>2. CASE UNCHANGED <<handlers, removed>>
    BY <1>1, <2>1, <2>2
  <2>3. ASSUME NEW i \in DOMAIN handlers[t],
               handlers' = [handlers EXCEPT ![t] = RemoveAt(@, i)],
               removed' = removed \cup {handlers[t][i].sub}
        PROVE  NobodyForgotten
    <3>1. t \in Types /\ handlers[t] \in Seq(Subscription) /\ i \in 1..Len(handlers[t])
      BY <1>0
    <3> HIDE DEF t
    <3>2. SubsIn(handlers[t]) \subseteq SubsIn(RemoveAt(handlers[t], i)) \cup {handlers[t][i].sub}
      BY <3>1, SubsInRemoved
    <3>3. \A u \in Types : SubsIn(handlers[u]) \subseteq SubsIn(handlers'[u]) \cup removed'
      BY <1>0, <2>3, <3>1, <3>2
    <3> QED  BY <2>1, <2>3, <3>3 DEF NobodyForgotten, OnBus
  <2>4. \/ UNCHANGED <<handlers, removed>>
        \/ \E i \in DOMAIN handlers[t] :
             /\ handlers' = [handlers EXCEPT ![t] = RemoveAt(@, i)]
             /\ removed' = removed \cup {handlers[t][i].sub}
    BY <1>3 DEF Unsubscribe, Matches
  <2> QED  BY <2>2, <2>3, <2>4
<1>4. ASSUME NEW c \in Calls, Close(c) PROVE NobodyForgotten
  <2>1. CASE closed
    BY <1>1, <1>4, <2>1 DEF Close, bus
  <2>2. CASE ~closed
    <3>1. removed' = removed \cup UNION {OnBus(t) : t \in Types} /\ UNCHANGED delivered
      BY <1>4, <2>2 DEF Close
    <3> QED  BY <3>1 DEF NobodyForgotten
  <2> QED  BY <2>1, <2>2
<1>5. ASSUME NEW c \in Calls, PublishForget(c) PROVE NobodyForgotten
  BY <1>0, <1>5 DEF PublishForget, NobodyForgotten, OnBus
<1>6. ASSUME NEW c \in Calls, \/ ClientCall(c) \/ \E d \in Calls : NestedPublish(c, d)
      PROVE  NobodyForgotten
  BY <1>1, <1>6 DEF ClientCall, NestedPublish, Invoke, bus
<1>7. ASSUME NEW c \in Calls,
             \/ RLockCall(c) \/ LockCall(c) \/ Query(c) \/ PublishBegin(c) \/ HandlerStart(c)
             \/ HandlerReturn(c) \/ HandlerPanic(c) \/ PublishRan(c) \/ PublishEnd(c)
      PROVE  NobodyForgotten
  BY <1>1, <1>7 DEF RLockCall, LockCall, Query, PublishBegin, HandlerStart, HandlerReturn,
                    HandlerPanic, PublishRan, PublishEnd, bus, hist
<1>8. CASE AsyncHandle \/ UNCHANGED vars
  BY <1>1, <1>8 DEF AsyncHandle, vars, bus, hist
<1> QED
  BY <1>2, <1>3, <1>4, <1>5, <1>6, <1>7, <1>8 DEF Next, Step, Quiet

\* A Publish whose loop has ended has called everybody on the bus.
LEMMA RanAll ==
  ASSUME SnapshotInv, NEW c \in Calls, CalledAt(c), PublishRan(c), NEW s \in OnBus(arg[c].t)
  PROVE  <<c, s>> \in delivered
<1>1. pc[c] = "run" /\ IsPublish(c) /\ idx[c] > Len(Plan(c)) /\ idx[c] \in Nat
  BY DEF PublishRan, SnapshotInv, TypeOK
<1>2. PICK n \in 1..Len(Plan(c)) : Plan(c)[n].sub = s
  BY <1>1, PlanCovers
<1>3. Plan(c) \in Seq(Subscription)
  BY DEF SnapshotInv, TypeOK, Plan
<1>4. Len(Plan(c)) \in Nat
  BY <1>3
<1>5. n < idx[c]
  BY <1>1, <1>4
<1> QED  BY <1>1, <1>2, <1>5 DEF CalledAt, CalledSoFar

\* What a step of one call leaves to the others.
OnlyMoves(c) ==
  \A d \in Calls \ {c} : /\ pc'[d] = pc[d] /\ ret'[d] = ret[d] /\ arg'[d] = arg[d]
                         /\ snap'[d] = snap[d] /\ idx'[d] = idx[d] /\ known'[d] = known[d]

\* Every step of the bus keeps count of whom each Publish has called.
LEMMA CalledStep == SnapshotInv /\ CalledInv /\ [Next]_vars => CalledInv'
<1> SUFFICES ASSUME SnapshotInv, CalledInv, [Next]_vars PROVE CalledInv'
  OBVIOUS
<1>0. /\ TypeOK /\ pc \in [Calls -> PCs] /\ ret \in [Calls -> Returns]
      /\ DOMAIN arg = Calls /\ \A c \in Calls : arg[c].t \in Types
      /\ DOMAIN snap = Calls /\ idx \in [Calls -> Nat \ {0}] /\ DOMAIN known = Calls
  BY DEF SnapshotInv, TypeOK, Arg
<1>f. NobodyForgotten
  BY <1>0, NothingForgotten
<1>g. ASSUME NEW c \in Calls, OnlyMoves(c), CalledAt(c)' PROVE CalledInv'
  BY <1>0, <1>f, <1>g, OthersServed DEF NobodyForgotten, OnlyMoves
<1>h. \A c \in Calls : CalledAt(c)
  BY DEF CalledInv
<1>1. ASSUME NEW c \in Calls, NEW op, NEW t \in Types, NEW h, NEW p, Invoke(c, op, t, h, p)
      PROVE  CalledInv'
  <2>1. /\ pc[c] = "idle" /\ UNCHANGED <<handlers, onceHandlers, snap, idx, ret>>
        /\ pc' = [pc EXCEPT ![c] = IF op \in {"publish", "publishAsync", "query"}
                                   THEN "rlock" ELSE "lock"]
        /\ arg' = [arg EXCEPT ![c] = [op |-> op, t |-> t, h |-> h, parent |-> p]]
        /\ known' = [known EXCEPT ![c] = OnBus(t)]
    BY <1>1 DEF Invoke, bus
  <2>2. OnlyMoves(c)
    BY <1>0, <2>1 DEF OnlyMoves
  <2>3. idx[c] = 1
    BY <1>h, <2>1 DEF CalledAt, AtFirst
  <2>4. /\ pc'[c] \in {"rlock", "lock"} /\ arg'[c].t = t /\ known'[c] = OnBus(t)
        /\ IsPublish(c)' => pc'[c] = "rlock"
    BY <1>0, <2>1 DEF IsPublish
  <2>5. AtFirst(c)' /\ CalledSoFar(c)' /\ Served(c)'
    BY <2>1, <2>3, <2>4 DEF AtFirst, CalledSoFar, Served, Forgot
  <2>6. Waited(c)'
    BY <2>1, <2>4 DEF Waited, OnBus
  <2> QED  BY <1>g, <2>2, <2>5, <2>6 DEF CalledAt
<1>2. ASSUME NEW c \in Calls, ClientCall(c) PROVE CalledInv'
  <2>1. AnyType \in Types
    BY SomeAssumption DEF AnyType
  <2> QED  BY <1>1, <1>2, <2>1 DEF ClientCall
<1>3. ASSUME NEW c \in Calls, NEW d \in Calls, NestedPublish(c, d) PROVE CalledInv'
  BY <1>1, <1>3 DEF NestedPublish
<1>4. ASSUME NEW c \in Calls, RLockCall(c) \/ LockCall(c) PROVE CalledInv'
  <2>1. UNCHANGED <<handlers, onceHandlers, pc, arg, snap, idx, ret, delivered, removed, known>>
    BY <1>4 DEF RLockCall, LockCall, bus, hist
  <2> QED
    BY <2>1 DEF CalledInv, CalledAt, AtFirst, CalledSoFar, Waited, Served, IsPublish, Forgot,
                OnBus, Plan
<1>5. ASSUME NEW c \in Calls,
             Subscribe(c) \/ SubscribeOnce(c) \/ Unsubscribe(c) \/ Close(c) \/ Query(c)
      PROVE  CalledInv'
  <2>1. /\ ~IsPublish(c) /\ pc' = [pc EXCEPT ![c] = "done"]
        /\ \E r : ret' = [ret EXCEPT ![c] = r]
        /\ UNCHANGED <<arg, snap, idx, known>>
    BY <1>5 DEF Subscribe, SubscribeOnce, Unsubscribe, Close, Query, Return, IsPublish,
                IsSubscribe, hist
  <2>2. OnlyMoves(c)
    BY <1>0, <2>1 DEF OnlyMoves
  <2>3. CalledAt(c)'
    BY <1>0, <2>1 DEF CalledAt, AtFirst, CalledSoFar, Waited, Served, IsPublish
  <2> QED  BY <1>g, <2>2, <2>3
<1>6. ASSUME NEW c \in Calls, PublishBegin(c) PROVE CalledInv'
  <2>1. /\ pc[c] = "rlock" /\ IsPublish(c)
        /\ UNCHANGED <<handlers, onceHandlers, arg, idx, removed, known>>
        /\ OnlyMoves(c)
    BY <1>0, <1>6 DEF PublishBegin, Shared, Return, bus, hist, OnlyMoves
  <2>2. idx[c] = 1 /\ known[c] \subseteq OnBus(arg[c].t) \cup removed
    BY <1>h, <2>1 DEF CalledAt, AtFirst, Waited
  <2>3. CASE closed \/ OnBus(arg[c].t) = {}
    <3>1. pc'[c] = "done" /\ (ret'[c] = "ok" => OnBus(arg[c].t) = {})
      BY <1>0, <1>6, <2>3 DEF PublishBegin, Return
    <3>2. Served(c)'
      BY <2>1, <2>2, <3>1 DEF Served, Forgot
    <3> QED  BY <1>g, <2>1, <3>1, <3>2 DEF CalledAt, AtFirst, CalledSoFar, Waited
  <2>4. CASE ~(closed \/ OnBus(arg[c].t) = {})
    <3>1. pc'[c] = "run"
      BY <1>0, <1>6, <2>4 DEF PublishBegin
    <3>2. Waited(c)'
      BY <2>1, <2>2 DEF Waited, OnBus
    <3>3. CalledSoFar(c)'
      BY <2>1, <2>2, <3>1 DEF CalledSoFar
    <3> QED  BY <1>g, <2>1, <3>1, <3>2, <3>3 DEF CalledAt, AtFirst, Served, Forgot
  <2> QED  BY <2>3, <2>4
<1>7. ASSUME NEW c \in Calls, HandlerStart(c) PROVE CalledInv'
  <2>1. /\ pc[c] = "run" /\ IsPublish(c) /\ idx[c] <= Len(Plan(c))
        /\ UNCHANGED <<handlers, onceHandlers, arg, snap, removed, known>>
        /\ <<c, Plan(c)[idx[c]].sub>> \in delivered' /\ delivered \subseteq delivered'
        /\ \/ pc'[c] = "busy" /\ idx' = idx
           \/ pc'[c] = "run" /\ idx'[c] = idx[c] + 1
        /\ OnlyMoves(c)
    BY <1>0, <1>7 DEF HandlerStart, Current, bus, OnlyMoves
  <2>2. CalledSoFar(c)'
    <3> SUFFICES ASSUME NEW n \in 1..Len(Plan(c)),
                        n < idx'[c] \/ (n = idx'[c] /\ pc'[c] = "busy")
                 PROVE  <<c, Plan(c)[n].sub>> \in delivered'
      BY <2>1 DEF CalledSoFar, Plan
    <3>1. n < idx[c] \/ n = idx[c]
      BY <1>0, <2>1
    <3>2. n < idx[c] => <<c, Plan(c)[n].sub>> \in delivered
      BY <1>h, <2>1 DEF CalledAt, CalledSoFar
    <3> QED  BY <2>1, <3>1, <3>2
  <2>3. Waited(c)'
    BY <1>h, <2>1 DEF CalledAt, Waited, OnBus
  <2> QED  BY <1>g, <2>1, <2>2, <2>3 DEF CalledAt, AtFirst, Served, Forgot
<1>8. ASSUME NEW c \in Calls, HandlerReturn(c) PROVE CalledInv'
  <2>1. /\ pc[c] = "busy" /\ pc'[c] = "run" /\ idx'[c] = idx[c] + 1
        /\ UNCHANGED <<handlers, onceHandlers, arg, snap, removed, known, delivered>>
        /\ OnlyMoves(c)
    BY <1>0, <1>8 DEF HandlerReturn, bus, hist, OnlyMoves
  <2>2. CalledSoFar(c)'
    <3> SUFFICES ASSUME IsPublish(c), NEW n \in 1..Len(Plan(c)), n < idx[c] + 1
                 PROVE  <<c, Plan(c)[n].sub>> \in delivered
      BY <2>1 DEF CalledSoFar, Plan, IsPublish
    <3>1. n < idx[c] \/ n = idx[c]
      BY <1>0
    <3> QED  BY <1>h, <2>1, <3>1 DEF CalledAt, CalledSoFar
  <2>3. Waited(c)'
    BY <1>h, <2>1 DEF CalledAt, Waited, OnBus, IsPublish
  <2> QED  BY <1>g, <2>1, <2>2, <2>3 DEF CalledAt, AtFirst, Served, Forgot
<1>9. ASSUME NEW c \in Calls, HandlerPanic(c) PROVE CalledInv'
  <2>1. pc'[c] = "done" /\ ret'[c] = "panic" /\ OnlyMoves(c)
    BY <1>0, <1>9 DEF HandlerPanic, Return, hist, OnlyMoves
  <2> QED  BY <1>g, <2>1 DEF CalledAt, AtFirst, CalledSoFar, Waited, Served, Forgot
<1>10. ASSUME NEW c \in Calls, PublishRan(c) PROVE CalledInv'
  <2>1. /\ pc[c] = "run" /\ IsPublish(c) /\ idx[c] > Len(Plan(c)) /\ pc'[c] \in {"done", "lock"}
        /\ UNCHANGED <<arg, removed, known, delivered>> /\ OnlyMoves(c)
    BY <1>0, <1>10 DEF PublishRan, Return, hist, OnlyMoves
  <2>2. ASSUME NEW s \in known[c] PROVE <<c, s>> \in delivered \/ s \in removed
    <3>1. CASE s \in OnBus(arg[c].t)
      BY <1>h, <1>10, <3>1, RanAll
    <3> QED  BY <1>h, <2>1, <3>1 DEF CalledAt, Waited
  <2>3. Served(c)'
    BY <2>1, <2>2 DEF Served
  <2> QED  BY <1>g, <2>1, <2>3 DEF CalledAt, AtFirst, CalledSoFar, Waited
<1>11. ASSUME NEW c \in Calls, PublishForget(c) \/ PublishEnd(c) PROVE CalledInv'
  <2>1. /\ pc[c] \in {"lock", "relock"} /\ pc'[c] \in {"relock", "done"}
        /\ UNCHANGED <<arg, known, delivered>> /\ OnlyMoves(c)
    BY <1>0, <1>11 DEF PublishForget, PublishEnd, Exclusive, Shared, Return, hist, OnlyMoves
  <2>2. Served(c)'
    BY <1>f, <1>h, <2>1 DEF CalledAt, Served, Forgot, IsPublish, NobodyForgotten
  <2> QED  BY <1>g, <2>1, <2>2 DEF CalledAt, AtFirst, CalledSoFar, Waited
<1>12. CASE AsyncHandle \/ UNCHANGED vars
  <2>1. UNCHANGED <<handlers, onceHandlers, pc, arg, snap, idx, ret, delivered, removed, known>>
    BY <1>12 DEF AsyncHandle, vars, bus, hist
  <2> QED
    BY <2>1 DEF CalledInv, CalledAt, AtFirst, CalledSoFar, Waited, Served, IsPublish, Forgot,
                OnBus, Plan
<1> QED
  BY <1>2, <1>3, <1>4, <1>5, <1>6, <1>7, <1>8, <1>9, <1>10, <1>11, <1>12 DEF Next, Step, Quiet

\* For any number of calls: a Publish that returns nil has called everybody who
\* was on the bus when it was called and has not been taken off it since.
THEOREM NobodyPassedOver == Spec => []VisibleSubscribersCalled
<1>1. Init => CalledInv
  <2> SUFFICES ASSUME Init, NEW c \in Calls PROVE CalledAt(c)
    BY DEF CalledInv
  <2>1. pc[c] = "idle" /\ idx[c] = 1
    BY DEF Init
  <2> QED  BY <2>1 DEF CalledAt, AtFirst, CalledSoFar, Waited, Served, Forgot
<1>2. CalledInv => VisibleSubscribersCalled
  BY DEF CalledInv, CalledAt, Served, Forgot, VisibleSubscribersCalled
<1> QED
  BY <1>1, <1>2, CalledStep, SnapshotHolds, PTL DEF Spec

----------------------------------------------------------------------------
(* Which once handlers are lost *)

\* A step that takes nobody off the bus, brings no Publish into the gap and puts
\* nobody on the bus.
LEMMA NothingLost ==
  ASSUME LostInv, NEW c \in Calls,
         UNCHANGED <<handlers, onceHandlers, arg, removed, inGap>>, closed => closed',
         delivered \subseteq delivered',
         \A d \in Calls \ {c} : pc'[d] = pc[d],
         pc[c] # "done" \/ pc'[c] = "done",
         pc'[c] = "lock" => pc[c] = "lock"
  PROVE  LostInv'
<1>1. Gone' /\ RegularKept'
  BY DEF LostInv, Gone, RegularKept
<1>2. GapCovered'
  BY DEF LostInv, GapCovered, IsPublish
<1>3. OnceLostOnlyInGap'
  BY DEF LostInv, OnceLostOnlyInGap
<1> QED  BY <1>1, <1>2, <1>3 DEF LostInv

\* Every step keeps account of the once handlers that leave the bus.
LEMMA LostStep == OnceInv /\ CalledInv /\ LostInv /\ [Next]_vars => LostInv'
<1> SUFFICES ASSUME OnceInv, CalledInv, LostInv, [Next]_vars PROVE LostInv'
  OBVIOUS
<1>0. /\ TypeOK /\ SnapshotInv /\ Registered
      /\ pc \in [Calls -> PCs] /\ DOMAIN arg = Calls
      /\ \A c \in Calls : arg[c].t \in Types /\ arg[c].h \in Handlers
      /\ handlers \in [Types -> Seq(Subscription)]
      /\ onceHandlers \in [Types -> Seq(Subscription)]
  BY DEF OnceInv, SnapshotInv, TypeOK, Arg
<1>r. \A t \in Types : \A s \in SubsIn(handlers[t]) \cup SubsIn(onceHandlers[t]) :
        s \in Calls /\ pc[s] = "done"
  BY <1>0 DEF Registered, OnBus
<1>1. ASSUME NEW c \in Calls, NEW op, NEW t, NEW h, NEW p, Invoke(c, op, t, h, p)
      PROVE  LostInv'
  <2>1. /\ pc[c] = "idle" /\ (IsPublish(c)' => pc'[c] # "lock")
        /\ \A d \in Calls \ {c} : pc'[d] = pc[d] /\ arg'[d] = arg[d]
        /\ UNCHANGED <<handlers, onceHandlers, closed, delivered, removed, inGap>>
    BY <1>0, <1>1 DEF Invoke, bus, IsPublish
  <2>2. \A s \in removed : s \in Calls /\ s # c /\ pc[s] = "done"
    BY <2>1 DEF LostInv, Gone
  <2>3. Gone' /\ OnceLostOnlyInGap'
    BY <2>1, <2>2 DEF LostInv, Gone, OnceLostOnlyInGap
  <2>4. RegularKept'
    BY <1>r, <2>1 DEF LostInv, RegularKept
  <2>5. GapCovered'
    BY <2>1 DEF LostInv, GapCovered, IsPublish
  <2> QED  BY <2>3, <2>4, <2>5 DEF LostInv
<1>2. ASSUME NEW c \in Calls, ClientCall(c) \/ \E d \in Calls : NestedPublish(d, c) PROVE LostInv'
  BY <1>1, <1>2 DEF ClientCall, NestedPublish
<1>3. ASSUME NEW c \in Calls, RLockCall(c) \/ LockCall(c) \/ Query(c) \/ PublishEnd(c)
      PROVE  LostInv'
  BY <1>0, <1>3, NothingLost DEF RLockCall, LockCall, Query, PublishEnd, Shared, Return, bus, hist
<1>4. ASSUME NEW c \in Calls,
             PublishBegin(c) \/ HandlerStart(c) \/ HandlerReturn(c) \/ HandlerPanic(c)
      PROVE  LostInv'
  <2>1. /\ UNCHANGED <<handlers, onceHandlers, arg, removed, inGap, closed>>
        /\ delivered \subseteq delivered' /\ \A d \in Calls \ {c} : pc'[d] = pc[d]
        /\ pc[c] # "done" /\ pc'[c] # "lock"
    BY <1>0, <1>4 DEF PublishBegin, HandlerStart, HandlerReturn, HandlerPanic, Shared, Return,
                      bus, hist
  <2> QED  BY <2>1, NothingLost
<1>5. ASSUME NEW c \in Calls, Subscribe(c) PROVE LostInv'
  <2> DEFINE t == arg[c].t
             e == [sub |-> c, h |-> arg[c].h, async |-> arg[c].op = "subscribeAsync"]
  <2>1. /\ pc[c] = "lock" /\ IsSubscribe(c) /\ pc' = [pc EXCEPT ![c] = "done"]
        /\ UNCHANGED <<onceHandlers, arg, delivered, removed, inGap, closed>>
        /\ handlers' = handlers \/ handlers' = [handlers EXCEPT ![t] = Append(@, e)]
    BY <1>5 DEF Subscribe, Exclusive, Return, hist
  <2>2. \A u \in Types : SubsIn(handlers'[u]) \subseteq SubsIn(handlers[u]) \cup {c}
    <3>1. e \in Subscription /\ handlers[t] \in Seq(Subscription) /\ e.sub = c
      BY <1>0 DEF Subscription
    <3>2. handlers' = handlers \/ handlers' = [handlers EXCEPT ![t] = Append(@, e)]
      BY <2>1
    <3> HIDE DEF t, e
    <3>3. SubsIn(Append(handlers[t], e)) = SubsIn(handlers[t]) \cup {c}
      BY <3>1, SubsInLists
    <3> QED  BY <1>0, <3>2, <3>3
  <2>3. RegularKept'
    BY <2>1, <2>2 DEF LostInv, RegularKept, IsSubscribe
  <2>4. Gone' /\ GapCovered' /\ OnceLostOnlyInGap'
    BY <1>0, <2>1 DEF LostInv, Gone, GapCovered, OnceLostOnlyInGap, IsPublish
  <2> QED  BY <2>3, <2>4 DEF LostInv
<1>6. ASSUME NEW c \in Calls, SubscribeOnce(c) PROVE LostInv'
  <2> DEFINE t == arg[c].t
             e == [sub |-> c, h |-> arg[c].h, async |-> FALSE]
  <2>1. /\ pc[c] = "lock" /\ arg[c].op = "once" /\ pc' = [pc EXCEPT ![c] = "done"]
        /\ UNCHANGED <<handlers, arg, delivered, removed, closed>> /\ inGap \subseteq inGap'
        /\ \/ onceHandlers' = onceHandlers
           \/ /\ onceHandlers' = [onceHandlers EXCEPT ![t] = Append(@, e)]
              /\ GapOpen(t) => c \in inGap'
    BY <1>6 DEF SubscribeOnce, Exclusive, Return
  <2>2. ASSUME NEW u \in Types
        PROVE  \/ SubsIn(onceHandlers'[u]) = SubsIn(onceHandlers[u])
               \/ /\ SubsIn(onceHandlers'[u]) = SubsIn(onceHandlers[u]) \cup {c}
                  /\ GapOpen(u) => c \in inGap'
    <3>1. e \in Subscription /\ onceHandlers[t] \in Seq(Subscription) /\ e.sub = c
      BY <1>0 DEF Subscription
    <3>2. \/ onceHandlers' = onceHandlers
          \/ /\ onceHandlers' = [onceHandlers EXCEPT ![t] = Append(@, e)]
             /\ GapOpen(t) => c \in inGap'
      BY <2>1
    <3> HIDE DEF t, e
    <3>3. SubsIn(Append(onceHandlers[t], e)) = SubsIn(onceHandlers[t]) \cup {c}
      BY <3>1, SubsInLists
    <3> QED  BY <1>0, <3>2, <3>3
  <2>3. GapCovered'
    <3> SUFFICES ASSUME NEW d \in Calls, pc'[d] = "lock", IsPublish(d),
                        NEW s \in SubsIn(onceHandlers'[arg[d].t])
                 PROVE  <<d, s>> \in delivered \/ s \in inGap'
      BY <2>1 DEF GapCovered, IsPublish
    <3>1. pc[d] = "lock" /\ arg[d].t \in Types
      BY <1>0, <2>1
    <3>2. GapOpen(arg[d].t)
      BY <3>1 DEF GapOpen
    <3>3. s \in SubsIn(onceHandlers[arg[d].t]) \/ s \in inGap'
      BY <2>2, <3>1, <3>2
    <3> QED  BY <2>1, <3>1, <3>3 DEF LostInv, GapCovered
  <2>4. Gone' /\ RegularKept' /\ OnceLostOnlyInGap'
    BY <1>0, <2>1 DEF LostInv, Gone, RegularKept, OnceLostOnlyInGap
  <2> QED  BY <2>3, <2>4 DEF LostInv
<1>7. ASSUME NEW c \in Calls, PublishRan(c) PROVE LostInv'
  <2>1. /\ pc[c] = "run" /\ IsPublish(c) /\ pc'[c] \in {"done", "lock"}
        /\ \A d \in Calls \ {c} : pc'[d] = pc[d]
        /\ UNCHANGED <<handlers, onceHandlers, closed, arg, delivered, removed, inGap>>
    BY <1>0, <1>7 DEF PublishRan, Return, bus, hist
  <2>2. \A s \in SubsIn(onceHandlers[arg[c].t]) : <<c, s>> \in delivered
    BY <1>0, <1>7, RanAll DEF CalledInv, OnBus
  <2>3. GapCovered'
    BY <2>1, <2>2 DEF LostInv, GapCovered, IsPublish
  <2>4. Gone' /\ RegularKept' /\ OnceLostOnlyInGap'
    BY <2>1 DEF LostInv, Gone, RegularKept, OnceLostOnlyInGap
  <2> QED  BY <2>3, <2>4 DEF LostInv
<1>8. ASSUME NEW c \in Calls, Unsubscribe(c) PROVE LostInv'
  <2> DEFINE t == arg[c].t
  <2>1. /\ pc[c] = "lock" /\ pc' = [pc EXCEPT ![c] = "done"] /\ arg[c].op = "unsubscribe"
        /\ UNCHANGED <<onceHandlers, arg, delivered, inGap, closed>>
        /\ \/ UNCHANGED <<handlers, removed>>
           \/ \E i \in DOMAIN handlers[t] :
                /\ handlers' = [handlers EXCEPT ![t] = RemoveAt(@, i)]
                /\ removed' = removed \cup {handlers[t][i].sub}
    BY <1>8 DEF Unsubscribe, Matches, Exclusive, Return
  <2>2. /\ \A u \in Types : SubsIn(handlers'[u]) \subseteq SubsIn(handlers[u])
        /\ removed' \subseteq removed \cup SubsIn(handlers[t])
    <3>1. t \in Types /\ handlers[t] \in Seq(Subscription) /\ DOMAIN handlers[t] = 1..Len(handlers[t])
      BY <1>0
    <3>2. \/ UNCHANGED <<handlers, removed>>
          \/ \E i \in DOMAIN handlers[t] :
               /\ handlers' = [handlers EXCEPT ![t] = RemoveAt(@, i)]
               /\ removed' = removed \cup {handlers[t][i].sub}
      BY <2>1
    <3> HIDE DEF t
    <3>3. \A i \in DOMAIN handlers[t] : SubsIn(RemoveAt(handlers[t], i)) \subseteq SubsIn(handlers[t])
      BY <3>1, SubsInLists
    <3>4. \A i \in DOMAIN handlers[t] : handlers[t][i].sub \in SubsIn(handlers[t])
      BY DEF SubsIn
    <3> QED  BY <1>0, <3>1, <3>2, <3>3, <3>4
  <2>3. Gone'
    BY <1>0, <1>r, <2>1, <2>2 DEF LostInv, Gone
  <2>4. RegularKept' /\ GapCovered'
    BY <1>0, <2>1, <2>2 DEF LostInv, RegularKept, GapCovered, IsPublish
  <2>5. OnceLostOnlyInGap'
    BY <1>0, <2>1, <2>2 DEF LostInv, RegularKept, OnceLostOnlyInGap
  <2> QED  BY <2>3, <2>4, <2>5 DEF LostInv
<1>9. ASSUME NEW c \in Calls, Close(c) PROVE LostInv'
  <2>1. /\ pc[c] = "lock" /\ pc' = [pc EXCEPT ![c] = "done"] /\ arg[c].op = "close"
        /\ UNCHANGED <<arg, delivered, inGap>>
    BY <1>9 DEF Close, Exclusive, Return
  <2>2. CASE closed
    BY <1>0, <1>9, <2>1, <2>2, NothingLost DEF Close, bus
  <2>3. CASE ~closed
    <3>1. /\ closed' = TRUE /\ handlers' = NoSubs /\ onceHandlers' = NoSubs
          /\ removed' = removed \cup UNION {OnBus(t) : t \in Types}
      BY <1>9, <2>3 DEF Close
    <3>2. \A t \in Types : SubsIn(handlers'[t]) = {} /\ SubsIn(onceHandlers'[t]) = {}
      BY <3>1 DEF NoSubs, SubsIn
    <3>3. Gone'
      BY <1>0, <1>r, <2>1, <3>1 DEF LostInv, Gone, OnBus
    <3>4. RegularKept' /\ GapCovered'
      BY <1>0, <2>1, <3>2 DEF RegularKept, GapCovered
    <3> QED  BY <3>1, <3>3, <3>4 DEF LostInv, OnceLostOnlyInGap
  <2> QED  BY <2>2, <2>3
<1>10. ASSUME NEW c \in Calls, PublishForget(c) PROVE LostInv'
  <2> DEFINE t == arg[c].t
  <2>1. /\ pc[c] = "lock" /\ IsPublish(c) /\ pc' = [pc EXCEPT ![c] = "relock"]
        /\ UNCHANGED <<handlers, arg, delivered, inGap, closed>>
        /\ onceHandlers' = [onceHandlers EXCEPT ![t] = <<>>]
        /\ removed' = removed \cup SubsIn(onceHandlers[t])
    BY <1>10 DEF PublishForget, Exclusive
  <2>2. \A u \in Types : SubsIn(onceHandlers'[u]) \subseteq SubsIn(onceHandlers[u])
    BY <1>0, <2>1 DEF SubsIn
  <2>3. \A s \in SubsIn(onceHandlers[t]) : pc[s] = "done" /\ s \in Calls
    BY <1>0, <1>r
  <2>4. Gone'
    BY <1>0, <2>1, <2>3 DEF LostInv, Gone
  <2>5. RegularKept' /\ GapCovered'
    BY <1>0, <2>1, <2>2 DEF LostInv, RegularKept, GapCovered, IsPublish
  <2>6. OnceLostOnlyInGap'
    BY <2>1 DEF LostInv, GapCovered, OnceLostOnlyInGap
  <2> QED  BY <2>4, <2>5, <2>6 DEF LostInv
<1>11. CASE AsyncHandle \/ UNCHANGED vars
  <2>1. UNCHANGED <<handlers, onceHandlers, pc, arg, closed, delivered, removed, inGap>>
    BY <1>11 DEF AsyncHandle, vars, bus, hist
  <2> QED
    BY <2>1 DEF LostInv, Gone, RegularKept, GapCovered, OnceLostOnlyInGap, IsPublish
<1> QED
  BY <1>2, <1>3, <1>4, <1>5, <1>6, <1>7, <1>8, <1>9, <1>10, <1>11 DEF Next, Step, Quiet

\* For any number of calls: a once handler that leaves an open bus uncalled was
\* subscribed while a Publish of its type stood between RUnlock and Lock.
THEOREM OnceLossIsNarrow == Spec => []OnceLostOnlyInGap
<1>1. Init => CalledInv /\ LostInv
  <2> SUFFICES ASSUME Init PROVE CalledInv /\ LostInv
    OBVIOUS
  <2>1. \A c \in Calls : pc[c] = "idle" /\ idx[c] = 1
    BY DEF Init
  <2>2. CalledInv
    BY <2>1 DEF CalledInv, CalledAt, AtFirst, CalledSoFar, Waited, Served, Forgot
  <2>3. LostInv
    BY <2>1 DEF Init, LostInv, Gone, RegularKept, GapCovered, OnceLostOnlyInGap, NoSubs, SubsIn
  <2> QED  BY <2>2, <2>3
<1>2. LostInv => OnceLostOnlyInGap
  BY DEF LostInv
<1>3. OnceInv => SnapshotInv
  BY DEF OnceInv
<1> QED
  BY <1>1, <1>2, <1>3, CalledStep, LostStep, OnceHolds, PTL DEF Spec
==============================================================================
