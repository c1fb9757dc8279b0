-------------------------- MODULE RegistrationProofs --------------------------
(***************************************************************************)
(* Proofs about Registration, for every number of retries: type            *)
(* correctness, that a heartbeat means a registration, and that a clean    *)
(* stop leaves no entry behind.                                            *)
(***************************************************************************)
EXTENDS Registration, TLAPS

\* Each goroutine waits for its own RPC: Register's loop for RegisterModule, Stop
\* for UnregisterModule, and there is a heartbeat loop only after Register.
Awaited ==
  /\ rpc["register"] # "idle" => reg = "waiting"
  /\ rpc["unregister"] # "idle" => stop = "waiting"
  /\ hb # "off" => reg = "ended"

\* Unregister is called only after stopChan is closed, and answered once.
StopOrder ==
  /\ stopChan = "open" => stop \in {"running", "stopped"} /\ late["unregister"] = 0
  /\ stop = "running" => stopChan = "open" /\ ~settled
  /\ stop \in {"running", "unregister", "waiting"} => unreg = "none"

\* Until Stop, a RegisterModule that was executed has its entry, unless the admin
\* lost it.
Entered ==
  (stopChan = "open" /\ ~forgotten /\ Retries # 0
     /\ (rpc["register"] = "executed" \/ hb # "off")) => registered

\* A stop that found Register done meets no RegisterModule any more, so that an
\* UnregisterModule that was executed lasts.
Removed ==
  settled => /\ reg = "ended" /\ late["register"] = 0
             /\ (rpc["unregister"] = "executed" \/ unreg = "ok") => ~registered

\* The inductive invariant.
RegistrationInv == RegTypeOK /\ Awaited /\ StopOrder /\ Entered /\ Removed

----------------------------------------------------------------------------
\* The retries a client is left with are a number.
LEMMA RetriesType == Retries \in Nat
  BY RetriesAssumption DEF Retries

\* RegTypeOK is an invariant: Register makes at most Retries attempts, because it
\* waits for an answer only below that number.
THEOREM TypeCorrect == RegSpec => []RegTypeOK
<1> DEFINE TypeInv == RegTypeOK /\ (reg = "waiting" => attempt < Retries)
<1>1. RegInit => TypeInv
  <2> SUFFICES ASSUME RegInit PROVE TypeInv
    OBVIOUS
  <2>1. client \in BOOLEAN /\ registered \in BOOLEAN /\ forgotten \in BOOLEAN /\ settled \in BOOLEAN
    BY Zenon DEF RegInit
  <2> QED
    BY <2>1, RetriesType DEF RegInit, RegTypeOK, Kinds, Lasting
<1>2. TypeInv /\ [RegNext]_regVars => TypeInv'
  <2> SUFFICES ASSUME TypeInv, [RegNext]_regVars PROVE TypeInv'
    OBVIOUS
  <2> USE RetriesType, RetriesAssumption DEF RegTypeOK, Kinds, Lasting, Retries
  <2>1. CASE CreateClient
    <3>1. client' \in BOOLEAN
      BY <2>1, Zenon DEF CreateClient
    <3> QED
      BY <2>1, <3>1 DEF CreateClient
  <2>2. CASE RegisterAttempt
    BY <2>2 DEF RegisterAttempt, Send
  <2>3. CASE RegisterOK
    BY <2>3 DEF RegisterOK, Answered
  <2>4. CASE RegisterFail
    BY <2>4 DEF RegisterFail, Abandon
  <2>5. CASE HeartbeatTick
    BY <2>5 DEF HeartbeatTick, Send
  <2>6. CASE HeartbeatDone
    BY <2>6 DEF HeartbeatDone, Answered, Abandon
  <2>7. CASE HeartbeatStop
    BY <2>7 DEF HeartbeatStop
  <2>8. CASE StopBegin
    <3>1. settled' \in BOOLEAN
      BY <2>8, Zenon DEF StopBegin
    <3> QED
      BY <2>8, <3>1 DEF StopBegin, ClientSeenByStop
  <2>9. CASE UnregisterSend
    BY <2>9 DEF UnregisterSend, Send
  <2>10. CASE UnregisterDone
    BY <2>10 DEF UnregisterDone, Answered, Abandon
  <2>11. CASE StopClose
    BY <2>11 DEF StopClose
  <2>12. CASE AdminForget
    <3>1. registered' \in BOOLEAN /\ forgotten' \in BOOLEAN
      BY <2>12, Zenon DEF AdminForget
    <3> QED
      BY <2>12, <3>1 DEF AdminForget, goroutines
  <2>13. ASSUME NEW k \in Kinds, AdminExecute(k) PROVE TypeInv'
    <3>1. registered' \in BOOLEAN
      BY <2>13 DEF AdminExecute, Effect
    <3> QED
      BY <2>13, <3>1 DEF AdminExecute, goroutines
  <2>14. CASE UNCHANGED regVars
    BY <2>14 DEF regVars, goroutines
  <2> QED
    BY <2>1, <2>2, <2>3, <2>4, <2>5, <2>6, <2>7, <2>8, <2>9, <2>10, <2>11, <2>12, <2>13, <2>14
    DEF RegNext, Goroutine, RegOver
<1> QED
  BY <1>1, <1>2, PTL DEF RegSpec

----------------------------------------------------------------------------
\* What a step leaves alone keeps the four conjuncts: no goroutine, RPC or entry
\* changes.
LEMMA QuietStep ==
  ASSUME RegistrationInv, RegTypeOK',
         UNCHANGED <<mode, stopChan, reg, hb, stop, rpc, late, registered, forgotten, unreg, settled>>
  PROVE  RegistrationInv'
  BY DEF RegistrationInv, Awaited, StopOrder, Entered, Removed, Retries

\* Every step preserves the inductive invariant.
LEMMA RegistrationStep ==
  ASSUME RegistrationInv, RegTypeOK', [RegNext]_regVars
  PROVE  RegistrationInv'
<1> USE RetriesAssumption DEF RegistrationInv, RegTypeOK, Kinds, Lasting
<1>1. CASE CreateClient
  BY <1>1 DEF CreateClient, Awaited, StopOrder, Entered, Removed, Retries
<1>2. CASE RegisterAttempt
  BY <1>2 DEF RegisterAttempt, Send, Awaited, StopOrder, Entered, Removed, Retries
<1>3. CASE RegisterOK
  BY <1>3 DEF RegisterOK, Answered, Awaited, StopOrder, Entered, Removed, Retries
<1>4. CASE RegisterFail
  BY <1>4 DEF RegisterFail, Abandon, Awaited, StopOrder, Entered, Removed, Retries
<1>5. CASE HeartbeatTick
  BY <1>5 DEF HeartbeatTick, Send, Awaited, StopOrder, Entered, Removed, Retries
<1>6. CASE HeartbeatDone
  BY <1>6 DEF HeartbeatDone, Answered, Abandon, Awaited, StopOrder, Entered, Removed, Retries
<1>7. CASE HeartbeatStop
  BY <1>7 DEF HeartbeatStop, Awaited, StopOrder, Entered, Removed, Retries
<1>8. CASE StopBegin
  BY <1>8 DEF StopBegin, NoneLate, Awaited, StopOrder, Entered, Removed, Retries
<1>9. CASE UnregisterSend
  BY <1>9 DEF UnregisterSend, Send, Awaited, StopOrder, Entered, Removed, Retries
<1>10. CASE UnregisterDone
  BY <1>10 DEF UnregisterDone, Answered, Abandon, Awaited, StopOrder, Entered, Removed, Retries
<1>11. CASE StopClose
  BY <1>11 DEF StopClose, Awaited, StopOrder, Entered, Removed, Retries
<1>12. CASE AdminForget
  BY <1>12 DEF AdminForget, goroutines, Awaited, StopOrder, Entered, Removed, Retries
<1>13. ASSUME NEW k \in Kinds, AdminExecute(k) PROVE RegistrationInv'
  <2> USE <1>13 DEF AdminExecute, Effect, goroutines, Awaited, StopOrder, Entered, Removed, Retries
  <2>1. CASE k = "register"
    BY <2>1
  <2>2. CASE k = "unregister"
    BY <2>2
  <2>3. CASE k = "heartbeat"
    BY <2>3
  <2> QED
    BY <2>1, <2>2, <2>3
<1>14. CASE UNCHANGED regVars
  BY <1>14, QuietStep DEF regVars, goroutines
<1> QED
  BY <1>1, <1>2, <1>3, <1>4, <1>5, <1>6, <1>7, <1>8, <1>9, <1>10, <1>11, <1>12, <1>13, <1>14
  DEF RegNext, Goroutine, RegOver

\* RegistrationInv is an invariant.
LEMMA RegistrationHolds == RegSpec => []RegistrationInv
<1>1. RegInit /\ RegTypeOK => RegistrationInv
  BY DEF RegInit, RegistrationInv, Awaited, StopOrder, Entered, Removed, Kinds, Lasting
<1>2. RegistrationInv /\ RegTypeOK' /\ [RegNext]_regVars => RegistrationInv'
  BY RegistrationStep
<1> QED
  BY <1>1, <1>2, TypeCorrect, PTL DEF RegSpec

\* HeartbeatMeansRegistered is an invariant of every client that is allowed at
\* least one attempt: the heartbeat loop runs only after a RegisterModule that the
\* admin executed.
THEOREM HeartbeatSafe == RegSpec => [](Retries # 0 => HeartbeatMeansRegistered)
<1>1. RegistrationInv => (Retries # 0 => HeartbeatMeansRegistered)
  BY DEF RegistrationInv, Entered, HeartbeatMeansRegistered
<1> QED
  BY <1>1, RegistrationHolds, PTL

\* CleanStop is an invariant: nothing of a Register that was done before Stop can
\* undo an UnregisterModule that was answered.
THEOREM StopIsClean == RegSpec => []CleanStop
<1>1. RegistrationInv => CleanStop
  BY DEF RegistrationInv, Removed, CleanStop
<1> QED
  BY <1>1, RegistrationHolds, PTL

==============================================================================
