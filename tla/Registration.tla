----------------------------- MODULE Registration -----------------------------
(***************************************************************************)
(* The life of one module's registration with the admin gateway            *)
(* (src/registration): RegistrationHelper, its Client, and the admin's     *)
(* registry, which is external and modelled from the RPCs the client makes.*)
(*                                                                         *)
(* Three goroutines share the client: the one StartRegistration starts,    *)
(* the heartbeat loop that one starts when Register succeeds, and the      *)
(* caller of Stop.  An RPC is sent, executed by the admin and answered in  *)
(* three steps; it may fail for the client at any moment, and a request    *)
(* whose caller gave up may be lost or may still be executed later.        *)
(***************************************************************************)
EXTENDS Naturals

CONSTANTS
  MaxRetries,      \* Config.MaxRetries as the module sets it
  DefaultRetries   \* what SetConfig replaces a zero by

ASSUME RetriesAssumption == MaxRetries \in Nat /\ DefaultRetries \in Nat \ {0}

VARIABLES
  mode,        \* how the helper was started
  client,      \* h.client is set
  conn,        \* the client's connection
  stopChan,    \* "open" or "closed"
  reg,         \* registration goroutine
  attempt,     \* Register's loop variable
  hb,          \* heartbeat goroutine
  stop,        \* the caller of Stop
  rpc,         \* the RPC of each kind a goroutine is waiting for
  late,        \* how many requests the admin still holds whose caller gave up
  registered,  \* the admin's registry lists the module
  \* history
  forgotten,   \* the admin has lost the registration on its own
  unreg,       \* what UnregisterModule returned to Stop
  settled      \* Register had succeeded, and left no request behind, when Stop began

goroutines == <<client, conn, stopChan, reg, attempt, hb, stop>>
regVars == <<mode, goroutines, rpc, late, registered, forgotten, unreg, settled>>

Kinds == {"register", "heartbeat", "unregister"}

\* The requests that change the registry, and so matter when they are late.
Lasting == {"register", "unregister"}

----------------------------------------------------------------------------
(* RPCs over the client's connection *)

\* Sending on a closed connection fails at once and changes nothing.
Sendable == conn = "open"

NoneLate == \A k \in Lasting : late[k] = 0

Send(k) == rpc' = [rpc EXCEPT ![k] = "sent"]

\* The caller of k gives up, with an error: its request is lost, or late.
Abandon(k) ==
  /\ rpc[k] \in {"sent", "executed"}
  /\ rpc' = [rpc EXCEPT ![k] = "idle"]
  /\ \/ UNCHANGED late
     \/ /\ rpc[k] = "sent" /\ k \in Lasting
        /\ late' = [late EXCEPT ![k] = @ + 1]

\* The call of k ends with an answer.
Answered(k) ==
  /\ rpc[k] = "executed" /\ Sendable
  /\ rpc' = [rpc EXCEPT ![k] = "idle"]

----------------------------------------------------------------------------
\* StartRegistration without an endpoint, StartRegistration, and
\* StartRegistrationWithClient: in the last the client exists from the start.
RegInit ==
  /\ mode \in {"disabled", "deferred", "withClient"}
  /\ client = (mode = "withClient")
  /\ conn = IF mode = "withClient" THEN "open" ELSE "none"
  /\ stopChan = "open"
  /\ reg = IF mode = "disabled" THEN "ended" ELSE "sleep"
  /\ attempt = 0 /\ hb = "off" /\ stop = "running"
  /\ rpc = [k \in Kinds |-> "idle"] /\ late = [k \in Lasting |-> 0]
  /\ registered = FALSE
  /\ forgotten = FALSE /\ unreg = "none" /\ settled = FALSE

\* A client passed to StartRegistrationWithClient went through SetConfig.
Retries == IF mode = "withClient" /\ MaxRetries = 0 THEN DefaultRetries ELSE MaxRetries

----------------------------------------------------------------------------
(* The registration goroutine *)

\* After the three second sleep: NewClient, h.client = regClient.
CreateClient ==
  /\ reg = "sleep"
  /\ \/ client /\ UNCHANGED <<client, conn>> /\ reg' = "attempt"
     \/ ~client /\ client' = TRUE /\ conn' = "open" /\ reg' = "attempt"
     \/ ~client /\ UNCHANGED <<client, conn>> /\ reg' = "ended"   \* NewClient failed
  /\ UNCHANGED <<mode, stopChan, attempt, hb, stop, rpc, late, registered,
                 forgotten, unreg, settled>>

\* MUTANT: the heartbeat starts before RegisterModule is answered.
RegisterAttemptOptimistic ==
  /\ reg = "attempt" /\ Sendable
  /\ Send("register") /\ reg' = "waiting" /\ hb' = "select"
  /\ UNCHANGED <<mode, client, conn, stopChan, attempt, stop, late, registered,
                 forgotten, unreg, settled>>

\* MUTANT: the loop has no bound.
RegisterAttemptUnbounded ==
  /\ reg = "attempt"
  /\ \/ Sendable /\ Send("register") /\ reg' = "waiting" /\ UNCHANGED attempt
     \/ ~Sendable /\ attempt' = attempt + 1 /\ UNCHANGED <<rpc, reg>>
  /\ UNCHANGED <<mode, client, conn, stopChan, hb, stop, late, registered,
                 forgotten, unreg, settled>>

\* One turn of Register's loop: call RegisterModule, or leave with lastErr,
\* which is nil if there was no turn at all.
RegisterAttempt ==
  /\ reg = "attempt"
  /\ \/ /\ attempt < Retries /\ Sendable
        /\ Send("register") /\ reg' = "waiting" /\ UNCHANGED <<attempt, hb>>
     \/ /\ attempt < Retries /\ ~Sendable
        /\ attempt' = attempt + 1 /\ UNCHANGED <<rpc, reg, hb>>
     \/ /\ attempt >= Retries /\ reg' = "ended"
        /\ hb' = IF Retries = 0 THEN "select" ELSE hb
        /\ UNCHANGED <<rpc, attempt>>
  /\ UNCHANGED <<mode, client, conn, stopChan, stop, late, registered,
                 forgotten, unreg, settled>>

\* RegisterModule answers: Register returns nil and the heartbeat starts.
RegisterOK ==
  /\ reg = "waiting" /\ Answered("register")
  /\ reg' = "ended" /\ hb' = "select"
  /\ UNCHANGED <<mode, client, conn, stopChan, attempt, stop, late, registered,
                 forgotten, unreg, settled>>

\* It fails: sleep RetryInterval and try again, whatever Stop has done.
RegisterFail ==
  /\ reg = "waiting" /\ Abandon("register")
  /\ reg' = "attempt" /\ attempt' = attempt + 1
  /\ UNCHANGED <<mode, client, conn, stopChan, hb, stop, registered,
                 forgotten, unreg, settled>>

----------------------------------------------------------------------------
(* The heartbeat goroutine *)

\* select takes the ticker, also when stopChan is ready.  A call on a closed
\* connection fails and is logged.
HeartbeatTick ==
  /\ hb = "select"
  /\ IF Sendable THEN Send("heartbeat") /\ hb' = "waiting" ELSE UNCHANGED <<rpc, hb>>
  /\ UNCHANGED <<mode, client, conn, stopChan, reg, attempt, stop, late, registered,
                 forgotten, unreg, settled>>

\* An answer that is not an acknowledgement, and an error, are only logged.
HeartbeatDone ==
  /\ hb = "waiting" /\ hb' = "select"
  /\ \/ Answered("heartbeat") /\ UNCHANGED late
     \/ Abandon("heartbeat")
  /\ UNCHANGED <<mode, client, conn, stopChan, reg, attempt, stop, registered,
                 forgotten, unreg, settled>>

\* MUTANT: the loop's select has no stopChan case.
HeartbeatNeverStops == FALSE /\ UNCHANGED regVars

HeartbeatStop ==
  /\ hb = "select" /\ stopChan = "closed"
  /\ hb' = "stopped"
  /\ UNCHANGED <<mode, client, conn, stopChan, reg, attempt, stop, rpc, late, registered,
                 forgotten, unreg, settled>>

----------------------------------------------------------------------------
(* Stop *)

\* h.client is written by the registration goroutine without synchronisation,
\* so Stop may still read nil after it was set.
ClientSeenByStop == IF mode = "deferred" THEN {FALSE, client} ELSE {client}

\* Stop and the first statement of Unregister; nothing to do without a client.
StopBegin ==
  /\ stop = "running"
  /\ \E seen \in ClientSeenByStop :
       IF seen
       THEN /\ stopChan' = "closed" /\ stop' = "unregister"
            /\ settled' = (reg = "ended" /\ hb # "off" /\ NoneLate)
       ELSE stop' = "stopped" /\ UNCHANGED <<stopChan, settled>>
  /\ UNCHANGED <<mode, client, conn, reg, attempt, hb, rpc, late, registered,
                 forgotten, unreg>>

UnregisterSend ==
  /\ stop = "unregister"
  /\ Send("unregister") /\ stop' = "waiting"
  /\ UNCHANGED <<mode, client, conn, stopChan, reg, attempt, hb, late, registered,
                 forgotten, unreg, settled>>

\* MUTANT: the answer is taken for granted.
UnregisterDoneEarly ==
  /\ stop = "waiting" /\ stop' = "close" /\ unreg' = "ok"
  /\ Abandon("unregister")
  /\ UNCHANGED <<mode, client, conn, stopChan, reg, attempt, hb, registered,
                 forgotten, settled>>

\* MUTANT: UnregisterModule is called without a deadline.
UnregisterDoneNoDeadline ==
  /\ stop = "waiting" /\ stop' = "close"
  /\ Answered("unregister") /\ unreg' = "ok" /\ UNCHANGED late
  /\ UNCHANGED <<mode, client, conn, stopChan, reg, attempt, hb, registered,
                 forgotten, settled>>

\* The RPC is answered, fails, or runs into the ten second deadline.
UnregisterDone ==
  /\ stop = "waiting" /\ stop' = "close"
  /\ \/ Answered("unregister") /\ unreg' = "ok" /\ UNCHANGED late
     \/ Abandon("unregister") /\ unreg' = "error"
  /\ UNCHANGED <<mode, client, conn, stopChan, reg, attempt, hb, registered,
                 forgotten, settled>>

StopClose ==
  /\ stop = "close"
  /\ conn' = "closed" /\ stop' = "stopped"
  /\ UNCHANGED <<mode, client, stopChan, reg, attempt, hb, rpc, late, registered,
                 forgotten, unreg, settled>>

----------------------------------------------------------------------------
(* The admin gateway *)

Effect(k) == registered' = CASE k = "register"   -> TRUE
                             [] k = "unregister" -> FALSE
                             [] OTHER            -> registered

\* The admin executes a request, for a caller that still waits or a late one.
AdminExecute(k) ==
  /\ \/ rpc[k] = "sent" /\ rpc' = [rpc EXCEPT ![k] = "executed"] /\ UNCHANGED late
     \/ /\ k \in Lasting /\ late[k] > 0
        /\ late' = [late EXCEPT ![k] = @ - 1] /\ UNCHANGED rpc
  /\ Effect(k)
  /\ UNCHANGED <<mode, goroutines, forgotten, unreg, settled>>

\* The admin restarts without its registry, or expires the module.
AdminForget ==
  /\ registered /\ registered' = FALSE /\ forgotten' = TRUE
  /\ UNCHANGED <<mode, goroutines, rpc, late, unreg, settled>>

----------------------------------------------------------------------------
Goroutine ==
  \/ CreateClient \/ RegisterAttempt \/ RegisterOK \/ RegisterFail
  \/ HeartbeatTick \/ HeartbeatDone \/ HeartbeatStop
  \/ UnregisterSend \/ UnregisterDone \/ StopClose

\* The module has stopped, and nothing is on its way to the admin.
RegOver ==
  /\ stop = "stopped" /\ reg = "ended" /\ hb \in {"off", "stopped"} /\ NoneLate
  /\ UNCHANGED regVars

RegNext ==
  \/ Goroutine \/ StopBegin
  \/ AdminForget \/ \E k \in Kinds : AdminExecute(k)
  \/ RegOver

RegSpec == RegInit /\ [][RegNext]_regVars

\* Goroutines are scheduled, and a select that finds stopChan ready again and
\* again takes it some time (Go chooses at random).  RegisterModule and Heartbeat
\* have no deadline and wait for the admin to be ready, so they only have to end
\* once their connection is closed; UnregisterModule has one.  Nobody has to
\* call Stop, and the admin owes nothing.
RegFairness ==
  /\ WF_regVars(CreateClient) /\ WF_regVars(RegisterAttempt)
  /\ WF_regVars(RegisterFail /\ conn = "closed")
  /\ WF_regVars(HeartbeatDone /\ conn = "closed") /\ WF_regVars(HeartbeatStop)
  /\ WF_regVars(UnregisterSend) /\ WF_regVars(UnregisterDone) /\ WF_regVars(StopClose)

FairRegSpec == RegSpec /\ RegFairness

----------------------------------------------------------------------------
(* Properties *)

\* Type correctness of the client, its goroutines and its RPCs; Register makes
\* no more attempts than it is allowed.
RegTypeOK ==
  /\ mode \in {"disabled", "deferred", "withClient"}
  /\ client \in BOOLEAN
  /\ conn \in {"none", "open", "closed"}
  /\ stopChan \in {"open", "closed"}
  /\ reg \in {"sleep", "attempt", "waiting", "ended"}
  /\ attempt \in 0 .. Retries
  /\ hb \in {"off", "select", "waiting", "stopped"}
  /\ stop \in {"running", "unregister", "waiting", "close", "stopped"}
  /\ rpc \in [Kinds -> {"idle", "sent", "executed"}]
  /\ late \in [Lasting -> Nat]
  /\ registered \in BOOLEAN /\ forgotten \in BOOLEAN /\ settled \in BOOLEAN
  /\ unreg \in {"none", "ok", "error"}

\* While the module heartbeats and nobody has stopped it, the admin lists it,
\* unless the admin itself lost the entry: the heartbeat loop starts only after
\* a registration that took effect.  (With MaxRetries = 0 and no SetConfig,
\* Register returns nil without a call and this fails.)
HeartbeatMeansRegistered ==
  (hb \in {"select", "waiting"} /\ stopChan = "open" /\ ~forgotten) => registered

\* If Register had succeeded and left nothing behind when Stop began, and the
\* admin answered UnregisterModule, the module is off the registry for good.
CleanStop == (stop \in {"close", "stopped"} /\ unreg = "ok" /\ settled) => ~registered

\* Once Stop has told the goroutines to end, all of them do: Register gives up
\* after its last attempt and the heartbeat loop sees stopChan.
GoroutinesEnd == (stopChan = "closed") ~> (reg = "ended" /\ hb \in {"off", "stopped"})

\* Stop returns, whether the admin answers or not.
StopReturns == (stop # "running") ~> (stop = "stopped")

==============================================================================
