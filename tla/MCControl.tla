------------------------------- MODULE MCControl -------------------------------
(***************************************************************************)
(* Both sides of the admin's registry in one run: the registration client  *)
(* that a module runs, and the gateway that follows the registry's events. *)
(* The registry between them is external and the two share no state, so a  *)
(* behaviour is one of either's and their steps are not interleaved.       *)
(***************************************************************************)
EXTENDS Gateway, Registration

VARIABLE part

\* Where the gateway acts the module does not register, so that fairness asks
\* nothing of its client.
MCInit ==
  /\ part \in {"gateway", "registration"} /\ Init /\ RegInit
  /\ part = "gateway" => mode = "disabled"

MCNext ==
  \/ part = "gateway" /\ Next /\ UNCHANGED <<part, regVars>>
  \/ part = "registration" /\ RegNext /\ UNCHANGED <<part, vars>>

MCSpec == MCInit /\ [][MCNext]_<<part, vars, regVars>> /\ Fairness /\ RegFairness
================================================================================
