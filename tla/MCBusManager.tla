------------------------------ MODULE MCBusManager ------------------------------
(* Orders of the middlewares for BusManager. *)
EXTENDS BusManager

\* Retry around Timeout, with Recovery where it does not help; Retry and Recovery
\* inside of it.
MCOrders == {<<"recovery", "retry", "timeout">>, <<"timeout", "retry", "recovery">>}

\* The order of the example in eventbus/README.md:113-119.
MCRecommended == {<<"recovery", "timeout", "retry">>}
================================================================================
