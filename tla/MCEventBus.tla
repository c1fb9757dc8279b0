------------------------------ MODULE MCEventBus ------------------------------
(* Instances of EventBus for TLC. *)
EXTENDS EventBus

CONSTANTS t1, t2, h1, h2

\* h1 and h2 are two closures of one function literal: %p cannot tell them apart.
MCPtr == [h \in Handlers |-> "literal"]

\* Handlers that do not use the bus.
MCEmitsNothing == [h \in Handlers |-> {}]

\* Handlers that publish on the bus themselves, any event type.
MCEmitsAny == [h \in Handlers |-> Types]

\* Handlers that publish another event type, as in README.md's nested example.
MCEmitsOther == [h \in Handlers |-> {t2}]

MCAllMethods == AllMethods

\* Calls and handlers are interchangeable: Ptr and Emits treat all handlers alike.
MCSymmetry == Permutations(Calls) \cup Permutations(Handlers)
==============================================================================
