------------------------------- MODULE RWMutex -------------------------------
(***************************************************************************)
(* Go's sync.RWMutex, as the event bus uses it (external: the standard     *)
(* library).  A lock is a value; each operator is what one call does to it.*)
(*                                                                         *)
(*   readers   who holds the lock for reading                              *)
(*   writer    who has called Lock: from that moment on new readers park,  *)
(*             and the writer owns the lock once the readers have left     *)
(*   parked    who called RLock after the writer; Unlock lets all of them  *)
(*             in at once, before any other writer                         *)
(*                                                                         *)
(* The writer's preference over new readers is what makes a read lock      *)
(* unsafe to take twice on one goroutine.                                  *)
(***************************************************************************)
CONSTANT None

Unlocked == [readers |-> {}, writer |-> None, parked |-> {}]

\* RLock: enter, or park behind a writer that holds or awaits the lock.
RLock(m, c) == IF m.writer = None
               THEN [m EXCEPT !.readers = @ \cup {c}]
               ELSE [m EXCEPT !.parked = @ \cup {c}]

\* The call is inside RLock and has not returned from it.
Parked(m, c) == c \in m.parked

RUnlock(m, c) == [m EXCEPT !.readers = @ \ {c}]

\* Lock, first half: become the one writer that waits for the readers.
\* Another writer waits until this is possible.
CanLock(m) == m.writer = None

Lock(m, c) == [m EXCEPT !.writer = c]

\* Lock has returned: the writer is alone.
Locked(m, c) == m.writer = c /\ m.readers = {}

Unlock(m) == [readers |-> m.readers \cup m.parked,
              writer  |-> None,
              parked  |-> {}]
==============================================================================
