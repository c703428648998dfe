------------------------------ MODULE SlotPool ------------------------------
(***************************************************************************)
(* What `max_concurrent` promises, without counters or locks: every capped *)
(* backend has a set of holders, nobody joins a full one, and each thread  *)
(* is in one set at a time.                                                *)
(***************************************************************************)
EXTENDS Naturals, FiniteSets

CONSTANTS Walker,   \* the threads that dispatch
          Capped,   \* the backends that have a max_concurrent
          Cap       \* Cap[b]: the max_concurrent of b

VARIABLE holders    \* holders[b]: the threads b is serving

Init == holders = [b \in Capped |-> {}]

Acquire(w, b) ==
  /\ \A c \in Capped : w \notin holders[c]
  /\ Cardinality(holders[b]) < Cap[b]
  /\ holders' = [holders EXCEPT ![b] = @ \cup {w}]

Release(w, b) ==
  /\ w \in holders[b]
  /\ holders' = [holders EXCEPT ![b] = @ \ {w}]

Next == \E w \in Walker, b \in Capped : Acquire(w, b) \/ Release(w, b)

Spec == Init /\ [][Next]_holders
=============================================================================
