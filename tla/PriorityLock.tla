---------------------------- MODULE PriorityLock ----------------------------
(***************************************************************************)
(* What the state word of a cache set promises to the transactions of the  *)
(* multi-threaded build: a lock with priorities.  "transactions with       *)
(* higher priority can pre-empt transactions with lower priority on the    *)
(* same cache set" (cache/coherence.hpp): a transaction enters the set     *)
(* only above everything that is in it, so two transactions of the same    *)
(* priority never share a set.                                             *)
(***************************************************************************)
EXTENDS Naturals

CONSTANTS
  Thread,   \* the threads of the simulation
  Prio      \* the priorities

VARIABLE held   \* held[t]: the priorities with which t is in the set

Init == held = [t \in Thread |-> {}]

Enter(t, p) ==
  /\ \A u \in Thread : \A q \in held[u] : q < p
  /\ held' = [held EXCEPT ![t] = @ \cup {p}]

Leave(t, p) ==
  /\ p \in held[t]
  /\ held' = [held EXCEPT ![t] = @ \ {p}]

Next == \E t \in Thread, p \in Prio : Enter(t, p) \/ Leave(t, p)

Spec == Init /\ [][Next]_held
=============================================================================
