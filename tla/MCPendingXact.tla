---------------------------- MODULE MCPendingXact ----------------------------
(***************************************************************************)
(* Constants for checking PendingXact: coherent caches with ids of their   *)
(* own, or uncached ones that share the id -1.                             *)
(***************************************************************************)
EXTENDS PendingXact

CONSTANTS t1, t2, t3, a, b, c

Coherent == [t \in Core |-> CASE t = t1 -> 0 [] t = t2 -> 1 [] OTHER -> 2]
Foreign  == [t \in Core |-> Uncached]

(* One of them prefetches a block that all of them use. *)
OnePrefetches == [t \in Core |-> IF t = t3 THEN {a} ELSE {}]
NonePrefetches == [t \in Core |-> {}]

OneSet  == [x \in Addr |-> 0]
OwnSets == [x \in Addr |-> CASE x = a -> 0 [] x = b -> 1 [] OTHER -> 2]
=============================================================================
