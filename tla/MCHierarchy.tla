---------------------------- MODULE MCHierarchy ----------------------------
(***************************************************************************)
(* Constants for checking Hierarchy: all blocks map to one set of every    *)
(* cache, and a set has one way, so that every level evicts.               *)
(***************************************************************************)
EXTENDS Hierarchy

OneSet == [level \in {"l1d", "l1i", "l2", "l3"} |-> [a \in Addr |-> 0]]
OneWay == [level \in {"l1d", "l1i", "l2", "l3"} |-> 1]
============================================================================
