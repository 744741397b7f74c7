------------------------------ MODULE MCMirage ------------------------------
(***************************************************************************)
(* Constants for checking Mirage.                                          *)
(***************************************************************************)
EXTENDS Mirage, TLC

CONSTANTS b1, b2, b3, b4

(* All blocks share a set of each partition, but in partition 1 b1 has one *)
(* of its own; all share a set of the data array.                          *)
Skewed == [p \in Part |-> [a \in Addr |-> IF p = 1 /\ a # b1 THEN 1 ELSE 0]]
DataSets == [a \in Addr |-> 0]

Alike == Permutations(Addr \ {b1})
============================================================================
