-------------------------- MODULE MCInclusiveCache --------------------------
(***************************************************************************)
(* Constants for checking InclusiveCache: all blocks map to one set of     *)
(* every cache, so that both levels evict.                                 *)
(***************************************************************************)
EXTENDS InclusiveCache

OneSet == [a \in Addr |-> 0]
============================================================================
