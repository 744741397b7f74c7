------------------------ MODULE MCParallelRegression ------------------------
(***************************************************************************)
(* Constants for checking ParallelRegression: a block of core 0's and one  *)
(* that both share.                                                        *)
(***************************************************************************)
EXTENDS ParallelRegression

CONSTANTS own, common

Owners == [a \in Addr |-> IF a = own THEN 0 ELSE Shared]
============================================================================
