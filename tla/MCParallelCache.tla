--------------------------- MODULE MCParallelCache ---------------------------
(***************************************************************************)
(* Constants for checking ParallelCache.                                   *)
(***************************************************************************)
EXTENDS ParallelCache

CONSTANTS x, y, z, u

(* The L1s have one line.  The LLC has two sets of two ways: one for x, z  *)
(* and u, and another for y.                                               *)
Sets == [c \in Cache |-> [a \in Addr |-> IF c = LLC /\ a = y THEN 1 ELSE 0]]
LineWays == [c \in Cache |-> IF c = LLC THEN {0, 1} ELSE {0}]

(* Both threads use x and drive it out of their L1 by accesses to other    *)
(* blocks; thread 0 flushes it, and x, z and u drive each other out of the *)
(* LLC.                                                                    *)
Calls == [c \in Core |->
  IF c = 0 THEN {<<"read", x>>, <<"write", x>>, <<"flush", x>>, <<"read", u>>}
           ELSE {<<"write", x>>, <<"write", y>>, <<"prefetch", z>>}]
=============================================================================
