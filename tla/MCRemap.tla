------------------------------- MODULE MCRemap -------------------------------
(***************************************************************************)
(* Constants for checking Remap.                                           *)
(***************************************************************************)
EXTENDS Remap

CONSTANTS w, x, y, z

(* Four blocks in one set of two ways, two in each, and three and one.     *)
Seeds == {[a \in Addr |-> 0], [a \in Addr |-> IF a \in {w, x} THEN 1 ELSE 0],
          [a \in Addr |-> IF a = w THEN 0 ELSE 1]}
=============================================================================
