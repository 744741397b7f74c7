----------------------------- MODULE MCSetState -----------------------------
(***************************************************************************)
(* Constants for checking SetState, and the check that its set of          *)
(* priorities behaves like the 16-bit word of the code.                    *)
(***************************************************************************)
EXTENDS SetState, FiniteSetsExt

CONSTANTS t1, t2, t3

(* One thread enters again while it is in the set, two come by. *)
Entries == [t \in Thread |-> IF t = t1 THEN 2 ELSE 1]

Word(bits) == FoldSet(LAMBDA p, sum : p + sum, 0, bits)

ASSUME WordAssumption ==
  \A bits \in SUBSET Prio, p \in Prio :
    /\ Word(bits) < 2^16
    /\ p <= Word(bits) <=> Blocked(p, bits)
    /\ p * 2 - 1 < Word(bits) <=> Preempted(p, bits)
    /\ p \in bits => p <= Word(bits)
=============================================================================
