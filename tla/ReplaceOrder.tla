---------------------------- MODULE ReplaceOrder ----------------------------
(***************************************************************************)
(* What the FIFO and LRU replacers of one cache set promise: the ways in a *)
(* queue.  A miss takes a free way, or else the head of the queue if none  *)
(* was free when it looked; no other miss takes a way until that one is    *)
(* filled, after which it is not listed as free and goes to the tail, or   *)
(* stays next in line when the fill was a prefetch.                        *)
(***************************************************************************)
EXTENDS Integers

CONSTANTS
  NW,           \* number of ways
  EF,           \* empty first: a free way is taken before the head
  EnMT          \* probes may come between any two steps of a miss

VARIABLES
  order,        \* the queue of the ways
  free,         \* the ways that are listed as free
  taken,        \* the way that a miss has taken, or -1
  stage         \* how far that miss is

(* The queue after way w has moved to its tail, or to its head.            *)
Place(w) == CHOOSE i \in 1 .. NW : order[i] = w
Last(w)  == [i \in 1 .. NW |-> IF i < Place(w) THEN order[i] ELSE IF i < NW THEN order[i + 1] ELSE w]
First(w) == [i \in 1 .. NW |-> IF i = 1 THEN w ELSE IF i <= Place(w) THEN order[i - 1] ELSE order[i]]

Init ==
  /\ order = [i \in 1 .. NW |-> i - 1]
  /\ free = 0 .. NW - 1
  /\ taken = -1
  /\ stage = "none"

TakeFree(w) ==
  /\ EF /\ stage = "none"
  /\ w \in free
  /\ taken' = w
  /\ free' = free \ {w}
  /\ stage' = "taken"
  /\ UNCHANGED order

Look ==
  /\ stage = "none"
  /\ EF => free = {}
  /\ stage' = "full"
  /\ UNCHANGED <<order, free, taken>>

TakeHead ==
  /\ stage = "full"
  /\ taken' = order[1]
  /\ free' = IF EF THEN free ELSE free \ {order[1]}
  /\ stage' = "taken"
  /\ UNCHANGED order

Record ==
  /\ stage = "taken"
  /\ stage' = "recorded"
  /\ UNCHANGED <<order, free, taken>>

Fill(w) ==
  /\ stage = "recorded" /\ taken = w
  /\ order' \in {Last(w), First(w)}
  /\ taken' = -1
  /\ free' = free \ {w}
  /\ stage' = "none"

Use(w) ==
  /\ order' \in {order, Last(w), First(w)}
  /\ free' = free \ {w}
  /\ UNCHANGED <<taken, stage>>

(* A block is dropped.  The way that is taken is not listed with it, unless *)
(* the drop comes before the record, as it can between threads.            *)
Free(w) ==
  /\ stage \in {"full", "taken"} => EnMT
  /\ w = taken => stage = "taken"
  /\ free' = free \cup {w}
  /\ UNCHANGED <<order, taken, stage>>

Next ==
  \/ Look \/ TakeHead \/ Record
  \/ \E w \in 0 .. NW - 1 : TakeFree(w) \/ Fill(w) \/ Use(w) \/ Free(w)

Spec == Init /\ [][Next]_<<order, free, taken, stage>>
=============================================================================
