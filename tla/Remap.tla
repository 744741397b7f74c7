-------------------------------- MODULE Remap --------------------------------
(***************************************************************************)
(* The dynamically randomised cache (cache/dynamic_random.hpp): a cache    *)
(* that changes its index function while it holds blocks.  Every so often  *)
(* all blocks are moved to the sets of the next function, in chains: a     *)
(* block takes a way in its new set, and the block that was there moves on *)
(* if it has not moved yet, and is evicted if it has.                      *)
(*                                                                         *)
(* The build has one thread and, in the generated caches, one partition.   *)
(* A turn of the loops of a remap is a step, any other call is one step.   *)
(* The L1s above are modelled by whether they have newer content.          *)
(***************************************************************************)
EXTENDS Naturals, FiniteSets

CONSTANTS
  Addr,     \* cache blocks
  NSet,     \* the number of sets
  NW,       \* the ways of a set
  Index,    \* the index functions that seeds can give
  None

ASSUME RemapAssumption ==
  /\ NSet \in Nat \ {0} /\ NW \in Nat \ {0}
  /\ Index \subseteq [Addr -> 0 .. NSet - 1]
  /\ None \notin Addr

Set   == 0 .. NSet - 1
Way   == 0 .. NW - 1
Place == Set \X Way

VARIABLES
  line,      \* line[<<s, w>>]: the block there, and whether it is dirty
  moved,     \* the places with the relocated flag
  free,      \* free[s]: the free map of the replacer
  idx,       \* indexer
  next,      \* indexer_next
  up,        \* the blocks of which an L1 has newer content
  mem,       \* the blocks of which the memory has the last content
  pc,        \* "idle" between calls, or where remap() is
  at,        \* the set and the way at which remap() is
  buf        \* the copy buffer of a relocation chain

vars == <<line, moved, free, idx, next, up, mem, pc, at, buf>>

Empty    == [addr |-> None, dirty |-> FALSE]
Valid(m) == m.addr # None

(* Mistake: blocks that have moved to a set above the pointer are missed.  *)
FoundByPointer(a) ==
  {p \in Place : /\ line[p].addr = a
                 /\ p[1] = IF pc # "idle" /\ idx[a] < at[1] THEN next[a] ELSE idx[a]}

(* The places where hit() finds block a.  During a remap a set below the   *)
(* pointer, which is the set that remap() is at, has new blocks only.      *)
Found(a) ==
  {p \in Place :
     /\ line[p].addr = a
     /\ \/ p[1] = idx[a] /\ (pc = "idle" \/ p[1] >= at[1])
        \/ p[1] = next[a] /\ pc # "idle"}

(* The ways that replace() may take in set s: the lowest that is free, or  *)
(* any if none is.                                                         *)
Victims(s) == IF free[s] = {} THEN Way ELSE {CHOOSE w \in free[s] : \A v \in free[s] : w <= v}

Init ==
  /\ line  = [p \in Place |-> Empty]
  /\ moved = {}
  /\ free  = [s \in Set |-> Way]
  /\ idx  \in Index
  /\ next \in Index
  /\ up    = {}
  /\ mem   = Addr
  /\ pc    = "idle"
  /\ at    = <<0, 0>>
  /\ buf   = Empty

----------------------------------------------------------------------------
(* The memory after the eviction of line m, with what the L1s give back.   *)
MemAfter(m) == IF m.dirty \/ m.addr \in up THEN mem \cup {m.addr} ELSE mem

(* A read or write that hits; a probe fetches newer content. *)
Hit(a, write) ==
  /\ pc = "idle"
  /\ \E p \in Found(a) : line' = [line EXCEPT ![p].dirty = @ \/ a \in up]
  /\ up' = IF write THEN up \cup {a} ELSE up \ {a}
  /\ mem' = IF write THEN mem \ {a} ELSE mem
  /\ UNCHANGED <<moved, free, idx, next, pc, at, buf>>

(* One that misses: the victim is evicted and the block fetched.           *)
Miss(a, write) ==
  /\ pc = "idle"
  /\ Found(a) = {}
  /\ \E w \in Victims(idx[a]) :
       LET p == <<idx[a], w>>
           out == MemAfter(line[p])
       IN  /\ line' = [line EXCEPT ![p] = [addr |-> a, dirty |-> FALSE]]
           /\ free' = [free EXCEPT ![idx[a]] = @ \ {w}]
           /\ up' = (up \ {line[p].addr}) \cup (IF write THEN {a} ELSE {})
           /\ mem' = (IF Valid(line[p]) THEN out ELSE mem) \ (IF write THEN {a} ELSE {})
  /\ UNCHANGED <<moved, idx, next, pc, at, buf>>

(* write_line() *)
Release(a) ==
  /\ pc = "idle"
  /\ a \in up
  /\ \E p \in Found(a) : line' = [line EXCEPT ![p].dirty = TRUE]
  /\ up' = up \ {a}
  /\ UNCHANGED <<moved, free, idx, next, mem, pc, at, buf>>

(* flush_line() *)
Flush(a) ==
  /\ pc = "idle"
  /\ \E p \in Found(a) :
       /\ mem' = MemAfter(line[p])
       /\ line' = [line EXCEPT ![p] = Empty]
       /\ free' = [free EXCEPT ![p[1]] = @ \cup {p[2]}]
  /\ up' = up \ {a}
  /\ UNCHANGED <<moved, idx, next, pc, at, buf>>

----------------------------------------------------------------------------
(* remap(), which finish_resp() calls when the monitor has counted enough  *)
(* evictions; here that may be after any call.                             *)

Start ==
  /\ pc = "idle"
  /\ pc' = "scan" /\ at' = <<0, 0>>
  /\ UNCHANGED <<line, moved, free, idx, next, up, mem, buf>>

(* The next way, or the first way of the next set: move_remap_pointer().   *)
Advanced == IF at[2] + 1 < NW THEN <<at[1], at[2] + 1>> ELSE <<at[1] + 1, 0>>

Skip ==
  /\ pc = "scan" /\ at \in Place
  /\ ~Valid(line[at]) \/ at \in moved
  /\ at' = Advanced
  /\ UNCHANGED <<line, moved, free, idx, next, up, mem, pc, buf>>

(* relocation_chain(): the block is taken into the buffer. *)
Take ==
  /\ pc = "scan" /\ at \in Place
  /\ Valid(line[at]) /\ at \notin moved
  /\ buf' = line[at]
  /\ line' = [line EXCEPT ![at] = Empty]
  /\ moved' = moved \cup {at}
  /\ free' = [free EXCEPT ![at[1]] = @ \cup {at[2]}]
  /\ pc' = "chain"
  /\ UNCHANGED <<idx, next, up, mem, at>>

(* Mistake: blocks that have been moved before move on, too. *)
RelocateOn ==
  LET s == next[buf.addr]
  IN  /\ pc = "chain" /\ Valid(buf)
      /\ \E w \in Victims(s) :
           /\ line' = [line EXCEPT ![<<s, w>>] = buf]
           /\ buf' = line[<<s, w>>]
           /\ moved' = moved \cup {<<s, w>>}
           /\ free' = [free EXCEPT ![s] = @ \ {w}]
      /\ UNCHANGED <<idx, next, up, mem, pc, at>>

(* relocation(): the block of the buffer and that of the chosen way are    *)
(* swapped; one that has been moved before is evicted instead.             *)
Relocate ==
  LET s == next[buf.addr]
  IN  /\ pc = "chain" /\ Valid(buf)
      /\ \E w \in Victims(s) :
           LET p == <<s, w>>
               m == line[p]
               evicted == Valid(m) /\ p \in moved
           IN  /\ line' = [line EXCEPT ![p] = buf]
               /\ buf' = IF evicted THEN Empty ELSE m
               /\ mem' = IF evicted THEN MemAfter(m) ELSE mem
               /\ up' = IF evicted THEN up \ {m.addr} ELSE up
               /\ moved' = moved \cup {p}
               /\ free' = [free EXCEPT ![s] = @ \ {w}]
      /\ UNCHANGED <<idx, next, pc, at>>

ChainEnd ==
  /\ pc = "chain" /\ ~Valid(buf)
  /\ pc' = "scan" /\ at' = Advanced
  /\ UNCHANGED <<line, moved, free, idx, next, up, mem, buf>>

(* remap_end() with rotate_indexer(). *)
End ==
  /\ pc = "scan" /\ at \notin Place
  /\ idx' = next /\ next' \in Index
  /\ moved' = {}
  /\ pc' = "idle" /\ at' = <<0, 0>>
  /\ UNCHANGED <<line, free, up, mem, buf>>

----------------------------------------------------------------------------
Remapping == Skip \/ Take \/ Relocate \/ ChainEnd \/ End

Next ==
  \/ \E a \in Addr, write \in BOOLEAN : Hit(a, write) \/ Miss(a, write)
  \/ \E a \in Addr : Release(a) \/ Flush(a)
  \/ Start
  \/ Remapping

(* The loops of remap() run on, nothing comes in between. *)
Spec == Init /\ [][Next]_vars /\ WF_vars(Remapping)

----------------------------------------------------------------------------
(* Properties. *)

(* Whatever is moved, every block of the cache is in one place, where      *)
(* hit() finds it, during a remap too (evict() relies on it:               *)
(* assert(cache->hit(addr))); the ways that hold nothing are free; and the *)
(* last content of a block is in an L1, in the memory, in a dirty line or  *)
(* in the buffer.                                                          *)
BlocksKept ==
  /\ \A p \in Place : Valid(line[p]) => Found(line[p].addr) = {p} /\ line[p].addr # buf.addr
  /\ \A s \in Set : free[s] = {w \in Way : ~Valid(line[<<s, w>>])}
  /\ \A a \in Addr \ (up \cup mem) : \E m \in {line[p] : p \in Place} \cup {buf} : m.addr = a /\ m.dirty
  /\ \A a \in up : \E m \in {line[p] : p \in Place} \cup {buf} : m.addr = a

(* A remap ends, though its chains push blocks back and forth between sets.*)
RemapEnds == pc # "idle" ~> pc = "idle"
=============================================================================
