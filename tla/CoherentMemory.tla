--------------------------- MODULE CoherentMemory ---------------------------
(***************************************************************************)
(* What a FlexiCAS cache hierarchy promises to the code that drives it     *)
(* through CoreInterface (cache/coherence.hpp): one memory.  A read at any *)
(* port returns the value of the last write to the block, whichever port   *)
(* wrote it; a flush or a write-back of a block at a coherent port leaves  *)
(* its current value in the backing memory; and the backing memory only    *)
(* ever receives values that are current.  The hierarchy may write any     *)
(* block back at any time (conflict evictions), so every step allows it.   *)
(***************************************************************************)
CONSTANTS
  Coherent, \* the CoreInterface ports that take part in coherence (L1D)
  Uncached, \* those that do not (L1I)
  Addr,     \* the cache blocks
  Val       \* their contents

VARIABLES
  store,    \* the current content of each block
  backing,  \* what the memory below the caches holds
  resp      \* the last call and, for a read, the value it returned

vars == <<store, backing, resp>>

Init ==
  /\ store \in [Addr -> Val]
  /\ backing = store
  /\ resp = [op |-> "none"]

(* Some blocks, among them those of Must, are written back: what reaches   *)
(* the memory is the current value, and that before the call changes it.   *)
WriteBack(Must) ==
  /\ backing' \in [Addr -> Val]
  /\ \A a \in Addr :
       /\ backing'[a] \in {backing[a], store[a]}
       /\ a \in Must => backing'[a] = store[a]

Read(p, a) ==
  /\ resp' = [op |-> "read", port |-> p, addr |-> a, val |-> store[a]]
  /\ WriteBack({})
  /\ UNCHANGED store

Write(p, a, v) ==
  /\ resp' = [op |-> "write", port |-> p, addr |-> a, val |-> v]
  /\ WriteBack({})
  /\ store' = [store EXCEPT ![a] = v]

(* flush and writeback of a block are durable when they return. *)
Persist(op, p, a) ==
  /\ resp' = [op |-> op, port |-> p, addr |-> a]
  /\ WriteBack({a})
  /\ UNCHANGED store

(* Other cache management has no effect a program can read. *)
Manage(op, p, a) ==
  /\ resp' = [op |-> op, port |-> p, addr |-> a]
  /\ WriteBack({})
  /\ UNCHANGED store

FlushCache(p) ==
  /\ resp' = [op |-> "flush_cache", port |-> p]
  /\ WriteBack({})
  /\ UNCHANGED store

Next ==
  \/ \E p \in Coherent \cup Uncached, a \in Addr :
       \/ Read(p, a)
       \/ \E v \in Val : Write(p, a, v)
       \/ Manage("prefetch", p, a)
  \/ \E p \in Coherent, a \in Addr, op \in {"flush", "writeback"} : Persist(op, p, a)
  \/ \E p \in Uncached, a \in Addr, op \in {"flush", "writeback"} : Manage(op, p, a)
  \/ \E p \in Coherent \cup Uncached : FlushCache(p)

Spec == Init /\ [][Next]_vars
============================================================================
