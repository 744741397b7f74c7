------------------------------- MODULE Mirage -------------------------------
(***************************************************************************)
(* The MIRAGE cache (cache/mirage.hpp): the metadata of a block is in one  *)
(* of P skewed partitions, its content in a data array of its own, and the *)
(* two point at each other.  When a set of the metadata is full a chain of *)
(* blocks is moved to other partitions (cuckoo relocation); when a set of  *)
(* the data array is full a block is evicted from whatever set of the      *)
(* metadata it is in.                                                      *)
(*                                                                         *)
(* The build has one thread.  An access that misses is one step for each   *)
(* turn of its loops, since what they leave for the next turn is what can  *)
(* go wrong; other calls are one step.  The L1s above are modelled by      *)
(* whether they have newer content of a block; their coherence is          *)
(* InclusiveCache's.                                                       *)
(***************************************************************************)
EXTENDS Integers, Sequences, FiniteSets

CONSTANTS
  Addr,       \* cache blocks
  P,          \* the number of partitions
  NW,         \* the ways of a set of metadata ...
  EW,         \* ... and the extra ways for tags
  MSet,       \* MSet[p][a]: the set of partition p to which block a maps
  DSet,       \* DSet[a]: the set of the data array for block a
  MaxRelocN,  \* the longest chain of relocations
  None

ASSUME MirageAssumption ==
  /\ P \in Nat \ {0, 1} /\ NW \in Nat \ {0} /\ EW \in Nat /\ MaxRelocN \in Nat
  /\ None \notin Addr

Part == 0 .. P - 1

(* The sets <<p, s>> and the entries <<p, s, w>> of the metadata, and those *)
(* <<s, w>> of the data.  The metadata replacer has NW ways: the generator  *)
(* does not tell it of the extra ones (meta_replace_type).                  *)
Set      == {<<p, MSet[p][a]>> : p \in Part, a \in Addr}
Entry    == {<<x[1], x[2], w>> : x \in Set, w \in 0 .. NW + EW - 1}
MWay     == 0 .. NW - 1
SetOf(e) == <<e[1], e[2]>>
DataSet  == {DSet[a] : a \in Addr}
DWay     == 0 .. NW * P - 1
Slot     == DataSet \X DWay

ASSUME NoneIsNoPlace == None \notin Entry \cup Slot \cup MWay \cup DWay

VARIABLES
  meta,    \* meta[e]: the tag of entry e, its state, and its slot
  dmeta,   \* dmeta[d]: the entry whose content is in slot d
  data,    \* data[d]: the block of which d has the content
  mrep,    \* mrep[x]: the free map and the allocation of the replacer
  drep,    \* drep[s]: the same for the data array
  up,      \* the blocks of which an L1 has newer content
  mem,     \* the blocks of which the memory has the last content
  job      \* the access that is under way

vars == <<meta, dmeta, data, mrep, drep, up, mem, job>>

Empty == [addr |-> None, valid |-> FALSE, dirty |-> FALSE, slot |-> None]
(* to_invalid(): the tag stays, and cuckoo_search() reads it. *)
ToInvalid(m) == [m EXCEPT !.valid = FALSE, !.dirty = FALSE, !.slot = None]
Idle  == [pc |-> "idle"]

Valid(e)  == meta[e].valid
Where(a)  == {e \in Entry : Valid(e) /\ meta[e].addr = a}
Job(pc, a, write, at, stack, moved) ==
  [pc |-> pc, addr |-> a, write |-> write, at |-> at, stack |-> stack, moved |-> moved]

Init ==
  /\ meta  = [e \in Entry |-> Empty]
  /\ dmeta = [d \in Slot |-> None]
  /\ data  = [d \in Slot |-> None]
  /\ mrep  = [x \in Set |-> [free |-> MWay, alloc |-> None]]
  /\ drep  = [s \in DataSet |-> [free |-> DWay, alloc |-> None]]
  /\ up    = {}
  /\ mem   = Addr
  /\ job   = Idle

----------------------------------------------------------------------------
(* The replacers (see Replacer), on the record r of one set. *)

(* The ways that replace() may take: the lowest that is free, else any.    *)
Victims(r, ways) ==
  IF r.free = {} THEN ways ELSE {CHOOSE w \in r.free : \A v \in r.free : w <= v}

Allocated(r, w) == [free |-> r.free \ {w}, alloc |-> w]
Accessed(r, w)  == IF w = r.alloc THEN [r EXCEPT !.alloc = None] ELSE r
(* Mistake: the allocated way is listed as free, too.                      *)
InvalidAlways(r, w) == [r EXCEPT !.free = @ \cup {w}]

Invalid(r, w)   == IF w = r.alloc THEN r ELSE [r EXCEPT !.free = @ \cup {w}]

(* replace_choose_set(): one of the sets with the most free ways. *)
Candidates(a) ==
  LET sets    == {<<p, MSet[p][a]>> : p \in Part}
      Free(x) == Cardinality(mrep[x].free)
  IN  {x \in sets : \A y \in sets : Free(x) >= Free(y)}

----------------------------------------------------------------------------
(* Mistake: the L1s are not asked for newer content.                       *)
MemUnprobed(e, d) ==
  LET a == meta[e].addr
  IN  IF ~meta[e].dirty THEN mem ELSE IF data[d] = a THEN mem \cup {a} ELSE mem \ {a}

(* The memory after evict() of entry e, whose content is in slot d: the    *)
(* L1s are probed, and what is dirty then is written.                      *)
MemAfter(e, d) ==
  LET a == meta[e].addr
  IN  IF a \in up THEN mem \cup {a}
      ELSE IF ~meta[e].dirty THEN mem
      ELSE IF data[d] = a THEN mem \cup {a} ELSE mem \ {a}

(* hook_manage() for what is dropped: both ways become free.               *)
Dropped(e, d) ==
  /\ meta' = [meta EXCEPT ![e] = ToInvalid(@)]
  /\ dmeta' = [dmeta EXCEPT ![d] = None]
  /\ mrep' = [mrep EXCEPT ![SetOf(e)] = Invalid(@, e[3])]
  /\ drep' = [drep EXCEPT ![d[1]] = Invalid(@, d[2])]
  /\ mem' = MemAfter(e, d)
  /\ up' = up \ {meta[e].addr}

(* A read or write that hits.  A probe fetches the L1s' newer content.     *)
Hit(a, write) ==
  /\ job = Idle
  /\ \E e \in Where(a) :
       /\ meta' = [meta EXCEPT ![e].dirty = @ \/ a \in up]
       /\ data' = IF a \in up THEN [data EXCEPT ![meta[e].slot] = a] ELSE data
       /\ mrep' = [mrep EXCEPT ![SetOf(e)] = Accessed(@, e[3])]
  /\ up' = IF write THEN up \cup {a} ELSE up \ {a}
  /\ mem' = IF write THEN mem \ {a} ELSE mem
  /\ UNCHANGED <<dmeta, drep, job>>

(* write_line(): an L1 gives its content back. *)
Release(a) ==
  /\ job = Idle
  /\ a \in up
  /\ \E e \in Where(a) :
       /\ meta' = [meta EXCEPT ![e].dirty = TRUE]
       /\ data' = [data EXCEPT ![meta[e].slot] = a]
  /\ up' = up \ {a}
  /\ UNCHANGED <<dmeta, mrep, drep, mem, job>>

(* flush_line(): with meta_after_flush() the slot is given up, too.        *)
Flush(a) ==
  /\ job = Idle
  /\ \E e \in Where(a) : Dropped(e, meta[e].slot)
  /\ UNCHANGED <<data, job>>

----------------------------------------------------------------------------
(* access_line() for a miss. *)

Miss(a, write) ==
  /\ job = Idle
  /\ Where(a) = {}
  /\ \E x \in Candidates(a) : \E w \in Victims(mrep[x], MWay) :
       /\ mrep' = [mrep EXCEPT ![x] = Allocated(@, w)]
       /\ job' = Job("search", a, write, <<x[1], x[2], w>>, <<>>, {})
  /\ UNCHANGED <<meta, dmeta, data, drep, up, mem>>

(* The set of the next partition to which the block in the way could move. *)
Target(e) == LET p == (e[1] + 1) % P IN <<p, MSet[p][meta[e].addr]>>

Searching == Valid(job.at) /\ Len(job.stack) < MaxRelocN

(* One turn of cuckoo_search().  Where it would come back to a block that  *)
(* is to be moved (or to its tag) it stops, and what it has allocated      *)
(* stays so.                                                               *)
Search ==
  /\ job.pc = "search"
  /\ IF ~Searching
     THEN job' = [job EXCEPT !.pc = "evict"] /\ UNCHANGED mrep
     ELSE LET x == Target(job.at)
          IN  \E w \in Victims(mrep[x], MWay) :
                LET e == <<x[1], x[2], w>>
                IN  /\ mrep' = [mrep EXCEPT ![x] = Allocated(@, w)]
                    /\ job' = IF meta[e].addr \in job.moved
                              THEN [job EXCEPT !.pc = "evict"]
                              ELSE [job EXCEPT !.at = e, !.stack = Append(@, job.at),
                                               !.moved = @ \cup {meta[job.at].addr}]
  /\ UNCHANGED <<meta, dmeta, data, drep, up, mem>>

(* The block at the end of the chain is evicted, if there is one. *)
Evict ==
  /\ job.pc = "evict"
  /\ IF Valid(job.at)
     THEN Dropped(job.at, meta[job.at].slot)
     ELSE UNCHANGED <<meta, dmeta, mrep, drep, up, mem>>
  /\ job' = [job EXCEPT !.pc = "relocate"]
  /\ UNCHANGED data

(* Mistake: the slot is not told where its block has gone.                 *)
RelocateUntold ==
  LET from == job.stack[Len(job.stack)]
      to   == job.at
  IN  /\ job.pc = "relocate"
      /\ IF job.stack = <<>>
         THEN job' = [job EXCEPT !.pc = "fill"] /\ UNCHANGED <<meta, mrep>>
         ELSE /\ meta' = [meta EXCEPT ![to] = meta[from], ![from] = ToInvalid(@)]
              /\ mrep' = [x \in Set |-> IF x = SetOf(to) THEN Accessed(mrep[x], to[3]) ELSE mrep[x]]
              /\ job' = [job EXCEPT !.at = from, !.stack = SubSeq(@, 1, Len(@) - 1)]
      /\ UNCHANGED <<dmeta, data, drep, up, mem>>

(* relocate(): the metadata is copied, and invalid where it was.           *)
Relocated(from, to) == [meta EXCEPT ![to] = meta[from], ![from] = ToInvalid(@)]

(* One turn of cuckoo_relocate(): the block of the last entry of the chain *)
(* moves to the way that is empty now, and its slot is told.               *)
Relocate ==
  LET from == job.stack[Len(job.stack)]
      to   == job.at
  IN  /\ job.pc = "relocate"
      /\ IF job.stack = <<>>
         THEN job' = [job EXCEPT !.pc = "fill"] /\ UNCHANGED <<meta, dmeta, mrep>>
         ELSE /\ meta' = Relocated(from, to)
              /\ dmeta' = [dmeta EXCEPT ![meta[from].slot] = to]
              /\ mrep' = [x \in Set |->
                            LET r == IF x = SetOf(from) THEN Invalid(mrep[x], from[3]) ELSE mrep[x]
                            IN  IF x = SetOf(to) THEN Accessed(r, to[3]) ELSE r]
              /\ job' = [job EXCEPT !.at = from,
                                    !.stack = SubSeq(@, 1, Len(@) - 1)]
      /\ UNCHANGED <<data, drep, up, mem>>

(* The block of slot d is evicted for another one, from the metadata set   *)
(* it happens to be in.                                                    *)
Old(d)     == IF dmeta[d] = None THEN {} ELSE {dmeta[d]}
MetaOut(d) == [e \in Entry |-> IF e \in Old(d) THEN ToInvalid(meta[e]) ELSE meta[e]]
RepOut(d)  == [x \in Set |-> IF \E e \in Old(d) : SetOf(e) = x
                             THEN Invalid(mrep[x], dmeta[d][3]) ELSE mrep[x]]
MemOut(d)  == IF Old(d) = {} THEN mem ELSE MemAfter(dmeta[d], d)
UpOut(d)   == up \ {meta[e].addr : e \in Old(d)}

(* replace_data(), the binding of entry and slot, the fetch from the       *)
(* memory, the grant and hook_read().                                      *)
Fill ==
  LET a == job.addr
      e == job.at
      s == DSet[a]
  IN  /\ job.pc = "fill"
      /\ \E w \in Victims(drep[s], DWay) :
           LET d == <<s, w>>
           IN  /\ meta' = [MetaOut(d) EXCEPT ![e] = [addr |-> a, valid |-> TRUE, dirty |-> FALSE, slot |-> d]]
               /\ dmeta' = [dmeta EXCEPT ![d] = e]
               /\ data' = [data EXCEPT ![d] = IF a \in mem THEN a ELSE None]
               /\ mrep' = [RepOut(d) EXCEPT ![SetOf(e)] = Accessed(@, e[3])]
               /\ drep' = [drep EXCEPT ![s] = Accessed(Allocated(@, w), w)]
               /\ up' = IF job.write THEN UpOut(d) \cup {a} ELSE UpOut(d)
               /\ mem' = IF job.write THEN MemOut(d) \ {a} ELSE MemOut(d)
      /\ job' = Idle

----------------------------------------------------------------------------
Next ==
  \/ \E a \in Addr, write \in BOOLEAN : Hit(a, write) \/ Miss(a, write)
  \/ \E a \in Addr : Release(a) \/ Flush(a)
  \/ Search \/ Evict \/ Relocate \/ Fill

Spec == Init /\ [][Next]_vars

----------------------------------------------------------------------------
(* Properties. *)

(* Metadata and data stay bound to each other, one to one, through every   *)
(* eviction and relocation: the slot of a valid entry points back at it,   *)
(* and a valid slot is that of the entry it points at.                     *)
Bound ==
  /\ \A e \in Entry : Valid(e) => dmeta[meta[e].slot] = e
  /\ \A d \in Slot : dmeta[d] # None => meta[dmeta[d]].slot = d

(* No block is in two places, and an entry is never served with the        *)
(* content of another block; the last content of a block is in an L1, in   *)
(* the memory, or in a dirty entry.                                        *)
ContentKept ==
  /\ \A a \in Addr : Cardinality(Where(a)) <= 1
  /\ \A e \in Entry : Valid(e) => data[meta[e].slot] = meta[e].addr
  /\ \A a \in Addr : a \in up \cup mem \/ \E e \in Where(a) : meta[e].dirty
  /\ \A a \in up : Where(a) # {}

(* The free map of the data array lists exactly the slots that are free;   *)
(* that of the metadata lists no way that holds a block, as long as a chain *)
(* cannot come back to a partition: with MaxRelocN >= P, as in              *)
(* c2-l2-mirage.cpp, the record of the allocated way is overwritten and the *)
(* way that the chain leaves is listed before it is filled again.           *)
FreeSound ==
  /\ MaxRelocN < P =>
       \A x \in Set : mrep[x].free \subseteq {w \in MWay : ~Valid(<<x[1], x[2], w>>)}
  /\ \A s \in DataSet : drep[s] = [alloc |-> None,
                                   free |-> {w \in DWay : dmeta[<<s, w>>] = None}]

(* "potential parallel allocated cache blocks in one cache set!"           *)
(* (replace.hpp): replace() is called for a set of the metadata only when  *)
(* no way of it is allocated.                                              *)
AllocatedOnce ==
  job.pc = "search" /\ Searching => mrep[Target(job.at)].alloc = None
=============================================================================
