------------------------------ MODULE Replacer ------------------------------
(***************************************************************************)
(* The replacer of one cache set (cache/replace.hpp): ReplaceFuncBase with *)
(* its free map and its record of the way allocated for a pending miss,    *)
(* and the policies FIFO, LRU, SRRIP and random, under the calls a cache   *)
(* makes through replace() and its hooks (cache/cache.hpp).                *)
(*                                                                         *)
(* A miss is not one call: replace() allocates a way, the victim in it is  *)
(* evicted, and only the hook after the fetch uses the way.  In between,   *)
(* probes drop other blocks of the set, releases touch them, and a probe   *)
(* can even take the line whose permission is being promoted.  Nor is      *)
(* replace() atomic between threads: it looks for a free way, else selects *)
(* one, and only then records the way as allocated.  The set is reserved,  *)
(* but a probe that pre-empts it may drop a block before the record.       *)
(*                                                                         *)
(* Its names are other than PendingXact's and SetState's, so that one      *)
(* module can extend all three.                                            *)
(***************************************************************************)
EXTENDS Integers

CONSTANTS
  Policy,       \* FIFO, LRU, SRRIP or random
  NW,           \* number of ways
  EF,           \* empty first
  DUO,          \* demand update only: a release does not count as a use
  EnMT          \* the multi-threaded build

(* SRRIP and random have no multi-threaded build (delist_from_free() is    *)
(* called with an argument too many).  LRU has it with DUO, as all caches  *)
(* of util/cache_type.hpp: without, a release would change used_map while  *)
(* another thread reads or changes it, with nothing between the two.       *)
ASSUME ReplacerAssumption ==
  /\ Policy \in {"FIFO", "LRU", "SRRIP", "random"}
  /\ NW \in Nat \ {0}
  /\ EF \in BOOLEAN
  /\ DUO \in BOOLEAN
  /\ EnMT \in BOOLEAN
  /\ Policy \in {"SRRIP", "random"} => ~EnMT
  /\ Policy = "LRU" /\ EnMT => DUO

Way == 0 .. NW - 1
NoWay == -1

VARIABLES
  used,     \* used_map[s]: a priority for each way
  free,     \* free_map[s]
  alloc,    \* alloc_map[s]
  valid,    \* the ways that hold a block: the cache's side
  pending   \* the access that is under way in the set: the cache's side

replacerVars == <<used, free, alloc, valid, pending>>

Idle == [kind |-> "none"]
Scan == [kind |-> "scan"]
Xact == {Idle, Scan} \cup [kind : {"record", "miss", "hit"}, way : Way]

(* The way that a miss has taken, recorded or not. *)
Taken == IF pending.kind \in {"record", "miss"} THEN {pending.way} ELSE {}

Ranked == Policy \in {"FIFO", "LRU"}

----------------------------------------------------------------------------
(* The policies. *)

(* Mistake: the ways above the used one keep their priority.               *)
TouchAlone(u, w) == [u EXCEPT ![w] = NW - 1]

(* A use moves a way to the top, an insertion by a prefetch to the bottom. *)
Touch(u, w) ==
  [v \in Way |-> IF v = w THEN NW - 1 ELSE IF u[v] > u[w] THEN u[v] - 1 ELSE u[v]]

Demote(u, w) ==
  [v \in Way |-> IF v = w THEN 0 ELSE IF u[v] < u[w] THEN u[v] + 1 ELSE u[v]]

TopWay(u) == CHOOSE w \in Way : \A v \in Way : u[v] < u[w] \/ (u[v] = u[w] /\ w <= v)

(* Mistake: the queue is read from its other end. *)
SelectedLast ==
  CASE Ranked            -> {w \in Way : used[w] = NW - 1}
    [] Policy = "SRRIP"  -> {TopWay(used)}
    [] Policy = "random" -> Way

(* select(): the ways that may be taken, and the priorities afterwards.    *)
(* SRRIP ages all ways so that the one it takes has priority 3.            *)
Selected ==
  CASE Ranked            -> {w \in Way : used[w] = 0}
    [] Policy = "SRRIP"  -> {TopWay(used)}
    [] Policy = "random" -> Way

Aged ==
  IF Policy = "SRRIP" THEN [w \in Way |-> used[w] + (3 - used[TopWay(used)])] ELSE used

(* The way with the lowest bit in the free map. *)
FirstFree == CHOOSE w \in free : \A v \in free : w <= v

(* Whether access() moves the way: FIFO only for the fill of the allocated *)
(* way, LRU and SRRIP also for other uses, unless DUO excludes releases.   *)
Counts(w, demand) ==
  IF Policy = "FIFO" THEN w = alloc /\ demand ELSE w = alloc \/ ~DUO \/ demand

(* SRRIP: a filled way starts at 2, or 3 when prefetched; a hit makes it 0. *)
Predicted(w, prefetch) == IF prefetch THEN 3 ELSE IF w = alloc THEN 2 ELSE 0

(* The priorities after access(). *)
Updated(w, demand, prefetch) ==
  IF Policy = "random" \/ ~Counts(w, demand) THEN used
  ELSE IF Policy = "SRRIP" THEN [used EXCEPT ![w] = Predicted(w, prefetch)]
  ELSE IF prefetch THEN Demote(used, w) ELSE Touch(used, w)

(* Mistakes: the free map is left alone, and the allocation stands.        *)
AccessFree(w, demand, prefetch) ==
  /\ used' = Updated(w, demand, prefetch)
  /\ alloc' = IF w = alloc /\ demand THEN NoWay ELSE alloc
  /\ UNCHANGED free
AccessReleases(w, demand, prefetch) ==
  /\ used' = Updated(w, demand, prefetch)
  /\ alloc' = IF w = alloc THEN NoWay ELSE alloc
  /\ free' = IF EnMT THEN free \ {w} ELSE free

(* access() *)
Access(w, demand, prefetch) ==
  /\ used' = Updated(w, demand, prefetch)
  /\ alloc' = IF w = alloc /\ demand THEN NoWay ELSE alloc
  /\ free' = IF EnMT THEN free \ {w} ELSE free

(* invalid() *)
Invalid(w) ==
  /\ free' = IF w = alloc THEN free ELSE free \cup {w}
  /\ used' = IF Policy = "SRRIP" THEN [used EXCEPT ![w] = 3] ELSE used
  /\ UNCHANGED alloc

----------------------------------------------------------------------------
(* The cache. *)

ReplacerInit ==
  /\ used = IF Ranked THEN [w \in Way |-> w] ELSE [w \in Way |-> 3]
  /\ free = Way
  /\ alloc = NoWay
  /\ valid = {}
  /\ pending = Idle

(* replace() begins: the set is reserved, so no other access is under way. *)
(* A free way is taken off the map by one compare-and-swap; when none was  *)
(* seen, or free ways do not come first, the policy selects one.           *)
Allocate ==
  /\ pending = Idle
  /\ IF EF /\ free # {}
     THEN /\ pending' = [kind |-> "record", way |-> FirstFree]
          /\ free' = free \ {FirstFree}
     ELSE pending' = Scan /\ UNCHANGED free
  /\ UNCHANGED <<used, alloc, valid>>

(* select(), and delist_from_free() of its way if free ways do not come    *)
(* first: one step, as what select() reads is not changed by a block that  *)
(* is dropped between the two, nor is what is left on the map.             *)
Select ==
  /\ pending = Scan
  /\ \E w \in Selected :
       /\ pending' = [kind |-> "record", way |-> w]
       /\ free' = IF EF THEN free ELSE free \ {w}
  /\ used' = Aged
  /\ UNCHANGED <<alloc, valid>>

(* set_alloc_map() *)
Record ==
  /\ pending.kind = "record"
  /\ alloc' = pending.way
  /\ pending' = [pending EXCEPT !.kind = "miss"]
  /\ UNCHANGED <<used, free, valid>>

(* Only another thread comes in between. *)
Undisturbed == EnMT \/ (pending # Scan /\ pending.kind # "record")

Hit(w) ==
  /\ pending = Idle
  /\ w \in valid
  /\ pending' = [kind |-> "hit", way |-> w]
  /\ UNCHANGED <<used, free, alloc, valid>>

(* The victim of a miss is evicted (hook_manage). *)
Evict ==
  /\ pending.kind = "miss"
  /\ pending.way \in valid
  /\ Invalid(pending.way)
  /\ valid' = valid \ {pending.way}
  /\ UNCHANGED pending

(* The access is served (hook_read, hook_write).                           *)
Finish(prefetch) ==
  /\ pending.kind \in {"miss", "hit"}
  /\ pending.kind = "miss" => pending.way \notin valid
  /\ Access(pending.way, TRUE, prefetch)
  /\ valid' = valid \cup {pending.way}
  /\ pending' = Idle

(* A release, or dirty content that a probe found, is written (hook_write).*)
Write(w) ==
  /\ w \in valid
  /\ Undisturbed
  /\ Access(w, FALSE, FALSE)
  /\ UNCHANGED <<valid, pending>>

(* A probe or a flush drops a block (hook_manage); between threads it may  *)
(* be the one whose promotion is under way, or that is about to be evicted *)
(* from a way that is not yet recorded: invalid() then lists this way.     *)
Drop(w) ==
  /\ w \in valid
  /\ Undisturbed
  /\ EnMT \/ pending # [kind |-> "hit", way |-> w]
  /\ Invalid(w)
  /\ valid' = valid \ {w}
  /\ UNCHANGED pending

ReplacerNext ==
  \/ Allocate \/ Select \/ Record
  \/ Evict
  \/ \E w \in Way : Hit(w) \/ Write(w) \/ Drop(w)
  \/ \E prefetch \in BOOLEAN : Finish(prefetch)

ReplacerSpec == ReplacerInit /\ [][ReplacerNext]_replacerVars

----------------------------------------------------------------------------
(* Properties. *)

(* Type correctness; the two bits of an SRRIP priority do not overflow.    *)
ReplacerTypeOK ==
  /\ used \in [Way -> IF Ranked THEN Way ELSE 0 .. 3]
  /\ free \subseteq Way
  /\ alloc \in Way \cup {NoWay}
  /\ valid \subseteq Way
  /\ pending \in Xact

(* FIFO and LRU keep the priorities a permutation of the ways, so that     *)
(* select() always finds exactly one way whatever the interleaving:        *)
(* assert("replacer used_map corrupted!").                                 *)
Permutation ==
  Ranked =>
    /\ \A k \in Way : \E w \in Way : used[w] = k
    /\ \A v, w \in Way : used[v] = used[w] => v = w

(* At most one way is allocated, by the miss that is under way:            *)
(* assert("potential parallel allocated cache blocks in one cache set!"),  *)
(* and when it is done nothing stays allocated.                            *)
OneAllocation ==
  alloc = IF pending.kind = "miss" THEN pending.way ELSE NoWay

(* The free map loses no way and lists none that is in use: every way that *)
(* holds nothing is listed but for the one that a miss has taken, and none *)
(* that holds a block is, although probes free ways while a miss or a      *)
(* promotion is pending.  The way that is taken is off the list, too,      *)
(* except between threads when its block was dropped before set_alloc_map: *)
(* it stays listed until the fill takes it off, in a set that is reserved. *)
FreeMapSound ==
  /\ free \cap valid = {}
  /\ Way \ (valid \cup Taken) \subseteq free
  /\ ~EnMT => free \cap Taken = {}

(* FIFO and LRU are queues of the ways. *)
Order ==
  INSTANCE ReplaceOrder WITH
    order <- [i \in 1 .. NW |-> CHOOSE w \in Way : used[w] = i - 1],
    taken <- IF pending.kind \in {"record", "miss"} THEN pending.way ELSE NoWay,
    stage <- CASE pending.kind = "scan"   -> "full"
               [] pending.kind = "record" -> "taken"
               [] pending.kind = "miss"   -> "recorded"
               [] OTHER                   -> "none"
ImplementsQueue == Order!Spec
=============================================================================
