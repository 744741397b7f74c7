----------------------------- MODULE PendingXact -----------------------------
(***************************************************************************)
(* The finish protocol of the multi-threaded build: an inner port keeps    *)
(* the line that it grants locked, and its set reserved, until the inner   *)
(* cache sends a finish; in between, what has to be undone is remembered   *)
(* in a table of MSHR entries (PendingXact of util/multithread.hpp,        *)
(* acquire_resp and finish_resp of cache/coherence.hpp).                   *)
(*                                                                         *)
(* Each method of the table holds its mutex and is one step; finish_resp   *)
(* is several.  An entry is found by its key, the block and the coherence  *)
(* id of the requester.  All uncached caches have the id -1, and so have   *)
(* the prefetches of coherent ones.                                        *)
(*                                                                         *)
(* Its names are other than SetState's, which is about the same threads,   *)
(* so that one module can extend both.                                     *)
(***************************************************************************)
EXTENDS Integers

CONSTANTS
  Core,     \* the core threads; one acquire of each is under way at a time
  Id,       \* Id[t]: the coherence id of the cache through which t acquires
  Prefetch, \* Prefetch[t]: the blocks that t prefetches
  Addr,     \* cache blocks
  SetOf,    \* SetOf[a]: the cache set of a block
  Ways,     \* the ways of a set
  MSHR,     \* the entries of the table
  None      \* no entry, no way, nobody

ASSUME PendingAssumption ==
  /\ Id \in [Core -> Int]
  /\ Prefetch \in [Core -> SUBSET Addr]
  /\ MSHR \in Nat \ {0}
  /\ None \notin Core \cup Ways

CacheSet == {SetOf[a] : a \in Addr}
Line     == CacheSet \X Ways
Slot     == 1 .. MSHR

VARIABLES
  xact,     \* the table; the entry None is not valid
  where,    \* where[a]: the way of its set that holds block a, or None
  owner,    \* owner[l]: the thread that has locked line l, or None
  busy,     \* busy[s]: the thread that has reserved set s for an acquire, or None
  stage,    \* where each thread is
  own,      \* the entry that describes the acquire of a thread
  got       \* the entry that its finish_resp read

xactVars == <<xact, where, owner, busy, stage, own, got>>

Uncached == -1

Entry == [addr : Addr, id : {Id[t] : t \in Core} \cup {Uncached}, forward : BOOLEAN, line : Line]
ASSUME NoneIsNoEntry == None \notin Entry

Valid == {i \in Slot : xact[i] # None}

(* Mistake: the coherence id is not part of the key.                       *)
MatchesBlock(e) == {i \in Valid : xact[i].addr = e.addr}

(* find(): the first valid entry with that key.                            *)
Matches(e) == {i \in Valid : xact[i].addr = e.addr /\ xact[i].id = e.id}
First(slots) == CHOOSE i \in slots : \A j \in slots : i <= j

GoOn(t, label) == stage' = [stage EXCEPT ![t] = label]

XactInit ==
  /\ xact  = [i \in Slot |-> None]
  /\ where = [a \in Addr |-> None]
  /\ owner = [l \in Line |-> None]
  /\ busy  = [s \in CacheSet |-> None]
  /\ stage = [t \in Core |-> "idle"]
  /\ own   = [t \in Core |-> None]
  /\ got   = [t \in Core |-> None]

(* access_line: the set is reserved and a line locked, the one that holds  *)
(* the block or on a miss any, whose block is evicted.                     *)
AccessLine(t, a, w, id, forward) ==
  LET s == SetOf[a]
  IN  /\ stage[t] = "idle"
      /\ busy[s] = None /\ owner[<<s, w>>] = None
      /\ busy'  = [busy EXCEPT ![s] = t]
      /\ owner' = [owner EXCEPT ![<<s, w>>] = t]
      /\ where' = [b \in Addr |-> IF b = a THEN w
                                  ELSE IF SetOf[b] = s /\ where[b] = w THEN None
                                  ELSE where[b]]
      /\ own' = [own EXCEPT ![t] = [addr |-> a, id |-> id, forward |-> forward,
                                    line |-> <<s, w>>]]
      /\ GoOn(t, "record")
      /\ UNCHANGED <<xact, got>>

(* The finish of an acquire is to be forwarded unless the line was usable  *)
(* as it was.                                                              *)
Acquire(t, a, w, forward) ==
  /\ IF where[a] = None THEN forward ELSE w = where[a]
  /\ AccessLine(t, a, w, Id[t], forward)

(* prefetch_line fetches a block that is missing, for nobody.              *)
PrefetchLine(t, a, w) ==
  /\ a \in Prefetch[t]
  /\ where[a] = None
  /\ AccessLine(t, a, w, Uncached, TRUE)

(* Mistake: the first entry is taken, valid or not.                        *)
InsertFirst(t) ==
  /\ stage[t] = "record"
  /\ xact' = [xact EXCEPT ![1] = own[t]]
  /\ GoOn(t, "read")
  /\ UNCHANGED <<where, owner, busy, own, got>>

(* finish_record: insert() takes the first free entry.  When there is none *)
(* the index keeps its initial value, and the entry there is lost.         *)
Insert(t) ==
  /\ stage[t] = "record"
  /\ LET free == Slot \ Valid
         i    == IF free = {} THEN 1 ELSE First(free)
     IN  xact' = [xact EXCEPT ![i] = own[t]]
  /\ GoOn(t, "read")
  /\ UNCHANGED <<where, owner, busy, own, got>>

(* finish_resp, when the inner cache has sent its finish, or at once if it *)
(* is uncached or this is a prefetch: nothing is done when read() finds no *)
(* entry.                                                                  *)
Read(t) ==
  /\ stage[t] = "read"
  /\ LET found == Matches(own[t])
     IN  IF found = {}
         THEN GoOn(t, "idle") /\ UNCHANGED got
         ELSE GoOn(t, "unlock") /\ got' = [got EXCEPT ![t] = xact[First(found)]]
  /\ UNCHANGED <<xact, where, owner, busy, own>>

(* Mistake: a finish polls until it is the only one in the table.          *)
UnlockLast(t) ==
  /\ stage[t] = "unlock"
  /\ IF \E i \in Valid : xact[i] # own[t]
     THEN UNCHANGED <<owner, stage>>
     ELSE owner' = [owner EXCEPT ![got[t].line] = None] /\ GoOn(t, "reset")
  /\ UNCHANGED <<xact, where, busy, own, got>>

Unlock(t) ==
  /\ stage[t] = "unlock"
  /\ owner' = [owner EXCEPT ![got[t].line] = None]
  /\ GoOn(t, "reset")
  /\ UNCHANGED <<xact, where, busy, own, got>>

Reset(t) ==
  /\ stage[t] = "reset"
  /\ busy' = [busy EXCEPT ![got[t].line[1]] = None]
  /\ GoOn(t, "remove")
  /\ UNCHANGED <<xact, where, owner, own, got>>

Remove(t) ==
  /\ stage[t] = "remove"
  /\ LET found == Matches(own[t])
     IN  xact' = IF found = {} THEN xact ELSE [xact EXCEPT ![First(found)] = None]
  /\ GoOn(t, "forward")
  /\ UNCHANGED <<where, owner, busy, own, got>>

(* outer->finish_req(), if got says so, and the return to the core.        *)
Forward(t) ==
  /\ stage[t] = "forward"
  /\ GoOn(t, "idle")
  /\ own' = [own EXCEPT ![t] = None]
  /\ got' = [got EXCEPT ![t] = None]
  /\ UNCHANGED <<xact, where, owner, busy>>

Finishing(t) ==
  Insert(t) \/ Read(t) \/ Unlock(t) \/ Reset(t) \/ Remove(t) \/ Forward(t)

XactNext ==
  \E t \in Core :
    \/ \E a \in Addr, w \in Ways, forward \in BOOLEAN : Acquire(t, a, w, forward)
    \/ \E a \in Addr, w \in Ways : PrefetchLine(t, a, w)
    \/ Finishing(t)

(* A thread that has started an access goes on with it: finish_resp waits  *)
(* for nothing but the table's mutex.                                      *)
XactSpec == XactInit /\ [][XactNext]_xactVars /\ \A t \in Core : WF_xactVars(Finishing(t))

----------------------------------------------------------------------------
(* Properties. *)

Granted(t) == stage[t] \in {"read", "unlock"}

(* "Pending transaction queue for finish message overflow!" never happens: *)
(* the entry of a granted line is in the table until its finish comes.     *)
Recorded ==
  \A t \in Core : Granted(t) => \E i \in Slot : xact[i] = own[t]

(* A finish undoes its own acquire: what finish_resp() reads back is what  *)
(* that acquire recorded, so it forwards the finish if that one was a miss *)
(* and unlocks the line that its thread has locked.                        *)
OwnEntry == \A t \in Core : stage[t] = "unlock" => got[t] = own[t]

(* assert(p == lock_map[id].top()) of LockCheck::pop(): a thread unlocks   *)
(* no line but the one that it has locked.                                 *)
OwnLine == \A t \in Core : stage[t] = "unlock" => owner[got[t].line] = t

(* Every block that is granted becomes available again.                    *)
Available == \A l \in Line : owner[l] # None ~> owner[l] = None
=============================================================================
