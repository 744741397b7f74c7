---------------------------- MODULE MirageProofs ----------------------------
(***************************************************************************)
(* Proofs about Mirage, for any number of partitions, sets, ways and data  *)
(* slots, any index functions, and chains of any length: metadata and data *)
(* stay bound one to one, no block is duplicated, mixed up or lost, a      *)
(* block is where hit() looks for it, and the free maps are sound, that of *)
(* the metadata as long as a chain is too short to come back to a          *)
(* partition.                                                              *)
(***************************************************************************)
EXTENDS Mirage, FiniteSetTheorems, SequenceTheorems, WellFoundedInduction, TLAPS

Line == [addr : Addr \cup {None}, valid : BOOLEAN, dirty : BOOLEAN, slot : Slot \cup {None}]
Replacer(ways) == [free : SUBSET ways, alloc : ways \cup {None}]

TypeOK ==
  /\ meta \in [Entry -> Line]
  /\ dmeta \in [Slot -> Entry \cup {None}]
  /\ data \in [Slot -> Addr \cup {None}]
  /\ mrep \in [Set -> Replacer(MWay)]
  /\ drep \in [DataSet -> Replacer(DWay)]
  /\ up \subseteq Addr /\ mem \subseteq Addr

(* A block is in a set that hit() looks at, in a way the replacer knows.   *)
Placed ==
  \A e \in Entry :
    Valid(e) => /\ meta[e].addr \in Addr /\ meta[e].slot \in Slot
                /\ e[2] = MSet[e[1]][meta[e].addr] /\ e[3] \in MWay

(* hit() looks at one set of each partition, and finds a block there. *)
Findable == \A a \in Addr : \A e \in Where(a) : e[2] = MSet[e[1]][a]

Cleared == \A e \in Entry : ~Valid(e) => ~meta[e].dirty /\ meta[e].slot = None

(* The parts of ContentKept. *)
Unique     == \A e, f \in Entry : Valid(e) /\ Valid(f) /\ meta[e].addr = meta[f].addr => e = f
OwnContent == \A e \in Entry : Valid(e) => data[meta[e].slot] = meta[e].addr
LastKept   == \A a \in Addr : a \in up \cup mem \/ \E e \in Where(a) : meta[e].dirty
UpperHeld  == \A a \in up : Where(a) # {}

Lines == TypeOK /\ Placed /\ Cleared /\ Unique /\ Bound /\ OwnContent /\ LastKept /\ UpperHeld

(* The two free maps. *)
WaysFree  == \A x \in Set : mrep[x].free \subseteq {w \in MWay : ~Valid(<<x[1], x[2], w>>)}
FreeSlots(s) == {w \in DWay : dmeta[<<s, w>>] = None}
SlotsFree == \A s \in DataSet : drep[s] = [alloc |-> None, free |-> FreeSlots(s)]

(* The access under way.  Its chain is the stack and then at: each block   *)
(* of the stack is to move to the next entry, and the access's own block   *)
(* to the first.                                                           *)
InAccess ==
  /\ job \in [pc : {"search", "evict", "relocate", "fill"}, addr : Addr, write : BOOLEAN,
              at : Entry, stack : Seq(Entry), moved : SUBSET Addr]
  /\ job.at[3] \in MWay
  /\ Where(job.addr) = {}

Chain(a, at, stack) ==
  /\ Len(stack) <= MaxRelocN
  /\ \A i \in 1 .. Len(stack) : Valid(stack[i]) /\ stack[i] # at
  /\ \A i, j \in 1 .. Len(stack) : stack[i] = stack[j] => i = j
  /\ \A i \in 1 .. Len(stack) : SetOf(IF i = Len(stack) THEN at ELSE stack[i + 1]) = Target(stack[i])
  /\ LET first == IF stack = <<>> THEN at ELSE stack[1]
     IN  first[2] = MSet[first[1]][a]

(* Where cuckoo_search() is in the chain that it makes, and                *)
(* cuckoo_relocate() in the one that it takes back.                        *)
Phase ==
  /\ job.pc = "search" => job.moved = {meta[job.stack[i]].addr : i \in 1 .. Len(job.stack)}
  /\ job.pc \in {"relocate", "fill"} => ~Valid(job.at)
  /\ job.pc = "fill" => job.stack = <<>>

(* The partition that comes n after partition 0. *)
Wrap(n) == IF n < P THEN n ELSE n - P

(* The replacer's record of set SetOf(e) is that e is allocated.           *)
IsAllocated(e) == mrep[SetOf(e)].alloc = e[3] /\ e[3] \notin mrep[SetOf(e)].free

(* From p on, a chain goes through one partition after the other.          *)
Spread(p, at, stack) ==
  /\ \A i \in 1 .. Len(stack) : stack[i][1] = Wrap(p + i - 1)
  /\ at[1] = Wrap(p + Len(stack))

(* A chain that is spread, all of it still allocated.                      *)
Apart(at, stack) ==
  /\ \E p \in Part : Spread(p, at, stack)
  /\ IsAllocated(at)
  /\ \A i \in 1 .. Len(stack) : IsAllocated(stack[i])

Access == InAccess /\ Chain(job.addr, job.at, job.stack) /\ Phase

Short == MaxRelocN < P

IInv ==
  /\ Lines
  /\ SlotsFree
  /\ job = Idle \/ Access
  /\ Short => WaysFree /\ (job = Idle \/ Apart(job.at, job.stack))

-----------------------------------------------------------------------------
(* Entries, sets and slots. *)

LEMMA EntryParts ==
  ASSUME NEW e \in Entry
  PROVE  /\ e = <<e[1], e[2], e[3]>>
         /\ SetOf(e) \in Set /\ SetOf(e)[1] = e[1] /\ SetOf(e)[2] = e[2]
         /\ e[1] \in Part
         /\ e # None
<1>1. PICK x \in Set, w \in 0 .. NW + EW - 1 : e = <<x[1], x[2], w>>
  BY DEF Entry
<1>2. PICK p \in Part, a \in Addr : x = <<p, MSet[p][a]>>
  BY DEF Set
<1> QED BY <1>1, <1>2, NoneIsNoPlace DEF SetOf, Set

(* A way of a set is an entry. *)
LEMMA WayOfSet ==
  ASSUME NEW x \in Set, NEW w \in MWay
  PROVE  /\ <<x[1], x[2], w>> \in Entry
         /\ SetOf(<<x[1], x[2], w>>) = x
         /\ x[1] \in Part
<1>1. PICK p \in Part, a \in Addr : x = <<p, MSet[p][a]>>
  BY DEF Set
<1>2. w \in 0 .. NW + EW - 1
  BY MirageAssumption DEF MWay
<1> QED BY <1>1, <1>2 DEF Entry, SetOf

LEMMA SameEntry ==
  ASSUME NEW e \in Entry, NEW f \in Entry, SetOf(e) = SetOf(f), e[3] = f[3]
  PROVE  e = f
BY EntryParts

LEMMA SlotParts ==
  ASSUME NEW d \in Slot
  PROVE  d = <<d[1], d[2]>> /\ d[1] \in DataSet /\ d[2] \in DWay /\ d # None
BY NoneIsNoPlace DEF Slot

LEMMA Ways == MWay \subseteq Nat /\ DWay \subseteq Nat
BY DEF MWay, DWay

(* replace() takes a way of the set. *)
LEMMA VictimIsWay ==
  ASSUME NEW ways \in SUBSET Nat, NEW r \in Replacer(ways), NEW w \in Victims(r, ways)
  PROVE  w \in ways
<1> DEFINE R == OpToRel(<, Nat)
<1>0. r.free \subseteq ways /\ r.free \subseteq Nat
  BY DEF Replacer
<1>1. CASE r.free = {}
  BY <1>1 DEF Victims
<1>2. CASE r.free # {}
  <2>1. PICK i \in r.free : \A j \in r.free : <<j, i>> \notin R
    <3> HIDE DEF R
    <3>1. IsWellFoundedOn(R, Nat)
      BY NatLessThanWellFounded DEF R
    <3> QED BY <1>0, <1>2, <3>1, WFMin
  <2>2. \A j \in r.free : <<j, i>> \in R <=> j < i
    BY <1>0 DEF OpToRel
  <2> HIDE DEF R
  <2>3. ASSUME NEW j \in r.free
        PROVE  i <= j
    <3>1. ~(j < i)
      BY <2>1, <2>2
    <3>2. i \in Nat /\ j \in Nat
      BY <1>0
    <3> QED BY <3>1, <3>2
  <2>4. w \in r.free
    BY <1>2, <2>3 DEF Victims
  <2> QED BY <1>0, <2>4
<1> QED BY <1>1, <1>2

(* What the hooks do to the record of a set. *)
LEMMA Hooks ==
  ASSUME NEW ways, NEW r \in Replacer(ways), NEW w \in ways, None \notin ways
  PROVE  /\ Allocated(r, w) \in Replacer(ways)
         /\ Allocated(r, w).alloc = w /\ Allocated(r, w).free = r.free \ {w}
         /\ Accessed(r, w) \in Replacer(ways)
         /\ Accessed(r, w).free = r.free
         /\ Accessed(r, w).alloc # w
         /\ r.alloc # w => Accessed(r, w) = r
         /\ Invalid(r, w) \in Replacer(ways)
         /\ Invalid(r, w).free \subseteq r.free \cup {w}
         /\ r.alloc = w => Invalid(r, w) = r
         /\ Invalid(r, w).alloc = r.alloc
BY DEF Replacer, Allocated, Accessed, Invalid

-----------------------------------------------------------------------------
(* The next set of a chain. *)

(* It is in another partition.                                             *)
LEMMA NextPartition ==
  ASSUME NEW p \in Part
  PROVE  /\ (p + 1) % P \in Part
         /\ (p + 1) % P = IF p + 1 = P THEN 0 ELSE p + 1
         /\ (p + 1) % P # p
<1>1. P \in Nat /\ P > 1 /\ p \in 0 .. P - 1
  BY MirageAssumption DEF Part
<1>2. CASE p + 1 = P
  BY <1>1, <1>2 DEF Part
<1>3. CASE p + 1 < P
  <2>1. (p + 1) % P = p + 1
    BY <1>1, <1>3
  <2> QED BY <1>1, <1>3, <2>1 DEF Part
<1> QED BY <1>1, <1>2, <1>3

LEMMA TargetSet ==
  ASSUME Placed, NEW e \in Entry, Valid(e)
  PROVE  /\ Target(e) \in Set
         /\ Target(e)[1] = (e[1] + 1) % P
         /\ Target(e)[2] = MSet[Target(e)[1]][meta[e].addr]
         /\ Target(e) # SetOf(e)
<1>1. e[1] \in Part
  BY EntryParts
<1>2. (e[1] + 1) % P \in Part /\ (e[1] + 1) % P # e[1]
  BY <1>1, NextPartition
<1>3. meta[e].addr \in Addr
  BY DEF Placed
<1> QED BY <1>2, <1>3 DEF Target, Set, SetOf

(* The partitions of a short chain. *)
LEMMA WrapNext ==
  ASSUME NEW p \in Part, NEW n \in Nat, n < P
  PROVE  /\ Wrap(p + n) \in Part
         /\ n + 1 < P => (Wrap(p + n) + 1) % P = Wrap(p + n + 1)
<1>1. P \in Nat /\ P > 1 /\ p \in 0 .. P - 1
  BY MirageAssumption DEF Part
<1>2. Wrap(p + n) \in Part
  BY <1>1 DEF Wrap, Part
<1>3. (Wrap(p + n) + 1) % P = IF Wrap(p + n) + 1 = P THEN 0 ELSE Wrap(p + n) + 1
  BY <1>2, NextPartition
<1> QED BY <1>1, <1>2, <1>3 DEF Wrap, Part

LEMMA WrapApart ==
  ASSUME NEW p \in Part, NEW i \in Nat, NEW j \in Nat, i < P, j < P, Wrap(p + i) = Wrap(p + j)
  PROVE  i = j
<1>1. P \in Nat /\ P > 1 /\ p \in 0 .. P - 1
  BY MirageAssumption DEF Part
<1> QED BY <1>1 DEF Wrap

-----------------------------------------------------------------------------
(* The lines. *)

LEMMA LineOf ==
  ASSUME TypeOK, NEW e \in Entry
  PROVE  /\ meta[e] = [addr |-> meta[e].addr, valid |-> meta[e].valid,
                       dirty |-> meta[e].dirty, slot |-> meta[e].slot]
         /\ meta[e].addr \in Addr \cup {None} /\ meta[e].slot \in Slot \cup {None}
         /\ meta[e].valid \in BOOLEAN /\ meta[e].dirty \in BOOLEAN
BY DEF TypeOK, Line

(* What to_invalid() leaves of a line. *)
LEMMA Invalidated ==
  ASSUME NEW m \in Line
  PROVE  /\ ToInvalid(m) \in Line
         /\ ~ToInvalid(m).valid /\ ~ToInvalid(m).dirty
         /\ ToInvalid(m).slot = None /\ ToInvalid(m).addr = m.addr
BY DEF ToInvalid, Line

(* Valid entries have slots of their own. *)
LEMMA OwnSlot ==
  ASSUME Placed, Bound, NEW e \in Entry, NEW f \in Entry, Valid(e), Valid(f),
         meta[e].slot = meta[f].slot
  PROVE  e = f
BY DEF Bound

(* The slot that the data replacer chose has the entry that it points at.  *)
LEMMA EntryOfSlot ==
  ASSUME Lines, NEW d \in Slot, dmeta[d] # None
  PROVE  dmeta[d] \in Entry /\ Valid(dmeta[d]) /\ meta[dmeta[d]].slot = d
<1>1. dmeta[d] \in Entry /\ meta[dmeta[d]].slot = d
  BY DEF Lines, TypeOK, Bound
<1> QED BY <1>1, SlotParts DEF Lines, Cleared

(* The last content of a block in no entry is in the memory. *)
LEMMA AbsentInMemory ==
  ASSUME Lines, NEW a \in Addr, Where(a) = {}
  PROVE  a \in mem /\ a \notin up
BY DEF Lines, LastKept, UpperHeld

(* That of one in an entry that is clean below clean L1s is, too.          *)
LEMMA CleanInMemory ==
  ASSUME Lines, NEW e \in Entry, Valid(e), ~meta[e].dirty, meta[e].addr \notin up
  PROVE  meta[e].addr \in mem
<1>1. meta[e].addr \in Addr
  BY DEF Lines, Placed
<1>2. \A f \in Where(meta[e].addr) : f = e
  BY DEF Where, Lines, Unique
<1> QED BY <1>1, <1>2 DEF Lines, LastKept

(* An eviction writes what is the last content.                            *)
LEMMA EvictionSaves ==
  ASSUME Lines, NEW e \in Entry, Valid(e)
  PROVE  MemAfter(e, meta[e].slot) = mem \cup {meta[e].addr}
<1>1. data[meta[e].slot] = meta[e].addr
  BY DEF Lines, OwnContent
<1>2. ~meta[e].dirty /\ meta[e].addr \notin up => mem = mem \cup {meta[e].addr}
  BY CleanInMemory
<1> QED BY <1>1, <1>2 DEF MemAfter

(* A free map that is exact stays so. *)
LEMMA FreedWay ==
  ASSUME NEW S, NEW w, w # None
  PROVE  Invalid([alloc |-> None, free |-> S], w) = [alloc |-> None, free |-> S \cup {w}]
BY DEF Invalid

LEMMA FilledWay ==
  ASSUME NEW S, NEW w
  PROVE  Accessed(Allocated([alloc |-> None, free |-> S], w), w) = [alloc |-> None, free |-> S \ {w}]
BY DEF Accessed, Allocated

-----------------------------------------------------------------------------
(* Flush and Evict: an entry and its slot are given up.                    *)

(* What is left of the other entries and replacers. *)
Without(e) ==
  /\ \A f \in Entry : f # e => meta'[f] = meta[f]
  /\ meta'[e] = ToInvalid(meta[e])
  /\ \A x \in Set : mrep'[x] = IF x = SetOf(e) THEN Invalid(mrep[x], e[3]) ELSE mrep[x]

LEMMA DroppedLines ==
  ASSUME Lines, SlotsFree, NEW e \in Entry, Valid(e), Dropped(e, meta[e].slot), data' = data
  PROVE  Lines' /\ SlotsFree' /\ Without(e)
<1> DEFINE d == meta[e].slot
           a == meta[e].addr
<1>0. TypeOK /\ Placed /\ Cleared /\ Unique /\ Bound /\ OwnContent /\ LastKept /\ UpperHeld
  BY DEF Lines
<1>1. /\ d \in Slot /\ d # None /\ d = <<d[1], d[2]>> /\ d[1] \in DataSet /\ d[2] \in DWay
      /\ a \in Addr /\ e[3] \in MWay /\ SetOf(e) \in Set
  BY <1>0, SlotParts, EntryParts DEF Placed
<1>2. \A f \in Entry : meta'[f] = IF f = e THEN ToInvalid(meta[e]) ELSE meta[f]
  BY <1>0 DEF Dropped, TypeOK
<1>3. \A c \in Slot : dmeta'[c] = IF c = d THEN None ELSE dmeta[c]
  BY <1>0, <1>1 DEF Dropped, TypeOK
<1>4. Without(e)
  BY <1>0, <1>1, <1>2 DEF Without, Dropped, TypeOK
<1>5. \A s \in DataSet : drep'[s] = IF s = d[1] THEN Invalid(drep[s], d[2]) ELSE drep[s]
  BY <1>0, <1>1 DEF Dropped, TypeOK
<1>6. mem' = mem \cup {a} /\ up' = up \ {a}
  BY <1>0, EvictionSaves DEF Dropped, Lines
<1>7. dmeta[d] = e
  BY <1>0, <1>1 DEF Bound
<1>8. meta[e] \in Line /\ ~ToInvalid(meta[e]).valid /\ ~ToInvalid(meta[e]).dirty
      /\ ToInvalid(meta[e]).slot = None /\ ToInvalid(meta[e]) \in Line
  BY <1>0, Invalidated DEF TypeOK
<1>9. \A f \in Entry : Valid(f)' <=> Valid(f) /\ f # e
  BY <1>2, <1>8 DEF Valid
<1>10. TypeOK'
  <2>1. meta' \in [Entry -> Line]
    BY <1>0, <1>8 DEF TypeOK, Dropped
  <2>2. dmeta' \in [Slot -> Entry \cup {None}]
    BY <1>0 DEF TypeOK, Dropped
  <2>3. mrep' \in [Set -> Replacer(MWay)]
    <3>1. mrep[SetOf(e)] \in Replacer(MWay) /\ None \notin MWay
      BY <1>0, <1>1, NoneIsNoPlace DEF TypeOK
    <3>2. Invalid(mrep[SetOf(e)], e[3]) \in Replacer(MWay)
      BY <1>1, <3>1, Hooks
    <3> QED BY <1>0, <1>1, <3>2 DEF TypeOK, Dropped
  <2>4. drep' \in [DataSet -> Replacer(DWay)]
    <3>1. drep[d[1]] \in Replacer(DWay) /\ None \notin DWay
      BY <1>0, <1>1, NoneIsNoPlace DEF TypeOK
    <3>2. Invalid(drep[d[1]], d[2]) \in Replacer(DWay)
      BY <1>1, <3>1, Hooks
    <3> QED BY <1>0, <1>1, <3>2 DEF TypeOK, Dropped
  <2> QED BY <1>0, <1>1, <1>6, <2>1, <2>2, <2>3, <2>4 DEF TypeOK
<1>11. Placed'
  BY <1>0, <1>2, <1>9 DEF Placed
<1>12. Cleared'
  BY <1>0, <1>2, <1>8, <1>9 DEF Cleared
<1>13. Unique'
  BY <1>0, <1>2, <1>9 DEF Unique
<1>14. Bound'
  <2>1. ASSUME NEW f \in Entry, Valid(f)'
        PROVE  dmeta'[meta'[f].slot] = f
    <3>1. Valid(f) /\ f # e /\ meta'[f] = meta[f] /\ meta[f].slot \in Slot
      BY <1>0, <1>2, <1>9, <2>1 DEF Placed
    <3>2. meta[f].slot # d
      BY <1>0, <3>1, OwnSlot
    <3> QED BY <1>0, <1>3, <3>1, <3>2 DEF Bound
  <2>2. ASSUME NEW c \in Slot, dmeta'[c] # None
        PROVE  meta'[dmeta'[c]].slot = c
    <3>1. c # d /\ dmeta'[c] = dmeta[c] /\ dmeta[c] # None
      BY <1>3, <2>2
    <3>2. dmeta[c] \in Entry /\ meta[dmeta[c]].slot = c
      BY <1>0, <3>1 DEF Bound, TypeOK
    <3> QED BY <1>2, <3>1, <3>2
  <2> QED BY <2>1, <2>2 DEF Bound
<1>15. OwnContent'
  BY <1>0, <1>2, <1>9 DEF OwnContent
<1>16. LastKept'
  <2>1. ASSUME NEW b \in Addr, b \notin up' \cup mem'
        PROVE  \E f \in Where(b)' : meta'[f].dirty
    <3>1. b # a /\ b \notin up \cup mem
      BY <1>6, <2>1
    <3>2. PICK f \in Where(b) : meta[f].dirty
      BY <1>0, <3>1 DEF LastKept
    <3>3. f \in Entry /\ Valid(f) /\ f # e /\ meta[f].addr = b
      BY <3>1, <3>2 DEF Where
    <3>4. f \in Where(b)'
      BY <1>2, <1>9, <3>3 DEF Where
    <3> QED BY <1>2, <3>2, <3>3, <3>4
  <2> QED BY <2>1 DEF LastKept
<1>17. UpperHeld'
  <2>1. ASSUME NEW b \in up'
        PROVE  Where(b)' # {}
    <3>1. b # a /\ b \in up
      BY <1>6, <2>1
    <3>2. PICK f \in Where(b) : TRUE
      BY <1>0, <3>1 DEF UpperHeld
    <3>3. f \in Where(b)'
      BY <1>2, <1>9, <3>1, <3>2 DEF Where
    <3> QED BY <3>3
  <2> QED BY <2>1 DEF UpperHeld
<1>18. SlotsFree'
  <2>1. ASSUME NEW s \in DataSet
        PROVE  drep'[s] = [alloc |-> None, free |-> FreeSlots(s)']
    <3>1. drep[s] = [alloc |-> None, free |-> FreeSlots(s)]
      BY DEF SlotsFree
    <3>2. \A w \in DWay : <<s, w>> \in Slot
      BY DEF Slot
    <3>3. CASE s = d[1]
      <4>1. d[2] # None
        BY <1>1, NoneIsNoPlace
      <4>2. drep'[s] = [alloc |-> None, free |-> FreeSlots(s) \cup {d[2]}]
        BY <1>5, <3>1, <3>3, <4>1, FreedWay
      <4>3. \A w \in DWay : dmeta'[<<s, w>>] = IF w = d[2] THEN None ELSE dmeta[<<s, w>>]
        BY <1>1, <1>3, <3>2, <3>3
      <4>4. FreeSlots(s)' = FreeSlots(s) \cup {d[2]}
        BY <1>1, <4>3 DEF FreeSlots
      <4> QED BY <4>2, <4>4
    <3>4. CASE s # d[1]
      <4>1. \A w \in DWay : dmeta'[<<s, w>>] = dmeta[<<s, w>>]
        BY <1>1, <1>3, <3>2, <3>4
      <4>2. FreeSlots(s)' = FreeSlots(s)
        BY <4>1 DEF FreeSlots
      <4> QED BY <1>5, <3>1, <3>4, <4>2
    <3> QED BY <3>3, <3>4
  <2> QED BY <2>1 DEF SlotsFree
<1> QED BY <1>4, <1>10, <1>11, <1>12, <1>13, <1>14, <1>15, <1>16, <1>17, <1>18 DEF Lines

-----------------------------------------------------------------------------
(* The other calls that change lines. *)

LEMMA HitLines ==
  ASSUME Lines, SlotsFree, NEW a \in Addr, NEW write \in BOOLEAN, Hit(a, write)
  PROVE  /\ Lines' /\ SlotsFree'
         /\ \A f \in Entry : Valid(f)' <=> Valid(f)
         /\ \A x \in Set : mrep'[x].free = mrep[x].free
<1>0. TypeOK /\ Placed /\ Cleared /\ Unique /\ Bound /\ OwnContent /\ LastKept /\ UpperHeld
  BY DEF Lines
<1>1. PICK e \in Where(a) :
        /\ meta' = [meta EXCEPT ![e].dirty = @ \/ a \in up]
        /\ data' = IF a \in up THEN [data EXCEPT ![meta[e].slot] = a] ELSE data
        /\ mrep' = [mrep EXCEPT ![SetOf(e)] = Accessed(@, e[3])]
  BY DEF Hit
<1>2. /\ up' = IF write THEN up \cup {a} ELSE up \ {a}
      /\ mem' = IF write THEN mem \ {a} ELSE mem
      /\ dmeta' = dmeta /\ drep' = drep
  BY DEF Hit
<1>3. e \in Entry /\ Valid(e) /\ meta[e].addr = a
  BY DEF Where
<1>4. e[3] \in MWay /\ SetOf(e) \in Set /\ meta[e].slot \in Slot /\ data[meta[e].slot] = a
  BY <1>0, <1>3, EntryParts DEF Placed, OwnContent
<1>5. data' = data
  BY <1>0, <1>1, <1>4 DEF TypeOK
<1>6. /\ \A f \in Entry : f # e => meta'[f] = meta[f]
      /\ meta'[e] = [meta[e] EXCEPT !.dirty = @ \/ a \in up]
  BY <1>0, <1>1, <1>3 DEF TypeOK
<1>7. /\ meta'[e] \in Line /\ meta'[e].addr = meta[e].addr /\ meta'[e].valid = meta[e].valid
      /\ meta'[e].slot = meta[e].slot /\ (meta'[e].dirty <=> meta[e].dirty \/ a \in up)
  <2>1. meta[e] \in Line
    BY <1>0, <1>3 DEF TypeOK
  <2> QED BY <1>6, <2>1 DEF Line
<1>8. \A f \in Entry : /\ meta'[f].addr = meta[f].addr /\ meta'[f].slot = meta[f].slot
                       /\ Valid(f)' <=> Valid(f)
                       /\ meta[f].dirty => meta'[f].dirty
                       /\ f # e => meta'[f].dirty = meta[f].dirty
  BY <1>6, <1>7 DEF Valid
<1>9. mrep' \in [Set -> Replacer(MWay)] /\ \A x \in Set : mrep'[x].free = mrep[x].free
  <2>1. mrep[SetOf(e)] \in Replacer(MWay) /\ None \notin MWay
    BY <1>0, <1>4, NoneIsNoPlace DEF TypeOK
  <2>2. /\ Accessed(mrep[SetOf(e)], e[3]) \in Replacer(MWay)
        /\ Accessed(mrep[SetOf(e)], e[3]).free = mrep[SetOf(e)].free
    BY <1>4, <2>1, Hooks
  <2> QED BY <1>0, <1>1, <1>4, <2>2 DEF TypeOK
<1>10. TypeOK'
  <2>1. meta' \in [Entry -> Line]
    BY <1>0, <1>1, <1>6, <1>7 DEF TypeOK
  <2> QED BY <1>0, <1>2, <1>5, <1>9, <2>1 DEF TypeOK
<1>11. Placed' /\ Cleared' /\ Unique' /\ OwnContent'
  <2>1. Placed' /\ Unique' /\ OwnContent'
    BY <1>0, <1>5, <1>8 DEF Placed, Unique, OwnContent
  <2>2. Cleared'
    BY <1>0, <1>3, <1>8 DEF Cleared
  <2> QED BY <2>1, <2>2
<1>12. Bound'
  <2>1. \A c \in Slot : dmeta[c] # None => dmeta[c] \in Entry
    BY <1>0 DEF TypeOK
  <2> QED BY <1>0, <1>2, <1>8, <2>1 DEF Bound
<1>13. \A b \in Addr : Where(b)' = Where(b)
  BY <1>8 DEF Where
<1>14. LastKept'
  <2>1. ASSUME NEW b \in Addr, b \notin up' \cup mem'
        PROVE  \E f \in Where(b)' : meta'[f].dirty
    <3>1. CASE b = a
      <4>1. ~write /\ a \notin mem
        BY <1>2, <2>1, <3>1
      <4>2. CASE a \in up
        BY <1>1, <1>7, <1>13, <3>1, <4>2
      <4>3. CASE a \notin up
        BY <1>0, <1>8, <1>13, <3>1, <4>1, <4>3 DEF LastKept, Where
      <4> QED BY <4>2, <4>3
    <3>2. CASE b # a
      <4>1. b \notin up \cup mem
        BY <1>2, <2>1, <3>2
      <4> QED BY <1>0, <1>8, <1>13, <4>1 DEF LastKept, Where
    <3> QED BY <3>1, <3>2
  <2> QED BY <2>1 DEF LastKept
<1>15. UpperHeld'
  <2>1. \A b \in up' : b \in up \/ b = a
    BY <1>2
  <2>2. up \subseteq Addr
    BY <1>0 DEF TypeOK
  <2> QED BY <1>0, <1>1, <1>13, <2>1, <2>2 DEF UpperHeld
<1>16. SlotsFree'
  BY <1>2 DEF SlotsFree, FreeSlots
<1> QED BY <1>8, <1>9, <1>10, <1>11, <1>12, <1>14, <1>15, <1>16 DEF Lines

LEMMA ReleaseLines ==
  ASSUME Lines, SlotsFree, NEW a \in Addr, Release(a)
  PROVE  /\ Lines' /\ SlotsFree'
         /\ \A f \in Entry : Valid(f)' <=> Valid(f)
         /\ mrep' = mrep
<1>0. TypeOK /\ Placed /\ Cleared /\ Unique /\ Bound /\ OwnContent /\ LastKept /\ UpperHeld
  BY DEF Lines
<1>1. PICK e \in Where(a) : /\ meta' = [meta EXCEPT ![e].dirty = TRUE]
                            /\ data' = [data EXCEPT ![meta[e].slot] = a]
  BY DEF Release
<1>2. up' = up \ {a} /\ mem' = mem /\ dmeta' = dmeta /\ drep' = drep /\ mrep' = mrep
  BY DEF Release
<1>3. e \in Entry /\ Valid(e) /\ meta[e].addr = a
  BY DEF Where
<1>4. meta[e].slot \in Slot /\ data[meta[e].slot] = a
  BY <1>0, <1>3 DEF Placed, OwnContent
<1>5. data' = data
  BY <1>0, <1>1, <1>4 DEF TypeOK
<1>6. /\ \A f \in Entry : f # e => meta'[f] = meta[f]
      /\ meta'[e] = [meta[e] EXCEPT !.dirty = TRUE]
  BY <1>0, <1>1, <1>3 DEF TypeOK
<1>7. /\ meta'[e] \in Line /\ meta'[e].addr = meta[e].addr /\ meta'[e].valid = meta[e].valid
      /\ meta'[e].slot = meta[e].slot /\ meta'[e].dirty
  <2>1. meta[e] \in Line
    BY <1>0, <1>3 DEF TypeOK
  <2> QED BY <1>6, <2>1 DEF Line
<1>8. \A f \in Entry : /\ meta'[f].addr = meta[f].addr /\ meta'[f].slot = meta[f].slot
                       /\ Valid(f)' <=> Valid(f)
                       /\ meta[f].dirty => meta'[f].dirty
                       /\ f # e => meta'[f].dirty = meta[f].dirty
  BY <1>6, <1>7 DEF Valid
<1>9. TypeOK'
  <2>1. meta' \in [Entry -> Line]
    BY <1>0, <1>1, <1>6, <1>7 DEF TypeOK
  <2> QED BY <1>0, <1>2, <1>5, <2>1 DEF TypeOK
<1>10. Placed' /\ Cleared' /\ Unique' /\ OwnContent'
  <2>1. Placed' /\ Unique' /\ OwnContent'
    BY <1>0, <1>5, <1>8 DEF Placed, Unique, OwnContent
  <2>2. Cleared'
    BY <1>0, <1>3, <1>8 DEF Cleared
  <2> QED BY <2>1, <2>2
<1>11. Bound'
  <2>1. \A c \in Slot : dmeta[c] # None => dmeta[c] \in Entry
    BY <1>0 DEF TypeOK
  <2> QED BY <1>0, <1>2, <1>8, <2>1 DEF Bound
<1>12. \A b \in Addr : Where(b)' = Where(b)
  BY <1>8 DEF Where
<1>13. LastKept'
  <2>1. ASSUME NEW b \in Addr, b \notin up' \cup mem'
        PROVE  \E f \in Where(b)' : meta'[f].dirty
    <3>1. CASE b = a
      BY <1>1, <1>7, <1>12, <3>1
    <3>2. CASE b # a
      <4>1. b \notin up \cup mem
        BY <1>2, <2>1, <3>2
      <4> QED BY <1>0, <1>8, <1>12, <4>1 DEF LastKept, Where
    <3> QED BY <3>1, <3>2
  <2> QED BY <2>1 DEF LastKept
<1>14. UpperHeld'
  <2>1. up \subseteq Addr
    BY <1>0 DEF TypeOK
  <2> QED BY <1>0, <1>2, <1>12, <2>1 DEF UpperHeld
<1>15. SlotsFree'
  BY <1>2 DEF SlotsFree, FreeSlots
<1> QED BY <1>2, <1>8, <1>9, <1>10, <1>11, <1>13, <1>14, <1>15 DEF Lines

-----------------------------------------------------------------------------
(* A turn of cuckoo_relocate(). *)

(* The records of the replacers after a block has moved. *)
RepAfter(from, to, x) ==
  LET r == IF x = SetOf(from) THEN Invalid(mrep[x], from[3]) ELSE mrep[x]
  IN  IF x = SetOf(to) THEN Accessed(r, to[3]) ELSE r

Moves(from, to) ==
  /\ meta' = Relocated(from, to)
  /\ dmeta' = [dmeta EXCEPT ![meta[from].slot] = to]
  /\ mrep' = [x \in Set |-> RepAfter(from, to, x)]
  /\ UNCHANGED <<data, drep, up, mem>>

LEMMA MovedLines ==
  ASSUME Lines, SlotsFree, NEW from \in Entry, NEW to \in Entry,
         Valid(from), ~Valid(to), to[3] \in MWay, SetOf(to) = Target(from), Moves(from, to)
  PROVE  /\ Lines' /\ SlotsFree'
         /\ meta'[to] = meta[from] /\ meta'[from] = ToInvalid(meta[from])
         /\ \A f \in Entry : f # from /\ f # to => meta'[f] = meta[f]
<1> DEFINE d == meta[from].slot
           a == meta[from].addr
<1>0. TypeOK /\ Placed /\ Cleared /\ Unique /\ Bound /\ OwnContent /\ LastKept /\ UpperHeld
  BY DEF Lines
<1>1. /\ d \in Slot /\ d # None /\ d = <<d[1], d[2]>> /\ d[1] \in DataSet /\ d[2] \in DWay
      /\ a \in Addr /\ from[3] \in MWay /\ SetOf(from) \in Set /\ SetOf(to) \in Set
      /\ from # to
  BY <1>0, SlotParts, EntryParts DEF Placed
<1>2. /\ meta'[to] = meta[from] /\ meta'[from] = ToInvalid(meta[from])
      /\ \A f \in Entry : f # from /\ f # to => meta'[f] = meta[f]
  BY <1>0, <1>1 DEF Moves, Relocated, TypeOK
<1>3. \A c \in Slot : dmeta'[c] = IF c = d THEN to ELSE dmeta[c]
  BY <1>0, <1>1 DEF Moves, TypeOK
<1>4. meta[from] \in Line /\ ~ToInvalid(meta[from]).valid /\ ~ToInvalid(meta[from]).dirty
      /\ ToInvalid(meta[from]).slot = None /\ ToInvalid(meta[from]) \in Line
  BY <1>0, Invalidated DEF TypeOK
<1>5. Valid(to)' /\ ~Valid(from)' /\ \A f \in Entry : f # from /\ f # to => (Valid(f)' <=> Valid(f))
  BY <1>2, <1>4 DEF Valid
<1>6. data' = data /\ drep' = drep /\ up' = up /\ mem' = mem
  BY DEF Moves
<1>7. dmeta[d] = from
  BY <1>0, <1>1 DEF Bound
<1>8. TypeOK'
  <2>1. meta' \in [Entry -> Line]
    <3>1. meta' = [meta EXCEPT ![to] = meta[from], ![from] = ToInvalid(@)]
      BY DEF Moves, Relocated
    <3>2. \A f \in Entry : meta'[f] \in Line
      BY <1>0, <1>2, <1>4 DEF TypeOK
    <3> QED BY <1>0, <3>1, <3>2 DEF TypeOK
  <2>2. dmeta' \in [Slot -> Entry \cup {None}]
    BY <1>0 DEF TypeOK, Moves
  <2>3. mrep' \in [Set -> Replacer(MWay)]
    <3>1. ASSUME NEW x \in Set
          PROVE  RepAfter(from, to, x) \in Replacer(MWay)
      <4>1. mrep[x] \in Replacer(MWay) /\ None \notin MWay
        BY <1>0, NoneIsNoPlace DEF TypeOK
      <4> DEFINE r == IF x = SetOf(from) THEN Invalid(mrep[x], from[3]) ELSE mrep[x]
      <4>2. r \in Replacer(MWay)
        BY <1>1, <4>1, Hooks
      <4>3. Accessed(r, to[3]) \in Replacer(MWay)
        <5> HIDE DEF r
        <5> QED BY <4>1, <4>2, Hooks
      <4> QED BY <4>2, <4>3 DEF RepAfter
    <3> QED BY <3>1 DEF Moves
  <2> QED BY <1>0, <1>6, <2>1, <2>2, <2>3 DEF TypeOK
<1>9. Placed'
  <2>1. Target(from)[1] = to[1] /\ Target(from)[2] = to[2]
    BY EntryParts
  <2>2. to[2] = MSet[to[1]][a]
    BY <1>0, <2>1, TargetSet
  <2> QED BY <1>0, <1>1, <1>2, <1>5, <2>2 DEF Placed
<1>10. Cleared'
  BY <1>0, <1>2, <1>4, <1>5 DEF Cleared
<1>11. Unique'
  <2>1. \A f \in Entry : Valid(f) /\ meta[f].addr = a => f = from
    BY <1>0 DEF Unique
  <2> QED BY <1>0, <1>2, <1>5, <2>1 DEF Unique
<1>12. Bound'
  <2>1. ASSUME NEW f \in Entry, Valid(f)'
        PROVE  dmeta'[meta'[f].slot] = f
    <3>1. CASE f = to
      BY <1>1, <1>2, <1>3, <3>1
    <3>2. CASE f # to
      <4>1. Valid(f) /\ f # from /\ meta'[f] = meta[f] /\ meta[f].slot \in Slot
        BY <1>0, <1>2, <1>5, <2>1, <3>2 DEF Placed
      <4>2. meta[f].slot # d
        BY <1>0, <4>1, OwnSlot
      <4> QED BY <1>0, <1>3, <4>1, <4>2 DEF Bound
    <3> QED BY <3>1, <3>2
  <2>2. ASSUME NEW c \in Slot, dmeta'[c] # None
        PROVE  meta'[dmeta'[c]].slot = c
    <3>1. CASE c = d
      BY <1>2, <1>3, <3>1
    <3>2. CASE c # d
      <4>1. dmeta'[c] = dmeta[c] /\ dmeta[c] # None
        BY <1>3, <2>2, <3>2
      <4>2. dmeta[c] \in Entry /\ Valid(dmeta[c]) /\ meta[dmeta[c]].slot = c
        BY <4>1, EntryOfSlot
      <4>3. dmeta[c] # from /\ dmeta[c] # to
        BY <3>2, <4>2
      <4> QED BY <1>2, <4>1, <4>2, <4>3
    <3> QED BY <3>1, <3>2
  <2> QED BY <2>1, <2>2 DEF Bound
<1>13. OwnContent'
  BY <1>0, <1>2, <1>5, <1>6 DEF OwnContent
<1>14. \A b \in Addr : \A f \in Where(b) :
          LET g == IF f = from THEN to ELSE f
          IN  g \in Where(b)' /\ (meta[f].dirty => meta'[g].dirty)
  BY <1>2, <1>5 DEF Where
<1>15. LastKept'
  BY <1>0, <1>6, <1>14 DEF LastKept
<1>16. UpperHeld'
  <2>1. up \subseteq Addr
    BY <1>0 DEF TypeOK
  <2> QED BY <1>0, <1>6, <1>14, <2>1 DEF UpperHeld
<1>17. SlotsFree'
  <2>1. ASSUME NEW s \in DataSet
        PROVE  FreeSlots(s)' = FreeSlots(s)
    <3>1. \A w \in DWay : <<s, w>> \in Slot
      BY DEF Slot
    <3>2. from # None /\ to # None
      BY EntryParts
    <3> QED BY <1>3, <1>7, <3>1, <3>2 DEF FreeSlots
  <2> QED BY <1>6, <2>1 DEF SlotsFree
<1> QED BY <1>2, <1>8, <1>9, <1>10, <1>11, <1>12, <1>13, <1>15, <1>16, <1>17 DEF Lines

-----------------------------------------------------------------------------
(* Fill: the slot is taken from the block that had it. *)

LEMMA FillLines ==
  ASSUME Lines, SlotsFree, Fill,
         NEW a \in Addr, NEW e \in Entry, a = job.addr, e = job.at,
         Where(a) = {}, e[3] \in MWay, ~Valid(e), e[2] = MSet[e[1]][a]
  PROVE  /\ Lines' /\ SlotsFree'
         /\ \A f \in Entry : Valid(f)' => f = e \/ Valid(f)
         /\ \A x \in Set : \A v \in mrep'[x].free :
              v \in mrep[x].free \/ ~Valid(<<x[1], x[2], v>>)'
<1> DEFINE s == DSet[a]
<1>0. TypeOK /\ Placed /\ Cleared /\ Unique /\ Bound /\ OwnContent /\ LastKept /\ UpperHeld
  BY DEF Lines
<1>1. PICK w \in Victims(drep[s], DWay) :
        /\ meta' = [MetaOut(<<s, w>>) EXCEPT ![e] = [addr |-> a, valid |-> TRUE, dirty |-> FALSE, slot |-> <<s, w>>]]
        /\ dmeta' = [dmeta EXCEPT ![<<s, w>>] = e]
        /\ data' = [data EXCEPT ![<<s, w>>] = IF a \in mem THEN a ELSE None]
        /\ mrep' = [RepOut(<<s, w>>) EXCEPT ![SetOf(e)] = Accessed(@, e[3])]
        /\ drep' = [drep EXCEPT ![s] = Accessed(Allocated(@, w), w)]
        /\ up' = IF job.write THEN UpOut(<<s, w>>) \cup {a} ELSE UpOut(<<s, w>>)
        /\ mem' = IF job.write THEN MemOut(<<s, w>>) \ {a} ELSE MemOut(<<s, w>>)
  BY DEF Fill
<1> DEFINE d == <<s, w>>
<1>2. s \in DataSet /\ w \in DWay /\ d \in Slot /\ d # None /\ d[1] = s /\ d[2] = w
  <2>1. s \in DataSet
    BY DEF DataSet
  <2>2. drep[s] \in Replacer(DWay)
    BY <1>0, <2>1 DEF TypeOK
  <2>3. w \in DWay
    BY <2>2, VictimIsWay, Ways
  <2> QED BY <2>1, <2>3, SlotParts DEF Slot
<1>3. \A o \in Old(d) : /\ o = dmeta[d] /\ o \in Entry /\ Valid(o) /\ meta[o].slot = d /\ o # e
                        /\ meta[o].addr \in Addr /\ meta[o].addr # a
                        /\ o[3] \in MWay /\ SetOf(o) \in Set
  <2>1. ASSUME NEW o \in Old(d)
        PROVE  /\ o = dmeta[d] /\ o \in Entry /\ Valid(o) /\ meta[o].slot = d /\ o # e
               /\ meta[o].addr \in Addr /\ meta[o].addr # a
               /\ o[3] \in MWay /\ SetOf(o) \in Set
    <3>1. o = dmeta[d] /\ dmeta[d] # None
      BY DEF Old
    <3>2. o \in Entry /\ Valid(o) /\ meta[o].slot = d
      BY <1>2, <3>1, EntryOfSlot
    <3>3. meta[o].addr \in Addr /\ o[3] \in MWay
      BY <1>0, <3>2 DEF Placed
    <3>4. meta[o].addr # a
      BY <3>2 DEF Where
    <3> QED BY <3>1, <3>2, <3>3, <3>4, EntryParts
  <2> QED BY <2>1
<1>4. \A f \in Entry : Valid(f) /\ meta[f].slot = d => f \in Old(d)
  <2>1. ASSUME NEW f \in Entry, Valid(f), meta[f].slot = d
        PROVE  f \in Old(d)
    <3>1. dmeta[d] = f /\ f # None
      BY <1>0, <2>1, EntryParts DEF Bound
    <3> QED BY <3>1 DEF Old
  <2> QED BY <2>1
<1>5. /\ meta'[e] = [addr |-> a, valid |-> TRUE, dirty |-> FALSE, slot |-> d]
      /\ \A f \in Entry : f # e => meta'[f] = IF f \in Old(d) THEN ToInvalid(meta[f]) ELSE meta[f]
      /\ meta' = [f \in Entry |-> meta'[f]]
  <2> HIDE DEF d
  <2>1. meta' = [MetaOut(d) EXCEPT ![e] = [addr |-> a, valid |-> TRUE, dirty |-> FALSE, slot |-> d]]
    BY <1>1 DEF d
  <2> QED BY <2>1 DEF MetaOut
<1>6. \A f \in Entry : /\ meta[f] \in Line /\ ToInvalid(meta[f]) \in Line
                       /\ ~ToInvalid(meta[f]).valid /\ ~ToInvalid(meta[f]).dirty
                       /\ ToInvalid(meta[f]).slot = None
  BY <1>0, Invalidated DEF TypeOK
<1>7. /\ meta'[e].addr = a /\ meta'[e].slot = d /\ ~meta'[e].dirty /\ Valid(e)'
      /\ meta'[e] \in Line
  BY <1>2, <1>5 DEF Valid, Line
<1>8. \A f \in Entry : f # e => (Valid(f)' <=> Valid(f) /\ f \notin Old(d))
  BY <1>5, <1>6 DEF Valid
<1>9. \A c \in Slot : /\ dmeta'[c] = IF c = d THEN e ELSE dmeta[c]
                      /\ c # d => data'[c] = data[c]
  BY <1>0, <1>1, <1>2 DEF TypeOK
<1>10. a \in mem /\ a \notin up /\ data'[d] = a
  BY <1>0, <1>1, <1>2, AbsentInMemory DEF TypeOK
<1>11. /\ MemOut(d) = mem \cup {meta[o].addr : o \in Old(d)}
       /\ UpOut(d) = up \ {meta[o].addr : o \in Old(d)}
  <2>1. UpOut(d) = up \ {meta[o].addr : o \in Old(d)}
    BY DEF UpOut
  <2>2. CASE Old(d) = {}
    BY <2>1, <2>2 DEF MemOut
  <2>3. CASE Old(d) # {}
    <3>1. Old(d) = {dmeta[d]} /\ dmeta[d] \in Old(d)
      BY <2>3 DEF Old
    <3>2. MemAfter(dmeta[d], d) = mem \cup {meta[dmeta[d]].addr}
      BY <1>3, <3>1, EvictionSaves
    <3>3. {meta[o].addr : o \in Old(d)} = {meta[dmeta[d]].addr}
      BY <3>1
    <3> QED BY <2>1, <2>3, <3>2, <3>3 DEF MemOut
  <2> QED BY <2>2, <2>3
<1> DEFINE out == {meta[o].addr : o \in Old(d)}
<1>12. /\ out \subseteq Addr /\ a \notin out
       /\ up' = (up \ out) \cup (IF job.write THEN {a} ELSE {})
       /\ mem' = (mem \cup out) \ (IF job.write THEN {a} ELSE {})
  <2>1. out \subseteq Addr /\ a \notin out
    BY <1>3
  <2>2. up' = IF job.write THEN UpOut(d) \cup {a} ELSE UpOut(d)
    BY <1>1
  <2>3. mem' = IF job.write THEN MemOut(d) \ {a} ELSE MemOut(d)
    BY <1>1
  <2> HIDE DEF out
  <2>4. MemOut(d) = mem \cup out /\ UpOut(d) = up \ out
    BY <1>11 DEF out
  <2> QED BY <2>1, <2>2, <2>3, <2>4
<1>13. \A f \in Entry : Valid(f) /\ meta[f].addr \notin out => f \notin Old(d)
  OBVIOUS
<1>14. \A x \in Set : /\ mrep'[x] \in Replacer(MWay)
                      /\ \A v \in mrep'[x].free :
                           v \in mrep[x].free \/ \E o \in Old(d) : SetOf(o) = x /\ v = o[3]
  <2>1. ASSUME NEW x \in Set
        PROVE  /\ RepOut(d)[x] \in Replacer(MWay)
               /\ \A v \in RepOut(d)[x].free :
                    v \in mrep[x].free \/ \E o \in Old(d) : SetOf(o) = x /\ v = o[3]
    <3>1. mrep[x] \in Replacer(MWay) /\ None \notin MWay
      BY <1>0, NoneIsNoPlace DEF TypeOK
    <3>2. CASE \E o \in Old(d) : SetOf(o) = x
      <4>1. PICK o \in Old(d) : SetOf(o) = x
        BY <3>2
      <4>2. o = dmeta[d] /\ o[3] \in MWay
        BY <1>3
      <4>3. RepOut(d)[x] = Invalid(mrep[x], o[3])
        BY <3>2, <4>2 DEF RepOut
      <4>4. /\ Invalid(mrep[x], o[3]) \in Replacer(MWay)
            /\ Invalid(mrep[x], o[3]).free \subseteq mrep[x].free \cup {o[3]}
        BY <3>1, <4>2, Hooks
      <4> QED BY <4>1, <4>3, <4>4
    <3>3. CASE ~\E o \in Old(d) : SetOf(o) = x
      BY <3>1, <3>3 DEF RepOut
    <3> QED BY <3>2, <3>3
  <2>2. /\ SetOf(e) \in Set
        /\ \A x \in Set : mrep'[x] = IF x = SetOf(e) THEN Accessed(RepOut(d)[x], e[3]) ELSE RepOut(d)[x]
    <3>1. SetOf(e) \in Set
      BY EntryParts
    <3> HIDE DEF d
    <3>2. mrep' = [RepOut(d) EXCEPT ![SetOf(e)] = Accessed(@, e[3])]
      BY <1>1 DEF d
    <3> QED BY <3>1, <3>2 DEF RepOut
  <2>3. /\ Accessed(RepOut(d)[SetOf(e)], e[3]) \in Replacer(MWay)
        /\ Accessed(RepOut(d)[SetOf(e)], e[3]).free = RepOut(d)[SetOf(e)].free
    <3>1. RepOut(d)[SetOf(e)] \in Replacer(MWay) /\ None \notin MWay
      BY <2>1, <2>2, NoneIsNoPlace
    <3> QED BY <3>1, Hooks
  <2> QED BY <2>1, <2>2, <2>3
<1>15. TypeOK'
  <2>1. meta' \in [Entry -> Line]
    <3>1. \A f \in Entry : meta'[f] \in Line
      BY <1>5, <1>6, <1>7
    <3> QED BY <1>5, <3>1
  <2>2. dmeta' \in [Slot -> Entry \cup {None}]
    BY <1>0, <1>1 DEF TypeOK
  <2>3. data' \in [Slot -> Addr \cup {None}]
    BY <1>0, <1>1 DEF TypeOK
  <2>4. mrep' \in [Set -> Replacer(MWay)]
    <3>1. mrep' = [x \in Set |-> mrep'[x]]
      BY <1>1 DEF RepOut
    <3> QED BY <1>14, <3>1
  <2>5. drep' \in [DataSet -> Replacer(DWay)]
    <3>1. drep[s] \in Replacer(DWay) /\ None \notin DWay
      BY <1>0, <1>2, NoneIsNoPlace DEF TypeOK
    <3>2. Allocated(drep[s], w) \in Replacer(DWay)
      BY <1>2, <3>1, Hooks
    <3>3. Accessed(Allocated(drep[s], w), w) \in Replacer(DWay)
      BY <1>2, <3>1, <3>2, Hooks
    <3> QED BY <1>0, <1>1, <3>3 DEF TypeOK
  <2>6. up' \subseteq Addr /\ mem' \subseteq Addr
    BY <1>0, <1>12 DEF TypeOK
  <2> QED BY <2>1, <2>2, <2>3, <2>4, <2>5, <2>6 DEF TypeOK
<1>16. Placed'
  <2>1. ASSUME NEW f \in Entry, Valid(f)'
        PROVE  /\ meta'[f].addr \in Addr /\ meta'[f].slot \in Slot
               /\ f[2] = MSet[f[1]][meta'[f].addr] /\ f[3] \in MWay
    <3>1. CASE f = e
      BY <1>2, <1>7, <3>1
    <3>2. CASE f # e
      BY <1>0, <1>5, <1>8, <2>1, <3>2 DEF Placed
    <3> QED BY <3>1, <3>2
  <2> QED BY <2>1 DEF Placed
<1>17. Cleared'
  <2>1. ASSUME NEW f \in Entry, ~Valid(f)'
        PROVE  ~meta'[f].dirty /\ meta'[f].slot = None
    BY <1>0, <1>5, <1>6, <1>7, <1>8, <2>1 DEF Cleared
  <2> QED BY <2>1 DEF Cleared
<1>18. Unique'
  <2>1. \A f \in Entry : Valid(f) => meta[f].addr # a
    BY DEF Where
  <2> QED BY <1>0, <1>5, <1>7, <1>8, <2>1 DEF Unique
<1>19. Bound'
  <2>1. ASSUME NEW f \in Entry, Valid(f)'
        PROVE  dmeta'[meta'[f].slot] = f
    <3>1. CASE f = e
      BY <1>2, <1>7, <1>9, <3>1
    <3>2. CASE f # e
      <4>1. Valid(f) /\ f \notin Old(d) /\ meta'[f] = meta[f] /\ meta[f].slot \in Slot
        BY <1>0, <1>5, <1>8, <2>1, <3>2 DEF Placed
      <4>2. meta[f].slot # d
        BY <1>4, <4>1
      <4> QED BY <1>0, <1>9, <4>1, <4>2 DEF Bound
    <3> QED BY <3>1, <3>2
  <2>2. ASSUME NEW c \in Slot, dmeta'[c] # None
        PROVE  meta'[dmeta'[c]].slot = c
    <3>1. CASE c = d
      BY <1>7, <1>9, <3>1
    <3>2. CASE c # d
      <4>1. dmeta'[c] = dmeta[c] /\ dmeta[c] # None
        BY <1>9, <2>2, <3>2
      <4>2. dmeta[c] \in Entry /\ Valid(dmeta[c]) /\ meta[dmeta[c]].slot = c
        BY <4>1, EntryOfSlot
      <4>3. dmeta[c] # e /\ dmeta[c] \notin Old(d)
        BY <1>3, <3>2, <4>2
      <4> QED BY <1>5, <4>1, <4>2, <4>3
    <3> QED BY <3>1, <3>2
  <2> QED BY <2>1, <2>2 DEF Bound
<1>20. OwnContent'
  <2>1. ASSUME NEW f \in Entry, Valid(f)'
        PROVE  data'[meta'[f].slot] = meta'[f].addr
    <3>1. CASE f = e
      BY <1>7, <1>10, <3>1
    <3>2. CASE f # e
      <4>1. Valid(f) /\ f \notin Old(d) /\ meta'[f] = meta[f] /\ meta[f].slot \in Slot
        BY <1>0, <1>5, <1>8, <2>1, <3>2 DEF Placed
      <4>2. meta[f].slot # d
        BY <1>4, <4>1
      <4> QED BY <1>0, <1>9, <4>1, <4>2 DEF OwnContent
    <3> QED BY <3>1, <3>2
  <2> QED BY <2>1 DEF OwnContent
<1>21. \A b \in Addr \ out : \A f \in Where(b) :
          f \in Where(b)' /\ meta'[f] = meta[f]
  <2>1. ASSUME NEW b \in Addr \ out, NEW f \in Where(b)
        PROVE  f \in Where(b)' /\ meta'[f] = meta[f]
    <3>1. f \in Entry /\ Valid(f) /\ meta[f].addr = b /\ f # e /\ f \notin Old(d)
      BY <2>1 DEF Where
    <3>2. meta'[f] = meta[f] /\ Valid(f)'
      BY <1>5, <1>8, <3>1
    <3> QED BY <3>1, <3>2 DEF Where
  <2> QED BY <2>1
<1>22. LastKept'
  <2>1. ASSUME NEW b \in Addr, b \notin up' \cup mem'
        PROVE  \E f \in Where(b)' : meta'[f].dirty
    <3>1. b # a
      BY <1>10, <1>12, <2>1
    <3>2. b \notin out /\ b \notin up \cup mem
      BY <1>12, <2>1, <3>1
    <3>3. PICK f \in Where(b) : meta[f].dirty
      BY <1>0, <3>2 DEF LastKept
    <3> QED BY <1>21, <3>2, <3>3
  <2> QED BY <2>1 DEF LastKept
<1>23. UpperHeld'
  <2>1. ASSUME NEW b \in up'
        PROVE  Where(b)' # {}
    <3>1. CASE b = a
      BY <1>7, <3>1 DEF Where
    <3>2. CASE b # a
      <4>1. b \in up /\ b \notin out /\ b \in Addr
        BY <1>0, <1>12, <2>1, <3>2 DEF TypeOK
      <4>2. PICK f \in Where(b) : TRUE
        BY <1>0, <4>1 DEF UpperHeld
      <4> QED BY <1>21, <4>1, <4>2
    <3> QED BY <3>1, <3>2
  <2> QED BY <2>1 DEF UpperHeld
<1>24. SlotsFree'
  <2>1. ASSUME NEW t \in DataSet
        PROVE  drep'[t] = [alloc |-> None, free |-> FreeSlots(t)']
    <3>1. drep[t] = [alloc |-> None, free |-> FreeSlots(t)]
      BY DEF SlotsFree
    <3>2. \A v \in DWay : <<t, v>> \in Slot
      BY DEF Slot
    <3>3. CASE t = s
      <4>1. drep'[t] = Accessed(Allocated(drep[t], w), w)
        BY <1>0, <1>1, <1>2, <3>3 DEF TypeOK
      <4>2. drep'[t] = [alloc |-> None, free |-> FreeSlots(t) \ {w}]
        BY <3>1, <4>1, FilledWay
      <4>3. \A v \in DWay : dmeta'[<<t, v>>] = IF v = w THEN e ELSE dmeta[<<t, v>>]
        BY <1>2, <1>9, <3>2, <3>3
      <4>4. e # None
        BY EntryParts
      <4>5. FreeSlots(t)' = FreeSlots(t) \ {w}
        BY <4>3, <4>4 DEF FreeSlots
      <4> QED BY <4>2, <4>5
    <3>4. CASE t # s
      <4>1. drep'[t] = drep[t]
        BY <1>0, <1>1, <3>4 DEF TypeOK
      <4>2. \A v \in DWay : dmeta'[<<t, v>>] = dmeta[<<t, v>>]
        BY <1>2, <1>9, <3>2, <3>4
      <4>3. FreeSlots(t)' = FreeSlots(t)
        BY <4>2 DEF FreeSlots
      <4> QED BY <3>1, <4>1, <4>3
    <3> QED BY <3>3, <3>4
  <2> QED BY <2>1 DEF SlotsFree
<1>25. \A f \in Entry : Valid(f)' => f = e \/ Valid(f)
  BY <1>8
<1>26. ASSUME NEW x \in Set, NEW v \in mrep'[x].free, v \notin mrep[x].free
       PROVE  ~Valid(<<x[1], x[2], v>>)'
  <2>1. PICK o \in Old(d) : SetOf(o) = x /\ v = o[3]
    BY <1>14, <1>26
  <2>2. o \in Entry /\ o # e /\ o = <<x[1], x[2], v>>
    BY <1>3, <2>1, EntryParts
  <2> QED BY <1>8, <2>1, <2>2
<1> QED BY <1>15, <1>16, <1>17, <1>18, <1>19, <1>20, <1>22, <1>23, <1>24, <1>25, <1>26 DEF Lines

-----------------------------------------------------------------------------
(* Chains. *)

LEMMA Extended ==
  ASSUME NEW s \in Seq(Entry), NEW e \in Entry
  PROVE  /\ Append(s, e) \in Seq(Entry) /\ Append(s, e) # <<>>
         /\ Len(Append(s, e)) = Len(s) + 1
         /\ \A i \in 1 .. Len(s) : Append(s, e)[i] = s[i]
         /\ Append(s, e)[Len(s) + 1] = e
BY AppendProperties

LEMMA Shortened ==
  ASSUME NEW s \in Seq(Entry), s # <<>>
  PROVE  /\ Len(s) \in Nat \ {0} /\ s[Len(s)] \in Entry
         /\ SubSeq(s, 1, Len(s) - 1) \in Seq(Entry)
         /\ Len(SubSeq(s, 1, Len(s) - 1)) = Len(s) - 1
         /\ \A i \in 1 .. Len(s) - 1 : SubSeq(s, 1, Len(s) - 1)[i] = s[i]
<1>1. Len(s) \in Nat \ {0}
  BY EmptySeq, LenProperties
<1>2. s[Len(s)] \in Entry
  BY <1>1, ElementOfSeq
<1> DEFINE n == Len(s) - 1
<1>3. 1 \in Int /\ n \in Int /\ \A i \in 1 .. n : s[i] \in Entry
  BY <1>1, ElementOfSeq
<1>4. n \in Nat
  BY <1>1
<1> HIDE DEF n
<1>5. n - 1 + 1 = n /\ \A i \in 1 .. n : 1 + i - 1 = i
  BY <1>4
<1>6. (IF 1 <= n THEN n - 1 + 1 ELSE 0) = n
  BY <1>4
<1>7. /\ SubSeq(s, 1, n) \in Seq(Entry)
      /\ Len(SubSeq(s, 1, n)) = IF 1 <= n THEN n - 1 + 1 ELSE 0
      /\ \A i \in 1 .. n - 1 + 1 : SubSeq(s, 1, n)[i] = s[1 + i - 1]
  BY <1>3, SubSeqProperties
<1>8. \A i \in 1 .. n : SubSeq(s, 1, n)[i] = s[i]
  BY <1>5, <1>7
<1> QED BY <1>1, <1>2, <1>6, <1>7, <1>8 DEF n

LEMMA EmptyStack ==
  ASSUME NEW s \in Seq(Entry)
  PROVE  Len(s) \in Nat /\ (s = <<>> <=> Len(s) = 0) /\ \A i \in 1 .. Len(s) : s[i] \in Entry
BY EmptySeq, LenProperties, ElementOfSeq

(* The sets of a short chain differ, and so does that to which it could    *)
(* go on.                                                                  *)
GoesOn(at, stack) ==
  /\ Target(at) # SetOf(at)
  /\ \A i \in 1 .. Len(stack) : SetOf(stack[i]) # Target(at)
  /\ \E p \in Part : Spread(p, at, stack) /\ Target(at)[1] = Wrap(p + Len(stack) + 1)

LEMMA ChainSets ==
  ASSUME Short, Placed, NEW a, NEW at \in Entry, NEW stack \in Seq(Entry),
         Chain(a, at, stack), Apart(at, stack)
  PROVE  /\ \A i \in 1 .. Len(stack) : SetOf(stack[i]) # SetOf(at)
         /\ \A i, j \in 1 .. Len(stack) : SetOf(stack[i]) = SetOf(stack[j]) => i = j
         /\ Valid(at) /\ Len(stack) < MaxRelocN => GoesOn(at, stack)
<1> DEFINE n == Len(stack)
<1>1. n \in Nat /\ n <= MaxRelocN /\ MaxRelocN < P /\ P \in Nat /\ MaxRelocN \in Nat
  BY EmptyStack, MirageAssumption DEF Chain, Short
<1>2. PICK p \in Part : /\ Spread(p, at, stack)
                        /\ \A i \in 1 .. n : stack[i][1] = Wrap(p + i - 1)
                        /\ at[1] = Wrap(p + n)
  BY DEF Apart, Spread
<1>3. \A i \in 1 .. n : stack[i] \in Entry /\ SetOf(stack[i])[1] = stack[i][1]
  BY EmptyStack, EntryParts
<1>4. SetOf(at)[1] = at[1]
  BY EntryParts
<1>5. p \in Nat
  BY MirageAssumption DEF Part
<1> HIDE DEF n
<1>6. ASSUME NEW i \in 1 .. n
      PROVE  /\ i - 1 \in Nat /\ i - 1 < P /\ p + (i - 1) = p + i - 1
  BY <1>1, <1>5
<1>7. ASSUME NEW i \in 1 .. n
      PROVE  stack[i][1] # at[1]
  <2>1. i - 1 # n
    BY <1>1
  <2> QED BY <1>1, <1>2, <1>6, <2>1, WrapApart
<1>8. ASSUME NEW i \in 1 .. n, NEW j \in 1 .. n, stack[i][1] = stack[j][1]
      PROVE  i = j
  <2>1. i - 1 = j - 1
    BY <1>2, <1>6, <1>8, WrapApart
  <2> QED BY <1>1, <2>1
<1>9. ASSUME Valid(at), n < MaxRelocN
      PROVE  /\ Target(at) # SetOf(at)
             /\ Target(at)[1] = Wrap(p + n + 1)
             /\ \A i \in 1 .. n : stack[i][1] # Target(at)[1]
  <2>1. n + 1 < P /\ n < P /\ n + 1 \in Nat /\ p + (n + 1) = p + n + 1
    BY <1>1, <1>5, <1>9
  <2>2. Target(at)[1] = Wrap(p + n + 1) /\ Target(at) # SetOf(at)
    BY <1>1, <1>2, <1>9, <2>1, TargetSet, WrapNext
  <2>3. ASSUME NEW i \in 1 .. n
        PROVE  stack[i][1] # Target(at)[1]
    <3>1. i - 1 # n + 1
      BY <1>1
    <3> QED BY <1>2, <1>6, <2>1, <2>2, <3>1, WrapApart
  <2> QED BY <2>2, <2>3
<1> QED BY <1>2, <1>3, <1>4, <1>7, <1>8, <1>9 DEF n, GoesOn

-----------------------------------------------------------------------------
(* The steps. *)

LEMMA InitIInv == Init => IInv
<1> SUFFICES ASSUME Init PROVE IInv
  OBVIOUS
<1>1. \A e \in Entry : /\ meta[e] = Empty /\ meta[e] \in Line /\ ~Valid(e)
                       /\ ~meta[e].dirty /\ meta[e].slot = None
  BY DEF Init, Empty, Line, Valid
<1>2. TypeOK
  <2>1. meta \in [Entry -> Line]
    BY <1>1 DEF Init
  <2>2. mrep \in [Set -> Replacer(MWay)] /\ drep \in [DataSet -> Replacer(DWay)]
    BY DEF Init, Replacer
  <2> QED BY <2>1, <2>2 DEF Init, TypeOK
<1>3. Placed /\ Cleared /\ Unique /\ OwnContent /\ LastKept /\ UpperHeld
  BY <1>1 DEF Placed, Cleared, Unique, OwnContent, LastKept, UpperHeld, Init
<1>4. Bound
  BY <1>1 DEF Bound, Init
<1>5. SlotsFree
  <2>1. ASSUME NEW s \in DataSet
        PROVE  FreeSlots(s) = DWay
    BY DEF FreeSlots, Init, Slot
  <2> QED BY <2>1 DEF SlotsFree, Init
<1>6. WaysFree
  <2>1. \A x \in Set, w \in MWay : ~Valid(<<x[1], x[2], w>>)
    BY <1>1, WayOfSet
  <2> QED BY <2>1 DEF WaysFree, Init
<1> QED BY <1>2, <1>3, <1>4, <1>5, <1>6 DEF IInv, Lines, Init

(* The ways of what is given up may be listed. *)
LEMMA DroppedWays ==
  ASSUME Lines, WaysFree, NEW e \in Entry, Valid(e), Without(e)
  PROVE  WaysFree'
<1>1. \A f \in Entry : Valid(f)' => Valid(f) /\ f # e
  BY Invalidated DEF Lines, TypeOK, Without, Valid
<1>2. ASSUME NEW x \in Set, NEW w \in mrep'[x].free
      PROVE  w \in MWay /\ ~Valid(<<x[1], x[2], w>>)'
  <2>1. mrep[x] \in Replacer(MWay) /\ None \notin MWay /\ e[3] \in MWay
    BY NoneIsNoPlace DEF Lines, TypeOK, Placed
  <2>2. CASE w \in mrep[x].free
    <3>1. w \in MWay /\ ~Valid(<<x[1], x[2], w>>)
      BY <2>2 DEF WaysFree
    <3> QED BY <1>1, <3>1, WayOfSet
  <2>3. CASE w \notin mrep[x].free
    <3>1. x = SetOf(e) /\ w = e[3]
      BY <1>2, <2>1, <2>3, Hooks DEF Without
    <3>2. <<x[1], x[2], w>> = e
      BY <3>1, EntryParts
    <3> QED BY <1>1, <2>1, <3>1, <3>2
  <2> QED BY <2>2, <2>3
<1> QED BY <1>2 DEF WaysFree

(* Calls between accesses. *)
LEMMA CallStep ==
  ASSUME IInv, NEW a \in Addr, NEW write \in BOOLEAN,
         Hit(a, write) \/ Release(a) \/ Flush(a)
  PROVE  IInv'
<1>1. Lines /\ SlotsFree /\ job = Idle /\ job' = job /\ (Short => WaysFree)
  BY DEF IInv, Hit, Release, Flush
<1>2. ASSUME \A f \in Entry : Valid(f)' => Valid(f), \A x \in Set : mrep'[x].free = mrep[x].free, WaysFree
      PROVE  WaysFree'
  BY <1>2, WayOfSet DEF WaysFree
<1>3. CASE Hit(a, write)
  BY <1>1, <1>2, <1>3, HitLines DEF IInv, Idle
<1>4. CASE Release(a)
  BY <1>1, <1>2, <1>4, ReleaseLines DEF IInv, Idle
<1>5. CASE Flush(a)
  <2>1. PICK e \in Where(a) : Dropped(e, meta[e].slot) /\ data' = data
    BY <1>5 DEF Flush
  <2>2. e \in Entry /\ Valid(e)
    BY DEF Where
  <2>3. Lines' /\ SlotsFree' /\ Without(e)
    BY <1>1, <2>1, <2>2, DroppedLines
  <2>4. ASSUME WaysFree
        PROVE  WaysFree'
    BY <1>1, <2>2, <2>3, <2>4, DroppedWays
  <2> QED BY <1>1, <2>3, <2>4 DEF IInv, Idle
<1> QED BY <1>3, <1>4, <1>5

(* A way is allocated: the lines stay as they are. *)
LEMMA AllocatedLines ==
  ASSUME Lines, SlotsFree, NEW x \in Set, NEW w \in Victims(mrep[x], MWay),
         mrep' = [mrep EXCEPT ![x] = Allocated(@, w)],
         UNCHANGED <<meta, dmeta, data, drep, up, mem>>
  PROVE  /\ Lines' /\ SlotsFree' /\ (WaysFree => WaysFree')
         /\ w \in MWay
         /\ \A y \in Set : y # x => mrep'[y] = mrep[y]
         /\ mrep'[x].alloc = w /\ w \notin mrep'[x].free
         /\ \A e : Valid(e)' = Valid(e)
         /\ \A b : Where(b)' = Where(b)
<1>0. TypeOK /\ Placed /\ Cleared /\ Unique /\ Bound /\ OwnContent /\ LastKept /\ UpperHeld
  BY DEF Lines
<1>1. mrep[x] \in Replacer(MWay) /\ None \notin MWay
  BY <1>0, NoneIsNoPlace DEF TypeOK
<1>2. w \in MWay
  BY <1>1, VictimIsWay, Ways
<1>3. /\ Allocated(mrep[x], w) \in Replacer(MWay)
      /\ Allocated(mrep[x], w).alloc = w /\ Allocated(mrep[x], w).free = mrep[x].free \ {w}
  BY <1>1, <1>2, Hooks
<1>4. \A y \in Set : mrep'[y] = IF y = x THEN Allocated(mrep[x], w) ELSE mrep[y]
  BY <1>0 DEF TypeOK
<1>5. \A e : Valid(e)' = Valid(e)
  BY DEF Valid
<1>6. \A b : Where(b)' = Where(b)
  BY DEF Where, Valid
<1>7. TypeOK'
  <2>1. mrep' \in [Set -> Replacer(MWay)]
    BY <1>0, <1>3 DEF TypeOK
  <2> QED BY <1>0, <2>1 DEF TypeOK
<1>8. Placed' /\ Cleared' /\ Unique' /\ Bound' /\ OwnContent'
  BY <1>0 DEF Placed, Cleared, Unique, Bound, OwnContent, Valid
<1>9. LastKept' /\ UpperHeld'
  BY <1>0, <1>6 DEF LastKept, UpperHeld
<1>10. SlotsFree'
  BY DEF SlotsFree, FreeSlots
<1>11. WaysFree => WaysFree'
  BY <1>3, <1>4, <1>5 DEF WaysFree
<1> QED BY <1>2, <1>3, <1>4, <1>5, <1>6, <1>7, <1>8, <1>9, <1>10, <1>11 DEF Lines

LEMMA MissStep ==
  ASSUME IInv, NEW a \in Addr, NEW write \in BOOLEAN, Miss(a, write)
  PROVE  IInv'
<1>1. Lines /\ SlotsFree /\ (Short => WaysFree) /\ Where(a) = {}
  BY DEF IInv, Miss
<1>2. PICK x \in Candidates(a) : \E w \in Victims(mrep[x], MWay) :
        /\ mrep' = [mrep EXCEPT ![x] = Allocated(@, w)]
        /\ job' = Job("search", a, write, <<x[1], x[2], w>>, <<>>, {})
  BY DEF Miss
<1>3. PICK w \in Victims(mrep[x], MWay) :
        /\ mrep' = [mrep EXCEPT ![x] = Allocated(@, w)]
        /\ job' = Job("search", a, write, <<x[1], x[2], w>>, <<>>, {})
  BY <1>2
<1>4. x \in Set /\ x[2] = MSet[x[1]][a]
  <2>1. PICK p \in Part : x = <<p, MSet[p][a]>>
    BY DEF Candidates
  <2> QED BY <2>1 DEF Set
<1>5. UNCHANGED <<meta, dmeta, data, drep, up, mem>>
  BY DEF Miss
<1> DEFINE e == <<x[1], x[2], w>>
<1>6. /\ Lines' /\ SlotsFree' /\ (Short => WaysFree') /\ w \in MWay
      /\ mrep'[x].alloc = w /\ w \notin mrep'[x].free /\ Where(a)' = {}
  BY <1>1, <1>3, <1>4, <1>5, AllocatedLines
<1>7. e \in Entry /\ SetOf(e) = x /\ e[1] = x[1] /\ e[2] = x[2] /\ e[3] = w /\ x[1] \in Part
  BY <1>4, <1>6, WayOfSet
<1> HIDE DEF e
<1>8. /\ job'.pc = "search" /\ job'.addr = a /\ job'.at = e /\ job'.stack = <<>> /\ job'.moved = {}
      /\ job'.write = write
      /\ job' = [pc |-> "search", addr |-> a, write |-> write, at |-> e, stack |-> <<>>, moved |-> {}]
  BY <1>3 DEF Job, e
<1>9. <<>> \in Seq(Entry) /\ Len(<<>>) = 0 /\ 1 .. 0 = {}
  BY EmptySeq
<1>10. InAccess'
  BY <1>6, <1>7, <1>8, <1>9 DEF InAccess
<1>11. Chain(job.addr, job.at, job.stack)'
  BY <1>4, <1>7, <1>8, <1>9, MirageAssumption DEF Chain
<1>12. Phase'
  BY <1>8, <1>9 DEF Phase
<1>13. Apart(job.at, job.stack)'
  <2>1. IsAllocated(job.at)'
    BY <1>6, <1>7, <1>8 DEF IsAllocated
  <2>2. Wrap(x[1] + 0) = x[1]
    BY <1>7, MirageAssumption DEF Wrap, Part
  <2> QED BY <1>7, <1>8, <1>9, <2>1, <2>2 DEF Apart, Spread
<1> QED BY <1>6, <1>10, <1>11, <1>12, <1>13 DEF IInv, Access

LEMMA SearchStep ==
  ASSUME IInv, Search
  PROVE  IInv'
<1>1. job.pc = "search"
  BY DEF Search
<1>2. job # Idle
  BY <1>1 DEF Idle
<1>3. /\ Lines /\ SlotsFree /\ InAccess /\ Chain(job.addr, job.at, job.stack) /\ Phase
      /\ (Short => WaysFree /\ Apart(job.at, job.stack))
  BY <1>2 DEF IInv, Access
<1>4. UNCHANGED <<meta, dmeta, data, drep, up, mem>>
  BY DEF Search
<1>5. PICK a \in Addr, at \in Entry, stack \in Seq(Entry), moved \in SUBSET Addr :
        a = job.addr /\ at = job.at /\ stack = job.stack /\ moved = job.moved
  BY <1>3 DEF InAccess
<1>6. /\ at[3] \in MWay /\ Where(a) = {} /\ Chain(a, at, stack)
      /\ moved = {meta[stack[i]].addr : i \in 1 .. Len(stack)}
      /\ Short => WaysFree /\ Apart(at, stack)
  BY <1>1, <1>3, <1>5 DEF InAccess, Phase
<1>7. /\ Where(a)' = {}
      /\ \A e : Valid(e)' = Valid(e) /\ Target(e)' = Target(e)
  BY <1>4, <1>6 DEF Where, Valid, Target
<1>8. job \in [pc : {"search", "evict", "relocate", "fill"}, addr : Addr, write : BOOLEAN,
               at : Entry, stack : Seq(Entry), moved : SUBSET Addr]
  BY <1>3 DEF InAccess
(* The search ends here. *)
<1>9. ASSUME job' = [job EXCEPT !.pc = "evict"]
      PROVE  /\ job'.at = at /\ job'.stack = stack
             /\ InAccess' /\ Phase' /\ Chain(job.addr, job.at, job.stack)'
  <2>1. /\ job'.pc = "evict" /\ job'.addr = a /\ job'.at = at /\ job'.stack = stack
        /\ job' \in [pc : {"search", "evict", "relocate", "fill"}, addr : Addr, write : BOOLEAN,
                     at : Entry, stack : Seq(Entry), moved : SUBSET Addr]
    BY <1>5, <1>8, <1>9
  <2>2. InAccess'
    BY <1>6, <1>7, <2>1 DEF InAccess
  <2>3. Phase'
    BY <2>1 DEF Phase
  <2>4. Chain(job.addr, job.at, job.stack)'
    BY <1>6, <1>7, <2>1 DEF Chain
  <2> QED BY <2>1, <2>2, <2>3, <2>4
<1>10. CASE ~Searching
  <2>1. job' = [job EXCEPT !.pc = "evict"] /\ mrep' = mrep
    BY <1>10 DEF Search
  <2>2. Lines' /\ SlotsFree' /\ (WaysFree => WaysFree')
    BY <1>3, <1>4, <2>1 DEF Lines, SlotsFree, FreeSlots, WaysFree, TypeOK, Placed, Cleared, Unique, Bound,
       OwnContent, LastKept, UpperHeld, Where, Valid
  <2>3. Short => Apart(job.at, job.stack)'
    BY <1>6, <1>9, <2>1 DEF Apart, IsAllocated
  <2> QED BY <1>3, <1>9, <2>1, <2>2, <2>3 DEF IInv, Access
<1>11. CASE Searching
  <2> DEFINE x == Target(at)
  <2>1. Valid(at) /\ Len(stack) < MaxRelocN
    BY <1>5, <1>11 DEF Searching
  <2>2. x \in Set /\ x # SetOf(at)
    BY <1>3, <2>1, TargetSet DEF Lines
  <2>3. PICK w \in Victims(mrep[x], MWay) :
          /\ mrep' = [mrep EXCEPT ![x] = Allocated(@, w)]
          /\ job' = IF meta[<<x[1], x[2], w>>].addr \in moved
                    THEN [job EXCEPT !.pc = "evict"]
                    ELSE [job EXCEPT !.at = <<x[1], x[2], w>>, !.stack = Append(@, job.at),
                                     !.moved = @ \cup {meta[job.at].addr}]
    BY <1>5, <1>11 DEF Search
  <2> DEFINE e == <<x[1], x[2], w>>
  <2>4. /\ Lines' /\ SlotsFree' /\ (WaysFree => WaysFree') /\ w \in MWay
        /\ \A y \in Set : y # x => mrep'[y] = mrep[y]
        /\ mrep'[x].alloc = w /\ w \notin mrep'[x].free
    BY <1>3, <1>4, <2>2, <2>3, AllocatedLines
  <2>5. PICK to \in Entry : to = <<x[1], x[2], w>> /\ SetOf(to) = x /\ to[1] = x[1] /\ to[3] = w
    BY <2>2, <2>4, WayOfSet
  <2>6. \A i \in 1 .. Len(stack) : stack[i] \in Entry /\ SetOf(stack[i]) \in Set
    BY EmptyStack, EntryParts
  <2>7. SetOf(at) \in Set
    BY EntryParts
  (* What is allocated stays so in the sets of a short chain. *)
  <2>8. ASSUME Short
        PROVE  /\ IsAllocated(at)' /\ IsAllocated(to)'
               /\ \A i \in 1 .. Len(stack) : IsAllocated(stack[i])'
               /\ \E p \in Part : Spread(p, at, stack) /\ to[1] = Wrap(p + Len(stack) + 1)
    <3>1. Apart(at, stack) /\ Placed /\ Chain(a, at, stack)
      BY <1>3, <1>6, <2>8 DEF Lines
    <3> HIDE DEF x
    <3>2. /\ \A i \in 1 .. Len(stack) : SetOf(stack[i]) # Target(at)
          /\ \E p \in Part : Spread(p, at, stack) /\ Target(at)[1] = Wrap(p + Len(stack) + 1)
      <4>1. GoesOn(at, stack)
        <5> HIDE DEF e
        <5> QED BY <2>1, <2>8, <3>1, ChainSets
      <4> QED BY <4>1 DEF GoesOn
    <3>3. IsAllocated(to)'
      BY <2>4, <2>5 DEF IsAllocated
    <3>4. IsAllocated(at)'
      BY <2>2, <2>4, <2>7, <3>1 DEF IsAllocated, Apart
    <3>5. \A i \in 1 .. Len(stack) : IsAllocated(stack[i])'
      BY <2>4, <2>6, <3>1, <3>2 DEF IsAllocated, Apart, x
    <3> QED BY <2>5, <3>2, <3>3, <3>4, <3>5 DEF x
  (* It would come back to a block that is to move. *)
  <2>9. CASE meta[to].addr \in moved
    <3>1. job' = [job EXCEPT !.pc = "evict"]
      BY <2>3, <2>5, <2>9
    <3>2. /\ InAccess' /\ Phase' /\ Chain(job.addr, job.at, job.stack)'
          /\ job'.at = at /\ job'.stack = stack
      BY <1>9, <3>1
    <3>3. Short => Apart(job.at, job.stack)'
      BY <2>8, <3>2 DEF Apart
    <3> QED BY <1>6, <2>4, <3>2, <3>3 DEF IInv, Access
  (* The chain grows. *)
  <2>10. CASE meta[to].addr \notin moved
    <3> DEFINE longer == Append(stack, at)
               n == Len(stack)
    <3>1. job' = [job EXCEPT !.at = to, !.stack = Append(@, job.at), !.moved = @ \cup {meta[job.at].addr}]
      BY <2>3, <2>5, <2>10
    <3>2. /\ longer \in Seq(Entry) /\ longer # <<>> /\ Len(longer) = n + 1
          /\ \A i \in 1 .. n : longer[i] = stack[i]
          /\ longer[n + 1] = at
          /\ n \in Nat /\ (stack = <<>> <=> n = 0)
      BY Extended, EmptyStack
    <3>3. meta[at].addr \in Addr
      BY <1>3, <2>1 DEF Lines, Placed
    <3>4. /\ job'.pc = "search" /\ job'.addr = a /\ job'.at = to /\ job'.stack = longer
          /\ job'.moved = moved \cup {meta[at].addr}
          /\ job' \in [pc : {"search", "evict", "relocate", "fill"}, addr : Addr, write : BOOLEAN,
                       at : Entry, stack : Seq(Entry), moved : SUBSET Addr]
      <4> HIDE DEF longer, n
      <4>1. [job EXCEPT !.stack = Append(@, job.at)].stack = longer
        BY <1>5, <1>8 DEF longer
      <4> QED BY <1>1, <1>5, <1>8, <3>1, <3>2, <3>3, <4>1 DEF longer
    <3> HIDE DEF longer, n, x, e
    <3>5. \A i \in 1 .. n + 1 : i \in 1 .. n \/ i = n + 1
      BY <3>2
    <3>6. InAccess'
      BY <1>7, <2>4, <2>5, <3>4 DEF InAccess
    <3>7. Phase'
      <4>1. {meta[longer[i]].addr : i \in 1 .. n + 1} = moved \cup {meta[at].addr}
        <5>1. moved = {meta[stack[i]].addr : i \in 1 .. n}
          BY <1>6 DEF n
        <5> QED BY <3>2, <3>5, <5>1
      <4> QED BY <1>4, <3>2, <3>4, <4>1 DEF Phase
    <3>8. Chain(a, to, longer)'
      <4>1. n + 1 <= MaxRelocN
        BY <2>1, <3>2, MirageAssumption DEF n
      <4>2. ASSUME NEW i \in 1 .. n + 1
            PROVE  Valid(longer[i]) /\ longer[i] # to
        <5>1. CASE i \in 1 .. n
          <6>1. meta[stack[i]].addr \in moved /\ Valid(stack[i])
            BY <1>6, <5>1 DEF Chain, n
          <6> QED BY <2>10, <3>2, <5>1, <6>1
        <5>2. CASE i = n + 1
          BY <2>1, <2>2, <2>5, <3>2, <5>2
        <5> QED BY <3>5, <5>1, <5>2
      <4>3. ASSUME NEW i \in 1 .. n + 1, NEW j \in 1 .. n + 1, longer[i] = longer[j]
            PROVE  i = j
        <5>1. \A k \in 1 .. n : stack[k] # at
          BY <1>6 DEF Chain, n
        <5>2. \A k, l \in 1 .. n : stack[k] = stack[l] => k = l
          BY <1>6 DEF Chain, n
        <5> QED BY <3>2, <3>5, <4>3, <5>1, <5>2
      <4>4. ASSUME NEW i \in 1 .. n + 1
            PROVE  SetOf(IF i = n + 1 THEN to ELSE longer[i + 1]) = Target(longer[i])
        <5>1. CASE i \in 1 .. n
          <6>1. SetOf(IF i = n THEN at ELSE stack[i + 1]) = Target(stack[i])
            BY <1>6, <5>1 DEF Chain, n
          <6>2. i # n + 1 /\ (i # n => i + 1 \in 1 .. n)
            BY <3>2, <5>1
          <6>3. longer[i + 1] = IF i = n THEN at ELSE stack[i + 1]
            BY <3>2, <6>2
          <6> QED BY <3>2, <5>1, <6>1, <6>2, <6>3
        <5>2. CASE i = n + 1
          BY <2>5, <3>2, <5>2 DEF x
        <5> QED BY <3>5, <5>1, <5>2
      <4>5. longer[1][2] = MSet[longer[1][1]][a]
        <5>1. longer[1] = IF stack = <<>> THEN at ELSE stack[1]
          <6>1. n # 0 => 1 \in 1 .. n
            BY <3>2
          <6> QED BY <3>2, <6>1
        <5> QED BY <1>6, <5>1 DEF Chain
      <4> QED BY <1>7, <3>2, <4>1, <4>2, <4>3, <4>4, <4>5 DEF Chain
    <3>9. ASSUME Short
          PROVE  Apart(to, longer)'
      <4>1. PICK p \in Part : /\ \A i \in 1 .. n : stack[i][1] = Wrap(p + i - 1)
                              /\ at[1] = Wrap(p + n)
                              /\ to[1] = Wrap(p + n + 1)
        BY <2>8, <3>9 DEF n, Spread
      <4>2. p \in Nat
        BY MirageAssumption DEF Part
      <4>3. p + (n + 1) - 1 = p + n /\ p + (n + 1) = p + n + 1
        BY <3>2, <4>2
      <4>4. \A i \in 1 .. n + 1 : longer[i][1] = Wrap(p + i - 1)
        BY <3>2, <3>5, <4>1, <4>3
      <4>5. \A i \in 1 .. n + 1 : IsAllocated(longer[i])'
        BY <2>8, <3>2, <3>5, <3>9 DEF n
      <4>6. to[1] = Wrap(p + Len(longer))
        BY <3>2, <4>1, <4>3
      <4> QED BY <2>8, <3>2, <3>9, <4>4, <4>5, <4>6 DEF Apart, Spread
    <3> QED BY <1>6, <2>4, <3>4, <3>6, <3>7, <3>8, <3>9 DEF IInv, Access
  <2> QED BY <2>9, <2>10
<1> QED BY <1>10, <1>11

LEMMA EvictStep ==
  ASSUME IInv, Evict
  PROVE  IInv'
<1>1. job.pc = "evict"
  BY DEF Evict
<1>2. job # Idle
  BY <1>1 DEF Idle
<1>3. /\ Lines /\ SlotsFree /\ InAccess /\ Chain(job.addr, job.at, job.stack)
      /\ (Short => WaysFree /\ Apart(job.at, job.stack))
  BY <1>2 DEF IInv, Access
<1>4. PICK a \in Addr, at \in Entry, stack \in Seq(Entry) :
        a = job.addr /\ at = job.at /\ stack = job.stack
  BY <1>3 DEF InAccess
<1>5. /\ at[3] \in MWay /\ Where(a) = {} /\ Chain(a, at, stack)
      /\ Short => WaysFree /\ Apart(at, stack)
  BY <1>3, <1>4 DEF InAccess
<1>6. /\ job'.pc = "relocate" /\ job'.addr = a /\ job'.at = at /\ job'.stack = stack
      /\ job' \in [pc : {"search", "evict", "relocate", "fill"}, addr : Addr, write : BOOLEAN,
                   at : Entry, stack : Seq(Entry), moved : SUBSET Addr]
  BY <1>3, <1>4 DEF Evict, InAccess
<1>7. \A i \in 1 .. Len(stack) : stack[i] \in Entry /\ stack[i] # at /\ Valid(stack[i])
  BY <1>5, EmptyStack DEF Chain
(* What holds of the lines of the chain after the step. *)
<1>8. /\ Lines' /\ SlotsFree' /\ ~Valid(at)'
      /\ \A f \in Entry : f # at => meta'[f] = meta[f]
      /\ Short => WaysFree' /\ \A f \in Entry : IsAllocated(at) /\ IsAllocated(f) => IsAllocated(f)'
  <2>1. CASE Valid(at)
    <3>1. Dropped(at, meta[at].slot) /\ data' = data
      BY <1>4, <2>1 DEF Evict
    <3>2. Lines' /\ SlotsFree' /\ Without(at)
      BY <1>3, <2>1, <3>1, DroppedLines
    <3>3. /\ \A f \in Entry : f # at => meta'[f] = meta[f]
          /\ meta'[at] = ToInvalid(meta[at])
          /\ \A x \in Set : mrep'[x] = IF x = SetOf(at) THEN Invalid(mrep[x], at[3]) ELSE mrep[x]
      BY <3>2 DEF Without
    <3>4. ~Valid(at)'
      BY <1>3, <3>3, Invalidated DEF Lines, TypeOK, Valid
    <3>5. ASSUME Short
          PROVE  WaysFree'
      BY <1>3, <2>1, <3>2, <3>5, DroppedWays
    <3>6. ASSUME NEW f \in Entry, IsAllocated(at), IsAllocated(f)
          PROVE  IsAllocated(f)'
      <4>1. mrep[SetOf(at)] \in Replacer(MWay) /\ SetOf(at) \in Set /\ SetOf(f) \in Set
        BY <1>3, EntryParts DEF Lines, TypeOK
      <4>2. Invalid(mrep[SetOf(at)], at[3]) = mrep[SetOf(at)]
        BY <3>6 DEF IsAllocated, Invalid
      <4>3. mrep'[SetOf(f)] = mrep[SetOf(f)]
        BY <3>3, <4>1, <4>2
      <4> QED BY <3>6, <4>3 DEF IsAllocated
    <3> QED BY <3>2, <3>3, <3>4, <3>5, <3>6
  <2>2. CASE ~Valid(at)
    <3>1. UNCHANGED <<meta, dmeta, mrep, drep, up, mem, data>>
      BY <1>4, <2>2 DEF Evict
    <3>2. Lines' /\ SlotsFree' /\ (WaysFree => WaysFree')
      BY <1>3, <3>1 DEF Lines, SlotsFree, FreeSlots, WaysFree, TypeOK, Placed, Cleared, Unique, Bound,
         OwnContent, LastKept, UpperHeld, Where, Valid
    <3> QED BY <1>3, <2>2, <3>1, <3>2 DEF Valid, IsAllocated
  <2> QED BY <2>1, <2>2
<1>9. \A i \in 1 .. Len(stack) : Valid(stack[i])' /\ Target(stack[i])' = Target(stack[i])
  BY <1>7, <1>8 DEF Valid, Target
<1>10. Where(a)' = {}
  <2>1. ASSUME NEW f \in Entry, Valid(f)', meta'[f].addr = a
        PROVE  FALSE
    <3>1. f # at /\ meta'[f] = meta[f]
      BY <1>8, <2>1
    <3> QED BY <1>5, <2>1, <3>1 DEF Where, Valid
  <2> QED BY <2>1 DEF Where
<1>11. InAccess'
  BY <1>5, <1>6, <1>10 DEF InAccess
<1>12. Phase'
  BY <1>6, <1>8 DEF Phase
<1>13. Chain(job.addr, job.at, job.stack)'
  BY <1>5, <1>6, <1>7, <1>9 DEF Chain
<1>14. Short => Apart(job.at, job.stack)'
  BY <1>5, <1>6, <1>7, <1>8 DEF Apart
<1> QED BY <1>6, <1>8, <1>11, <1>12, <1>13, <1>14 DEF IInv, Access

LEMMA RelocateStep ==
  ASSUME IInv, Relocate
  PROVE  IInv'
<1>1. job.pc = "relocate"
  BY DEF Relocate
<1>2. job # Idle
  BY <1>1 DEF Idle
<1>3. /\ Lines /\ SlotsFree /\ InAccess /\ Chain(job.addr, job.at, job.stack) /\ ~Valid(job.at)
      /\ (Short => WaysFree /\ Apart(job.at, job.stack))
  BY <1>1, <1>2 DEF IInv, Access, Phase
<1>4. PICK a \in Addr, at \in Entry, stack \in Seq(Entry) :
        a = job.addr /\ at = job.at /\ stack = job.stack
  BY <1>3 DEF InAccess
<1>5. /\ at[3] \in MWay /\ Where(a) = {} /\ Chain(a, at, stack) /\ ~Valid(at)
      /\ Short => WaysFree /\ Apart(at, stack)
  BY <1>3, <1>4 DEF InAccess
<1>6. job \in [pc : {"search", "evict", "relocate", "fill"}, addr : Addr, write : BOOLEAN,
               at : Entry, stack : Seq(Entry), moved : SUBSET Addr]
  BY <1>3 DEF InAccess
(* The chain is done with. *)
<1>7. CASE stack = <<>>
  <2>1. /\ job' = [job EXCEPT !.pc = "fill"]
        /\ UNCHANGED <<meta, dmeta, mrep, data, drep, up, mem>>
    BY <1>4, <1>7 DEF Relocate
  <2>2. /\ job'.pc = "fill" /\ job'.addr = a /\ job'.at = at /\ job'.stack = stack
        /\ job' \in [pc : {"search", "evict", "relocate", "fill"}, addr : Addr, write : BOOLEAN,
                     at : Entry, stack : Seq(Entry), moved : SUBSET Addr]
    BY <1>4, <1>6, <2>1
  <2>3. Lines' /\ SlotsFree' /\ (WaysFree => WaysFree')
    BY <1>3, <2>1 DEF Lines, SlotsFree, FreeSlots, WaysFree, TypeOK, Placed, Cleared, Unique, Bound,
       OwnContent, LastKept, UpperHeld, Where, Valid
  <2>4. InAccess'
    BY <1>5, <2>1, <2>2 DEF InAccess, Where, Valid
  <2>5. Phase'
    BY <1>5, <1>7, <2>1, <2>2 DEF Phase, Valid
  <2>6. Chain(job.addr, job.at, job.stack)'
    BY <1>5, <2>1, <2>2 DEF Chain, Valid, Target
  <2>7. Short => Apart(job.at, job.stack)'
    BY <1>5, <2>1, <2>2 DEF Apart, IsAllocated
  <2> QED BY <1>5, <2>2, <2>3, <2>4, <2>5, <2>6, <2>7 DEF IInv, Access
(* The last block of the chain moves. *)
<1>8. CASE stack # <<>>
  <2> DEFINE n     == Len(stack)
             from  == stack[n]
             front == SubSeq(stack, 1, n - 1)
  <2>1. /\ n \in Nat \ {0} /\ from \in Entry /\ front \in Seq(Entry) /\ Len(front) = n - 1
        /\ \A i \in 1 .. n - 1 : front[i] = stack[i]
    BY <1>8, Shortened
  <2>2. \A i \in 1 .. n - 1 : i \in 1 .. n /\ i # n /\ i + 1 \in 1 .. n /\ (i # n - 1 => i + 1 \in 1 .. n - 1)
    BY <2>1
  <2>3. n \in 1 .. n
    BY <2>1
  <2>4. \A i \in 1 .. n : stack[i] \in Entry /\ stack[i] # at /\ Valid(stack[i])
    BY <1>5, EmptyStack DEF Chain
  <2>5. \A i \in 1 .. n - 1 : stack[i] # from
    BY <1>5, <2>2, <2>3 DEF Chain
  <2>6. SetOf(at) = Target(from)
    BY <1>5, <2>3 DEF Chain
  <2>7. Moves(from, at) /\ job' = [job EXCEPT !.at = from, !.stack = SubSeq(@, 1, Len(@) - 1)]
    BY <1>4, <1>8 DEF Relocate, Moves, RepAfter
  <2>8. /\ job'.pc = "relocate" /\ job'.addr = a /\ job'.at = from /\ job'.stack = front
        /\ job' \in [pc : {"search", "evict", "relocate", "fill"}, addr : Addr, write : BOOLEAN,
                     at : Entry, stack : Seq(Entry), moved : SUBSET Addr]
    <3>1. SubSeq(job.stack, 1, Len(job.stack) - 1) = front
      BY <1>4
    <3> HIDE DEF front, from, n
    <3>2. job' = [job EXCEPT !.at = from, !.stack = front]
      BY <1>6, <2>7, <3>1
    <3> QED BY <1>1, <1>4, <1>6, <2>1, <3>2
  <2> HIDE DEF front, from
  <2>9. Valid(from) /\ from # at
    BY <2>3, <2>4 DEF from
  <2>10. /\ Lines' /\ SlotsFree'
         /\ meta'[at] = meta[from] /\ meta'[from] = ToInvalid(meta[from])
         /\ \A f \in Entry : f # from /\ f # at => meta'[f] = meta[f]
    BY <1>3, <1>5, <2>1, <2>6, <2>7, <2>9, MovedLines
  <2>11. ~Valid(from)'
    BY <1>3, <2>1, <2>10, Invalidated DEF Lines, TypeOK, Valid
  <2>12. ASSUME NEW i \in 1 .. n - 1
         PROVE  /\ stack[i] \in Entry /\ stack[i] # from /\ stack[i] # at
                /\ Valid(stack[i])' /\ Target(stack[i])' = Target(stack[i])
    <3>1. stack[i] \in Entry /\ stack[i] # from /\ stack[i] # at /\ Valid(stack[i])
      BY <2>2, <2>4, <2>5
    <3>2. meta'[stack[i]] = meta[stack[i]]
      BY <2>10, <3>1
    <3> QED BY <3>1, <3>2 DEF Valid, Target
  <2>13. Where(a)' = {}
    <3>1. ASSUME NEW f \in Entry, Valid(f)', meta'[f].addr = a
          PROVE  FALSE
      <4>1. \A g \in Entry : Valid(g) => meta[g].addr # a
        BY <1>5 DEF Where
      <4>2. f # from
        BY <2>11, <3>1
      <4>3. CASE f = at
        BY <2>1, <2>9, <2>10, <3>1, <4>1, <4>3
      <4>4. CASE f # at
        BY <2>10, <3>1, <4>1, <4>2, <4>4 DEF Valid
      <4> QED BY <4>3, <4>4
    <3> QED BY <3>1 DEF Where
  <2>14. InAccess'
    <3>1. from[3] \in MWay
      BY <1>3, <2>1, <2>9 DEF Lines, Placed
    <3> QED BY <2>8, <2>13, <3>1 DEF InAccess
  <2>15. Phase'
    BY <2>8, <2>11 DEF Phase
  <2>16. Chain(a, from, front)'
    <3>1. Len(front) <= MaxRelocN
      BY <1>5, <2>1, MirageAssumption DEF Chain
    <3>2. \A i \in 1 .. Len(front) : Valid(front[i])' /\ front[i] # from
      BY <2>1, <2>12
    <3>3. \A i, j \in 1 .. Len(front) : front[i] = front[j] => i = j
      BY <1>5, <2>1, <2>2 DEF Chain
    <3>4. ASSUME NEW i \in 1 .. Len(front)
          PROVE  SetOf(IF i = Len(front) THEN from ELSE front[i + 1]) = Target(front[i])'
      <4>1. i \in 1 .. n - 1 /\ i \in 1 .. n /\ i # n /\ front[i] = stack[i]
        BY <2>1, <2>2
      <4>2. SetOf(stack[i + 1]) = Target(stack[i])
        BY <1>5, <4>1 DEF Chain
      <4>3. stack[i + 1] = IF i = Len(front) THEN from ELSE front[i + 1]
        <5>1. CASE i = Len(front)
          <6>1. i + 1 = n
            BY <2>1, <5>1
          <6> QED BY <5>1, <6>1 DEF from
        <5>2. CASE i # Len(front)
          <6>1. i + 1 \in 1 .. n - 1
            BY <2>1, <2>2, <4>1, <5>2
          <6> QED BY <2>1, <5>2, <6>1
        <5> QED BY <5>1, <5>2
      <4> QED BY <2>12, <4>1, <4>2, <4>3
    <3>5. stack[1] = IF front = <<>> THEN from ELSE front[1]
      <4>1. front = <<>> <=> n - 1 = 0
        BY <2>1, EmptyStack
      <4>2. CASE n - 1 = 0
        <5>1. n = 1
          BY <2>1, <4>2
        <5> QED BY <4>1, <4>2, <5>1 DEF from
      <4>3. CASE n - 1 # 0
        <5>1. 1 \in 1 .. n - 1
          BY <2>1, <4>3
        <5> QED BY <2>1, <4>1, <4>3, <5>1
      <4> QED BY <4>2, <4>3
    <3>6. stack[1][2] = MSet[stack[1][1]][a]
      BY <1>5, <1>8 DEF Chain
    <3> QED BY <3>1, <3>2, <3>3, <3>4, <3>5, <3>6 DEF Chain
  (* The record of what is left is still that of an allocation. *)
  <2>17. ASSUME Short
         PROVE  WaysFree' /\ Apart(from, front)'
    <3>1. /\ IsAllocated(at) /\ IsAllocated(from)
          /\ \A i \in 1 .. n : IsAllocated(stack[i])
      BY <1>5, <2>3, <2>17 DEF Apart, from
    <3>2. /\ SetOf(from) # SetOf(at)
          /\ \A i \in 1 .. n : SetOf(stack[i]) # SetOf(at)
          /\ \A i \in 1 .. n - 1 : SetOf(stack[i]) # SetOf(from)
      <4>1. /\ \A i \in 1 .. n : SetOf(stack[i]) # SetOf(at)
            /\ \A i, j \in 1 .. n : SetOf(stack[i]) = SetOf(stack[j]) => i = j
        BY <1>3, <1>5, <2>17, ChainSets DEF Lines
      <4> QED BY <2>2, <2>3, <4>1 DEF from
    <3>3. SetOf(from) \in Set /\ SetOf(at) \in Set
      BY <2>1, EntryParts
    <3>4. \A x \in Set : mrep'[x] = IF x = SetOf(at) THEN Accessed(mrep[x], at[3]) ELSE mrep[x]
      <4>1. Invalid(mrep[SetOf(from)], from[3]) = mrep[SetOf(from)]
        BY <3>1 DEF IsAllocated, Invalid
      <4>2. \A x \in Set : RepAfter(from, at, x) = IF x = SetOf(at) THEN Accessed(mrep[x], at[3]) ELSE mrep[x]
        BY <3>2, <4>1 DEF RepAfter
      <4> QED BY <2>7, <4>2 DEF Moves
    <3>5. \A x \in Set : mrep'[x].free = mrep[x].free
      <4>1. mrep[SetOf(at)] \in Replacer(MWay) /\ None \notin MWay
        BY <1>3, <3>3, NoneIsNoPlace DEF Lines, TypeOK
      <4>2. Accessed(mrep[SetOf(at)], at[3]).free = mrep[SetOf(at)].free
        BY <1>5, <4>1, Hooks
      <4> QED BY <3>4, <4>2
    <3>6. WaysFree'
      <4>1. ASSUME NEW x \in Set, NEW w \in mrep'[x].free
            PROVE  w \in MWay /\ ~Valid(<<x[1], x[2], w>>)'
        <5>1. w \in mrep[x].free /\ w \in MWay /\ ~Valid(<<x[1], x[2], w>>)
          BY <1>5, <2>17, <3>5, <4>1 DEF WaysFree
        <5>2. PICK f \in Entry : f = <<x[1], x[2], w>> /\ SetOf(f) = x /\ f[3] = w
          BY <5>1, WayOfSet
        <5>3. f # at
          BY <3>1, <5>1, <5>2 DEF IsAllocated
        <5>4. ~Valid(f)'
          BY <2>10, <2>11, <5>1, <5>2, <5>3 DEF Valid
        <5> QED BY <5>1, <5>2, <5>4
      <4> QED BY <4>1 DEF WaysFree
    <3>7. IsAllocated(from)'
      BY <3>1, <3>2, <3>3, <3>4 DEF IsAllocated
    <3>8. \A i \in 1 .. Len(front) : IsAllocated(front[i])'
      <4>1. ASSUME NEW i \in 1 .. n - 1
            PROVE  IsAllocated(stack[i])'
        <5>1. SetOf(stack[i]) \in Set /\ SetOf(stack[i]) # SetOf(at) /\ IsAllocated(stack[i])
          BY <2>2, <2>12, <3>1, <3>2, EntryParts
        <5> QED BY <3>4, <5>1 DEF IsAllocated
      <4> QED BY <2>1, <4>1
    <3>9. \E p \in Part : Spread(p, from, front)
      <4>1. PICK p \in Part : \A i \in 1 .. n : stack[i][1] = Wrap(p + i - 1)
        BY <1>5, <2>17 DEF Apart, Spread
      <4>2. p \in Nat
        BY MirageAssumption DEF Part
      <4>3. p + (n - 1) = p + n - 1
        BY <2>1, <4>2
      <4>4. from[1] = Wrap(p + Len(front))
        BY <2>1, <2>3, <4>1, <4>3 DEF from
      <4>5. \A i \in 1 .. Len(front) : front[i][1] = Wrap(p + i - 1)
        BY <2>1, <2>2, <4>1
      <4> QED BY <4>4, <4>5 DEF Spread
    <3> QED BY <3>6, <3>7, <3>8, <3>9 DEF Apart
  <2> QED BY <2>8, <2>10, <2>14, <2>15, <2>16, <2>17 DEF IInv, Access
<1> QED BY <1>7, <1>8

LEMMA FillStep ==
  ASSUME IInv, Fill
  PROVE  IInv'
<1>1. job.pc = "fill"
  BY DEF Fill
<1>2. job # Idle
  BY <1>1 DEF Idle
<1>3. /\ Lines /\ SlotsFree /\ InAccess /\ Chain(job.addr, job.at, job.stack)
      /\ ~Valid(job.at) /\ job.stack = <<>>
      /\ (Short => WaysFree /\ Apart(job.at, job.stack))
  BY <1>1, <1>2 DEF IInv, Access, Phase
<1>4. PICK a \in Addr, e \in Entry : a = job.addr /\ e = job.at
  BY <1>3 DEF InAccess
<1>5. /\ e[3] \in MWay /\ Where(a) = {} /\ ~Valid(e) /\ e[2] = MSet[e[1]][a]
      /\ Short => WaysFree /\ IsAllocated(e)
  BY <1>3, <1>4 DEF InAccess, Chain, Apart
<1>6. /\ Lines' /\ SlotsFree'
      /\ \A f \in Entry : Valid(f)' => f = e \/ Valid(f)
      /\ \A x \in Set : \A v \in mrep'[x].free :
           v \in mrep[x].free \/ ~Valid(<<x[1], x[2], v>>)'
  BY <1>3, <1>4, <1>5, FillLines
<1>7. job' = Idle
  BY DEF Fill
<1>8. ASSUME Short
      PROVE  WaysFree'
  <2>1. ASSUME NEW x \in Set, NEW v \in mrep'[x].free
        PROVE  v \in MWay /\ ~Valid(<<x[1], x[2], v>>)'
    <3>1. v \in MWay
      BY <1>6 DEF Lines, TypeOK, Replacer
    <3>2. PICK f \in Entry : f = <<x[1], x[2], v>> /\ SetOf(f) = x /\ f[3] = v
      BY <3>1, WayOfSet
    <3>3. ASSUME Valid(f)'
          PROVE  FALSE
      <4>1. v \in mrep[x].free
        BY <1>6, <3>2, <3>3
      <4>2. ~Valid(f)
        BY <1>5, <1>8, <3>2, <4>1 DEF WaysFree
      <4>3. f = e
        BY <1>6, <3>3, <4>2
      <4> QED BY <1>5, <1>8, <3>2, <4>1, <4>3 DEF IsAllocated
    <3> QED BY <3>1, <3>2, <3>3
  <2> QED BY <2>1 DEF WaysFree
<1> QED BY <1>6, <1>7, <1>8 DEF IInv

LEMMA StutterStep ==
  ASSUME IInv, UNCHANGED vars
  PROVE  IInv'
<1>1. UNCHANGED <<meta, dmeta, data, mrep, drep, up, mem, job>>
  BY DEF vars
<1>2. Lines' /\ SlotsFree' /\ (WaysFree => WaysFree')
  BY <1>1 DEF IInv, Lines, SlotsFree, FreeSlots, WaysFree, TypeOK, Placed, Cleared, Unique, Bound,
     OwnContent, LastKept, UpperHeld, Where, Valid
<1>3. Access => Access'
  BY <1>1 DEF Access, InAccess, Chain, Phase, Where, Valid, Target
<1>4. Apart(job.at, job.stack) => Apart(job.at, job.stack)'
  BY <1>1 DEF Apart, IsAllocated
<1> QED BY <1>1, <1>2, <1>3, <1>4 DEF IInv

LEMMA NextStep ==
  ASSUME IInv, Next
  PROVE  IInv'
<1>1. CASE \E a \in Addr, write \in BOOLEAN : Hit(a, write) \/ Miss(a, write)
  BY <1>1, CallStep, MissStep
<1>2. CASE \E a \in Addr : Release(a) \/ Flush(a)
  <2>1. PICK a \in Addr : Release(a) \/ Flush(a)
    BY <1>2
  <2>2. TRUE \in BOOLEAN
    OBVIOUS
  <2> QED BY <2>1, <2>2, CallStep
<1>3. CASE Search
  BY <1>3, SearchStep
<1>4. CASE Evict
  BY <1>4, EvictStep
<1>5. CASE Relocate
  BY <1>5, RelocateStep
<1>6. CASE Fill
  BY <1>6, FillStep
<1> QED BY <1>1, <1>2, <1>3, <1>4, <1>5, <1>6 DEF Next

-----------------------------------------------------------------------------
(* The theorems. *)

(* The inductive invariant of the MIRAGE cache: what follows, the free map *)
(* of the data array, and what holds in the middle of an access: the chain *)
(* that cuckoo_search() makes is one of distinct valid entries, each of    *)
(* which can take the block of the one before it, and the access's own     *)
(* block is in none.                                                       *)
THEOREM Invariance == Spec => []IInv
<1>1. IInv /\ [Next]_vars => IInv'
  BY NextStep, StutterStep
<1> QED BY <1>1, InitIInv, PTL DEF Spec

(* Bound: through every eviction and relocation (CacheMirage::relocate())  *)
(* the pointers between metadata and data stay one to one.                 *)
THEOREM BoundHolds == Spec => []Bound
<1>1. IInv => Bound
  BY DEF IInv, Lines
<1> QED BY <1>1, Invariance, PTL

(* ContentKept: an access never brings a block in a second time, never     *)
(* serves it with the content of another, and loses no last content, be it *)
(* that a block is evicted for its set of metadata or for its slot.        *)
THEOREM ContentHolds == Spec => []ContentKept
<1>1. ASSUME IInv
      PROVE  ContentKept
  <2>1. ASSUME NEW a \in Addr
        PROVE  Cardinality(Where(a)) <= 1
    <3>1. CASE Where(a) = {}
      BY <3>1, FS_EmptySet
    <3>2. CASE Where(a) # {}
      <4>1. PICK e \in Where(a) : TRUE
        BY <3>2
      <4>2. Where(a) = {e}
        BY <1>1, <4>1 DEF IInv, Lines, Unique, Where
      <4>3. Cardinality(Where(a)) = 1
        BY <4>2, FS_Singleton
      <4> QED BY <4>3
    <3> QED BY <3>1, <3>2
  <2> QED BY <1>1, <2>1 DEF ContentKept, IInv, Lines, OwnContent, LastKept, UpperHeld
<1> QED BY <1>1, Invariance, PTL

(* FreeSound: the free map of the data array is exact at all times.  That  *)
(* of the metadata lists no way that holds a block if a chain is too short *)
(* to come back to a partition.                                            *)
THEOREM FreeHolds == Spec => []FreeSound
<1>1. IInv => FreeSound
  BY DEF IInv, Short, WaysFree, SlotsFree, FreeSlots, FreeSound
<1> QED BY <1>1, Invariance, PTL

(* What hit() looks at, one set of each partition, is where a block is:    *)
(* Where() in the model stands for that search.                            *)
THEOREM FindableHolds == Spec => []Findable
<1>1. IInv => Findable
  BY DEF IInv, Lines, Placed, Where, Findable
<1> QED BY <1>1, Invariance, PTL
=============================================================================
