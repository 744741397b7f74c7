----------------------------- MODULE RemapProofs -----------------------------
(***************************************************************************)
(* Proofs about Remap, for any number of sets and ways and any index       *)
(* functions: while the blocks of the cache move to the sets of the next   *)
(* function every block is in one place, where hit() finds it, and its     *)
(* last content is kept.                                                   *)
(***************************************************************************)
EXTENDS Remap, WellFoundedInduction, TLAPS

Line == [addr : Addr \cup {None}, dirty : BOOLEAN]

TypeOK ==
  /\ line \in [Place -> Line]
  /\ moved \subseteq Place
  /\ free \in [Set -> SUBSET Way]
  /\ idx \in Index /\ next \in Index
  /\ up \subseteq Addr /\ mem \subseteq Addr
  /\ pc \in {"idle", "scan", "chain"}
  /\ at \in (0 .. NSet) \X Way
  /\ buf \in Line

(* No block is twice in the cache and the buffer. *)
Unique ==
  /\ \A p, q \in Place : Valid(line[p]) /\ line[p].addr = line[q].addr => p = q
  /\ \A p \in Place : Valid(line[p]) => line[p].addr # buf.addr

(* The places that remap() has been at. *)
Behind(p) == p[1] < at[1] \/ (p[1] = at[1] /\ p[2] < at[2])

(* A block that has moved is in its next set, one that has not is in its   *)
(* set still, and remap() has yet to come to it.                           *)
Located ==
  \A p \in Place :
    Valid(line[p]) =>
      IF p \in moved THEN p[1] = next[line[p].addr]
      ELSE p[1] = idx[line[p].addr] /\ ~Behind(p)

(* Between calls nothing has moved; a chain begins at a place it empties.  *)
Control ==
  /\ pc = "idle" => moved = {} /\ at = <<0, 0>>
  /\ pc = "chain" => at \in moved
  /\ pc # "chain" => ~Valid(buf)

FreeExact == \A s \in Set : free[s] = {w \in Way : ~Valid(line[<<s, w>>])}

(* The last content of a block, and the block of newer content above.      *)
Kept(a)  == (buf.addr = a /\ buf.dirty) \/ \E p \in Place : line[p].addr = a /\ line[p].dirty
Holds(a) == buf.addr = a \/ \E p \in Place : line[p].addr = a
LastKept == \A a \in Addr : a \in up \cup mem \/ Kept(a)
UpperHeld == \A a \in up : Holds(a)

IInv == TypeOK /\ Unique /\ Located /\ Control /\ FreeExact /\ LastKept /\ UpperHeld

-----------------------------------------------------------------------------
(* Where blocks are. *)

(* The replacer takes a way of the set, free or not. *)
LEMMA VictimIsWay ==
  ASSUME TypeOK, NEW s \in Set, NEW w \in Victims(s)
  PROVE  w \in Way
<1> DEFINE R == OpToRel(<, Nat)
           Least(v) == \A u \in free[s] : v <= u
<1>1. free[s] \subseteq Way /\ Way \subseteq Nat
  BY RemapAssumption DEF TypeOK, Way
<1>2. CASE free[s] # {}
  <2>1. PICK v \in free[s] : \A u \in free[s] : <<u, v>> \notin R
    <3> HIDE DEF R
    <3>1. IsWellFoundedOn(R, Nat)
      BY NatLessThanWellFounded DEF R
    <3> QED BY <1>1, <1>2, <3>1, WFMin
  <2>2. \A u \in free[s] : <<u, v>> \in R <=> u < v
    BY <1>1 DEF OpToRel
  <2> HIDE DEF R
  <2>3. Least(v)
    <3>1. ASSUME NEW u \in free[s]
          PROVE  v <= u
      <4>1. ~(u < v) /\ u \in Nat /\ v \in Nat
        BY <1>1, <2>1, <2>2
      <4> QED BY <4>1
    <3> QED BY <3>1
  <2>4. Victims(s) = {CHOOSE u \in free[s] : Least(u)}
    BY <1>2 DEF Victims
  <2>5. (CHOOSE u \in free[s] : Least(u)) \in free[s]
    <3> HIDE DEF Least
    <3> QED BY <2>3
  <2> QED BY <1>1, <2>4, <2>5
<1>3. CASE free[s] = {}
  BY <1>3 DEF Victims
<1> QED BY <1>2, <1>3

(* An index function gives sets. *)
LEMMA IndexIsSet ==
  ASSUME TypeOK, NEW a \in Addr
  PROVE  idx[a] \in Set /\ next[a] \in Set
BY RemapAssumption DEF TypeOK, Set

(* The pointer goes over each place once. *)
LEMMA Advance ==
  ASSUME at \in Place
  PROVE  /\ Advanced \in (0 .. NSet) \X Way
         /\ \A p \in Place : p # at /\ ~Behind(p) => ~(p[1] < Advanced[1] \/ (p[1] = Advanced[1] /\ p[2] < Advanced[2]))
<1>1. /\ NSet \in Nat \ {0} /\ NW \in Nat \ {0}
      /\ at[1] \in 0 .. NSet - 1 /\ at[2] \in 0 .. NW - 1 /\ at = <<at[1], at[2]>>
  BY RemapAssumption DEF Place, Set, Way
<1>2. Advanced \in (0 .. NSet) \X Way
  BY <1>1 DEF Advanced, Way
<1>3. ASSUME NEW p \in Place, p # at, ~Behind(p)
      PROVE  ~(p[1] < Advanced[1] \/ (p[1] = Advanced[1] /\ p[2] < Advanced[2]))
  <2>1. p[1] \in 0 .. NSet - 1 /\ p[2] \in 0 .. NW - 1 /\ p = <<p[1], p[2]>>
    BY DEF Place, Set, Way
  <2>2. p[1] # at[1] \/ p[2] # at[2]
    BY <1>1, <1>3, <2>1
  <2>3. p[1] > at[1] \/ (p[1] = at[1] /\ p[2] > at[2])
    BY <1>1, <1>3, <2>1, <2>2 DEF Behind
  <2>4. CASE at[2] + 1 < NW
    <3>1. Advanced[1] = at[1] /\ Advanced[2] = at[2] + 1
      BY <2>4 DEF Advanced
    <3> QED BY <1>1, <2>1, <2>3, <3>1
  <2>5. CASE ~(at[2] + 1 < NW)
    <3>1. Advanced[1] = at[1] + 1 /\ Advanced[2] = 0
      BY <2>5 DEF Advanced
    <3> QED BY <1>1, <2>1, <2>3, <2>5, <3>1
  <2> QED BY <2>4, <2>5
<1> QED BY <1>2, <1>3

(* The places of a block: by the invariant one at most, and hit() finds it.*)
LEMMA WhereFound ==
  ASSUME IInv, NEW p \in Place, Valid(line[p])
  PROVE  Found(line[p].addr) = {p}
<1> DEFINE a == line[p].addr
<1>1. a \in Addr
  BY DEF IInv, TypeOK, Line, Valid
<1>2. p \in Found(a)
  <2>1. p[1] \in Nat /\ at[1] \in Nat
    BY RemapAssumption DEF IInv, TypeOK, Place, Set
  <2>2. CASE p \in moved
    BY <2>2 DEF IInv, Located, Control, Found
  <2>3. CASE p \notin moved
    BY <2>1, <2>3 DEF IInv, Located, Behind, Found
  <2> QED BY <2>2, <2>3
<1>3. \A q \in Found(a) : q = p
  BY DEF Found, IInv, Unique
<1> QED BY <1>2, <1>3

(* What the next calls rely on: at rest, a miss means that the block is    *)
(* nowhere.                                                                *)
LEMMA MissIsNowhere ==
  ASSUME IInv, pc = "idle", NEW a \in Addr, Found(a) = {}
  PROVE  /\ \A q \in Place : line[q].addr # a
         /\ a \notin up /\ a \in mem
<1>1. \A q \in Place : line[q].addr # a
  BY WhereFound, RemapAssumption DEF Valid
<1>2. buf.addr # a
  BY RemapAssumption DEF IInv, Control, Valid
<1> QED BY <1>1, <1>2 DEF IInv, LastKept, UpperHeld, Kept, Holds

-----------------------------------------------------------------------------
(* The steps. *)

LEMMA InitInv == Init => IInv
<1> SUFFICES ASSUME Init PROVE IInv
  OBVIOUS
<1>1. TypeOK
  BY RemapAssumption DEF Init, TypeOK, Line, Empty, Set, Way, Place
<1>2. \A p \in Place : ~Valid(line[p])
  BY DEF Init, Empty, Valid
<1>3. FreeExact
  <2>1. \A s \in Set, w \in Way : <<s, w>> \in Place
    BY DEF Place
  <2> QED BY <1>2, <2>1 DEF FreeExact, Init
<1> QED BY <1>1, <1>2, <1>3
        DEF Init, IInv, Unique, Located, Control, LastKept, UpperHeld, Empty, Valid

(* A call that leaves the blocks where they are. *)
LEMMA SamePlaces ==
  ASSUME IInv, line' \in [Place -> Line], \A p \in Place : line'[p].addr = line[p].addr,
         UNCHANGED <<moved, free, idx, next, at, buf>>
  PROVE  Unique' /\ Located' /\ FreeExact'
<1>1. Unique'
  BY DEF IInv, Unique, Valid
<1>2. Located'
  BY DEF IInv, Located, Behind, Valid
<1>3. FreeExact'
  <2>1. \A s \in Set, w \in Way : <<s, w>> \in Place
    BY DEF Place
  <2> QED BY <2>1 DEF IInv, FreeExact, Valid
<1> QED BY <1>1, <1>2, <1>3

LEMMA HitInv ==
  ASSUME IInv, NEW a \in Addr, NEW write \in BOOLEAN, Hit(a, write)
  PROVE  IInv'
<1>1. PICK p \in Place : line[p].addr = a /\ line' = [line EXCEPT ![p].dirty = @ \/ a \in up]
  BY DEF Hit, Found
<1>2. /\ line' \in [Place -> Line]
      /\ \A q \in Place : line'[q].addr = line[q].addr /\ (line[q].dirty => line'[q].dirty)
      /\ a \in up => line'[p].dirty
  BY <1>1 DEF IInv, TypeOK, Line
<1>3. Unique' /\ Located' /\ FreeExact'
  BY <1>2, SamePlaces DEF Hit
<1>4. TypeOK'
  BY <1>2 DEF Hit, IInv, TypeOK
<1>5. Control'
  BY DEF Hit, IInv, Control
<1>6. /\ up' = IF write THEN up \cup {a} ELSE up \ {a}
      /\ mem' = IF write THEN mem \ {a} ELSE mem
      /\ buf' = buf
  BY DEF Hit
<1>7. LastKept'
  <2>1. \A b \in Addr : Kept(b) => Kept(b)'
    BY <1>2, <1>6 DEF Kept
  <2>2. a \in up => Kept(a)'
    BY <1>1, <1>2 DEF Kept
  <2> QED BY <1>6, <2>1, <2>2 DEF IInv, LastKept
<1>8. UpperHeld'
  <2>1. \A b : Holds(b)' <=> Holds(b)
    BY <1>2, <1>6 DEF Holds
  <2>2. Holds(a)
    BY <1>1 DEF Holds
  <2> QED BY <1>6, <2>1, <2>2 DEF IInv, UpperHeld
<1> QED BY <1>3, <1>4, <1>5, <1>7, <1>8 DEF IInv

LEMMA ReleaseInv ==
  ASSUME IInv, NEW a \in Addr, Release(a)
  PROVE  IInv'
<1>1. PICK p \in Place : line[p].addr = a /\ line' = [line EXCEPT ![p].dirty = TRUE]
  BY DEF Release, Found
<1>2. /\ line' \in [Place -> Line]
      /\ \A q \in Place : line'[q].addr = line[q].addr /\ (line[q].dirty => line'[q].dirty)
      /\ line'[p].dirty
  BY <1>1 DEF IInv, TypeOK, Line
<1>3. Unique' /\ Located' /\ FreeExact'
  BY <1>2, SamePlaces DEF Release
<1>4. TypeOK'
  BY <1>2 DEF Release, IInv, TypeOK
<1>5. Control'
  BY DEF Release, IInv, Control
<1>6. up' = up \ {a} /\ mem' = mem /\ buf' = buf
  BY DEF Release
<1>7. LastKept'
  <2>1. \A b \in Addr : Kept(b) => Kept(b)'
    BY <1>2, <1>6 DEF Kept
  <2>2. Kept(a)'
    BY <1>1, <1>2 DEF Kept
  <2> QED BY <1>6, <2>1, <2>2 DEF IInv, LastKept
<1>8. UpperHeld'
  <2>1. \A b : Holds(b)' <=> Holds(b)
    BY <1>2, <1>6 DEF Holds
  <2> QED BY <1>6, <2>1 DEF IInv, UpperHeld
<1> QED BY <1>3, <1>4, <1>5, <1>7, <1>8 DEF IInv

(* The free map follows a place that is filled, or emptied. *)
LEMMA FreeFollows ==
  ASSUME FreeExact, TypeOK, NEW p \in Place, NEW m \in Line, line' = [line EXCEPT ![p] = m],
         free' = [free EXCEPT ![p[1]] = IF Valid(m) THEN @ \ {p[2]} ELSE @ \cup {p[2]}]
  PROVE  free' \in [Set -> SUBSET Way] /\ FreeExact'
<1>1. p[1] \in Set /\ p[2] \in Way /\ p = <<p[1], p[2]>>
  BY DEF Place
<1>2. free' \in [Set -> SUBSET Way]
  BY <1>1 DEF TypeOK
<1>3. ASSUME NEW s \in Set
      PROVE  free'[s] = {w \in Way : ~Valid(line'[<<s, w>>])}
  <2>1. \A w \in Way : <<s, w>> \in Place
    BY DEF Place
  <2>2. free[s] = {w \in Way : ~Valid(line[<<s, w>>])}
    BY DEF FreeExact
  <2>3. line'[p] = m /\ \A w \in Way : <<s, w>> # p => line'[<<s, w>>] = line[<<s, w>>]
    BY <2>1 DEF TypeOK
  <2>4. CASE s = p[1]
    <3>1. free'[s] = IF Valid(m) THEN free[s] \ {p[2]} ELSE free[s] \cup {p[2]}
      BY <1>1, <2>4 DEF TypeOK
    <3>2. \A w \in Way : w \in free'[s] <=> ~Valid(line'[<<s, w>>])
      <4>1. ASSUME NEW w \in Way
            PROVE  w \in free'[s] <=> ~Valid(line'[<<s, w>>])
        <5>1. CASE w = p[2]
          BY <1>1, <2>3, <2>4, <3>1, <5>1
        <5>2. CASE w # p[2]
          <6>1. <<s, w>> # p
            BY <1>1, <5>2
          <6>2. line'[<<s, w>>] = line[<<s, w>>]
            BY <2>3, <6>1
          <6> QED BY <2>2, <3>1, <5>2, <6>2
        <5> QED BY <5>1, <5>2
      <4> QED BY <4>1
    <3> QED BY <1>2, <3>2
  <2>5. CASE s # p[1]
    <3>1. free'[s] = free[s]
      BY <1>1, <2>5 DEF TypeOK
    <3>2. \A w \in Way : line'[<<s, w>>] = line[<<s, w>>]
      BY <1>1, <2>3, <2>5
    <3> QED BY <2>2, <3>1, <3>2
  <2> QED BY <2>4, <2>5
<1>4. FreeExact'
  BY <1>3 DEF FreeExact, Valid
<1> QED BY <1>2, <1>4

(* The victim of a miss is written back, and the block is where its index  *)
(* says.                                                                   *)
LEMMA MissInv ==
  ASSUME IInv, NEW a \in Addr, NEW write \in BOOLEAN, Miss(a, write)
  PROVE  IInv'
<1>1. PICK w \in Victims(idx[a]) :
        LET p == <<idx[a], w>>
        IN  /\ line' = [line EXCEPT ![p] = [addr |-> a, dirty |-> FALSE]]
            /\ free' = [free EXCEPT ![idx[a]] = @ \ {w}]
            /\ up' = (up \ {line[p].addr}) \cup (IF write THEN {a} ELSE {})
            /\ mem' = (IF Valid(line[p]) THEN MemAfter(line[p]) ELSE mem) \ (IF write THEN {a} ELSE {})
  BY DEF Miss
<1> DEFINE m == [addr |-> a, dirty |-> FALSE]
<1>2. idx[a] \in Set /\ w \in Way
  BY IndexIsSet, VictimIsWay DEF IInv
<1>3. PICK p \in Place : p = <<idx[a], w>> /\ p[1] = idx[a] /\ p[2] = w
  <2>1. <<idx[a], w>> \in Place
    BY <1>2 DEF Place
  <2>2. <<idx[a], w>>[1] = idx[a] /\ <<idx[a], w>>[2] = w
    OBVIOUS
  <2> QED BY <2>1, <2>2
<1>4. m \in Line /\ Valid(m) /\ m.addr = a
  BY RemapAssumption DEF Line, Valid
<1>5. /\ line' = [line EXCEPT ![p] = m] /\ free' = [free EXCEPT ![p[1]] = @ \ {p[2]}]
      /\ up' = (up \ {line[p].addr}) \cup (IF write THEN {a} ELSE {})
      /\ mem' = (IF Valid(line[p]) THEN MemAfter(line[p]) ELSE mem) \ (IF write THEN {a} ELSE {})
  BY <1>1, <1>3
<1>6. /\ (\A q \in Place : line[q].addr # a) /\ a \notin up /\ a \in mem
  BY MissIsNowhere DEF Miss
<1>7. /\ pc = "idle" /\ moved = {} /\ at = <<0, 0>> /\ buf.addr = None
      /\ moved' = moved /\ idx' = idx /\ next' = next /\ pc' = pc /\ at' = at /\ buf' = buf
  BY DEF Miss, IInv, Control, Valid
<1> HIDE DEF m
<1>8. line' \in [Place -> Line] /\ line'[p] = m /\ \A q \in Place \ {p} : line'[q] = line[q]
  BY <1>3, <1>4, <1>5 DEF IInv, TypeOK
<1>9. free' \in [Set -> SUBSET Way] /\ FreeExact'
  BY <1>3, <1>4, <1>5, FreeFollows DEF IInv
<1>10. TypeOK'
  <2>1. up' \subseteq Addr
    BY <1>5 DEF IInv, TypeOK
  <2>2. mem' \subseteq Addr
    BY <1>3, <1>5 DEF IInv, TypeOK, MemAfter, Line, Valid
  <2> QED BY <1>7, <1>8, <1>9, <2>1, <2>2 DEF IInv, TypeOK
<1>11. Unique'
  BY <1>4, <1>6, <1>7, <1>8, RemapAssumption DEF IInv, Unique, Valid
<1>12. Located'
  <2>1. ~Behind(p)'
    <3>1. p[1] \in Nat /\ p[2] \in Nat /\ at'[1] = 0 /\ at'[2] = 0
      BY <1>2, <1>3, <1>7, RemapAssumption DEF Set, Way
    <3> QED BY <3>1 DEF Behind
  <2>2. \A q \in Place : Behind(q)' <=> Behind(q)
    BY <1>7 DEF Behind
  <2> QED BY <1>3, <1>4, <1>7, <1>8, <2>1, <2>2 DEF IInv, Located, Valid
<1>13. Control'
  BY <1>7 DEF IInv, Control, Valid
<1>14. LastKept'
  <2>1. ASSUME NEW b \in Addr, b # a
        PROVE  (b \in up' \cup mem') \/ Kept(b)'
    <3>1. CASE b = line[p].addr
      <4>1. Valid(line[p])
        BY <3>1, RemapAssumption DEF Valid
      <4>2. CASE line[p].dirty \/ b \in up
        BY <1>5, <2>1, <3>1, <4>1, <4>2 DEF MemAfter
      <4>3. CASE ~line[p].dirty /\ b \notin up
        <5>1. ~Kept(b)
          BY <1>3, <1>7, <3>1, <4>1, <4>3, RemapAssumption DEF Kept, IInv, Unique
        <5>2. b \in mem
          BY <4>3, <5>1 DEF IInv, LastKept
        <5> QED BY <1>5, <2>1, <5>2 DEF MemAfter
      <4> QED BY <4>2, <4>3
    <3>2. CASE b # line[p].addr
      <4>1. Kept(b) => Kept(b)'
        BY <1>7, <1>8, <3>2 DEF Kept
      <4>2. mem \ {a} \subseteq mem' /\ up \ {line[p].addr} \subseteq up'
        BY <1>5 DEF MemAfter
      <4> QED BY <2>1, <3>2, <4>1, <4>2 DEF IInv, LastKept
    <3> QED BY <3>1, <3>2
  <2>2. a \in up' \cup mem'
    BY <1>5, <1>6 DEF MemAfter
  <2> QED BY <2>1, <2>2 DEF LastKept
<1>15. UpperHeld'
  <2>1. Holds(a)'
    BY <1>3, <1>4, <1>8 DEF Holds
  <2>2. ASSUME NEW b \in up', b # a
        PROVE  Holds(b)'
    <3>1. b \in up /\ b # line[p].addr
      BY <1>5, <2>2
    <3>2. Holds(b)
      BY <3>1 DEF IInv, UpperHeld
    <3> QED BY <1>7, <1>8, <3>1, <3>2 DEF Holds
  <2> QED BY <2>1, <2>2 DEF UpperHeld
<1> QED BY <1>9, <1>10, <1>11, <1>12, <1>13, <1>14, <1>15 DEF IInv

(* A flush writes back what it empties. *)
LEMMA FlushInv ==
  ASSUME IInv, NEW a \in Addr, Flush(a)
  PROVE  IInv'
<1>1. PICK p \in Found(a) :
        /\ mem' = MemAfter(line[p])
        /\ line' = [line EXCEPT ![p] = Empty]
        /\ free' = [free EXCEPT ![p[1]] = @ \cup {p[2]}]
  BY DEF Flush
<1>2. p \in Place /\ line[p].addr = a /\ Valid(line[p])
  BY RemapAssumption DEF Found, Valid
<1>3. Empty \in Line /\ ~Valid(Empty) /\ Empty.addr = None /\ Empty.dirty = FALSE
  BY DEF Empty, Line, Valid
<1>4. /\ pc = "idle" /\ moved = {} /\ at = <<0, 0>> /\ buf.addr = None /\ up' = up \ {a}
      /\ moved' = moved /\ idx' = idx /\ next' = next /\ pc' = pc /\ at' = at /\ buf' = buf
  BY DEF Flush, IInv, Control, Valid
<1>5. line' \in [Place -> Line] /\ line'[p] = Empty /\ \A q \in Place \ {p} : line'[q] = line[q]
  BY <1>1, <1>2, <1>3 DEF IInv, TypeOK
<1>6. free' \in [Set -> SUBSET Way] /\ FreeExact'
  BY <1>1, <1>2, <1>3, FreeFollows DEF IInv
<1>7. TypeOK'
  <2>1. up' \subseteq Addr /\ mem' \subseteq Addr
    BY <1>1, <1>2, <1>4 DEF IInv, TypeOK, MemAfter
  <2> QED BY <1>4, <1>5, <1>6, <2>1 DEF IInv, TypeOK
<1>8. Unique'
  BY <1>3, <1>4, <1>5 DEF IInv, Unique, Valid
<1>9. Located'
  <2>1. \A q \in Place : Behind(q)' <=> Behind(q)
    BY <1>4 DEF Behind
  <2> QED BY <1>3, <1>4, <1>5, <2>1 DEF IInv, Located, Valid
<1>10. Control'
  BY <1>4 DEF IInv, Control, Valid
<1>11. LastKept'
  <2>1. ASSUME NEW b \in Addr, b # a
        PROVE  (b \in up' \cup mem') \/ Kept(b)'
    <3>1. Kept(b) => Kept(b)'
      BY <1>2, <1>4, <1>5, <2>1 DEF Kept
    <3>2. mem \subseteq mem'
      BY <1>1 DEF MemAfter
    <3> QED BY <1>4, <2>1, <3>1, <3>2 DEF IInv, LastKept
  <2>2. a \in mem'
    <3>1. CASE line[p].dirty \/ a \in up
      BY <1>1, <1>2, <3>1 DEF MemAfter
    <3>2. CASE ~line[p].dirty /\ a \notin up
      <4>1. ~Kept(a)
        BY <1>2, <1>4, <3>2, RemapAssumption DEF Kept, IInv, Unique
      <4>2. a \in mem
        BY <3>2, <4>1 DEF IInv, LastKept
      <4> QED BY <1>1, <4>2 DEF MemAfter
    <3> QED BY <3>1, <3>2
  <2> QED BY <2>1, <2>2 DEF LastKept
<1>12. UpperHeld'
  <2>1. ASSUME NEW b \in up'
        PROVE  Holds(b)'
    <3>1. b \in up /\ b # a
      BY <1>4, <2>1
    <3>2. Holds(b)
      BY <3>1 DEF IInv, UpperHeld
    <3> QED BY <1>2, <1>4, <1>5, <3>1, <3>2 DEF Holds
  <2> QED BY <2>1 DEF UpperHeld
<1> QED BY <1>6, <1>7, <1>8, <1>9, <1>10, <1>11, <1>12 DEF IInv

(* A chain begins: the block goes from its place to the buffer. *)
LEMMA TakeInv ==
  ASSUME IInv, Take
  PROVE  IInv'
<1>1. /\ at \in Place /\ Valid(line[at]) /\ at \notin moved /\ pc = "scan"
      /\ buf' = line[at] /\ line' = [line EXCEPT ![at] = Empty] /\ moved' = moved \cup {at}
      /\ free' = [free EXCEPT ![at[1]] = @ \cup {at[2]}] /\ pc' = "chain"
      /\ idx' = idx /\ next' = next /\ up' = up /\ mem' = mem /\ at' = at
  BY DEF Take
<1>2. Empty \in Line /\ ~Valid(Empty) /\ Empty.addr = None /\ Empty.dirty = FALSE
  BY DEF Empty, Line, Valid
<1>3. buf.addr = None
  BY <1>1 DEF IInv, Control, Valid
<1>4. line' \in [Place -> Line] /\ line'[at] = Empty /\ \A q \in Place \ {at} : line'[q] = line[q]
  BY <1>1, <1>2 DEF IInv, TypeOK
<1>5. free' \in [Set -> SUBSET Way] /\ FreeExact'
  BY <1>1, <1>2, FreeFollows DEF IInv
<1>6. TypeOK'
  BY <1>1, <1>4, <1>5 DEF IInv, TypeOK
<1>7. Unique'
  BY <1>1, <1>2, <1>4 DEF IInv, Unique, Valid
<1>8. Located'
  <2>1. \A q \in Place : Behind(q)' <=> Behind(q)
    BY <1>1 DEF Behind
  <2> QED BY <1>1, <1>2, <1>4, <2>1 DEF IInv, Located, Valid
<1>9. Control'
  BY <1>1 DEF IInv, Control
<1>10. \A b \in Addr : (Kept(b) => Kept(b)') /\ (Holds(b) => Holds(b)')
  BY <1>1, <1>3, <1>4, RemapAssumption DEF Kept, Holds
<1>11. LastKept' /\ UpperHeld'
  BY <1>1, <1>10 DEF IInv, LastKept, UpperHeld, TypeOK
<1> QED BY <1>5, <1>6, <1>7, <1>8, <1>9, <1>11 DEF IInv

(* The block of the buffer is put in its next set, and what was there goes *)
(* on, or out if it has moved before.                                      *)
LEMMA RelocateInv ==
  ASSUME IInv, Relocate
  PROVE  IInv'
<1> DEFINE s == next[buf.addr]
<1>1. PICK w \in Victims(s) :
        LET p == <<s, w>>
            m == line[p]
            evicted == Valid(m) /\ p \in moved
        IN  /\ line' = [line EXCEPT ![p] = buf]
            /\ buf' = IF evicted THEN Empty ELSE m
            /\ mem' = IF evicted THEN MemAfter(m) ELSE mem
            /\ up' = IF evicted THEN up \ {m.addr} ELSE up
            /\ moved' = moved \cup {p}
            /\ free' = [free EXCEPT ![s] = @ \ {w}]
  BY DEF Relocate
<1> DEFINE p == <<s, w>>
           m == line[p]
           evicted == Valid(m) /\ p \in moved
<1>2. /\ pc = "chain" /\ Valid(buf) /\ buf \in Line /\ buf.addr \in Addr
      /\ idx' = idx /\ next' = next /\ pc' = pc /\ at' = at
  BY DEF Relocate, IInv, TypeOK, Line, Valid
<1>3. s \in Set /\ w \in Way
  BY <1>2, IndexIsSet, VictimIsWay DEF IInv
<1>4. p \in Place /\ p[1] = s /\ p[2] = w
  BY <1>3 DEF Place
<1>5. /\ line' = [line EXCEPT ![p] = buf]
      /\ buf' = IF evicted THEN Empty ELSE m
      /\ mem' = IF evicted THEN MemAfter(m) ELSE mem
      /\ up' = IF evicted THEN up \ {m.addr} ELSE up
      /\ moved' = moved \cup {p}
      /\ free' = [free EXCEPT ![p[1]] = @ \ {p[2]}]
  BY <1>1, <1>4
<1>6. m \in Line /\ (m.addr = None \/ m.addr \in Addr)
  BY <1>4 DEF IInv, TypeOK, Line
<1>7. Empty \in Line /\ ~Valid(Empty) /\ Empty.addr = None /\ Empty.dirty = FALSE
  BY DEF Empty, Line, Valid
<1>8. p[1] = next[buf.addr]
  BY <1>4
<1> HIDE DEF p, s
<1>9. line' \in [Place -> Line] /\ line'[p] = buf /\ \A q \in Place \ {p} : line'[q] = line[q]
  BY <1>2, <1>4, <1>5 DEF IInv, TypeOK
<1>10. free' \in [Set -> SUBSET Way] /\ FreeExact'
  BY <1>2, <1>4, <1>5, FreeFollows DEF IInv
<1>11. m.addr # None => m.addr # buf.addr /\ \A q \in Place \ {p} : line[q].addr # m.addr
  BY <1>4 DEF IInv, Unique, Valid
<1>12. \A q \in Place : line[q].addr # buf.addr
  BY <1>2, RemapAssumption DEF IInv, Unique, Valid
<1> HIDE DEF m
<1>13. TypeOK'
  <2>1. up' \subseteq Addr /\ mem' \subseteq Addr
    BY <1>5, <1>6 DEF IInv, TypeOK, MemAfter, Valid
  <2>2. buf' \in Line
    BY <1>5, <1>6, <1>7
  <2>3. moved' \subseteq Place
    BY <1>4, <1>5 DEF IInv, TypeOK
  <2> QED BY <1>2, <1>9, <1>10, <2>1, <2>2, <2>3 DEF IInv, TypeOK
<1>14. Unique'
  <2>1. buf'.addr = None \/ buf'.addr = m.addr
    BY <1>5, <1>7
  <2>2. \A q \in Place : Valid(line'[q]) => line'[q].addr # buf'.addr
    BY <1>2, <1>9, <1>11, <2>1 DEF Valid
  <2>3. \A q, r \in Place : Valid(line'[q]) /\ line'[q].addr = line'[r].addr => q = r
    <3>1. \A q, r \in Place \ {p} : Valid(line[q]) /\ line[q].addr = line[r].addr => q = r
      BY DEF IInv, Unique
    <3> QED BY <1>9, <1>12, <3>1
  <2> QED BY <2>2, <2>3 DEF Unique, Valid
<1>15. Located'
  <2>1. \A q \in Place : Behind(q)' <=> Behind(q)
    BY <1>2 DEF Behind
  <2> QED BY <1>2, <1>5, <1>8, <1>9, <2>1 DEF IInv, Located, Valid
<1>16. Control'
  BY <1>2, <1>5 DEF IInv, Control
<1>17. LastKept'
  <2>1. ASSUME NEW b \in Addr
        PROVE  (b \in up' \cup mem') \/ Kept(b)'
    <3>1. CASE evicted /\ b = m.addr
      <4>1. CASE m.dirty \/ b \in up
        BY <1>5, <3>1, <4>1 DEF MemAfter
      <4>2. CASE ~m.dirty /\ b \notin up
        <5>1. ~Kept(b)
          BY <1>11, <3>1, <4>2 DEF Kept, Valid, m
        <5>2. b \in mem
          BY <4>2, <5>1 DEF IInv, LastKept
        <5> QED BY <1>5, <5>2 DEF MemAfter
      <4> QED BY <4>1, <4>2
    <3>2. CASE ~(evicted /\ b = m.addr)
      <4>1. mem \subseteq mem' /\ (b \in up => b \in up')
        BY <1>5, <3>2 DEF MemAfter
      <4>2. Kept(b) => Kept(b)'
        <5>1. CASE buf.addr = b /\ buf.dirty
          BY <1>4, <1>9, <5>1 DEF Kept
        <5>2. ASSUME NEW q \in Place, q # p, line[q].addr = b, line[q].dirty
              PROVE  Kept(b)'
          BY <1>9, <5>2 DEF Kept
        <5>3. CASE m.addr = b /\ m.dirty
          <6>1. ~evicted
            BY <3>2, <5>3
          <6>2. buf' = m
            BY <1>5, <6>1
          <6> QED BY <5>3, <6>2 DEF Kept
        <5> QED BY <5>1, <5>2, <5>3 DEF Kept, m
      <4> QED BY <4>1, <4>2 DEF IInv, LastKept
    <3> QED BY <3>1, <3>2
  <2> QED BY <2>1 DEF LastKept
<1>18. UpperHeld'
  <2>1. ASSUME NEW b \in up'
        PROVE  Holds(b)'
    <3>1. b \in up /\ ~(evicted /\ b = m.addr)
      BY <1>5, <2>1
    <3>2. Holds(b)
      BY <3>1 DEF IInv, UpperHeld
    <3>3. CASE buf.addr = b
      BY <1>4, <1>9, <3>3 DEF Holds
    <3>4. ASSUME NEW q \in Place, q # p, line[q].addr = b
          PROVE  Holds(b)'
      BY <1>9, <3>4 DEF Holds
    <3>5. CASE m.addr = b
      <4>1. buf' = m
        BY <1>5, <3>1, <3>5
      <4> QED BY <3>5, <4>1 DEF Holds
    <3> QED BY <3>2, <3>3, <3>4, <3>5 DEF Holds, m
  <2> QED BY <2>1 DEF UpperHeld
<1> QED BY <1>10, <1>13, <1>14, <1>15, <1>16, <1>17, <1>18 DEF IInv

(* The pointer goes on from a place that is empty or has moved. *)
LEMMA AdvanceInv ==
  ASSUME IInv, at \in Place, ~Valid(line[at]) \/ at \in moved, at' = Advanced,
         pc' = "scan", ~Valid(buf), UNCHANGED <<line, moved, free, idx, next, up, mem, buf>>
  PROVE  IInv'
<1>1. TypeOK'
  BY Advance DEF IInv, TypeOK
<1>2. Located'
  <2>1. ASSUME NEW p \in Place, Valid(line[p]), p \notin moved
        PROVE  ~Behind(p)'
    <3>1. p # at /\ ~Behind(p)
      BY <2>1 DEF IInv, Located
    <3>2. ~(p[1] < Advanced[1] \/ (p[1] = Advanced[1] /\ p[2] < Advanced[2]))
      BY <3>1, Advance
    <3> QED BY <3>2 DEF Behind
  <2> QED BY <2>1 DEF IInv, Located, Valid
<1>3. Control' /\ FreeExact' /\ Unique'
  BY DEF IInv, Control, FreeExact, Unique, Valid
<1>4. LastKept' /\ UpperHeld'
  BY DEF IInv, LastKept, UpperHeld, Kept, Holds
<1> QED BY <1>1, <1>2, <1>3, <1>4 DEF IInv

(* The end: every block has moved, and the next functions take over. *)
LEMMA EndInv ==
  ASSUME IInv, End
  PROVE  IInv'
<1>1. /\ pc = "scan" /\ at \notin Place /\ idx' = next /\ next' \in Index /\ moved' = {}
      /\ pc' = "idle" /\ at' = <<0, 0>>
      /\ line' = line /\ free' = free /\ up' = up /\ mem' = mem /\ buf' = buf
  BY DEF End
<1>2. NSet \in Nat \ {0} /\ NW \in Nat \ {0} /\ at \in (0 .. NSet) \X Way
  BY RemapAssumption DEF IInv, TypeOK
<1>3. \A p \in Place : Behind(p)
  <2>1. at[1] = NSet
    BY <1>1, <1>2 DEF Place, Set
  <2> QED BY <1>2, <2>1 DEF Behind, Place, Set
<1>4. TypeOK'
  <2>1. at' \in (0 .. NSet) \X Way
    BY <1>1, <1>2 DEF Way
  <2> QED BY <1>1, <2>1 DEF IInv, TypeOK
<1>5. Located'
  <2>1. ASSUME NEW p \in Place, Valid(line[p])
        PROVE  p[1] = idx'[line[p].addr] /\ ~Behind(p)'
    <3>1. p[1] = next[line[p].addr]
      BY <1>3, <2>1 DEF IInv, Located
    <3>2. p[1] \in Nat /\ p[2] \in Nat /\ at'[1] = 0 /\ at'[2] = 0
      BY <1>1, <1>2 DEF Place, Set, Way
    <3> QED BY <1>1, <3>1, <3>2 DEF Behind
  <2> QED BY <1>1, <2>1 DEF Located, Valid
<1>6. Control' /\ FreeExact' /\ Unique'
  BY <1>1 DEF IInv, Control, FreeExact, Unique, Valid
<1>7. LastKept' /\ UpperHeld'
  BY <1>1 DEF IInv, LastKept, UpperHeld, Kept, Holds
<1> QED BY <1>4, <1>5, <1>6, <1>7 DEF IInv

LEMMA StepInv == IInv /\ [Next]_vars => IInv'
<1> SUFFICES ASSUME IInv, [Next]_vars PROVE IInv'
  OBVIOUS
<1>1. CASE \E a \in Addr, write \in BOOLEAN : Hit(a, write) \/ Miss(a, write)
  BY <1>1, HitInv, MissInv
<1>2. CASE \E a \in Addr : Release(a) \/ Flush(a)
  BY <1>2, ReleaseInv, FlushInv
<1>3. CASE Start
  <2>1. /\ pc = "idle" /\ pc' = "scan" /\ at' = at
        /\ UNCHANGED <<line, moved, free, idx, next, up, mem, buf>>
    BY <1>3 DEF Start, IInv, Control
  <2> QED BY <2>1
          DEF IInv, TypeOK, Unique, Located, Behind, Control, FreeExact, LastKept, UpperHeld, Kept, Holds, Valid
<1>4. CASE Skip
  <2>1. ~Valid(buf)
    BY <1>4 DEF Skip, IInv, Control
  <2> QED BY <1>4, <2>1, AdvanceInv DEF Skip
<1>5. CASE Take
  BY <1>5, TakeInv
<1>6. CASE Relocate
  BY <1>6, RelocateInv
<1>7. CASE ChainEnd
  <2>1. at \in moved /\ at \in Place
    BY <1>7 DEF ChainEnd, IInv, Control, TypeOK
  <2> QED BY <1>7, <2>1, AdvanceInv DEF ChainEnd
<1>8. CASE End
  BY <1>8, EndInv
<1>9. CASE UNCHANGED vars
  BY <1>9
     DEF vars, IInv, TypeOK, Unique, Located, Behind, Control, FreeExact, LastKept, UpperHeld, Kept, Holds, Valid
<1> QED BY <1>1, <1>2, <1>3, <1>4, <1>5, <1>6, <1>7, <1>8, <1>9 DEF Next, Remapping

(* The invariant of a cache whose index functions change. *)
THEOREM Invariance == Spec => []IInv
BY InitInv, StepInv, PTL DEF Spec

(* Every block of the cache is in one place, where hit() finds it, in the  *)
(* middle of a remap too, and its last content is kept: evict() relies on  *)
(* it ("assert(cache->hit(addr))").                                        *)
THEOREM BlocksAreKept == Spec => []BlocksKept
<1>1. ASSUME IInv
      PROVE  BlocksKept
  <2> DEFINE Lines == {line[p] : p \in Place} \cup {buf}
  <2>1. \A p \in Place : Valid(line[p]) => Found(line[p].addr) = {p} /\ line[p].addr # buf.addr
    BY <1>1, WhereFound DEF IInv, Unique
  <2>2. \A s \in Set : free[s] = {w \in Way : ~Valid(line[<<s, w>>])}
    BY <1>1 DEF IInv, FreeExact
  <2>3. \A a \in Addr \ (up \cup mem) : \E m \in Lines : m.addr = a /\ m.dirty
    BY <1>1 DEF IInv, LastKept, Kept
  <2>4. \A a \in up : \E m \in Lines : m.addr = a
    BY <1>1 DEF IInv, UpperHeld, Holds
  <2> QED BY <2>1, <2>2, <2>3, <2>4 DEF BlocksKept
<1> QED BY <1>1, Invariance, PTL
=============================================================================
