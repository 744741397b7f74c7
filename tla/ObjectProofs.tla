---------------------------- MODULE ObjectProofs ----------------------------
(***************************************************************************)
(* Proofs about the three objects that the handlers of a cache share.  The *)
(* finish protocol (PendingXact) is correct for any number of caches,      *)
(* blocks and ways when no two threads can use the same key, a block with  *)
(* an id, and the table has an entry for each thread: a grant is recorded  *)
(* until its finish comes, and a finish reads, unlocks and removes what    *)
(* its own acquire recorded.  The loops of loads and compare-and-swaps on  *)
(* the word of a set (SetState) are, for any number of threads and of      *)
(* entries, a lock with priorities.  In the replacer of a set (Replacer),  *)
(* for every number of ways and every policy, the priorities of FIFO and   *)
(* LRU stay a permutation, one way is allocated at a time, and the free    *)
(* map loses no way and lists none that holds a block.                     *)
(***************************************************************************)
EXTENDS PendingXact, SetState, Replacer, FiniteSets, TLAPS, FiniteSetTheorems, WellFoundedInduction

(* The ids with which a thread may acquire a block. *)
Ids(t, a) == {Id[t]} \cup IF a \in Prefetch[t] THEN {Uncached} ELSE {}

(* No two threads use the same key: their caches are coherent, so that     *)
(* each has the id under which it was connected, and no block is           *)
(* prefetched by two of them.                                              *)
OwnKeys == \A t, u \in Core, a \in Addr : t # u => Ids(t, a) \cap Ids(u, a) = {}

(* No more acquires are under way than the table holds. *)
EntryForEach == IsFiniteSet(Core) /\ Cardinality(Core) <= MSHR

(* A thread with an entry in the table. *)
InTable == {"read", "unlock", "reset", "remove"}

Typed ==
  /\ xact \in [Slot -> Entry \cup {None}]
  /\ owner \in [Line -> Core \cup {None}]
  /\ stage \in [Core -> {"idle", "record", "forward"} \cup InTable]
  /\ own \in [Core -> Entry \cup {None}]
  /\ got \in [Core -> Entry \cup {None}]
  /\ \A t \in Core : stage[t] # "idle" => own[t] \in Entry /\ own[t].id \in Ids(t, own[t].addr)

(* The valid entries are those of the threads that have one, once each.    *)
Present == \A t \in Core : stage[t] \in InTable => \E i \in Slot : xact[i] = own[t]
Listed ==
  \A i \in Slot : xact[i] # None => \E t \in Core : stage[t] \in InTable /\ xact[i] = own[t]
OneEach ==
  \A i, j \in Slot :
    /\ xact[i] # None /\ xact[j] # None
    /\ xact[i].addr = xact[j].addr /\ xact[i].id = xact[j].id
    => i = j

ReadsOwn == \A t \in Core : stage[t] \in {"unlock", "reset", "remove", "forward"} => got[t] = own[t]

Holds ==
  \A t \in Core : stage[t] \in {"record", "read", "unlock"} => owner[own[t].line] = t

Inv == Typed /\ Present /\ Listed /\ OneEach /\ ReadsOwn /\ Holds

----------------------------------------------------------------------------
(* First() takes one of the slots that it is given. *)
LEMMA FirstIsOne ==
  ASSUME NEW S, S \subseteq Slot, S # {}
  PROVE  First(S) \in S /\ \A j \in S : First(S) <= j
<1>1. S \subseteq Nat
  BY PendingAssumption DEF Slot
<1> DEFINE R == OpToRel(<, Nat)
<1>2. PICK i \in S : \A j \in S : <<j, i>> \notin R
  <2> HIDE DEF R
  <2>1. IsWellFoundedOn(R, Nat)
    BY NatLessThanWellFounded DEF R
  <2> QED BY <1>1, <2>1, WFMin
<1>3. \A j \in S : <<j, i>> \in R <=> j < i
  BY <1>1 DEF OpToRel
<1> HIDE DEF R
<1>4. \A j \in S : ~(j < i)
  BY <1>2, <1>3
<1>5. \A j \in S : i <= j
  BY <1>1, <1>4
<1> QED BY <1>5 DEF First

(* The entry that find() returns to a thread is its own. *)
LEMMA FindsOwn ==
  ASSUME Inv, NEW t \in Core, stage[t] \in InTable
  PROVE  \E i \in Slot : Matches(own[t]) = {i} /\ xact[i] = own[t] /\ First(Matches(own[t])) = i
<1>1. own[t] \in Entry /\ own[t] # None
  BY NoneIsNoEntry DEF Inv, Typed, InTable
<1>2. PICK i \in Slot : xact[i] = own[t]
  BY DEF Inv, Present
<1>3. Matches(own[t]) = {i}
  BY <1>1, <1>2 DEF Matches, Valid, Inv, OneEach
<1>4. First({i}) \in {i}
  BY FirstIsOne
<1> QED BY <1>2, <1>3, <1>4

(* insert() finds a free entry. *)
LEMMA RoomLeft ==
  ASSUME Inv, EntryForEach, NEW t \in Core, stage[t] = "record"
  PROVE  Slot \ Valid # {}
<1> SUFFICES ASSUME Valid = Slot PROVE FALSE
  BY DEF Valid
<1> DEFINE Others == Core \ {t}
           f == [i \in Slot |-> CHOOSE u \in Others : xact[i] = own[u] /\ stage[u] \in InTable]
<1>1. \A i \in Slot : \E u \in Others : xact[i] = own[u] /\ stage[u] \in InTable
  BY DEF Inv, Listed, Valid, InTable
<1>2. f \in [Slot -> Others] /\ \A i \in Slot : xact[i] = own[f[i]] /\ stage[f[i]] \in InTable
  BY <1>1
<1>3. IsFiniteSet(Slot) /\ Cardinality(Slot) = MSHR
  BY FS_Interval, PendingAssumption DEF Slot
<1>4. IsFiniteSet(Others) /\ Cardinality(Others) < Cardinality(Slot)
  <2>1. IsFiniteSet(Others) /\ Cardinality(Others) = Cardinality(Core) - 1
    BY FS_RemoveElement DEF EntryForEach
  <2>2. Cardinality(Core) \in Nat
    BY FS_CardinalityType DEF EntryForEach
  <2> QED BY <1>3, <2>1, <2>2, PendingAssumption DEF EntryForEach
<1> HIDE DEF f, Others
<1>5. PICK i, j \in Slot : i # j /\ f[i] = f[j]
  BY <1>2, <1>3, <1>4, FS_PigeonHole
<1> QED BY <1>2, <1>5 DEF Inv, OneEach, Valid

----------------------------------------------------------------------------
LEMMA InitInv == XactInit => Inv
BY PendingAssumption DEF XactInit, Inv, Typed, Present, Listed, OneEach, ReadsOwn, Holds, InTable

(* A new acquire does not touch the table, and its line was free. *)
LEMMA AcquireInv ==
  ASSUME Inv, NEW t \in Core, NEW a \in Addr, NEW w \in Ways, NEW forward \in BOOLEAN,
         NEW id \in Ids(t, a), AccessLine(t, a, w, id, forward)
  PROVE  Inv'
<1> DEFINE l == <<SetOf[a], w>>
           e == [addr |-> a, id |-> id, forward |-> forward, line |-> l]
<1>1. l \in Line /\ e \in Entry /\ e.id \in Ids(t, e.addr) /\ e.line = l
  BY DEF Line, CacheSet, Entry, Ids
<1>2. /\ stage[t] = "idle" /\ owner[l] = None
      /\ owner' = [owner EXCEPT ![l] = t] /\ own' = [own EXCEPT ![t] = e]
      /\ stage' = [stage EXCEPT ![t] = "record"] /\ UNCHANGED <<xact, got>>
  BY DEF AccessLine, GoOn
<1> HIDE DEF l, e
<1>3. /\ own'[t] = e /\ stage'[t] = "record" /\ owner'[l] = t
      /\ \A u \in Core \ {t} : own'[u] = own[u] /\ stage'[u] = stage[u]
      /\ \A k \in Line \ {l} : owner'[k] = owner[k]
  BY <1>1, <1>2 DEF Inv, Typed
<1>4. Typed'
  BY <1>1, <1>2, <1>3 DEF Inv, Typed
<1>5. Present' /\ Listed' /\ OneEach' /\ ReadsOwn'
  BY <1>2, <1>3 DEF Inv, Present, Listed, OneEach, ReadsOwn, InTable
<1>6. Holds'
  <2> SUFFICES ASSUME NEW u \in Core, stage'[u] \in {"record", "read", "unlock"}
               PROVE  owner'[own'[u].line] = u
    BY DEF Holds
  <2>1. CASE u = t
    BY <1>1, <1>3, <2>1
  <2>2. CASE u # t
    <3>1. owner[own[u].line] = u /\ own[u].line \in Line
      BY <1>3, <2>2 DEF Inv, Holds, Typed, Entry
    <3>2. own[u].line # l
      BY <1>2, <3>1, PendingAssumption
    <3> QED BY <1>3, <2>2, <3>1, <3>2
  <2> QED BY <2>1, <2>2
<1> QED BY <1>4, <1>5, <1>6 DEF Inv

(* The entry goes into a free slot: nothing that was recorded is lost. *)
LEMMA InsertInv ==
  ASSUME Inv, OwnKeys, EntryForEach, NEW t \in Core, Insert(t)
  PROVE  Inv'
<1> DEFINE i == First(Slot \ Valid)
<1>1. i \in Slot /\ xact[i] = None
  BY RoomLeft, FirstIsOne DEF Insert, Valid
<1>2. /\ stage[t] = "record" /\ stage' = [stage EXCEPT ![t] = "read"]
      /\ xact' = [xact EXCEPT ![i] = own[t]] /\ UNCHANGED <<owner, own, got>>
  BY RoomLeft DEF Insert, GoOn
<1> HIDE DEF i
<1>3. own[t] \in Entry /\ own[t].id \in Ids(t, own[t].addr) /\ own[t] # None
  BY <1>2, NoneIsNoEntry DEF Inv, Typed
<1>4. /\ stage'[t] = "read" /\ \A u \in Core \ {t} : stage'[u] = stage[u]
      /\ xact'[i] = own[t] /\ \A j \in Slot \ {i} : xact'[j] = xact[j]
  BY <1>1, <1>2 DEF Inv, Typed
<1>5. \A u \in Core :
        stage[u] \in InTable => own[u] # None /\ own[u].id \in Ids(u, own[u].addr) /\ u # t
  BY <1>2, NoneIsNoEntry DEF Inv, Typed, InTable
<1>6. Typed'
  BY <1>1, <1>2, <1>3 DEF Inv, Typed, InTable
<1>7. Present'
  BY <1>1, <1>2, <1>4, <1>5 DEF Inv, Present, InTable
<1>8. Listed'
  BY <1>2, <1>4, <1>5 DEF Inv, Listed, InTable
<1>9. OneEach'
  <2>1. own[t].addr \in Addr
    BY <1>3 DEF Entry
  <2>2. ASSUME NEW j \in Slot, xact[j] # None, xact[j].addr = own[t].addr, xact[j].id = own[t].id
        PROVE  FALSE
    <3>1. PICK u \in Core : stage[u] \in InTable /\ xact[j] = own[u]
      BY <2>2 DEF Inv, Listed
    <3> QED BY <1>3, <1>5, <2>1, <2>2, <3>1 DEF OwnKeys
  <2> QED BY <1>4, <2>2 DEF Inv, OneEach
<1>10. ReadsOwn' /\ Holds'
  BY <1>2, <1>4 DEF Inv, ReadsOwn, Holds
<1> QED BY <1>6, <1>7, <1>8, <1>9, <1>10 DEF Inv

(* read() returns the thread's own entry. *)
LEMMA ReadInv ==
  ASSUME Inv, NEW t \in Core, Read(t)
  PROVE  Inv'
<1>1. stage[t] = "read" /\ own[t] \in Entry
  BY DEF Read, Inv, Typed
<1>2. PICK i \in Slot : Matches(own[t]) = {i} /\ xact[i] = own[t] /\ First(Matches(own[t])) = i
  BY <1>1, FindsOwn DEF InTable
<1>3. /\ stage' = [stage EXCEPT ![t] = "unlock"] /\ got' = [got EXCEPT ![t] = own[t]]
      /\ UNCHANGED <<xact, owner, own>>
  BY <1>2 DEF Read, GoOn
<1>4. /\ stage'[t] = "unlock" /\ got'[t] = own[t]
      /\ \A u \in Core \ {t} : stage'[u] = stage[u] /\ got'[u] = got[u]
  BY <1>3 DEF Inv, Typed
<1>5. Typed'
  BY <1>1, <1>3 DEF Inv, Typed, InTable
<1> QED BY <1>1, <1>3, <1>4, <1>5 DEF Inv, Present, Listed, OneEach, ReadsOwn, Holds, InTable

(* The line that is unlocked is the thread's own. *)
LEMMA UnlockInv ==
  ASSUME Inv, NEW t \in Core, Unlock(t)
  PROVE  Inv'
<1> DEFINE l == own[t].line
<1>1. stage[t] = "unlock" /\ got[t] = own[t] /\ owner[l] = t /\ l \in Line
  BY DEF Unlock, Inv, ReadsOwn, Holds, Typed, Entry
<1>2. /\ stage' = [stage EXCEPT ![t] = "reset"] /\ owner' = [owner EXCEPT ![l] = None]
      /\ UNCHANGED <<xact, own, got>>
  BY <1>1 DEF Unlock, GoOn
<1>3. /\ stage'[t] = "reset" /\ \A u \in Core \ {t} : stage'[u] = stage[u]
      /\ \A k \in Line \ {l} : owner'[k] = owner[k]
  BY <1>1, <1>2 DEF Inv, Typed
<1>4. Typed'
  BY <1>1, <1>2 DEF Inv, Typed, InTable
<1>5. Holds'
  BY <1>1, <1>2, <1>3 DEF Inv, Holds, Typed, Entry
<1> QED BY <1>1, <1>2, <1>3, <1>4, <1>5 DEF Inv, Present, Listed, OneEach, ReadsOwn, InTable

LEMMA ResetInv ==
  ASSUME Inv, NEW t \in Core, Reset(t)
  PROVE  Inv'
<1>1. /\ stage[t] = "reset" /\ stage' = [stage EXCEPT ![t] = "remove"]
      /\ UNCHANGED <<xact, owner, own, got>>
  BY DEF Reset, GoOn
<1>2. stage'[t] = "remove" /\ \A u \in Core \ {t} : stage'[u] = stage[u]
  BY <1>1 DEF Inv, Typed
<1>3. Typed'
  BY <1>1 DEF Inv, Typed, InTable
<1> QED BY <1>1, <1>2, <1>3 DEF Inv, Present, Listed, OneEach, ReadsOwn, Holds, InTable

(* What is removed is the thread's own entry. *)
LEMMA RemoveInv ==
  ASSUME Inv, OwnKeys, NEW t \in Core, Remove(t)
  PROVE  Inv'
<1>1. /\ stage[t] = "remove" /\ own[t] \in Entry /\ own[t] # None
      /\ own[t].addr \in Addr /\ own[t].id \in Ids(t, own[t].addr)
  BY NoneIsNoEntry DEF Remove, Inv, Typed, Entry
<1>2. PICK i \in Slot : Matches(own[t]) = {i} /\ xact[i] = own[t] /\ First(Matches(own[t])) = i
  BY <1>1, FindsOwn DEF InTable
<1>3. /\ stage' = [stage EXCEPT ![t] = "forward"] /\ xact' = [xact EXCEPT ![i] = None]
      /\ UNCHANGED <<owner, own, got>>
  BY <1>2 DEF Remove, GoOn
<1>4. /\ stage'[t] = "forward" /\ \A u \in Core \ {t} : stage'[u] = stage[u]
      /\ xact'[i] = None /\ \A j \in Slot \ {i} : xact'[j] = xact[j]
  BY <1>3 DEF Inv, Typed
<1>5. Typed'
  BY <1>1, <1>3 DEF Inv, Typed, InTable
<1>6. \A u \in Core \ {t} : stage[u] \in InTable => own[u] # own[t]
  BY <1>1 DEF Inv, Typed, OwnKeys, InTable
<1>7. Present'
  BY <1>2, <1>3, <1>4, <1>6 DEF Inv, Present, InTable
<1>8. Listed'
  BY <1>1, <1>2, <1>3, <1>4 DEF Inv, Listed, OneEach, InTable
<1>9. OneEach' /\ ReadsOwn' /\ Holds'
  BY <1>1, <1>3, <1>4 DEF Inv, OneEach, ReadsOwn, Holds
<1> QED BY <1>5, <1>7, <1>8, <1>9 DEF Inv

LEMMA ForwardInv ==
  ASSUME Inv, NEW t \in Core, Forward(t)
  PROVE  Inv'
<1>1. /\ stage[t] = "forward" /\ stage' = [stage EXCEPT ![t] = "idle"]
      /\ own' = [own EXCEPT ![t] = None] /\ got' = [got EXCEPT ![t] = None]
      /\ UNCHANGED <<xact, owner>>
  BY DEF Forward, GoOn
<1>2. /\ stage'[t] = "idle"
      /\ \A u \in Core \ {t} : stage'[u] = stage[u] /\ own'[u] = own[u] /\ got'[u] = got[u]
  BY <1>1 DEF Inv, Typed
<1>3. Typed'
  BY <1>1, <1>2 DEF Inv, Typed
<1> QED BY <1>1, <1>2, <1>3 DEF Inv, Present, Listed, OneEach, ReadsOwn, Holds, InTable

----------------------------------------------------------------------------
(* With keys of their own and an entry for each thread, every acquire,     *)
(* that of a prefetch included, keeps its entry until its own finish       *)
(* removes it.                                                             *)
THEOREM Invariance ==
  ASSUME OwnKeys, EntryForEach
  PROVE  XactSpec => []Inv
<1>1. Inv /\ [XactNext]_xactVars => Inv'
  <2> SUFFICES ASSUME Inv, [XactNext]_xactVars PROVE Inv'
    OBVIOUS
  <2>1. CASE UNCHANGED xactVars
    BY <2>1 DEF xactVars, Inv, Typed, Present, Listed, OneEach, ReadsOwn, Holds
  <2>2. ASSUME NEW t \in Core, NEW a \in Addr, NEW w \in Ways, NEW forward \in BOOLEAN,
               NEW id \in Ids(t, a), AccessLine(t, a, w, id, forward)
        PROVE  Inv'
    BY <2>2, AcquireInv
  <2>3. ASSUME NEW t \in Core, NEW a \in Addr, NEW w \in Ways, NEW forward \in BOOLEAN,
               Acquire(t, a, w, forward)
        PROVE  Inv'
    BY <2>2, <2>3 DEF Acquire, Ids
  <2>4. ASSUME NEW t \in Core, NEW a \in Addr, NEW w \in Ways, PrefetchLine(t, a, w)
        PROVE  Inv'
    BY <2>2, <2>4 DEF PrefetchLine, Ids
  <2>5. ASSUME NEW t \in Core, Finishing(t)
        PROVE  Inv'
    BY <2>5, InsertInv, ReadInv, UnlockInv, ResetInv, RemoveInv, ForwardInv DEF Finishing
  <2> QED BY <2>1, <2>3, <2>4, <2>5 DEF XactNext
<1> QED BY <1>1, InitInv, PTL DEF XactSpec

(* "Pending transaction queue for finish message overflow!" cannot happen  *)
(* then: the entry of a granted line stays until its finish comes.         *)
THEOREM NeverLost ==
  ASSUME OwnKeys, EntryForEach
  PROVE  XactSpec => []Recorded
<1>1. Inv => Recorded
  BY DEF Inv, Present, Recorded, Granted, InTable
<1> QED BY <1>1, Invariance, PTL

(* A finish reads back what its own acquire recorded.                      *)
THEOREM FinishesOwn ==
  ASSUME OwnKeys, EntryForEach
  PROVE  XactSpec => []OwnEntry
<1>1. Inv => OwnEntry
  BY DEF Inv, ReadsOwn, OwnEntry
<1> QED BY <1>1, Invariance, PTL

(* A finish unlocks the line that its own thread has locked, so that       *)
(* LockCheck's assertion, which fails when two threads acquire a block     *)
(* with the id -1 that uncached caches and prefetches share, cannot fail   *)
(* when at most one of them does.                                          *)
THEOREM UnlocksOwn ==
  ASSUME OwnKeys, EntryForEach
  PROVE  XactSpec => []OwnLine
<1>1. Inv => OwnLine
  BY DEF Inv, ReadsOwn, Holds, OwnLine
<1> QED BY <1>1, Invariance, PTL

-----------------------------------------------------------------------------
(* The state word of a cache set under the same threads. *)

(* The word is exactly the union of what the threads hold: the             *)
(* strengthening without which neither mutual exclusion nor the            *)
(* assertions are inductive.                                               *)
WordIsHeld == \A p \in Prio : p \in state <=> \E t \in Thread : p \in held[t]

(* What a thread holds in each part of its calls.  Between the load and    *)
(* the compare-and-swap the loaded word leaves room for the priority.      *)
InWord(t) ==
  /\ held[t] \subseteq {acquire, prio[t]}
  /\ pc[t] \in Inside => prio[t] \in held[t]
  /\ pc[t] \in {"set_read", "set_wait", "set_swap", "notify"} => prio[t] \notin held[t]
  /\ pc[t] = "idle" => held[t] = {}
  /\ pc[t] = "set_swap" => ~Blocked(prio[t], seen[t])

WordInv ==
  /\ TypeOK
  /\ WordIsHeld
  /\ OneHolder
  /\ \A t \in Thread : InWord(t)

(* Nobody is in the set at first. *)
LEMMA WordInit == Init => WordInv
  BY RunsAssumption DEF Init, WordInv, TypeOK, WordIsHeld, OneHolder, InWord, Prio, Label, Inside

(* A step that changes neither the word nor what is held.                  *)
LEMMA LocalStep ==
  ASSUME WordInv, TypeOK', UNCHANGED <<state, held>>, NEW t \in Thread, InWord(t)',
         \A u \in Thread \ {t} : pc'[u] = pc[u] /\ prio'[u] = prio[u] /\ seen'[u] = seen[u]
  PROVE  WordInv'
<1>1. \A u \in Thread \ {t} : InWord(u)'
  BY DEF WordInv, InWord
<1> QED BY <1>1 DEF WordInv, WordIsHeld, OneHolder

(* The compare-and-swap that enters, on a word that may have changed since. *)
LEMMA SetSwapInv ==
  ASSUME WordInv, NEW t \in Thread, SetSwap(t)
  PROVE  WordInv'
<1>1. TypeOK'
  BY DEF SetSwap, Goto, WordInv, TypeOK, Label, Inside, Prio
<1>2. CASE state = seen[t]
  <2>1. /\ prio[t] \in Prio /\ ~Blocked(prio[t], state) /\ held[t] \subseteq {acquire, prio[t]}
        /\ state \subseteq Prio /\ pc[t] = "set_swap"
    BY <1>2 DEF SetSwap, WordInv, TypeOK, InWord
  <2>2. prio[t] \notin state
    BY <2>1 DEF Blocked, Prio, acquire, probe, sync, release
  <2>3. \A u \in Thread : prio[t] \notin held[u]
    BY <2>1, <2>2 DEF WordInv, WordIsHeld
  <2>4. /\ state' = state \cup {prio[t]}
        /\ held' = [held EXCEPT ![t] = @ \cup {prio[t]}]
        /\ pc'[t] \in {"in", "work"} /\ (\A u \in Thread \ {t} : pc'[u] = pc[u])
        /\ prio' = prio /\ seen' = seen
    BY <1>2 DEF SetSwap, Goto, WordInv, TypeOK
  <2>5. /\ held'[t] = held[t] \cup {prio[t]}
        /\ \A u \in Thread \ {t} : held'[u] = held[u]
    BY <2>4 DEF WordInv, TypeOK
  <2>6. WordIsHeld'
    BY <2>4, <2>5 DEF WordInv, WordIsHeld
  <2>7. OneHolder'
    BY <2>3, <2>5 DEF WordInv, OneHolder
  <2>8. \A u \in Thread : InWord(u)'
    <3>1. InWord(t)'
      BY <2>1, <2>4, <2>5 DEF InWord, Inside
    <3>2. \A u \in Thread \ {t} : InWord(u)'
      BY <2>4, <2>5 DEF WordInv, InWord
    <3> QED BY <3>1, <3>2
  <2> QED BY <1>1, <2>6, <2>7, <2>8 DEF WordInv
<1>3. CASE state # seen[t]
  <2>1. /\ UNCHANGED <<state, held, prio, seen>> /\ pc'[t] = "set_read"
        /\ (\A u \in Thread \ {t} : pc'[u] = pc[u])
    BY <1>3 DEF SetSwap, Goto, WordInv, TypeOK
  <2>2. InWord(t)'
    BY <2>1 DEF SetSwap, WordInv, InWord, Inside
  <2> QED BY <1>1, <2>1, <2>2, LocalStep
<1> QED BY <1>2, <1>3

(* The compare-and-swap that leaves. *)
LEMMA ResetSwapInv ==
  ASSUME WordInv, NEW t \in Thread, ResetSwap(t)
  PROVE  WordInv'
<1>1. TypeOK'
  BY DEF ResetSwap, Goto, WordInv, TypeOK, Label, Inside, Prio
<1>2. CASE state = seen[t]
  <2>1. prio[t] \in held[t] /\ prio[t] \in Prio /\ held[t] \subseteq {acquire, prio[t]}
    BY DEF ResetSwap, WordInv, TypeOK, InWord, Inside
  <2>2. \A u \in Thread \ {t} : prio[t] \notin held[u]
    BY <2>1 DEF WordInv, OneHolder
  <2>3. /\ state' = state \ {prio[t]}
        /\ held' = [held EXCEPT ![t] = @ \ {prio[t]}]
        /\ pc'[t] = "notify" /\ (\A u \in Thread \ {t} : pc'[u] = pc[u])
        /\ prio' = prio /\ seen' = seen
    BY <1>2 DEF ResetSwap, Goto, WordInv, TypeOK
  <2>4. /\ held'[t] = held[t] \ {prio[t]}
        /\ \A u \in Thread \ {t} : held'[u] = held[u]
    BY <2>3 DEF WordInv, TypeOK
  <2>5. WordIsHeld'
    BY <2>1, <2>2, <2>3, <2>4 DEF WordInv, WordIsHeld
  <2>6. OneHolder'
    BY <2>4 DEF WordInv, OneHolder
  <2>7. \A u \in Thread : InWord(u)'
    <3>1. InWord(t)'
      BY <2>1, <2>3, <2>4 DEF InWord, Inside
    <3>2. \A u \in Thread \ {t} : InWord(u)'
      BY <2>3, <2>4 DEF WordInv, InWord
    <3> QED BY <3>1, <3>2
  <2> QED BY <1>1, <2>5, <2>6, <2>7 DEF WordInv
<1>3. CASE state # seen[t]
  <2>1. /\ UNCHANGED <<state, held, prio, seen>> /\ pc'[t] = "reset_read"
        /\ (\A u \in Thread \ {t} : pc'[u] = pc[u])
    BY <1>3 DEF ResetSwap, Goto, WordInv, TypeOK
  <2>2. InWord(t)'
    BY <2>1 DEF ResetSwap, WordInv, InWord, Inside
  <2> QED BY <1>1, <2>1, <2>2, LocalStep
<1> QED BY <1>2, <1>3

(* Waking a waiter changes nothing but where it goes on.                   *)
LEMMA NotifyInv ==
  ASSUME WordInv, NEW t \in Thread, Notify(t)
  PROVE  WordInv'
<1>1. PICK w \in Thread :
        pc' = [[pc EXCEPT ![w] = Woken(@)] EXCEPT
                ![t] = IF again[t] THEN "set_read"
                       ELSE IF held[t] = {} THEN "idle" ELSE "work"]
  BY DEF Notify
<1>2. pc \in [Thread -> Label] /\ pc[t] = "notify"
  BY DEF WordInv, TypeOK, Notify
<1>3. /\ pc'[t] = IF again[t] THEN "set_read" ELSE IF held[t] = {} THEN "idle" ELSE "work"
      /\ \A u \in Thread \ {t} : pc'[u] \in {pc[u], Woken(pc[u])}
  BY <1>1, <1>2
<1>4. TypeOK'
  <2>1. \A l \in Label : Woken(l) \in Label
    BY DEF Woken, Label, Inside
  <2>2. \A u \in Thread : pc'[u] \in Label
    BY <1>2, <1>3, <2>1 DEF Label, Inside
  <2>3. pc' \in [Thread -> Label]
    BY <1>1, <1>2, <2>2
  <2> QED BY <2>3 DEF Notify, WordInv, TypeOK, Prio
<1>5. InWord(t)'
  <2>1. held[t] \subseteq {acquire, prio[t]} /\ prio[t] \notin held[t]
    BY <1>2 DEF WordInv, InWord
  <2>2. /\ held' = held /\ seen' = seen
        /\ prio'[t] = IF again[t] \/ held[t] = {} THEN prio[t] ELSE acquire
    BY DEF Notify, WordInv, TypeOK
  <2> QED BY <1>3, <2>1, <2>2 DEF InWord, Inside
<1>6. \A u \in Thread \ {t} : InWord(u)'
  <2> SUFFICES ASSUME NEW u \in Thread \ {t} PROVE InWord(u)'
    OBVIOUS
  <2>1. prio'[u] = prio[u] /\ held'[u] = held[u] /\ seen'[u] = seen[u]
    BY DEF Notify, WordInv, TypeOK
  <2>2. InWord(u) /\ pc'[u] \in {pc[u], Woken(pc[u])}
    BY <1>3 DEF WordInv
  <2>3. CASE pc'[u] = pc[u]
    BY <2>1, <2>2, <2>3 DEF InWord
  <2>4. CASE pc[u] = "set_wait" /\ pc'[u] = "set_read"
    BY <2>1, <2>2, <2>4 DEF InWord, Inside
  <2>5. CASE pc[u] = "yield_wait" /\ pc'[u] = "yield_read"
    BY <2>1, <2>2, <2>5 DEF InWord, Inside
  <2> QED BY <2>2, <2>3, <2>4, <2>5 DEF Woken
<1> QED BY <1>4, <1>5, <1>6 DEF Notify, WordInv, WordIsHeld, OneHolder

(* Every step of a thread preserves the invariant. *)
LEMMA WordStep ==
  ASSUME WordInv, NEW t \in Thread, Step(t)
  PROVE  WordInv'
<1> USE DEF Goto
<1>1. CASE Begin(t)
  <2>1. TypeOK'
    BY <1>1 DEF Begin, WordInv, TypeOK, Prio, Label, Inside
  <2>2. InWord(t)'
    BY <1>1 DEF Begin, WordInv, TypeOK, InWord, Inside
  <2> QED BY <1>1, <2>1, <2>2, LocalStep DEF Begin, WordInv, TypeOK
<1>2. CASE SetRead(t)
  <2>1. TypeOK'
    BY <1>2 DEF SetRead, WordInv, TypeOK, Prio, Label, Inside
  <2>2. InWord(t)'
    BY <1>2 DEF SetRead, WordInv, TypeOK, InWord, Inside
  <2> QED BY <1>2, <2>1, <2>2, LocalStep DEF SetRead, WordInv, TypeOK
<1>3. CASE SetSwap(t)
  BY <1>3, SetSwapInv
<1>4. CASE Timeout(t)
  <2>1. TypeOK'
    BY <1>4 DEF Timeout, WordInv, TypeOK, Prio, Label, Inside
  <2>2. InWord(t)'
    BY <1>4 DEF Timeout, WordInv, TypeOK, InWord, Inside
  <2> QED BY <1>4, <2>1, <2>2, LocalStep DEF Timeout, WordInv, TypeOK
<1>5. CASE Miss(t)
  <2>1. TypeOK'
    BY <1>5 DEF Miss, WordInv, TypeOK, Prio, Label, Inside
  <2>2. InWord(t)'
    BY <1>5 DEF Miss, WordInv, TypeOK, InWord, Inside
  <2> QED BY <1>5, <2>1, <2>2, LocalStep DEF Miss, WordInv, TypeOK
<1>6. CASE Check(t)
  <2>1. TypeOK'
    BY <1>6 DEF Check, WordInv, TypeOK, Prio, Label, Inside
  <2>2. InWord(t)'
    BY <1>6 DEF Check, WordInv, TypeOK, InWord, Inside
  <2> QED BY <1>6, <2>1, <2>2, LocalStep DEF Check, WordInv, TypeOK
<1>7. CASE YieldRead(t)
  <2>1. TypeOK'
    BY <1>7 DEF YieldRead, WordInv, TypeOK, Prio, Label, Inside
  <2>2. InWord(t)'
    BY <1>7 DEF YieldRead, WordInv, TypeOK, InWord, Inside
  <2> QED BY <1>7, <2>1, <2>2, LocalStep DEF YieldRead, WordInv, TypeOK
<1>8. CASE Nested(t)
  <2>1. TypeOK'
    BY <1>8 DEF Nested, WordInv, TypeOK, Prio, Label, Inside
  <2>2. InWord(t)'
    BY <1>8 DEF Nested, WordInv, TypeOK, InWord, Inside, acquire, probe, sync
  <2> QED BY <1>8, <2>1, <2>2, LocalStep DEF Nested, WordInv, TypeOK
<1>9. CASE Done(t)
  <2>1. TypeOK'
    BY <1>9 DEF Done, WordInv, TypeOK, Prio, Label, Inside
  <2>2. InWord(t)'
    BY <1>9 DEF Done, WordInv, TypeOK, InWord, Inside
  <2> QED BY <1>9, <2>1, <2>2, LocalStep DEF Done, WordInv, TypeOK
<1>10. CASE ResetRead(t)
  <2>1. TypeOK'
    BY <1>10 DEF ResetRead, WordInv, TypeOK, Prio, Label, Inside
  <2>2. InWord(t)'
    BY <1>10 DEF ResetRead, WordInv, TypeOK, InWord, Inside
  <2> QED BY <1>10, <2>1, <2>2, LocalStep DEF ResetRead, WordInv, TypeOK
<1>11. CASE ResetSwap(t)
  BY <1>11, ResetSwapInv
<1>12. CASE Notify(t)
  BY <1>12, NotifyInv
<1>13. CASE MissAgain(t)
  <2>1. TypeOK'
    BY <1>13 DEF MissAgain, WordInv, TypeOK, Prio, Label, Inside
  <2>2. InWord(t)'
    BY <1>13 DEF MissAgain, WordInv, TypeOK, InWord, Inside
  <2> QED BY <1>13, <2>1, <2>2, LocalStep DEF MissAgain, WordInv, TypeOK
<1> QED BY <1>1, <1>2, <1>3, <1>4, <1>5, <1>6, <1>7, <1>8, <1>9, <1>10, <1>11, <1>12, <1>13 DEF Step

(* The inductive invariant holds in every reachable state. *)
LEMMA WordInvariance == Spec => []WordInv
<1>1. WordInv /\ [Next]_vars => WordInv'
  <2>1. CASE UNCHANGED vars
    BY <2>1 DEF vars, WordInv, TypeOK, WordIsHeld, OneHolder, InWord
  <2>2. ASSUME WordInv, NEW t \in Thread, Step(t)
        PROVE  WordInv'
    BY <2>2, WordStep
  <2> QED BY <2>1, <2>2 DEF Next, Terminating
<1> QED BY WordInit, <1>1, PTL DEF Spec

(* Type correctness, for any number of threads and of entries.             *)
THEOREM TypeCorrect == Spec => []TypeOK
<1>1. WordInv => TypeOK
  BY DEF WordInv
<1> QED BY <1>1, WordInvariance, PTL

(* Two transactions of the same priority are never in a cache set at once, *)
(* however the loads and compare-and-swaps of the threads interleave.      *)
THEOREM MutualExclusion == Spec => []OneHolder
<1>1. WordInv => OneHolder
  BY DEF WordInv
<1> QED BY <1>1, WordInvariance, PTL

(* The assertions of check_mt_state(), wait_mt_state() and                 *)
(* reset_mt_state() on the state word never fail.                          *)
THEOREM AssertionsOfTheWord == Spec => []BitStands
<1>1. WordInv => BitStands
  BY DEF WordInv, TypeOK, WordIsHeld, InWord, BitStands
<1> QED BY <1>1, WordInvariance, PTL

(* The word implements a lock with priorities: a thread enters only above  *)
(* everything that is in the set.                                          *)
THEOREM Refinement == Spec => ImplementsPriorityLock
<1>1. Init => Lock!Init
  BY DEF Init, Lock!Init
<1>2. ASSUME WordInv, NEW t \in Thread, Step(t)
      PROVE  Lock!Next \/ UNCHANGED held
  <2>1. CASE SetSwap(t) /\ state = seen[t]
    <3>1. prio[t] \in Prio /\ ~Blocked(prio[t], state) /\ state \subseteq Prio /\ Prio \subseteq Nat
      BY <1>2, <2>1 DEF SetSwap, WordInv, TypeOK, InWord, Prio, acquire, probe, sync, release
    <3>2. ASSUME NEW u \in Thread, NEW q \in held[u]
          PROVE  q < prio[t]
      <4>1. q \in Prio
        BY <1>2 DEF WordInv, TypeOK
      <4>2. q \in state
        BY <1>2, <4>1 DEF WordInv, WordIsHeld
      <4>3. ~(prio[t] <= q)
        BY <3>1, <4>2 DEF Blocked
      <4>4. q \in Nat /\ prio[t] \in Nat
        BY <3>1, <4>1
      <4> QED BY <4>3, <4>4
    <3>3. Lock!Enter(t, prio[t])
      BY <2>1, <3>2 DEF SetSwap, Lock!Enter
    <3> QED BY <3>1, <3>3 DEF Lock!Next
  <2>2. CASE ResetSwap(t) /\ state = seen[t]
    <3>1. prio[t] \in held[t] /\ prio[t] \in Prio
      BY <1>2, <2>2 DEF ResetSwap, WordInv, TypeOK, InWord, Inside
    <3>2. Lock!Leave(t, prio[t])
      BY <2>2, <3>1 DEF ResetSwap, Lock!Leave
    <3> QED BY <3>1, <3>2 DEF Lock!Next
  <2> QED BY <1>2, <2>1, <2>2
        DEF Step, Begin, SetRead, SetSwap, Timeout, Miss, MissAgain, Check, YieldRead,
            Nested, Done, ResetRead, ResetSwap, Notify
<1>3. WordInv /\ [Next]_vars => [Lock!Next]_held
  BY <1>2 DEF Next, Terminating, vars
<1> QED BY <1>1, <1>3, WordInvariance, PTL DEF Spec, ImplementsPriorityLock, Lock!Spec

----------------------------------------------------------------------------
(* The replacer. *)

(* In one thread nothing drops the block whose hit is being served, and no *)
(* way becomes free between the look for one and the selection.            *)
Alone ==
  ~EnMT => /\ pending.kind = "hit" => pending.way \in valid
           /\ EF /\ pending.kind = "scan" => free = {}

Sound == ReplacerTypeOK /\ Permutation /\ OneAllocation /\ FreeMapSound /\ Alone

(* A permutation of the ways. *)
Ranking(u) ==
  /\ u \in [Way -> Way]
  /\ \A k \in Way : \E w \in Way : u[w] = k
  /\ \A v, w \in Way : u[v] = u[w] => v = w

(* None is not a way. *)
LEMMA NoWayIsApart == NoWay \notin Way
BY ReplacerAssumption DEF NoWay, Way

(* Moving a way to the top keeps the permutation: access() of FIFO and LRU *)
(* without a prefetch.                                                     *)
LEMMA TouchRanks ==
  ASSUME NEW u, Ranking(u), NEW w \in Way
  PROVE  Ranking(Touch(u, w))
<1> DEFINE t == Touch(u, w)
<1>0. /\ NW \in Nat \ {0}
      /\ \A v \in Way : u[v] \in 0 .. NW - 1
  BY ReplacerAssumption DEF Ranking, Way
<1>1. t \in [Way -> Way]
  <2>1. ASSUME NEW v \in Way PROVE t[v] \in 0 .. NW - 1
    <3>1. u[v] \in 0 .. NW - 1 /\ u[w] \in 0 .. NW - 1
      BY <1>0
    <3> QED BY <1>0, <3>1 DEF Touch
  <2> QED BY <2>1 DEF Touch, Way
<1>2. ASSUME NEW k \in Way PROVE \E v \in Way : t[v] = k
  <2>1. CASE k = NW - 1
    BY <2>1 DEF Touch
  <2>2. CASE k # NW - 1 /\ k < u[w]
    <3>1. PICK v \in Way : u[v] = k
      BY DEF Ranking
    <3>2. u[v] \in Nat /\ u[w] \in Nat
      BY <1>0
    <3>3. t[v] = k
      BY <2>2, <3>1, <3>2 DEF Touch
    <3> QED BY <3>3
  <2>3. CASE k # NW - 1 /\ k >= u[w]
    <3>1. k + 1 \in Way
      BY <2>3, ReplacerAssumption DEF Way
    <3>2. PICK v \in Way : u[v] = k + 1
      BY <3>1 DEF Ranking
    <3>3. u[v] \in Nat /\ u[w] \in Nat /\ k \in Nat
      BY <1>0 DEF Way
    <3>4. t[v] = k
      BY <2>3, <3>2, <3>3 DEF Touch
    <3> QED BY <3>4
  <2> QED BY <2>1, <2>2, <2>3, ReplacerAssumption DEF Ranking, Way
<1>3. ASSUME NEW v1 \in Way, NEW v2 \in Way, t[v1] = t[v2] PROVE v1 = v2
  <2>1. /\ u[v1] \in Way /\ u[v2] \in Way /\ u[w] \in Way
        /\ u[v1] = u[v2] => v1 = v2
        /\ u[v1] = u[w] => v1 = w
        /\ u[v2] = u[w] => v2 = w
    BY DEF Ranking
  <2> QED BY <1>3, <2>1, ReplacerAssumption DEF Touch, Way
<1> QED BY <1>1, <1>2, <1>3 DEF Ranking

(* Moving a way to the bottom keeps the permutation: access() with a       *)
(* prefetch.                                                               *)
LEMMA DemoteRanks ==
  ASSUME NEW u, Ranking(u), NEW w \in Way
  PROVE  Ranking(Demote(u, w))
<1> DEFINE t == Demote(u, w)
<1>0. /\ NW \in Nat \ {0}
      /\ \A v \in Way : u[v] \in 0 .. NW - 1
  BY ReplacerAssumption DEF Ranking, Way
<1>1. t \in [Way -> Way]
  <2>1. ASSUME NEW v \in Way PROVE t[v] \in 0 .. NW - 1
    <3>1. u[v] \in 0 .. NW - 1 /\ u[w] \in 0 .. NW - 1
      BY <1>0
    <3> QED BY <1>0, <3>1 DEF Demote
  <2> QED BY <2>1 DEF Demote, Way
<1>2. ASSUME NEW k \in Way PROVE \E v \in Way : t[v] = k
  <2>1. CASE k = 0
    BY <2>1 DEF Demote
  <2>2. CASE k # 0 /\ k > u[w]
    <3>1. PICK v \in Way : u[v] = k
      BY DEF Ranking
    <3>2. u[v] \in Nat /\ u[w] \in Nat
      BY <1>0
    <3>3. t[v] = k
      BY <2>2, <3>1, <3>2 DEF Demote
    <3> QED BY <3>3
  <2>3. CASE k # 0 /\ k <= u[w]
    <3>1. k - 1 \in Way
      BY <2>3, ReplacerAssumption DEF Way
    <3>2. PICK v \in Way : u[v] = k - 1
      BY <3>1 DEF Ranking
    <3>3. u[v] \in Nat /\ u[w] \in Nat /\ k \in Nat
      BY <1>0 DEF Way
    <3>4. t[v] = k
      BY <2>3, <3>2, <3>3 DEF Demote
    <3> QED BY <3>4
  <2> QED BY <2>1, <2>2, <2>3, ReplacerAssumption DEF Ranking, Way
<1>3. ASSUME NEW v1 \in Way, NEW v2 \in Way, t[v1] = t[v2] PROVE v1 = v2
  <2>1. /\ u[v1] \in Way /\ u[v2] \in Way /\ u[w] \in Way
        /\ u[v1] = u[v2] => v1 = v2
        /\ u[v1] = u[w] => v1 = w
        /\ u[v2] = u[w] => v2 = w
    BY DEF Ranking
  <2> QED BY <1>3, <2>1, ReplacerAssumption DEF Demote, Way
<1> QED BY <1>1, <1>2, <1>3 DEF Ranking

(* Any access keeps the permutation. *)
LEMMA UpdatedRanks ==
  ASSUME Ranked, Ranking(used), NEW w \in Way, NEW demand, NEW prefetch
  PROVE  Ranking(Updated(w, demand, prefetch))
<1>1. Ranking(Touch(used, w)) /\ Ranking(Demote(used, w))
  BY TouchRanks, DemoteRanks
<1>2. Updated(w, demand, prefetch) \in {used, Touch(used, w), Demote(used, w)}
  BY DEF Updated, Ranked, Counts
<1> QED BY <1>1, <1>2

LEMMA LeastWay ==
  ASSUME NEW S, S \subseteq Way, S # {}
  PROVE  \E i \in S : \A j \in S : i <= j
<1> DEFINE R == OpToRel(<, Nat)
<1>1. S \subseteq Nat
  BY ReplacerAssumption DEF Way
<1>2. PICK i \in S : \A j \in S : <<j, i>> \notin R
  <2> HIDE DEF R
  <2>1. IsWellFoundedOn(R, Nat)
    BY NatLessThanWellFounded DEF R
  <2> QED BY <1>1, <2>1, WFMin
<1>3. \A j \in S : <<j, i>> \in R <=> j < i
  BY <1>1 DEF OpToRel
<1> HIDE DEF R
<1>4. ASSUME NEW j \in S PROVE i <= j
  <2>1. ~(j < i) /\ i \in Nat /\ j \in Nat
    BY <1>1, <1>2, <1>3
  <2> QED BY <2>1
<1> QED BY <1>4

(* select() of SRRIP finds a way of the highest priority.                  *)
LEMMA TopWayIsTop ==
  ASSUME NEW u \in [Way -> 0 .. 3]
  PROVE  TopWay(u) \in Way /\ \A v \in Way : u[v] <= u[TopWay(u)]
<1>1. PICK k \in 0 .. 3 : (\E w \in Way : u[w] = k) /\ \A v \in Way : u[v] <= k
  <2>1. 0 \in Way
    BY ReplacerAssumption DEF Way
  <2>2. \A v \in Way : u[v] \in {0, 1, 2, 3}
    OBVIOUS
  <2> QED BY <2>1, <2>2
<1> DEFINE S == {w \in Way : u[w] = k}
<1>2. PICK w \in S : \A j \in S : w <= j
  <2>1. S \subseteq Way /\ S # {}
    BY <1>1
  <2> HIDE DEF S
  <2> QED BY <2>1, LeastWay
<1>3. \A v \in Way : u[v] < u[w] \/ (u[v] = u[w] /\ w <= v)
  BY <1>1, <1>2
<1>4. \E x \in Way : \A v \in Way : u[v] < u[x] \/ (u[v] = u[x] /\ x <= v)
  BY <1>2, <1>3
<1>5. TopWay(u) \in Way /\ \A v \in Way : u[v] < u[TopWay(u)] \/ (u[v] = u[TopWay(u)] /\ TopWay(u) <= v)
  BY <1>4 DEF TopWay
<1> HIDE DEF S
<1>6. ASSUME NEW v \in Way PROVE u[v] <= u[TopWay(u)]
  <2>1. u[v] \in 0 .. 3 /\ u[TopWay(u)] \in 0 .. 3
    BY <1>5
  <2> QED BY <1>5, <2>1
<1> QED BY <1>5, <1>6

(* alloc_from_free() finds a free way if there is one. *)
LEMMA FirstFreeIsFree ==
  ASSUME free \subseteq Way, free # {}
  PROVE  FirstFree \in free
BY LeastWay DEF FirstFree

(* The priorities: a permutation in FIFO and LRU, two bits each in SRRIP.  *)
Priorities(u) == IF Ranked THEN Ranking(u) ELSE u \in [Way -> 0 .. 3]

LEMMA PrioritiesSay ==
  Priorities(used) <=> Permutation /\ used \in [Way -> IF Ranked THEN Way ELSE 0 .. 3]
BY DEF Priorities, Permutation, Ranking

(* Any access keeps them. *)
LEMMA UpdatedPriorities ==
  ASSUME Priorities(used), NEW w \in Way, NEW demand, NEW prefetch
  PROVE  Priorities(Updated(w, demand, prefetch))
<1>1. CASE Ranked
  BY <1>1, UpdatedRanks DEF Priorities
<1>2. CASE ~Ranked
  <2>1. Predicted(w, prefetch) \in 0 .. 3
    BY DEF Predicted
  <2>2. Updated(w, demand, prefetch) \in {used, [used EXCEPT ![w] = Predicted(w, prefetch)]}
    BY <1>2, ReplacerAssumption DEF Updated, Ranked
  <2> HIDE DEF Predicted
  <2> QED BY <1>2, <2>1, <2>2 DEF Priorities
<1> QED BY <1>1, <1>2

(* select() ages the ways of SRRIP by as much as its choice lacks.         *)
LEMMA AgedPriorities ==
  ASSUME Priorities(used)
  PROVE  Priorities(Aged) /\ Selected \subseteq Way
<1>1. CASE Ranked
  BY <1>1 DEF Priorities, Aged, Selected, Ranked
<1>2. CASE ~Ranked
  <2>1. used \in [Way -> 0 .. 3]
    BY <1>2 DEF Priorities
  <2>2. TopWay(used) \in Way /\ \A v \in Way : used[v] <= used[TopWay(used)]
    BY <2>1, TopWayIsTop
  <2>3. \A v \in Way : used[v] + (3 - used[TopWay(used)]) \in 0 .. 3
    <3> DEFINE top == used[TopWay(used)]
    <3>1. top \in 0 .. 3 /\ \A v \in Way : used[v] \in 0 .. 3 /\ used[v] <= top
      BY <2>1, <2>2
    <3> HIDE DEF top
    <3>2. \A v \in Way : used[v] + (3 - top) \in 0 .. 3
      BY <3>1
    <3> QED BY <3>2 DEF top
  <2>4. Priorities(Aged)
    BY <1>2, <2>1, <2>3 DEF Priorities, Aged
  <2>5. Selected \subseteq Way
    BY <1>2, <2>2, ReplacerAssumption DEF Selected, Ranked
  <2> QED BY <2>4, <2>5
<1> QED BY <1>1, <1>2

(* Init establishes the invariant. *)
LEMMA InitSound == ReplacerInit => Sound
<1> SUFFICES ASSUME ReplacerInit PROVE Sound
  OBVIOUS
<1>1. Priorities(used)
  BY DEF ReplacerInit, Priorities, Ranking, Way
<1>2. ReplacerTypeOK /\ Permutation
  BY <1>1, PrioritiesSay DEF ReplacerInit, ReplacerTypeOK, Xact
<1>3. OneAllocation /\ FreeMapSound /\ Alone
  BY DEF ReplacerInit, OneAllocation, FreeMapSound, Alone, Taken, Idle
<1> QED BY <1>2, <1>3 DEF Sound

(* What a miss has taken is a way. *)
LEMMA PendingWay ==
  ASSUME pending \in Xact, pending.kind \in {"record", "miss", "hit"}
  PROVE  pending.way \in Way /\ pending # Idle /\ pending # Scan
BY DEF Xact, Idle, Scan

(* Every step keeps it. *)
LEMMA StepSound == Sound /\ [ReplacerNext]_replacerVars => Sound'
<1> SUFFICES ASSUME Sound, [ReplacerNext]_replacerVars PROVE Sound'
  OBVIOUS
<1> USE NoWayIsApart
<1>0. /\ Priorities(used) /\ OneAllocation /\ FreeMapSound /\ Alone
      /\ free \subseteq Way /\ alloc \in Way \cup {NoWay} /\ valid \subseteq Way /\ pending \in Xact
  BY PrioritiesSay DEF Sound, ReplacerTypeOK
<1>1. ASSUME Priorities(used'), free' \subseteq Way, valid' \subseteq Way, pending' \in Xact,
             alloc' \in Way \cup {NoWay}
      PROVE  ReplacerTypeOK' /\ Permutation'
  BY <1>1 DEF ReplacerTypeOK, Priorities, Permutation, Ranking, Ranked
<1>2. CASE Allocate
  <2>1. /\ pending = Idle /\ alloc = NoWay /\ UNCHANGED <<used, alloc, valid>>
        /\ Taken = {}
    BY <1>0, <1>2 DEF Allocate, OneAllocation, Taken, Idle
  <2>2. CASE EF /\ free # {}
    <3>1. PICK w \in Way : /\ w \in free /\ pending' = [kind |-> "record", way |-> w]
                           /\ free' = free \ {w}
      BY <1>0, <1>2, <2>2, FirstFreeIsFree DEF Allocate
    <3>2. Taken' = {w} /\ pending'.kind = "record"
      BY <3>1 DEF Taken
    <3>3. pending' \in Xact
      BY <3>1 DEF Xact
    <3>4. OneAllocation' /\ FreeMapSound' /\ Alone'
      BY <1>0, <2>1, <3>1, <3>2 DEF OneAllocation, FreeMapSound, Alone
    <3> QED BY <1>0, <1>1, <2>1, <3>1, <3>3, <3>4 DEF Sound
  <2>3. CASE ~(EF /\ free # {})
    <3>1. pending' = Scan /\ free' = free
      BY <1>2, <2>3 DEF Allocate
    <3>2. Taken' = {} /\ pending'.kind = "scan" /\ pending' \in Xact
      BY <3>1 DEF Taken, Scan, Xact
    <3>3. OneAllocation' /\ FreeMapSound' /\ Alone'
      BY <1>0, <2>1, <2>3, <3>1, <3>2 DEF OneAllocation, FreeMapSound, Alone
    <3> QED BY <1>0, <1>1, <2>1, <3>1, <3>2, <3>3 DEF Sound
  <2> QED BY <2>2, <2>3
<1>3. CASE Select
  <2>1. PICK w \in Way : /\ pending' = [kind |-> "record", way |-> w]
                         /\ free' = IF EF THEN free ELSE free \ {w}
    BY <1>0, <1>3, AgedPriorities DEF Select
  <2>2. /\ pending = Scan /\ pending.kind = "scan" /\ alloc = NoWay /\ Taken = {}
        /\ used' = Aged /\ UNCHANGED <<alloc, valid>>
    BY <1>0, <1>3 DEF Select, Scan, OneAllocation, Taken
  <2>3. Taken' = {w} /\ pending'.kind = "record" /\ pending' \in Xact
    BY <2>1 DEF Taken, Xact
  <2>4. OneAllocation' /\ Alone'
    BY <2>2, <2>3 DEF OneAllocation, Alone
  <2>5. ~EnMT /\ EF => free = {}
    BY <1>0, <2>2 DEF Alone
  <2>6. FreeMapSound'
    BY <1>0, <2>1, <2>2, <2>3, <2>5 DEF FreeMapSound
  <2>7. Priorities(used')
    BY <1>0, <2>2, AgedPriorities
  <2> QED BY <1>0, <1>1, <2>1, <2>2, <2>3, <2>4, <2>6, <2>7 DEF Sound
<1>4. CASE Record
  <2>1. /\ pending.kind = "record" /\ pending.way \in Way /\ alloc' = pending.way
        /\ pending' = [pending EXCEPT !.kind = "miss"] /\ UNCHANGED <<used, free, valid>>
    BY <1>0, <1>4, PendingWay DEF Record
  <2>2. pending' \in Xact /\ pending'.kind = "miss" /\ pending'.way = pending.way
    BY <1>0, <2>1 DEF Xact, Idle, Scan
  <2>3. Taken' = Taken
    BY <2>1, <2>2 DEF Taken
  <2>4. OneAllocation' /\ FreeMapSound' /\ Alone'
    BY <1>0, <2>1, <2>2, <2>3 DEF OneAllocation, FreeMapSound, Alone
  <2> QED BY <1>0, <1>1, <2>1, <2>2, <2>4 DEF Sound
<1>5. ASSUME NEW w \in Way, Hit(w) PROVE Sound'
  <2>1. /\ pending = Idle /\ pending' = [kind |-> "hit", way |-> w] /\ w \in valid
        /\ UNCHANGED <<used, free, alloc, valid>>
    BY <1>5 DEF Hit
  <2>2. pending' \in Xact
    BY <2>1 DEF Xact
  <2>3. OneAllocation' /\ FreeMapSound' /\ Alone'
    BY <1>0, <2>1 DEF OneAllocation, FreeMapSound, Alone, Taken, Idle
  <2> QED BY <1>0, <1>1, <2>1, <2>2, <2>3 DEF Sound
<1>6. ASSUME NEW w \in Way, Invalid(w), w \in valid, valid' = valid \ {w}, UNCHANGED pending,
             EnMT \/ (pending # Scan /\ pending.kind # "record"),
             EnMT \/ pending.kind # "hit" \/ pending.way # w
      PROVE  Sound'
  <2>1. Priorities(used')
    BY <1>0, <1>6 DEF Invalid, Priorities, Ranked
  <2>2. alloc' = alloc /\ free' = (IF w = alloc THEN free ELSE free \cup {w}) /\ Taken' = Taken
    BY <1>6 DEF Invalid, Taken
  <2>3. OneAllocation'
    BY <1>0, <1>6, <2>2 DEF OneAllocation
  <2>4. FreeMapSound'
    <3>1. w = alloc => w \in Taken
      BY <1>0 DEF OneAllocation, Taken
    <3>2. ~EnMT /\ w # alloc => w \notin Taken
      BY <1>0, <1>6 DEF OneAllocation, Taken
    <3> QED BY <1>0, <1>6, <2>2, <3>1, <3>2 DEF FreeMapSound
  <2>5. Alone'
    BY <1>0, <1>6 DEF Alone, Xact, Idle, Scan
  <2> QED BY <1>0, <1>1, <1>6, <2>1, <2>2, <2>3, <2>4, <2>5 DEF Sound
<1>7. CASE Evict
  <2>1. pending.kind = "miss" /\ pending.way \in Way /\ pending # Scan
    BY <1>0, <1>7, PendingWay DEF Evict
  <2> QED BY <1>6, <1>7, <2>1 DEF Evict
<1>8. ASSUME NEW w \in Way, Drop(w) PROVE Sound'
  <2>1. EnMT \/ pending.kind # "hit" \/ pending.way # w
    BY <1>0, <1>8 DEF Drop, Xact, Idle, Scan
  <2> QED BY <1>6, <1>8, <2>1 DEF Drop, Undisturbed
<1>9. ASSUME NEW w \in Way, Write(w) PROVE Sound'
  <2>1. w \in valid /\ Access(w, FALSE, FALSE) /\ valid' = valid /\ pending' = pending
    BY <1>9 DEF Write
  <2>2. alloc' = alloc /\ free' = free /\ Taken' = Taken
    BY <1>0, <2>1 DEF Access, FreeMapSound, Taken
  <2>3. Priorities(used')
    BY <1>0, <2>1, UpdatedPriorities DEF Access
  <2> QED BY <1>0, <1>1, <2>1, <2>2, <2>3 DEF Sound, OneAllocation, FreeMapSound, Alone
<1>10. ASSUME NEW prefetch \in BOOLEAN, Finish(prefetch) PROVE Sound'
  <2> DEFINE w == pending.way
  <2>1. w \in Way /\ pending.kind \in {"miss", "hit"}
    BY <1>0, <1>10, PendingWay DEF Finish
  <2>2. Access(w, TRUE, prefetch) /\ valid' = valid \cup {w} /\ pending' = Idle
    BY <1>10 DEF Finish
  <2>3. alloc' = NoWay /\ Taken \subseteq {w} /\ Taken' = {} /\ pending' \in Xact
    BY <1>0, <2>1, <2>2 DEF Access, OneAllocation, Taken, Idle, Xact
  <2>4. Priorities(used')
    BY <1>0, <2>1, <2>2, UpdatedPriorities DEF Access
  <2>5. free' \subseteq Way /\ valid' \subseteq Way
    BY <1>0, <2>1, <2>2 DEF Access
  <2>6. OneAllocation'
    BY <2>2, <2>3 DEF OneAllocation, Idle
  <2>7. FreeMapSound'
    <3>1. CASE EnMT
      BY <1>0, <2>1, <2>2, <2>3, <3>1 DEF Access, FreeMapSound
    <3>2. CASE ~EnMT
      <4>1. w \notin free
        BY <1>0, <2>1, <3>2 DEF Alone, FreeMapSound, Taken
      <4> QED BY <1>0, <2>1, <2>2, <2>3, <3>2, <4>1 DEF Access, FreeMapSound
    <3> QED BY <3>1, <3>2
  <2>8. Alone'
    BY <2>2 DEF Alone, Idle
  <2> QED BY <1>1, <2>3, <2>4, <2>5, <2>6, <2>7, <2>8 DEF Sound
<1>11. CASE UNCHANGED replacerVars
  BY <1>0, <1>1, <1>11 DEF replacerVars, Sound, OneAllocation, FreeMapSound, Alone, Taken
<1> QED BY <1>2, <1>3, <1>4, <1>5, <1>7, <1>8, <1>9, <1>10, <1>11 DEF ReplacerNext

(* The invariant holds in every reachable state, whatever the policy and   *)
(* whatever comes between the steps of a miss.                             *)
THEOREM ReplacerSound == ReplacerSpec => []Sound
BY InitSound, StepSound, PTL DEF ReplacerSpec

(* Type correctness of the replacer for every policy; the priorities of    *)
(* SRRIP, which ages all ways by as much as its choice lacks, never exceed *)
(* two bits.                                                               *)
THEOREM PrioritiesInRange == ReplacerSpec => []ReplacerTypeOK
<1>1. Sound => ReplacerTypeOK
  BY DEF Sound
<1> QED BY <1>1, ReplacerSound, PTL

(* select() of FIFO and LRU always finds its way, however many ways there  *)
(* are and whatever probes, releases and prefetches come in between: the   *)
(* assertion "replacer used_map corrupted!".                               *)
THEOREM AlwaysAVictim == ReplacerSpec => []Permutation
<1>1. Sound => Permutation
  BY DEF Sound
<1> QED BY <1>1, ReplacerSound, PTL

(* One way is allocated at a time and none once the access is done: the    *)
(* assertion "potential parallel allocated cache blocks in one cache set!".*)
THEOREM NoParallelAllocation == ReplacerSpec => []OneAllocation
<1>1. Sound => OneAllocation
  BY DEF Sound
<1> QED BY <1>1, ReplacerSound, PTL

(* The free map loses no way and lists none that holds a block, even when  *)
(* a probe drops the block of a way between its selection and its record;  *)
(* only then is the way that a miss has taken still listed.                *)
THEOREM FreeMapStaysSound == ReplacerSpec => []FreeMapSound
<1>1. Sound => FreeMapSound
  BY DEF Sound
<1> QED BY <1>1, ReplacerSound, PTL

-----------------------------------------------------------------------------
(* FIFO and LRU are queues. *)

(* The queue that the priorities u stand for. *)
Queue(u) == [i \in 1 .. NW |-> CHOOSE w \in Way : u[w] = i - 1]

(* The i-th way is that of priority i - 1. *)
LEMMA QueueAt ==
  ASSUME NEW u, Ranking(u), NEW w \in Way
  PROVE  /\ u[w] + 1 \in 1 .. NW
         /\ \A i \in 1 .. NW : Queue(u)[i] = w <=> u[w] = i - 1
<1>1. u[w] \in 0 .. NW - 1 /\ NW \in Nat \ {0}
  BY ReplacerAssumption DEF Ranking, Way
<1>2. ASSUME NEW i \in 1 .. NW
      PROVE  Queue(u)[i] = w <=> u[w] = i - 1
  <2>1. i - 1 \in Way
    BY <1>1 DEF Way
  <2>2. PICK v \in Way : u[v] = i - 1
    BY <2>1 DEF Ranking
  <2>3. Queue(u)[i] \in Way /\ u[Queue(u)[i]] = i - 1
    BY <2>2 DEF Queue
  <2> QED BY <2>3 DEF Ranking
<1> QED BY <1>1, <1>2

LEMMA WayAt ==
  ASSUME NEW u, Ranking(u), NEW i \in 1 .. NW
  PROVE  Queue(u)[i] \in Way /\ u[Queue(u)[i]] = i - 1
<1>1. i - 1 \in Way
  BY ReplacerAssumption DEF Way
<1>2. PICK v \in Way : u[v] = i - 1
  BY <1>1 DEF Ranking
<1> QED BY <1>2 DEF Queue

(* Where a way is in the queue. *)
LEMMA PlaceOf ==
  ASSUME Ranking(used), NEW w \in Way
  PROVE  Order!Place(w) = used[w] + 1
<1>1. \A i \in 1 .. NW : Queue(used)[i] = w <=> i = used[w] + 1
  <2>1. used[w] \in Nat
    <3>1. used[w] \in 0 .. NW - 1 /\ NW \in Nat
      BY ReplacerAssumption DEF Ranking, Way
    <3> QED BY <3>1
  <2> QED BY <2>1, QueueAt
<1>2. used[w] + 1 \in 1 .. NW
  BY QueueAt
<1> QED BY <1>1, <1>2 DEF Order!Place, Queue

(* Touch() moves a way to the tail of the queue. *)
LEMMA TouchQueue ==
  ASSUME Ranking(used), NEW w \in Way
  PROVE  Queue(Touch(used, w)) = Order!Last(w)
<1> DEFINE t == Touch(used, w)
<1>1. Ranking(t)
  BY TouchRanks
<1>2. /\ NW \in Nat \ {0} /\ \A v \in Way : used[v] \in 0 .. NW - 1
      /\ \A v \in Way : t[v] = IF v = w THEN NW - 1 ELSE IF used[v] > used[w] THEN used[v] - 1 ELSE used[v]
  BY ReplacerAssumption DEF Ranking, Way, Touch
<1> HIDE DEF t
<1>3. ASSUME NEW i \in 1 .. NW
      PROVE  Queue(t)[i] = IF i < used[w] + 1 THEN Queue(used)[i]
                           ELSE IF i < NW THEN Queue(used)[i + 1] ELSE w
  <2>1. CASE i < used[w] + 1
    <3>1. PICK v \in Way : v = Queue(used)[i] /\ used[v] = i - 1
      BY WayAt
    <3>2. v # w /\ ~(used[v] > used[w])
      BY <1>2, <2>1, <3>1
    <3>3. t[v] = i - 1
      BY <1>2, <3>1, <3>2
    <3> QED BY <1>1, <2>1, <3>1, <3>3, QueueAt
  <2>2. CASE ~(i < used[w] + 1) /\ i < NW
    <3>1. i + 1 \in 1 .. NW
      BY <1>2, <2>2
    <3>2. PICK v \in Way : v = Queue(used)[i + 1] /\ used[v] = i + 1 - 1
      BY <3>1, WayAt
    <3>3. v # w /\ used[v] > used[w] /\ used[v] - 1 = i - 1
      BY <1>2, <2>2, <3>2
    <3>4. t[v] = i - 1
      BY <1>2, <3>3
    <3> QED BY <1>1, <2>2, <3>2, <3>4, QueueAt
  <2>3. CASE ~(i < used[w] + 1) /\ ~(i < NW)
    <3>1. t[w] = i - 1
      BY <1>2, <2>3
    <3> QED BY <1>1, <2>3, <3>1, QueueAt
  <2> QED BY <2>1, <2>2, <2>3
<1>4. Order!Place(w) = used[w] + 1
  BY PlaceOf
<1>5. Order!Last(w) = [i \in 1 .. NW |-> IF i < used[w] + 1 THEN Queue(used)[i]
                                         ELSE IF i < NW THEN Queue(used)[i + 1] ELSE w]
  BY <1>4 DEF Order!Last, Queue
<1>6. Queue(t) = [i \in 1 .. NW |-> Queue(t)[i]]
  BY DEF Queue
<1> QED BY <1>3, <1>5, <1>6 DEF t

(* Demote() moves it to the head. *)
LEMMA DemoteQueue ==
  ASSUME Ranking(used), NEW w \in Way
  PROVE  Queue(Demote(used, w)) = Order!First(w)
<1> DEFINE t == Demote(used, w)
<1>1. Ranking(t)
  BY DemoteRanks
<1>2. /\ NW \in Nat \ {0} /\ \A v \in Way : used[v] \in 0 .. NW - 1
      /\ \A v \in Way : t[v] = IF v = w THEN 0 ELSE IF used[v] < used[w] THEN used[v] + 1 ELSE used[v]
  BY ReplacerAssumption DEF Ranking, Way, Demote
<1> HIDE DEF t
<1>3. ASSUME NEW i \in 1 .. NW
      PROVE  Queue(t)[i] = IF i = 1 THEN w
                           ELSE IF i <= used[w] + 1 THEN Queue(used)[i - 1] ELSE Queue(used)[i]
  <2>1. CASE i = 1
    <3>1. t[w] = i - 1
      BY <1>2, <2>1
    <3> QED BY <1>1, <2>1, <3>1, QueueAt
  <2>2. CASE i # 1 /\ i <= used[w] + 1
    <3>1. i - 1 \in 1 .. NW
      BY <1>2, <2>2
    <3>2. PICK v \in Way : v = Queue(used)[i - 1] /\ used[v] = i - 1 - 1
      BY <3>1, WayAt
    <3>3. v # w /\ used[v] < used[w] /\ used[v] + 1 = i - 1
      BY <1>2, <2>2, <3>2
    <3>4. t[v] = i - 1
      BY <1>2, <3>3
    <3> QED BY <1>1, <2>2, <3>2, <3>4, QueueAt
  <2>3. CASE i # 1 /\ ~(i <= used[w] + 1)
    <3>1. PICK v \in Way : v = Queue(used)[i] /\ used[v] = i - 1
      BY WayAt
    <3>2. v # w /\ ~(used[v] < used[w])
      BY <1>2, <2>3, <3>1
    <3>3. t[v] = i - 1
      BY <1>2, <3>1, <3>2
    <3> QED BY <1>1, <2>3, <3>1, <3>3, QueueAt
  <2> QED BY <2>1, <2>2, <2>3
<1>4. Order!Place(w) = used[w] + 1
  BY PlaceOf
<1>5. Order!First(w) = [i \in 1 .. NW |-> IF i = 1 THEN w
                          ELSE IF i <= used[w] + 1 THEN Queue(used)[i - 1] ELSE Queue(used)[i]]
  BY <1>4 DEF Order!First, Queue
<1>6. Queue(t) = [i \in 1 .. NW |-> Queue(t)[i]]
  BY DEF Queue
<1> QED BY <1>3, <1>5, <1>6 DEF t

(* The new queue after any access. *)
LEMMA UpdatedQueue ==
  ASSUME Ranked, Ranking(used), NEW w \in Way, NEW demand, NEW prefetch
  PROVE  /\ Queue(Updated(w, demand, prefetch)) \in {Queue(used), Order!Last(w), Order!First(w)}
         /\ Counts(w, demand) => Queue(Updated(w, demand, prefetch)) \in {Order!Last(w), Order!First(w)}
BY TouchQueue, DemoteQueue DEF Updated, Ranked

(* Where the miss is, to the queue. *)
TakenWay == IF pending.kind \in {"record", "miss"} THEN pending.way ELSE NoWay
Stage ==
  CASE pending.kind = "scan"   -> "full"
    [] pending.kind = "record" -> "taken"
    [] pending.kind = "miss"   -> "recorded"
    [] OTHER                   -> "none"

(* Every step of the replacer is one of the queue, or none. *)
LEMMA StepQueue ==
  ASSUME Ranked, Sound, [ReplacerNext]_replacerVars
  PROVE  [Order!Next]_<<Queue(used), free, TakenWay, Stage>>
<1> USE NoWayIsApart
<1>0. /\ Ranking(used) /\ alloc \in Way \cup {NoWay} /\ valid \subseteq Way /\ pending \in Xact
      /\ OneAllocation /\ FreeMapSound /\ Alone /\ free \subseteq Way
      /\ NoWay = -1 /\ Way = 0 .. NW - 1
  BY PrioritiesSay DEF Sound, ReplacerTypeOK, NoWay, Way, Priorities
<1>1. CASE Allocate
  <2>1. Stage = "none" /\ TakenWay = -1 /\ used' = used
    BY <1>0, <1>1 DEF Allocate, Stage, TakenWay, Idle
  <2>2. CASE EF /\ free # {}
    <3>1. PICK w \in Way : /\ w \in free /\ pending' = [kind |-> "record", way |-> w]
                           /\ free' = free \ {w}
      BY <1>0, <1>1, <2>2, FirstFreeIsFree DEF Allocate
    <3>2. Stage' = "taken" /\ TakenWay' = w
      BY <3>1 DEF Stage, TakenWay
    <3>3. Order!TakeFree(w)
      BY <2>1, <2>2, <3>1, <3>2 DEF Order!TakeFree, Queue, Stage, TakenWay
    <3> QED BY <1>0, <3>3 DEF Order!Next
  <2>3. CASE ~(EF /\ free # {})
    <3>1. free' = free /\ Stage' = "full" /\ TakenWay' = -1
      BY <1>0, <1>1, <2>3 DEF Allocate, Stage, TakenWay, Scan
    <3>2. Order!Look
      BY <2>1, <2>3, <3>1 DEF Order!Look, Queue, Stage, TakenWay
    <3> QED BY <3>2 DEF Order!Next
  <2> QED BY <2>2, <2>3
<1>2. CASE Select
  <2>1. PICK w \in Way : /\ used[w] = 0 /\ pending' = [kind |-> "record", way |-> w]
                         /\ free' = IF EF THEN free ELSE free \ {w}
    BY <1>2 DEF Select, Selected, Ranked
  <2>2. used' = used /\ Stage = "full" /\ Stage' = "taken" /\ TakenWay' = w
    BY <1>2, <2>1 DEF Select, Aged, Ranked, Stage, TakenWay, Scan
  <2>3. Queue(used)[1] = w
    <3>1. 1 \in 1 .. NW /\ 1 - 1 = 0
      BY ReplacerAssumption
    <3> QED BY <1>0, <2>1, <3>1, QueueAt
  <2>4. Order!TakeHead
    <3>1. /\ TakenWay' = Queue(used)[1] /\ free' = IF EF THEN free ELSE free \ {Queue(used)[1]}
          /\ Queue(used)' = Queue(used)
      <4>1. Queue(used)' = Queue(used)
        BY <2>2 DEF Queue
      <4> QED BY <2>1, <2>2, <2>3, <4>1
    <3> QED BY <2>2, <3>1, Zenon DEF Order!TakeHead, Queue, Stage, TakenWay
  <2> QED BY <2>4 DEF Order!Next
<1>3. CASE Record
  <2>1. /\ pending.kind = "record" /\ pending' = [pending EXCEPT !.kind = "miss"]
        /\ UNCHANGED <<used, free>>
    BY <1>3 DEF Record
  <2>2. pending'.kind = "miss" /\ pending'.way = pending.way
    BY <1>0, <2>1 DEF Xact, Idle, Scan
  <2>3. Stage = "taken" /\ Stage' = "recorded" /\ TakenWay' = TakenWay
    BY <2>1, <2>2 DEF Stage, TakenWay
  <2>4. Order!Record
    BY <2>1, <2>3 DEF Order!Record, Queue, Stage, TakenWay
  <2> QED BY <2>4 DEF Order!Next
(* A block is dropped: its way is listed unless it is the recorded one.    *)
<1>4. ASSUME NEW w \in Way, Invalid(w), UNCHANGED pending,
             Stage \in {"full", "taken"} => EnMT
      PROVE  [Order!Next]_<<Queue(used), free, TakenWay, Stage>>
  <2>1. /\ used' = used /\ free' = (IF w = alloc THEN free ELSE free \cup {w})
        /\ TakenWay' = TakenWay /\ Stage' = Stage
    BY <1>4 DEF Invalid, Ranked, TakenWay, Stage
  <2>2. CASE w = alloc
    BY <2>1, <2>2 DEF Queue
  <2>3. CASE w # alloc
    <3>1. w = TakenWay => Stage = "taken"
      BY <1>0, <2>3 DEF OneAllocation, TakenWay, Stage
    <3>2. Order!Free(w)
      BY <1>4, <2>1, <2>3, <3>1 DEF Order!Free, Queue, Stage, TakenWay
    <3> QED BY <1>0, <3>2 DEF Order!Next
  <2> QED BY <2>2, <2>3
<1>5. CASE Evict
  <2>1. pending.kind = "miss" /\ pending.way \in Way
    BY <1>0, <1>5, PendingWay DEF Evict
  <2>2. Stage = "recorded"
    BY <2>1 DEF Stage
  <2> QED BY <1>4, <1>5, <2>1, <2>2 DEF Evict
<1>6. ASSUME NEW w \in Way, Drop(w)
      PROVE  [Order!Next]_<<Queue(used), free, TakenWay, Stage>>
  <2>1. Stage \in {"full", "taken"} => EnMT
    BY <1>0, <1>6 DEF Drop, Undisturbed, Stage, Xact, Idle, Scan
  <2> QED BY <1>4, <1>6, <2>1 DEF Drop
<1>7. ASSUME NEW w \in Way, Hit(w)
      PROVE  [Order!Next]_<<Queue(used), free, TakenWay, Stage>>
  <2>1. /\ pending = Idle /\ pending' = [kind |-> "hit", way |-> w] /\ UNCHANGED <<used, free>>
    BY <1>7 DEF Hit
  <2>2. Stage' = Stage /\ TakenWay' = TakenWay
    BY <2>1 DEF Stage, TakenWay, Idle
  <2> QED BY <2>1, <2>2 DEF Queue
<1>8. ASSUME NEW w \in Way, NEW demand, NEW prefetch, Access(w, demand, prefetch),
             free' = free \ {w}, TakenWay' = TakenWay, Stage' = Stage
      PROVE  [Order!Next]_<<Queue(used), free, TakenWay, Stage>>
  <2>1. Queue(used') \in {Queue(used), Order!Last(w), Order!First(w)}
    BY <1>0, <1>8, UpdatedQueue DEF Access
  <2>2. Order!Use(w)
    BY <1>8, <2>1 DEF Order!Use, Queue, Stage, TakenWay
  <2> QED BY <1>0, <2>2 DEF Order!Next
<1>9. ASSUME NEW w \in Way, Write(w)
      PROVE  [Order!Next]_<<Queue(used), free, TakenWay, Stage>>
  <2>1. w \notin free /\ Access(w, FALSE, FALSE) /\ pending' = pending
    BY <1>0, <1>9 DEF Write, FreeMapSound
  <2>2. free' = free \ {w} /\ TakenWay' = TakenWay /\ Stage' = Stage
    BY <2>1 DEF Access, TakenWay, Stage
  <2> QED BY <1>8, <2>1, <2>2
<1>10. ASSUME NEW prefetch \in BOOLEAN, Finish(prefetch)
       PROVE  [Order!Next]_<<Queue(used), free, TakenWay, Stage>>
  <2>1. PICK w \in Way : w = pending.way
    BY <1>0, <1>10, PendingWay DEF Finish
  <2>2. /\ Access(w, TRUE, prefetch) /\ pending.kind \in {"miss", "hit"} /\ pending' = Idle
    BY <1>0, <1>10, <2>1 DEF Finish
  <2>3. Stage' = "none" /\ TakenWay' = -1
    BY <1>0, <2>2 DEF Stage, TakenWay, Idle
  (* Only another thread can have dropped the block of a hit, or listed    *)
  (* the way of a miss, and then the use takes it off the map.             *)
  <2>4. free' = free \ {w}
    <3>1. CASE EnMT
      BY <2>2, <3>1 DEF Access
    <3>2. CASE ~EnMT
      <4>1. w \notin free
        BY <1>0, <2>1, <2>2, <3>2 DEF Alone, FreeMapSound, Taken
      <4> QED BY <2>2, <3>2, <4>1 DEF Access
    <3> QED BY <3>1, <3>2
  <2>5. CASE pending.kind = "miss"
    <3>1. alloc = w /\ Stage = "recorded" /\ TakenWay = w
      BY <1>0, <2>1, <2>5 DEF OneAllocation, Stage, TakenWay
    <3>2. Queue(used') \in {Order!Last(w), Order!First(w)}
      BY <1>0, <2>2, <3>1, UpdatedQueue DEF Access, Counts
    <3>3. Order!Fill(w)
      BY <2>3, <2>4, <3>1, <3>2 DEF Order!Fill, Queue, Stage, TakenWay
    <3> QED BY <1>0, <3>3 DEF Order!Next
  <2>6. CASE pending.kind = "hit"
    <3>1. Stage = "none" /\ TakenWay = -1
      BY <1>0, <2>6 DEF Stage, TakenWay
    <3> QED BY <1>8, <2>2, <2>3, <2>4, <3>1
  <2> QED BY <2>2, <2>5, <2>6
<1>11. CASE UNCHANGED replacerVars
  BY <1>11 DEF replacerVars, Queue, TakenWay, Stage
<1> QED BY <1>1, <1>2, <1>3, <1>5, <1>6, <1>7, <1>9, <1>10, <1>11 DEF ReplacerNext

(* ImplementsQueue: FIFO and LRU take the ways in the order of a queue,    *)
(* whatever probes, releases and prefetches come between the steps of a    *)
(* miss, those of replace() included.                                      *)
THEOREM QueueRefined ==
  ASSUME Ranked
  PROVE  ReplacerSpec => ImplementsQueue
<1>1. ReplacerInit => Order!Init
  <2> SUFFICES ASSUME ReplacerInit PROVE Order!Init
    OBVIOUS
  <2>1. Ranking(used)
    BY InitSound, PrioritiesSay DEF Sound, ReplacerTypeOK, Priorities
  <2>2. used = [w \in Way |-> w]
    BY DEF ReplacerInit
  <2>3. ASSUME NEW i \in 1 .. NW
        PROVE  Queue(used)[i] = i - 1
    <3>1. i - 1 \in Way /\ used[i - 1] = i - 1
      BY <2>2, ReplacerAssumption DEF Way
    <3> QED BY <2>1, <3>1, QueueAt
  <2>4. Queue(used) = [i \in 1 .. NW |-> i - 1]
    BY <2>3 DEF Queue
  <2>5. TakenWay = -1 /\ Stage = "none"
    BY DEF ReplacerInit, Idle, TakenWay, Stage, NoWay
  <2> QED BY <2>4, <2>5 DEF ReplacerInit, Order!Init, Queue, TakenWay, Stage, NoWay, Way
<1>2. Sound /\ [ReplacerNext]_replacerVars => [Order!Next]_<<Queue(used), free, TakenWay, Stage>>
  BY StepQueue
<1> QED BY <1>1, <1>2, ReplacerSound, PTL
        DEF ReplacerSpec, ImplementsQueue, Order!Spec, Queue, TakenWay, Stage
============================================================================
