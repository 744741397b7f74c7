------------------------ MODULE ParallelCacheProofs ------------------------
(***************************************************************************)
(* Proofs about ParallelCache, for MSI and MESI, for every number of       *)
(* blocks, sets and ways, every index function, and every number of        *)
(* threads up to the size of the table of pending finishes, as long as no  *)
(* block is prefetched by two of them.                                     *)
(*                                                                         *)
(* The inductive invariant IInv has three layers.  Coherent says what the  *)
(* lines of all caches have to do with each other and with the memory.     *)
(* Guarded says that the line locks and the words of the sets are exactly  *)
(* what the threads hold.  ThreadInv(t) says what thread t may rely on at  *)
(* each of its steps: about its own line in its L1, about its line in the  *)
(* LLC, and about the copies in the L1s of others.                         *)
(***************************************************************************)
EXTENDS ParallelCache, FiniteSetTheorems, WellFoundedInduction, TLAPS

L1Label  == {"hit", "replace", "lock", "victim", "access", "evict", "release", "write"}
InProbe  == {"probe", "probe_lock", "probe_hit", "probe_miss"}
LLCLabel == {"hit", "replace", "lock", "victim", "access", "evict", "writeback", "copy",
             "fetch", "fill", "grant", "granted", "finish"} \cup InProbe

ReadWrite == {"read", "write"}
Cause     == {"grant", "writeback"} \X {"evict", "downgrade"}

Record == [pc   : {"idle"} \cup L1Label \cup LLCLabel,
           op   : {None, "read", "write", "flush", "prefetch"},
           addr : Addr \cup {None},
           deep : BOOLEAN,
           act  : {None, "fetch_read", "fetch_write"},
           line : Line \cup {None},
           out  : Line \cup {None},
           why  : {None} \cup Cause,
           todo : SUBSET Core,
           in   : Line \cup {None},
           data : BOOLEAN]

Typed ==
  /\ meta \in [Line -> Meta]
  /\ lock \in [Line -> Core \cup {None}]
  /\ word \in [CacheSet -> SUBSET {acquire, probe, release}]
  /\ mem  \in [Addr -> BOOLEAN]
  /\ th   \in [Core -> Record]

----------------------------------------------------------------------------
(* The lines of all caches. *)

(* An invalid line is empty, a valid one is in the set of its block.       *)
Placed ==
  \A l \in Line : IF IsValid(meta[l])
                  THEN meta[l].addr \in Addr /\ l \in LinesOf(l[1], meta[l].addr)
                  ELSE meta[l] = Empty

Unique ==
  \A l, m \in Line :
    IsValid(meta[l]) /\ IsValid(meta[m]) /\ l[1] = m[1] /\ meta[l].addr = meta[m].addr => l = m

(* A valid line of an L1 is up to date and backed by a line of the LLC,    *)
(* which knows of the cache and of its permission.                         *)
Included ==
  \A l \in Line : IsValid(meta[l]) /\ l[1] # LLC =>
    /\ meta[l].data
    /\ meta[l].dirty \/ Proto = "MI" => AllowWrite(meta[l])
    /\ \E o \in Line :
         /\ o[1] = LLC /\ Match(o, meta[l].addr)
         /\ Directory => l[1] \in meta[o].sharer
         /\ AllowWrite(meta[l]) => meta[o].st # "S"

OneWriter ==
  \A l, m \in Line :
    /\ l[1] # LLC /\ m[1] # LLC /\ l[1] # m[1]
    /\ IsValid(meta[l]) /\ IsValid(meta[m]) /\ meta[l].addr = meta[m].addr
    => ~AllowWrite(meta[l])

(* The LLC is up to date unless an L1 is dirty, the memory unless the LLC  *)
(* has the block.                                                          *)
Backed ==
  /\ \A o \in Line : o[1] = LLC /\ IsValid(meta[o]) =>
       /\ meta[o].dirty \/ meta[o].data = mem[meta[o].addr]
       /\ meta[o].data \/ \E l \in Line : l[1] # LLC /\ Match(l, meta[o].addr) /\ meta[l].dirty
  /\ \A a \in Addr : mem[a] \/ \E o \in Line : o[1] = LLC /\ Match(o, a)

Coherent == Placed /\ Unique /\ Included /\ OneWriter /\ Backed

----------------------------------------------------------------------------
(* The threads. *)

(* Thread t has reserved the LLC's set of its block.                       *)
Ours(t) == th[t].deep /\ th[t].pc \notin Looking

(* The LLC does not have the block of t, which has a line for it.          *)
Missed(t) ==
  \/ th[t].pc \in {"victim", "evict", "copy", "fetch", "fill"}
  \/ th[t].op # "flush" /\ th[t].pc = "writeback"
  \/ th[t].op # "flush" /\ th[t].pc \in InProbe /\ th[t].why[1] = "writeback"

(* Where a thread can be with which call. *)
InL1(t) ==
  LET r == th[t]
  IN  /\ ~r.deep /\ r.pc \in L1Label /\ r.op \in ReadWrite /\ r.addr \in Addr
      /\ r.pc \notin Looking => r.line \in LinesOf(t, r.addr)

InLLC(t) ==
  LET r == th[t]
  IN  /\ r.deep /\ r.pc \in LLCLabel /\ r.addr \in Addr
      /\ r.op \in ReadWrite \cup {"flush", "prefetch"}
      /\ r.op = "flush" => r.pc \in {"hit", "lock", "access", "writeback"} \cup InProbe
      /\ r.op = "prefetch" => r.pc \notin {"lock", "access", "grant", "granted"}
      /\ r.op \in ReadWrite => r.act \in {"fetch_read", "fetch_write"} /\ r.line \in LinesOf(t, r.addr)
      /\ r.op = "write" \/ (r.op = "read" /\ Proto = "MI") => r.act = "fetch_write"
      /\ r.pc \notin Looking => r.out \in LinesOf(LLC, r.addr)
      /\ r.pc \in InProbe =>
           /\ r.why \in Cause
           /\ r.why[1] = "writeback" => r.why[2] = "evict"
           /\ r.why[1] = "grant" => r.op \in ReadWrite
           /\ r.why[2] = "evict" \/ (Proto # "MI" /\ r.act = "fetch_read")
      /\ r.pc \in InProbe \ {"probe"} => r.todo # {}

Control(t) == th[t] = Idle \/ InL1(t) \/ InLLC(t)

(* What t may rely on in its own L1: while it looks for a victim or        *)
(* releases one its block stays out, and while it asks the LLC the line it *)
(* will fill is empty or has the block without the permission.             *)
OwnL1(t) ==
  LET r == th[t]
  IN  /\ ~r.deep /\ r.pc = "access" => Match(r.line, r.addr)
      /\ ~r.deep /\ r.pc \in {"victim", "evict", "release", "write"} =>
           \A l \in Line : l[1] = t => ~Match(l, r.addr)
      /\ r.pc \in {"release", "write"} => meta[r.line].dirty
      /\ r.pc = "write" => r.out \in Line /\ r.out[1] = LLC /\ Match(r.out, meta[r.line].addr)
      /\ r.deep /\ r.op \in ReadWrite /\ r.pc # "finish" =>
           /\ \A l \in Line : l[1] = t /\ Match(l, r.addr) => l = r.line /\ ~AllowWrite(meta[l])
           /\ IsValid(meta[r.line]) => Match(r.line, r.addr)

(* What t may rely on in the LLC. *)
OwnLLC(t) ==
  LET r == th[t]
      o == meta[r.out]
  IN  Ours(t) =>
      /\ IF Missed(t) THEN \A l \in Line : l[1] = LLC => ~Match(l, r.addr) ELSE Match(r.out, r.addr)
      /\ r.pc \in {"copy", "fetch", "fill"} => ~IsValid(o)
      /\ r.pc \in InProbe \cup {"writeback"} => IsValid(o)
      /\ r.pc \in {"fill", "granted"} => r.data
      /\ r.pc = "granted" =>
           /\ Directory => t \in o.sharer
           /\ Granted(r.act, o, t) # "S" => o.st # "S"

(* What t may rely on in the L1s of others: those it has probed do not get *)
(* the block back, nor those that it was about to probe and missed in.     *)
Others(t) ==
  LET r == th[t]
      b == meta[r.out].addr
  IN  /\ r.pc \in InProbe =>
           \A l \in Line : /\ l[1] # LLC /\ l[1] \notin r.todo /\ Match(l, b)
                           /\ r.why[1] = "grant" => l[1] # t
                           => r.why[2] = "downgrade" /\ ~AllowWrite(meta[l])
      /\ r.pc = "probe_miss" => \A l \in Line : l[1] = Target(t) => ~Match(l, b)
      /\ r.pc \in Probing => r.in \in LinesOf(Target(t), b)
      /\ r.pc = "probe_hit" => Match(r.in, b)
      /\ r.pc = "writeback" => \A l \in Line : l[1] # LLC => ~Match(l, b)
      /\ r.pc \in {"grant", "granted"} =>
           \A l \in Line : l[1] # LLC /\ l[1] # t /\ Match(l, r.addr) =>
             /\ r.act = "fetch_read" /\ ~AllowWrite(meta[l])
             /\ r.pc = "granted" => Granted(r.act, meta[r.out], t) = "S"

ThreadInv(t) == Control(t) /\ OwnL1(t) /\ OwnLLC(t) /\ Others(t)

----------------------------------------------------------------------------
(* The locks. *)

(* Thread t has locked line l. *)
Owns(t, l) ==
  LET r == th[t]
  IN  \/ ~r.deep /\ r.pc \in {"access", "evict", "release", "write"} /\ l = r.line
      \/ r.deep /\ r.pc \in {"access", "evict", "writeback", "copy", "grant", "granted", "finish"} /\ l = r.out
      \/ r.pc = "probe_hit" /\ l = r.in

Locks == \A l \in Line, t \in Core : lock[l] = t <=> Owns(t, l)

(* The word of a set is what the threads hold there, and no two hold the   *)
(* same priority.                                                          *)
Words ==
  \A s \in CacheSet :
    /\ \A p \in {acquire, probe, release} : p \in word[s] <=> \E t \in Core : p \in Reserved(t, s)
    /\ \A t, u \in Core, p \in {acquire, probe, release} :
         p \in Reserved(t, s) /\ p \in Reserved(u, s) => t = u

Guarded == Locks /\ Words

IInv == Typed /\ Coherent /\ Guarded /\ \A t \in Core : ThreadInv(t)

----------------------------------------------------------------------------
(* Lines and sets. *)

(* A line knows its cache and its set. *)
LEMMA LineParts ==
  ASSUME NEW c \in Cache, NEW a \in Addr, NEW l \in LinesOf(c, a)
  PROVE  /\ l \in Line /\ l[1] = c
         /\ <<l[1], l[2]>> = SetOf(c, a)
         /\ SetOf(c, a) \in CacheSet
<1>1. l \in Line /\ SetOf(c, a) \in CacheSet
  BY DEF Line, CacheSet
<1>2. PICK w \in Ways[c] : l = <<c, Set[c][a], w>>
  BY DEF LinesOf
<1>3. l[1] = c /\ l[2] = Set[c][a]
  BY <1>2
<1> QED BY <1>1, <1>3 DEF SetOf

LEMMA LineCache ==
  ASSUME NEW l \in Line
  PROVE  l[1] \in Cache /\ (l[1] # LLC <=> l[1] \in Core)
  BY ParallelAssumption DEF Line, LinesOf, Cache

(* Sets of different caches are different.                                 *)
LEMMA SetParts ==
  ASSUME NEW c, NEW d, NEW a, NEW b, SetOf(c, a) = SetOf(d, b)
  PROVE  c = d
  BY DEF SetOf

(* The lines that hit() finds are those of the cache that hold the block.  *)
LEMMA HitsAre ==
  ASSUME Placed, NEW c \in Cache, NEW a \in Addr
  PROVE  \A l : l \in Hits(c, a) <=> l \in Line /\ l[1] = c /\ Match(l, a)
<1>1. ASSUME NEW l \in Hits(c, a)
      PROVE  l \in Line /\ l[1] = c /\ Match(l, a)
  <2>1. l \in LinesOf(c, a) /\ Match(l, a)
    BY DEF Hits
  <2> QED BY <2>1, LineParts
<1>2. ASSUME NEW l \in Line, l[1] = c, Match(l, a)
      PROVE  l \in Hits(c, a)
  BY <1>2 DEF Hits, Placed, Match
<1> QED BY <1>1, <1>2

(* Probes go to one of those that are left. *)
LEMMA TargetLeft ==
  ASSUME NEW t \in Core, th[t].todo \subseteq Core, th[t].todo # {}
  PROVE  Target(t) \in th[t].todo
<1> DEFINE S == th[t].todo
           R == OpToRel(<, Nat)
<1>1. S \subseteq Nat
  BY ParallelAssumption
<1>2. PICK i \in S : \A j \in S : <<j, i>> \notin R
  <2> HIDE DEF R
  <2>1. IsWellFoundedOn(R, Nat)
    BY NatLessThanWellFounded DEF R
  <2> QED BY <1>1, <2>1, WFMin
<1>3. \A j \in S : <<j, i>> \in R <=> j < i
  BY <1>1 DEF OpToRel
<1> HIDE DEF R
<1>4. \A j \in S : ~(j < i)
  BY <1>2, <1>3
<1>5. \A j \in S : i <= j
  BY <1>1, <1>4
<1> QED BY <1>5 DEF Target

(* The record of a thread that goes on to another label, *)
LEMMA MovedRecord ==
  ASSUME NEW r \in Record, NEW label \in L1Label \cup LLCLabel
  PROVE  LET e == [r EXCEPT !.pc = label]
         IN  /\ e \in Record
             /\ e.pc = label /\ e.op = r.op /\ e.addr = r.addr /\ e.deep = r.deep /\ e.act = r.act
             /\ e.line = r.line /\ e.out = r.out /\ e.why = r.why /\ e.todo = r.todo /\ e.in = r.in
  BY DEF Record

(* and of one that begins to probe. *)
LEMMA ProbeRecord ==
  ASSUME NEW r \in Record, NEW w \in Cause, NEW s \in SUBSET Core
  PROVE  [r EXCEPT !.pc = "probe", !.why = w, !.todo = s] \in Record
<1>1. "probe" \in LLCLabel
  BY DEF LLCLabel, InProbe
<1> QED BY <1>1 DEF Record

----------------------------------------------------------------------------
(* Metadata. *)

LEMMA EmptyMeta == Empty \in Meta /\ ~IsValid(Empty) /\ ~Empty.dirty /\ ~AllowWrite(Empty)
  BY DEF Empty, Meta, State, IsValid, AllowWrite

LEMMA ModifiedMeta ==
  ASSUME NEW m \in Meta, NEW id \in Core \cup {NoId}
  PROVE  LET n == ToModified(m, id)
         IN  /\ n \in Meta
             /\ n.st = "M" /\ n.addr = m.addr /\ n.outer = m.outer
             /\ n.dirty = m.dirty /\ n.data = m.data
             /\ n.sharer = IF Directory /\ id # NoId THEN m.sharer \cup {id} ELSE m.sharer
  BY DEF ToModified, AddSharer, Meta, State

LEMMA SharedMeta ==
  ASSUME NEW m \in Meta, NEW id \in Core \cup {NoId}, Proto # "MI"
  PROVE  LET n == ToShared(m, id)
         IN  /\ n \in Meta
             /\ n.st = "S" /\ n.addr = m.addr /\ n.outer = m.outer
             /\ n.dirty = m.dirty /\ n.data = m.data
             /\ n.sharer = IF Directory /\ id # NoId THEN m.sharer \cup {id} ELSE m.sharer
  BY DEF ToShared, AddSharer, Meta, State

(* A coherence id is not that of nobody. *)
LEMMA IdIsNoNoId == NoId \notin Core /\ LLC \notin Core
  BY ParallelAssumption DEF NoId

LEMMA ExclusiveMeta ==
  ASSUME NEW m \in Meta, NEW id \in Core, Proto = "MESI"
  PROVE  LET n == ToExclusive(m, id)
         IN  /\ n \in Meta
             /\ n.st = "E" /\ n.addr = m.addr /\ n.outer = m.outer
             /\ n.dirty = m.dirty /\ n.data = m.data
             /\ n.sharer = IF Directory THEN m.sharer \cup {id} ELSE m.sharer
  BY IdIsNoNoId DEF ToExclusive, AddSharer, Meta, State

(* What is filled in after a fetch. *)
LEMMA FetchedMeta ==
  ASSUME NEW m \in Meta, NEW act \in AcquireAct
  PROVE  LET n == MetaAfterFetch(act, m)
         IN  /\ n \in Meta
             /\ IsValid(n) /\ n.addr = m.addr /\ n.outer = m.outer
             /\ n.dirty = m.dirty /\ n.data = m.data /\ n.sharer = m.sharer
<1> DEFINE i == [m EXCEPT !.st = "I"]
<1>1. i \in Meta /\ i.addr = m.addr /\ i.outer = m.outer /\ i.dirty = m.dirty /\ i.data = m.data
      /\ i.sharer = m.sharer
  BY DEF Meta, State
<1>2. CASE Proto # "MI" /\ act \in {"fetch_read", "prefetch"}
  <2>1. MetaAfterFetch(act, m) = ToShared(i, NoId)
    BY <1>2 DEF MetaAfterFetch
  <2> HIDE DEF i
  <2>2. /\ ToShared(i, NoId) \in Meta
        /\ ToShared(i, NoId).st = "S" /\ ToShared(i, NoId).addr = i.addr
        /\ ToShared(i, NoId).outer = i.outer /\ ToShared(i, NoId).dirty = i.dirty
        /\ ToShared(i, NoId).data = i.data /\ ToShared(i, NoId).sharer = i.sharer
    BY <1>1, <1>2, SharedMeta
  <2> QED BY <1>1, <2>1, <2>2 DEF IsValid
<1>3. CASE ~(Proto # "MI" /\ act \in {"fetch_read", "prefetch"})
  <2>1. MetaAfterFetch(act, m) = ToModified(i, NoId)
    BY <1>3 DEF MetaAfterFetch
  <2> HIDE DEF i
  <2>2. /\ ToModified(i, NoId) \in Meta
        /\ ToModified(i, NoId).st = "M" /\ ToModified(i, NoId).addr = i.addr
        /\ ToModified(i, NoId).outer = i.outer /\ ToModified(i, NoId).dirty = i.dirty
        /\ ToModified(i, NoId).data = i.data /\ ToModified(i, NoId).sharer = i.sharer
    BY <1>1, ModifiedMeta
  <2> QED BY <1>1, <2>1, <2>2 DEF IsValid
<1> QED BY <1>2, <1>3

(* What the LLC records when it grants, and what it then has granted: to   *)
(* write only if it knows the block as exclusive or modified.              *)
LEMMA GrantedMeta ==
  ASSUME NEW m \in Meta, NEW t \in Core, NEW act \in {"fetch_read", "fetch_write"}
  PROVE  LET n == MetaAfterGrant(act, m, t)
         IN  /\ n \in Meta
             /\ IsValid(n) /\ n.addr = m.addr /\ n.outer = m.outer
             /\ n.dirty = m.dirty /\ n.data = m.data
             /\ n.sharer = IF Directory THEN m.sharer \cup {t} ELSE m.sharer
             /\ Granted(act, n, t) # "S" => n.st # "S"
<1> DEFINE n == MetaAfterGrant(act, m, t)
           s == ToShared(m, t)
<1>1. CASE Proto # "MI" /\ act = "fetch_read"
  <2>1. /\ s \in Meta /\ s.st = "S" /\ s.addr = m.addr /\ s.outer = m.outer
        /\ s.dirty = m.dirty /\ s.data = m.data
        /\ s.sharer = IF Directory THEN m.sharer \cup {t} ELSE m.sharer
    BY <1>1, SharedMeta, IdIsNoNoId
  <2>2. CASE Proto = "MESI" /\ IsExclusiveSharer(s, t)
    <3>1. n = ToExclusive(s, t)
      BY <1>1, <2>2 DEF MetaAfterGrant
    <3> QED BY <2>1, <2>2, <3>1, ExclusiveMeta DEF IsValid
  <2>3. CASE ~(Proto = "MESI" /\ IsExclusiveSharer(s, t))
    <3>1. n = s
      BY <1>1, <2>3 DEF MetaAfterGrant
    <3>2. ToShared(n, t).sharer = s.sharer
      BY <1>1, <2>1, <3>1, SharedMeta, IdIsNoNoId
    <3>3. Granted(act, n, t) = "S"
      BY <1>1, <2>3, <3>2 DEF Granted, IsExclusiveSharer
    <3> QED BY <2>1, <3>1, <3>3 DEF IsValid
  <2> QED BY <2>2, <2>3
<1>2. CASE ~(Proto # "MI" /\ act = "fetch_read")
  <2>1. n = ToModified(m, t)
    BY <1>2 DEF MetaAfterGrant
  <2> QED BY <2>1, ModifiedMeta, IdIsNoNoId DEF IsValid
<1> QED BY <1>1, <1>2

(* What is granted depends on the sharers only, and a read is granted more *)
(* than a shared copy only if nobody else is a sharer.                     *)
LEMMA GrantedIs ==
  ASSUME NEW m \in Meta, NEW t \in Core, NEW act
  PROVE  /\ Granted(act, m, t) \in {"S", "E", "M"}
         /\ \A n \in Meta : n.sharer = m.sharer => Granted(act, n, t) = Granted(act, m, t)
         /\ Proto # "MI" /\ act = "fetch_read" /\ Granted(act, m, t) # "S"
              => Directory /\ m.sharer \subseteq {t}
         /\ Proto = "MI" \/ act # "fetch_read" => Granted(act, m, t) = "M"
<1>1. ASSUME Proto # "MI", NEW n \in Meta
      PROVE  ToShared(n, t).sharer = IF Directory THEN n.sharer \cup {t} ELSE n.sharer
  BY <1>1, SharedMeta, IdIsNoNoId
<1>2. Proto = "MESI" => Directory
  BY ProtoAssumption
<1> QED BY <1>1, <1>2 DEF Granted, IsExclusiveSharer

(* What a probe leaves of a copy. *)
LEMMA ProbedMeta ==
  ASSUME NEW m \in Meta, NEW act \in {"evict", "downgrade"}, act = "downgrade" => Proto # "MI"
  PROVE  LET n == MetaAfterProbe(act, m)
         IN  /\ n \in Meta
             /\ act = "evict" => ~IsValid(n)
             /\ act = "downgrade" => /\ IsValid(n) /\ n.addr = m.addr /\ n.data = m.data
                                     /\ ~n.dirty /\ ~AllowWrite(n)
<1> DEFINE i == ToInvalid(m)
           n == MetaAfterProbe(act, m)
<1>1. /\ i \in Meta /\ ~IsValid(i) /\ i.addr = m.addr /\ i.data = m.data
      /\ ToInvalid(i) \in Meta /\ ~IsValid(ToInvalid(i))
  BY DEF ToInvalid, Meta, State, IsValid
<1>2. CASE act = "evict"
  <2>1. n = i \/ n = ToInvalid(i)
    BY <1>2 DEF MetaAfterProbe
  <2> QED BY <1>1, <1>2, <2>1
<1>3. CASE act = "downgrade"
  <2> DEFINE o == [i EXCEPT !.outer = "S"]
             s == ToShared(o, NoId)
  <2>1. n = ToClean(s)
    BY <1>3 DEF MetaAfterProbe
  <2>2. o \in Meta /\ o.outer = "S" /\ o.addr = m.addr /\ o.data = m.data
    BY <1>1 DEF Meta, State
  <2>3. s \in Meta /\ s.st = "S" /\ s.outer = "S" /\ s.addr = m.addr /\ s.data = m.data
    BY <1>3, <2>2, SharedMeta
  <2>4. n \in Meta /\ n.st = "S" /\ n.outer = "S" /\ n.addr = m.addr /\ n.data = m.data /\ ~n.dirty
    BY <2>1, <2>3 DEF ToClean, Meta
  <2> QED BY <1>3, <2>4 DEF IsValid, AllowWrite
<1> QED BY <1>2, <1>3

----------------------------------------------------------------------------
(* The frame: what the steps of a thread leave as it is for the others. *)

(* What Match() says of a line, for a line after the step.                *)
Holds(m, a) == IsValid(m) /\ m.addr = a

(* Thread u and its step are as before, but what it carries may have been  *)
(* made stale.                                                             *)
Still(u) ==
  /\ th'[u] \in {th[u], [th[u] EXCEPT !.data = FALSE]}
  /\ th[u] = Idle \/ th[u].pc \in {"fill", "granted"} => th'[u] = th[u]

(* A line of thread t's step, as others may find it: its L1s get no block  *)
(* for which u has reserved the LLC's set, nor the permission for one; no  *)
(* other L1 gets any.                                                      *)
NoGain(t, u) ==
  \A l \in Line, a \in Addr :
    /\ l[1] # LLC /\ Holds(meta'[l], a)
    /\ l[1] # t \/ (Ours(u) /\ SetOf(LLC, a) = SetOf(LLC, th[u].addr))
    => Match(l, a) /\ (AllowWrite(meta'[l]) => AllowWrite(meta[l]))

(* The LLC's set that u has reserved keeps its blocks and their sharers,   *)
(* and a line that u has locked keeps all but its content.                 *)
SetKept(u) ==
  \A o \in Line : Ours(u) /\ <<o[1], o[2]>> = SetOf(LLC, th[u].addr) =>
    /\ meta'[o].addr = meta[o].addr /\ meta'[o].sharer = meta[o].sharer
    /\ IsValid(meta'[o]) <=> IsValid(meta[o])
    /\ meta'[o].st = "S" => meta[o].st = "S"
LineKept(u) ==
  \A l \in Line : lock[l] = u => meta'[l] \in {meta[l], [meta[l] EXCEPT !.data = FALSE]}

(* The line to which u releases keeps the block. *)
GoalKept(u) ==
  th[u].pc = "write" => Holds(meta'[th[u].out], meta'[th[u].line].addr)

LEMMA StillFields ==
  ASSUME Typed, NEW u \in Core, Still(u)
  PROVE  LET r == th[u]
             q == th'[u]
         IN  /\ q.pc = r.pc /\ q.op = r.op /\ q.addr = r.addr /\ q.deep = r.deep /\ q.act = r.act
             /\ q.line = r.line /\ q.out = r.out /\ q.why = r.why /\ q.todo = r.todo /\ q.in = r.in
             /\ r.pc \in {"fill", "granted"} => q.data = r.data
             /\ q \in Record
<1>1. th[u] \in Record
  BY DEF Typed
<1> QED BY <1>1 DEF Still, Record

LEMMA FrameControl ==
  ASSUME Typed, NEW u \in Core, Still(u), Control(u)
  PROVE  Control(u)'
<1> DEFINE r == th[u]
           q == th'[u]
<1>1. /\ q.pc = r.pc /\ q.op = r.op /\ q.addr = r.addr /\ q.deep = r.deep /\ q.act = r.act
      /\ q.line = r.line /\ q.out = r.out /\ q.why = r.why /\ q.todo = r.todo /\ q.in = r.in
  BY StillFields
<1>2. CASE r = Idle
  BY <1>2 DEF Control, Still
<1>3. CASE InL1(u)
  <2>1. InL1(u)'
    BY <1>1, <1>3 DEF InL1
  <2> QED BY <2>1 DEF Control
<1>4. CASE InLLC(u)
  <2>1. InLLC(u)'
    BY <1>1, <1>4 DEF InLLC
  <2> QED BY <2>1 DEF Control
<1> QED BY <1>2, <1>3, <1>4 DEF Control

(* Where a thread that is in the LLC or in its L1 has its line.            *)
LEMMA ControlLines ==
  ASSUME NEW u \in Core, Control(u)
  PROVE  /\ th[u].pc = "idle" <=> th[u] = Idle
         /\ th[u] # Idle => th[u].addr \in Addr
         /\ th[u] # Idle /\ ~th[u].deep /\ th[u].pc \notin Looking =>
              th[u].line \in Line /\ th[u].line[1] = u
         /\ th[u].deep /\ th[u].op \in ReadWrite => th[u].line \in Line /\ th[u].line[1] = u
         /\ Ours(u) => /\ th[u] # Idle
                       /\ th[u].out \in Line /\ th[u].out[1] = LLC
                       /\ <<th[u].out[1], th[u].out[2]>> = SetOf(LLC, th[u].addr)
                       /\ SetOf(LLC, th[u].addr) \in CacheSet
<1> DEFINE r == th[u]
<1>1. u \in Cache /\ LLC \in Cache
  BY DEF Cache
<1>2. CASE r = Idle
  BY <1>2 DEF Idle, Ours
<1>3. CASE InL1(u)
  <2>1. r.pc \notin Looking => r.line \in Line /\ r.line[1] = u
    BY <1>1, <1>3, LineParts DEF InL1
  <2> QED BY <1>3, <2>1 DEF InL1, Idle, L1Label, Ours
<1>4. CASE InLLC(u)
  <2>1. r.op \in ReadWrite => r.line \in Line /\ r.line[1] = u
    BY <1>1, <1>4, LineParts DEF InLLC
  <2>2. r.pc \notin Looking =>
          /\ r.out \in Line /\ r.out[1] = LLC
          /\ <<r.out[1], r.out[2]>> = SetOf(LLC, r.addr) /\ SetOf(LLC, r.addr) \in CacheSet
    BY <1>1, <1>4, LineParts DEF InLLC
  <2> QED BY <1>4, <2>1, <2>2 DEF InLLC, Idle, LLCLabel, InProbe, Ours
<1> QED BY <1>2, <1>3, <1>4 DEF Control

LEMMA FrameOwnL1 ==
  ASSUME Typed, Placed, Locks, NEW t \in Core, NEW u \in Core \ {t}, Still(u),
         Control(u), OwnL1(u), NoGain(t, u), LineKept(u), GoalKept(u), meta' \in [Line -> Meta],
         Placed'
  PROVE  OwnL1(u)'
<1> DEFINE r == th[u]
           q == th'[u]
<1>1. /\ q.pc = r.pc /\ q.op = r.op /\ q.addr = r.addr /\ q.deep = r.deep
      /\ q.line = r.line /\ q.out = r.out
  BY StillFields
<1>2. u # LLC
  BY ParallelAssumption
<1>3. ASSUME NEW l \in Line, lock[l] = u
      PROVE  /\ meta'[l].addr = meta[l].addr /\ meta'[l].dirty = meta[l].dirty
             /\ IsValid(meta'[l]) <=> IsValid(meta[l])
  <2>1. meta[l] \in Meta
    BY DEF Typed
  <2> QED BY <1>3, <2>1 DEF LineKept, Meta, IsValid
<1>4. ASSUME NEW l \in Line, l[1] = u, NEW a \in Addr, Holds(meta'[l], a)
      PROVE  Match(l, a) /\ (AllowWrite(meta'[l]) => AllowWrite(meta[l]))
  BY <1>2, <1>4 DEF NoGain
<1>5. ASSUME ~r.deep, r.pc \in {"access", "evict", "release", "write"}
      PROVE  r.line \in Line /\ lock[r.line] = u
  <2>1. r.line \in Line
    BY <1>5, ControlLines DEF Looking
  <2> QED BY <1>5, <2>1 DEF Locks, Owns
<1>6. r.pc \in {"release", "write"} => ~r.deep
  BY DEF Control, InLLC, LLCLabel, InProbe, InL1, Idle
<1>7. ~r.deep /\ r.pc = "access" => Holds(meta'[r.line], r.addr)
  BY <1>1, <1>3, <1>5 DEF OwnL1, Match, Holds
<1>8. ~r.deep /\ r.pc \in {"victim", "evict", "release", "write"} =>
        \A l \in Line : l[1] = u => ~Holds(meta'[l], r.addr)
  BY <1>1, <1>4, ControlLines DEF OwnL1
<1>9. r.pc \in {"release", "write"} => meta'[r.line].dirty
  BY <1>3, <1>5, <1>6 DEF OwnL1
<1>10. r.pc = "write" => r.out \in Line /\ r.out[1] = LLC /\ Holds(meta'[r.out], meta'[r.line].addr)
  BY <1>1 DEF OwnL1, GoalKept
<1>11. ASSUME r.deep, r.op \in ReadWrite, r.pc # "finish"
       PROVE  /\ \A l \in Line : l[1] = u /\ Holds(meta'[l], r.addr) => l = r.line /\ ~AllowWrite(meta'[l])
              /\ IsValid(meta'[r.line]) => Holds(meta'[r.line], r.addr)
  <2>1. r.addr \in Addr /\ r.line \in Line /\ r.line[1] = u
    BY <1>11, ControlLines DEF Idle
  <2>2. ASSUME NEW l \in Line, l[1] = u, Holds(meta'[l], r.addr)
        PROVE  l = r.line /\ ~AllowWrite(meta'[l])
    BY <1>1, <1>4, <1>11, <2>1, <2>2 DEF OwnL1
  <2>3. ASSUME IsValid(meta'[r.line])
        PROVE  Holds(meta'[r.line], r.addr)
    <3> DEFINE a == meta'[r.line].addr
    <3>1. a \in Addr /\ Holds(meta'[r.line], a)
      BY <2>1, <2>3 DEF Placed, Match, Holds
    <3>2. Match(r.line, a)
      BY <1>4, <2>1, <3>1
    <3>3. Match(r.line, r.addr)
      BY <1>11, <3>2 DEF OwnL1, Match, Holds
    <3> QED BY <2>3, <3>2, <3>3, <1>1 DEF Match, Holds
  <2> QED BY <2>2, <2>3
<1> QED BY <1>1, <1>7, <1>8, <1>9, <1>10, <1>11 DEF OwnL1, Match, Holds

LEMMA FrameOwnLLC ==
  ASSUME Typed, NEW u \in Core, Still(u), Control(u), OwnLLC(u), SetKept(u), LineKept(u),
         meta' \in [Line -> Meta], Placed'
  PROVE  OwnLLC(u)'
<1> DEFINE r == th[u]
           q == th'[u]
           o == r.out
<1>1. /\ q.pc = r.pc /\ q.op = r.op /\ q.addr = r.addr /\ q.deep = r.deep /\ q.act = r.act
      /\ q.out = r.out /\ q.why = r.why
      /\ r.pc \in {"fill", "granted"} => q.data = r.data
  BY StillFields
<1>2. (Ours(u) <=> Ours(u)') /\ (Missed(u) <=> Missed(u)')
  BY <1>1 DEF Ours, Missed
<1> SUFFICES ASSUME Ours(u) PROVE OwnLLC(u)'
  BY <1>2 DEF OwnLLC
<1>3. /\ r.addr \in Addr /\ o \in Line /\ o[1] = LLC
      /\ <<o[1], o[2]>> = SetOf(LLC, r.addr)
  BY ControlLines
<1>4. /\ meta'[o].addr = meta[o].addr /\ meta'[o].sharer = meta[o].sharer
      /\ IsValid(meta'[o]) <=> IsValid(meta[o])
      /\ meta'[o].st = "S" => meta[o].st = "S"
  BY <1>3 DEF SetKept
<1>5. meta[o] \in Meta /\ meta'[o] \in Meta
  BY <1>3 DEF Typed
<1>6. Granted(r.act, meta'[o], u) = Granted(r.act, meta[o], u)
  BY <1>4, <1>5, GrantedIs
<1>7. ASSUME NEW l \in Line, l[1] = LLC, Holds(meta'[l], r.addr)
      PROVE  Match(l, r.addr)
  <2>1. l \in LinesOf(LLC, r.addr)
    BY <1>1, <1>7 DEF Placed, Match, Holds
  <2>2. <<l[1], l[2]>> = SetOf(LLC, r.addr)
    BY <1>3, <2>1, LineParts DEF Cache
  <2> QED BY <1>7, <2>2 DEF SetKept, Match, Holds
<1>8. Missed(u) => \A l \in Line : l[1] = LLC => ~Holds(meta'[l], r.addr)
  BY <1>7 DEF OwnLLC
<1>9. ~Missed(u) => Holds(meta'[o], r.addr)
  BY <1>4 DEF OwnLLC, Match, Holds
<1>10. /\ r.pc \in {"copy", "fetch", "fill"} => ~IsValid(meta'[o])
       /\ r.pc \in InProbe \cup {"writeback"} => IsValid(meta'[o])
       /\ r.pc \in {"fill", "granted"} => q.data
  BY <1>1, <1>4 DEF OwnLLC
<1>11. r.pc = "granted" =>
         /\ Directory => u \in meta'[o].sharer
         /\ Granted(r.act, meta'[o], u) # "S" => meta'[o].st # "S"
  BY <1>4, <1>6 DEF OwnLLC
<1> QED BY <1>1, <1>2, <1>8, <1>9, <1>10, <1>11 DEF OwnLLC, Match, Holds

LEMMA FrameOthers ==
  ASSUME Typed, Placed, Locks, NEW t \in Core, NEW u \in Core \ {t}, Still(u),
         Control(u), OwnLLC(u), Others(u), NoGain(t, u), SetKept(u), LineKept(u),
         meta' \in [Line -> Meta]
  PROVE  Others(u)'
<1> DEFINE r == th[u]
           q == th'[u]
           o == r.out
           b == meta[o].addr
<1>1. /\ q.pc = r.pc /\ q.op = r.op /\ q.addr = r.addr /\ q.deep = r.deep /\ q.act = r.act
      /\ q.out = r.out /\ q.why = r.why /\ q.todo = r.todo /\ q.in = r.in
  BY StillFields
<1>2. Target(u)' = Target(u)
  BY <1>1 DEF Target
<1>3. r.pc \in InProbe \cup {"writeback", "grant", "granted"} => Ours(u)
  BY DEF Control, InL1, InLLC, Idle, L1Label, InProbe, Ours, Looking
<1>4. ASSUME r.pc \in InProbe \cup {"writeback", "grant", "granted"}
      PROVE  /\ r.addr \in Addr /\ o \in Line /\ o[1] = LLC
             /\ <<o[1], o[2]>> = SetOf(LLC, r.addr)
  BY <1>3, <1>4, ControlLines
<1>5. ASSUME r.pc \in InProbe \cup {"writeback"}
      PROVE  /\ b \in Addr /\ SetOf(LLC, b) = SetOf(LLC, r.addr)
             /\ meta'[o].addr = b
  <2>1. IsValid(meta[o]) /\ o \in Line /\ o[1] = LLC
    BY <1>3, <1>4, <1>5 DEF OwnLLC
  <2>2. b \in Addr /\ o \in LinesOf(LLC, b)
    BY <2>1 DEF Placed
  <2>3. SetOf(LLC, b) = <<o[1], o[2]>>
    BY <2>2, LineParts DEF Cache
  <2> QED BY <1>3, <1>4, <1>5, <2>2, <2>3 DEF SetKept
<1>6. ASSUME r.pc \in InProbe \cup {"writeback"}, NEW l \in Line, l[1] # LLC, Holds(meta'[l], b)
      PROVE  Match(l, b) /\ (AllowWrite(meta'[l]) => AllowWrite(meta[l]))
  BY <1>3, <1>5, <1>6 DEF NoGain
<1>7. r.pc \in InProbe =>
        \A l \in Line : /\ l[1] # LLC /\ l[1] \notin r.todo /\ Holds(meta'[l], b)
                        /\ r.why[1] = "grant" => l[1] # u
                        => r.why[2] = "downgrade" /\ ~AllowWrite(meta'[l])
  BY <1>6 DEF Others
<1>8. ASSUME r.pc = "probe_miss", NEW l \in Line, l[1] = Target(u), Holds(meta'[l], b)
      PROVE  FALSE
  <2>1. Target(u) \in Core
    <3>1. r.todo \subseteq Core
      BY DEF Typed, Record
    <3>2. r.todo # {}
      BY <1>8 DEF Control, InLLC, InL1, Idle, InProbe, L1Label
    <3> QED BY <3>1, <3>2, TargetLeft
  <2>2. Match(l, b)
    BY <1>6, <1>8, <2>1, ParallelAssumption DEF InProbe
  <2> QED BY <1>8, <2>2 DEF Others
<1>9. ASSUME r.pc \in Probing
      PROVE  r.in \in LinesOf(Target(u), b) /\ (r.pc = "probe_hit" => Holds(meta'[r.in], b))
  <2>1. r.in \in LinesOf(Target(u), b) /\ (r.pc = "probe_hit" => Match(r.in, b))
    BY <1>9 DEF Others
  <2>2. ASSUME r.pc = "probe_hit"
        PROVE  Holds(meta'[r.in], b)
    <3>1. r.todo \subseteq Core /\ r.todo # {}
      BY <2>2 DEF Typed, Record, Control, InLLC, InL1, Idle, InProbe, L1Label
    <3>2. Target(u) \in Cache /\ b \in Addr
      BY <1>5, <2>2, <3>1, TargetLeft DEF Cache, InProbe
    <3>3. r.in \in Line
      BY <2>1, <3>2, LineParts
    <3>4. lock[r.in] = u /\ meta[r.in] \in Meta
      BY <2>2, <3>3 DEF Locks, Owns, Typed
    <3> QED BY <2>1, <2>2, <3>3, <3>4 DEF LineKept, Meta, Match, Holds, IsValid
  <2> QED BY <2>1, <2>2
<1>10. r.pc = "writeback" => \A l \in Line : l[1] # LLC => ~Holds(meta'[l], b)
  BY <1>6 DEF Others
<1>11. ASSUME r.pc \in {"grant", "granted"}, NEW l \in Line, l[1] # LLC, l[1] # u, Holds(meta'[l], r.addr)
       PROVE  /\ r.act = "fetch_read" /\ ~AllowWrite(meta'[l])
              /\ r.pc = "granted" => Granted(r.act, meta'[o], u) = "S"
  <2>1. Match(l, r.addr) /\ (AllowWrite(meta'[l]) => AllowWrite(meta[l]))
    BY <1>3, <1>4, <1>11 DEF NoGain
  <2>2. meta'[o].sharer = meta[o].sharer /\ meta[o] \in Meta /\ meta'[o] \in Meta
    BY <1>3, <1>4, <1>11 DEF SetKept, Typed
  <2>3. Granted(r.act, meta'[o], u) = Granted(r.act, meta[o], u)
    BY <2>2, GrantedIs
  <2> QED BY <1>11, <2>1, <2>3 DEF Others
<1>12. r.pc \in Probing => r.pc \in InProbe
  BY DEF Probing, InProbe
<1>13. r.pc \in InProbe \cup {"writeback"} => meta'[q.out].addr = b
  BY <1>1, <1>5
<1>14. /\ q.pc \in InProbe =>
           \A l \in Line : /\ l[1] # LLC /\ l[1] \notin q.todo /\ Match(l, meta[th[u].out].addr)'
                           /\ q.why[1] = "grant" => l[1] # u
                           => q.why[2] = "downgrade" /\ ~AllowWrite(meta'[l])
       /\ q.pc = "probe_miss" => \A l \in Line : l[1] = Target(u)' => ~Match(l, meta[th[u].out].addr)'
       /\ q.pc \in Probing => q.in \in LinesOf(Target(u)', meta'[q.out].addr)
       /\ q.pc = "probe_hit" => Match(th[u].in, meta[th[u].out].addr)'
       /\ q.pc = "writeback" => \A l \in Line : l[1] # LLC => ~Match(l, meta[th[u].out].addr)'
  BY <1>1, <1>2, <1>7, <1>8, <1>9, <1>10, <1>12, <1>13 DEF Match, Holds, InProbe, Probing
<1>15. q.pc \in {"grant", "granted"} =>
           \A l \in Line : l[1] # LLC /\ l[1] # u /\ Match(l, th[u].addr)' =>
             /\ q.act = "fetch_read" /\ ~AllowWrite(meta'[l])
             /\ q.pc = "granted" => Granted(q.act, meta'[q.out], u) = "S"
  BY <1>1, <1>11 DEF Match, Holds
<1> QED BY <1>14, <1>15 DEF Others

(* The frame of a step of t: whatever u relies on still holds.             *)
LEMMA Frame ==
  ASSUME IInv, NEW t \in Core, NEW u \in Core \ {t}, Still(u),
         NoGain(t, u), SetKept(u), LineKept(u), GoalKept(u),
         meta' \in [Line -> Meta], Placed'
  PROVE  ThreadInv(u)'
<1>1. Typed /\ Placed /\ Locks /\ Control(u) /\ OwnL1(u) /\ OwnLLC(u) /\ Others(u)
  BY DEF IInv, Coherent, Guarded, ThreadInv
<1> QED BY <1>1, FrameControl, FrameOwnL1, FrameOwnLLC, FrameOthers DEF ThreadInv

----------------------------------------------------------------------------
(* Locks and reservations: what a step of t does to them. *)

XactPrio == {acquire, probe, release}

LockStep(t) ==
  \/ lock' = lock /\ \A l \in Line : Owns(t, l)' <=> Owns(t, l)
  \/ \E x \in Line : /\ Free(x) /\ lock' = [lock EXCEPT ![x] = t]
                     /\ \A l \in Line : Owns(t, l)' <=> Owns(t, l) \/ l = x
  \/ \E x \in Line : /\ Owns(t, x) /\ lock' = [lock EXCEPT ![x] = None]
                     /\ \A l \in Line : Owns(t, l)' <=> Owns(t, l) /\ l # x

Taken(t, s, p) ==
  /\ ~Blocked(p, s)
  /\ word' = [word EXCEPT ![s] = @ \cup {p}]
  /\ \A z \in CacheSet, q \in XactPrio :
       q \in Reserved(t, z)' <=> q \in Reserved(t, z) \/ (z = s /\ q = p)

Given(t, s, p) ==
  /\ p \in Reserved(t, s)
  /\ word' = [word EXCEPT ![s] = @ \ {p}]
  /\ \A z \in CacheSet, q \in XactPrio :
       q \in Reserved(t, z)' <=> q \in Reserved(t, z) /\ ~(z = s /\ q = p)

WordStep(t) ==
  \/ word' = word /\ \A z \in CacheSet, q \in XactPrio : q \in Reserved(t, z)' <=> q \in Reserved(t, z)
  \/ \E s \in CacheSet, p \in XactPrio : Taken(t, s, p) \/ Given(t, s, p)

(* The step of the locks that the words of the sets implement.             *)
LockedStep == \A s \in CacheSet : UNCHANGED Held(s) \/ LockOf(s)!Next

LEMMA LocksKept ==
  ASSUME Typed, Locks, NEW t \in Core, LockStep(t),
         \A u \in Core \ {t}, l \in Line : Owns(u, l)' <=> Owns(u, l)
  PROVE  Locks' /\ lock' \in [Line -> Core \cup {None}]
<1>1. None \notin Core
  BY ParallelAssumption
<1>2. CASE lock' = lock /\ \A l \in Line : Owns(t, l)' <=> Owns(t, l)
  BY <1>2 DEF Typed, Locks
<1>3. ASSUME NEW x \in Line, Free(x), lock' = [lock EXCEPT ![x] = t],
             \A l \in Line : Owns(t, l)' <=> Owns(t, l) \/ l = x
      PROVE  Locks' /\ lock' \in [Line -> Core \cup {None}]
  BY <1>1, <1>3 DEF Typed, Locks, Free
<1>4. ASSUME NEW x \in Line, Owns(t, x), lock' = [lock EXCEPT ![x] = None],
             \A l \in Line : Owns(t, l)' <=> Owns(t, l) /\ l # x
      PROVE  Locks' /\ lock' \in [Line -> Core \cup {None}]
  BY <1>1, <1>4 DEF Typed, Locks
<1> QED BY <1>2, <1>3, <1>4 DEF LockStep

LEMMA ReservedPrio ==
  ASSUME NEW t \in Core, NEW s
  PROVE  Reserved(t, s) \subseteq XactPrio
  BY DEF Reserved, XactPrio

LEMMA WordsKept ==
  ASSUME Typed, Words, NEW t \in Core, WordStep(t),
         \A u \in Core \ {t}, s \in CacheSet : Reserved(u, s)' = Reserved(u, s)
  PROVE  Words' /\ LockedStep /\ word' \in [CacheSet -> SUBSET XactPrio]
<1>1. word \in [CacheSet -> SUBSET XactPrio]
  BY DEF Typed, XactPrio
<1>2. \A u \in Core, s \in CacheSet : Reserved(u, s) \subseteq XactPrio /\ Reserved(u, s)' \subseteq XactPrio
  BY DEF Reserved, XactPrio
<1>3. ASSUME word' = word, \A z \in CacheSet, q \in XactPrio : q \in Reserved(t, z)' <=> q \in Reserved(t, z)
      PROVE  Words' /\ LockedStep /\ word' \in [CacheSet -> SUBSET XactPrio]
  <2>1. \A s \in CacheSet : Reserved(t, s)' = Reserved(t, s)
    BY <1>2, <1>3
  <2>2. \A u \in Core, s \in CacheSet : Reserved(u, s)' = Reserved(u, s)
    BY <2>1
  <2>3. Words'
    BY <1>3, <2>2 DEF Words
  <2>4. LockedStep
    BY <2>2 DEF LockedStep, Held
  <2> QED BY <1>1, <1>3, <2>3, <2>4
<1>4. ASSUME NEW s \in CacheSet, NEW p \in XactPrio, Taken(t, s, p)
      PROVE  Words' /\ LockedStep /\ word' \in [CacheSet -> SUBSET XactPrio]
  <2>1. Reserved(t, s)' = Reserved(t, s) \cup {p} /\ \A z \in CacheSet \ {s} : Reserved(t, z)' = Reserved(t, z)
    BY <1>2, <1>4 DEF Taken
  <2>2. \A u \in Core : \A q \in Reserved(u, s) : q < p
    <3>1. \A q \in word[s] : q < p
      BY <1>1, <1>4 DEF Taken, Blocked, XactPrio, acquire, probe, release
    <3> QED BY <1>2, <3>1 DEF Words, XactPrio
  <2>3. \A u \in Core : p \notin Reserved(u, s)
    BY <2>2 DEF XactPrio, acquire, probe, release
  <2>4. Words'
    BY <1>1, <1>4, <2>1, <2>3 DEF Words, Taken, XactPrio
  <2>5. ASSUME NEW z \in CacheSet
        PROVE  UNCHANGED Held(z) \/ LockOf(z)!Next
    <3>1. CASE z = s
      <4>1. \A u \in Core : Held(s)[u] = Reserved(u, s)
        BY DEF Held
      <4>2. Held(s)' = [Held(s) EXCEPT ![t] = @ \cup {p}]
        BY <2>1 DEF Held
      <4>3. LockOf(s)!Enter(t, p)
        BY <2>2, <4>1, <4>2 DEF LockOf!Enter
      <4> QED BY <3>1, <4>3 DEF LockOf!Next, XactPrio
    <3>2. CASE z # s
      BY <2>1, <3>2 DEF Held
    <3> QED BY <3>1, <3>2
  <2>6. word' \in [CacheSet -> SUBSET XactPrio]
    BY <1>1, <1>4 DEF Taken
  <2> QED BY <2>4, <2>5, <2>6 DEF LockedStep
<1>5. ASSUME NEW s \in CacheSet, NEW p \in XactPrio, Given(t, s, p)
      PROVE  Words' /\ LockedStep /\ word' \in [CacheSet -> SUBSET XactPrio]
  <2>1. Reserved(t, s)' = Reserved(t, s) \ {p} /\ \A z \in CacheSet \ {s} : Reserved(t, z)' = Reserved(t, z)
    BY <1>2, <1>5 DEF Given
  <2>2. p \in Reserved(t, s)
    BY <1>5 DEF Given
  <2>3. Words'
    BY <1>1, <1>5, <2>1, <2>2 DEF Words, Given, XactPrio
  <2>4. ASSUME NEW z \in CacheSet
        PROVE  UNCHANGED Held(z) \/ LockOf(z)!Next
    <3>1. CASE z = s
      <4>1. p \in Held(s)[t]
        BY <2>2 DEF Held
      <4>2. Held(s)' = [Held(s) EXCEPT ![t] = @ \ {p}]
        BY <2>1 DEF Held
      <4>3. LockOf(s)!Leave(t, p)
        BY <4>1, <4>2 DEF LockOf!Leave
      <4> QED BY <3>1, <4>3 DEF LockOf!Next, XactPrio
    <3>2. CASE z # s
      BY <2>1, <3>2 DEF Held
    <3> QED BY <3>1, <3>2
  <2>5. word' \in [CacheSet -> SUBSET XactPrio]
    BY <1>1, <1>5 DEF Given
  <2> QED BY <2>3, <2>4, <2>5 DEF LockedStep
<1> QED BY <1>3, <1>4, <1>5 DEF WordStep

(* The reservations of a thread, one by one. *)
InSetL1(t, s) ==
  /\ th[t] # Idle /\ th[t].op \in ReadWrite /\ s = SetOf(t, th[t].addr)
  /\ IF th[t].deep THEN th[t].pc # "finish" ELSE th[t].pc \notin Looking
InSetLLC(t, s)  == Ours(t) /\ s = SetOf(LLC, th[t].addr)
Probes(t, s)    == th[t].pc \in Probing /\ s = SetOf(Target(t), meta[th[t].out].addr)
Releases(t, s)  == th[t].pc = "write" /\ s = SetOf(LLC, meta[th[t].line].addr)

LEMMA ReservedAre ==
  ASSUME NEW t \in Core, NEW s
  PROVE  /\ acquire \in Reserved(t, s) <=> th[t] # Idle /\ (InSetL1(t, s) \/ InSetLLC(t, s))
         /\ probe \in Reserved(t, s) <=> Probes(t, s)
         /\ release \in Reserved(t, s) <=> Releases(t, s)
  BY DEF Reserved, InSetL1, InSetLLC, Probes, Releases, Ours, ReadWrite, acquire, probe, release

LEMMA ReservedWillBe ==
  ASSUME NEW t \in Core, NEW s
  PROVE  /\ acquire \in Reserved(t, s)' <=> th'[t] # Idle /\ (InSetL1(t, s)' \/ InSetLLC(t, s)')
         /\ probe \in Reserved(t, s)' <=> Probes(t, s)'
         /\ release \in Reserved(t, s)' <=> Releases(t, s)'
  BY DEF Reserved, InSetL1, InSetLLC, Probes, Releases, Ours, ReadWrite, acquire, probe, release

(* Reservations are kept, taken or given back. *)
LEMMA KeepsSets ==
  ASSUME NEW t \in Core, th[t] # Idle, UNCHANGED word,
         \A z \in CacheSet : /\ th'[t] # Idle /\ (InSetL1(t, z)' \/ InSetLLC(t, z)') <=> InSetL1(t, z) \/ InSetLLC(t, z)
                             /\ Probes(t, z)' <=> Probes(t, z)
                             /\ Releases(t, z)' <=> Releases(t, z)
  PROVE  WordStep(t)
<1>1. \A z \in CacheSet, q \in XactPrio : q \in Reserved(t, z)' <=> q \in Reserved(t, z)
  BY ReservedAre, ReservedWillBe DEF XactPrio
<1> QED BY <1>1 DEF WordStep

LEMMA TakesAcquire ==
  ASSUME NEW t \in Core, NEW s \in CacheSet, th[t] # Idle, th'[t] # Idle, ~Blocked(acquire, s),
         word' = [word EXCEPT ![s] = @ \cup {acquire}],
         \A z \in CacheSet : /\ InSetL1(t, z)' \/ InSetLLC(t, z)' <=> InSetL1(t, z) \/ InSetLLC(t, z) \/ z = s
                             /\ Probes(t, z)' <=> Probes(t, z)
                             /\ Releases(t, z)' <=> Releases(t, z)
  PROVE  WordStep(t)
<1>1. Taken(t, s, acquire)
  BY ReservedAre, ReservedWillBe DEF Taken, XactPrio, acquire, probe, release
<1> QED BY <1>1 DEF WordStep, XactPrio

LEMMA GivesAcquire ==
  ASSUME NEW t \in Core, NEW s \in CacheSet, th[t] # Idle, InSetL1(t, s) \/ InSetLLC(t, s),
         word' = [word EXCEPT ![s] = @ \ {acquire}],
         \A z \in CacheSet : /\ th'[t] # Idle /\ (InSetL1(t, z)' \/ InSetLLC(t, z)')
                                  <=> (InSetL1(t, z) \/ InSetLLC(t, z)) /\ z # s
                             /\ Probes(t, z)' <=> Probes(t, z)
                             /\ Releases(t, z)' <=> Releases(t, z)
  PROVE  WordStep(t)
<1>1. Given(t, s, acquire)
  BY ReservedAre, ReservedWillBe DEF Given, XactPrio, acquire, probe, release
<1> QED BY <1>1 DEF WordStep, XactPrio

LEMMA ProbesSet ==
  ASSUME NEW t \in Core, NEW s \in CacheSet, th[t] # Idle, th'[t] # Idle,
         \/ ~Blocked(probe, s) /\ word' = [word EXCEPT ![s] = @ \cup {probe}]
            /\ \A z \in CacheSet : Probes(t, z)' <=> Probes(t, z) \/ z = s
         \/ Probes(t, s) /\ word' = [word EXCEPT ![s] = @ \ {probe}]
            /\ \A z \in CacheSet : Probes(t, z)' <=> Probes(t, z) /\ z # s,
         \A z \in CacheSet : /\ InSetL1(t, z)' \/ InSetLLC(t, z)' <=> InSetL1(t, z) \/ InSetLLC(t, z)
                             /\ Releases(t, z)' <=> Releases(t, z)
  PROVE  WordStep(t)
<1>1. Taken(t, s, probe) \/ Given(t, s, probe)
  BY ReservedAre, ReservedWillBe DEF Taken, Given, XactPrio, acquire, probe, release
<1> QED BY <1>1 DEF WordStep, XactPrio

LEMMA ReleasesSet ==
  ASSUME NEW t \in Core, NEW s \in CacheSet, th[t] # Idle, th'[t] # Idle,
         \/ ~Blocked(release, s) /\ word' = [word EXCEPT ![s] = @ \cup {release}]
            /\ \A z \in CacheSet : Releases(t, z)' <=> Releases(t, z) \/ z = s
         \/ Releases(t, s) /\ word' = [word EXCEPT ![s] = @ \ {release}]
            /\ \A z \in CacheSet : Releases(t, z)' <=> Releases(t, z) /\ z # s,
         \A z \in CacheSet : /\ InSetL1(t, z)' \/ InSetLLC(t, z)' <=> InSetL1(t, z) \/ InSetLLC(t, z)
                             /\ Probes(t, z)' <=> Probes(t, z)
  PROVE  WordStep(t)
<1>1. Taken(t, s, release) \/ Given(t, s, release)
  BY ReservedAre, ReservedWillBe DEF Taken, Given, XactPrio, acquire, probe, release
<1> QED BY <1>1 DEF WordStep, XactPrio

(* What others own and have reserved depends on what the frame keeps.      *)
LEMMA FrameGuards ==
  ASSUME IInv, NEW u \in Core, Still(u), SetKept(u), LineKept(u)
  PROVE  /\ \A l \in Line : Owns(u, l)' <=> Owns(u, l)
         /\ \A s \in CacheSet : Reserved(u, s)' = Reserved(u, s)
<1> DEFINE r == th[u]
           q == th'[u]
<1>1. Typed /\ Placed /\ Locks /\ Control(u) /\ OwnLLC(u)
  BY DEF IInv, Coherent, Guarded, ThreadInv
<1>2. /\ q.pc = r.pc /\ q.op = r.op /\ q.addr = r.addr /\ q.deep = r.deep /\ q.act = r.act
      /\ q.line = r.line /\ q.out = r.out /\ q.why = r.why /\ q.todo = r.todo /\ q.in = r.in
  BY <1>1, StillFields
<1>3. \A l \in Line : Owns(u, l)' <=> Owns(u, l)
  BY <1>2 DEF Owns
<1>4. (r = Idle <=> q = Idle) /\ Target(u)' = Target(u)
  <2>1. q.pc = "idle" <=> q = Idle
    <3>1. Control(u)'
      BY <1>1, FrameControl
    <3> QED BY <3>1 DEF Control, InL1, InLLC, L1Label, LLCLabel, InProbe, Idle
  <2>2. r.pc = "idle" <=> r = Idle
    BY <1>1, ControlLines
  <2> QED BY <1>2, <2>1, <2>2 DEF Target
<1>5. r.pc \in Probing => meta'[r.out].addr = meta[r.out].addr
  <2> SUFFICES ASSUME r.pc \in Probing PROVE meta'[r.out].addr = meta[r.out].addr
    OBVIOUS
  <2>1. Ours(u)
    BY <1>1 DEF Control, InL1, InLLC, Idle, L1Label, Probing, Ours, Looking
  <2>2. r.out \in Line /\ <<r.out[1], r.out[2]>> = SetOf(LLC, r.addr)
    BY <1>1, <2>1, ControlLines
  <2> QED BY <2>1, <2>2 DEF SetKept
<1>6. r.pc = "write" => meta'[r.line].addr = meta[r.line].addr
  <2> SUFFICES ASSUME r.pc = "write" PROVE meta'[r.line].addr = meta[r.line].addr
    OBVIOUS
  <2>1. ~r.deep
    BY <1>1 DEF Control, InL1, InLLC, Idle, LLCLabel, InProbe
  <2>2. r.line \in Line
    BY <1>1, <2>1, ControlLines DEF Idle, Looking
  <2>3. lock[r.line] = u /\ meta[r.line] \in Meta
    BY <1>1, <2>1, <2>2 DEF Locks, Owns, Typed
  <2> QED BY <2>2, <2>3 DEF LineKept, Meta
<1>7. \A s \in CacheSet : Reserved(u, s)' = Reserved(u, s)
  BY <1>2, <1>4, <1>5, <1>6 DEF Reserved
<1> QED BY <1>3, <1>7

(* A step of t keeps the invariant if it keeps the lines coherent, keeps   *)
(* what t relies on, and is in the frame for the others.                   *)
LEMMA Combine ==
  ASSUME IInv, NEW t \in Core,
         meta' \in [Line -> Meta], mem' \in [Addr -> BOOLEAN], th' \in [Core -> Record],
         Coherent', ThreadInv(t)', LockStep(t), WordStep(t),
         \A u \in Core \ {t} : Still(u) /\ NoGain(t, u) /\ SetKept(u) /\ LineKept(u) /\ GoalKept(u)
  PROVE  IInv' /\ LockedStep
<1>1. \A u \in Core \ {t} : ThreadInv(u)'
  BY Frame DEF Coherent
<1>2. \A u \in Core \ {t} : /\ \A l \in Line : Owns(u, l)' <=> Owns(u, l)
                            /\ \A s \in CacheSet : Reserved(u, s)' = Reserved(u, s)
  BY FrameGuards
<1>3. Typed /\ Locks /\ Words
  BY DEF IInv, Guarded
<1>4. Locks' /\ lock' \in [Line -> Core \cup {None}]
  BY <1>2, <1>3, LocksKept
<1>5. Words' /\ LockedStep /\ word' \in [CacheSet -> SUBSET XactPrio]
  BY <1>2, <1>3, WordsKept
<1>6. Typed'
  BY <1>4, <1>5 DEF Typed, XactPrio
<1> QED BY <1>1, <1>4, <1>5, <1>6 DEF IInv, Guarded

(* A step that leaves the lines alone. *)
LEMMA QuietStep ==
  ASSUME IInv, NEW t \in Core, UNCHANGED <<meta, mem>>,
         th' \in [Core -> Record], \A u \in Core \ {t} : th'[u] = th[u],
         ThreadInv(t)', LockStep(t), WordStep(t)
  PROVE  IInv' /\ LockedStep
<1>1. Typed /\ Placed /\ \A u \in Core : OwnL1(u)
  BY DEF IInv, Coherent, ThreadInv
<1>2. ASSUME NEW u \in Core \ {t}
      PROVE  Still(u) /\ NoGain(t, u) /\ SetKept(u) /\ LineKept(u) /\ GoalKept(u)
  <2>1. Still(u)
    BY DEF Still
  <2>2. NoGain(t, u) /\ SetKept(u) /\ LineKept(u)
    BY DEF NoGain, SetKept, LineKept, Match, Holds
  <2>3. GoalKept(u)
    BY <1>1 DEF GoalKept, OwnL1, Match, Holds
  <2> QED BY <2>1, <2>2, <2>3
<1>3. Coherent'
  BY DEF IInv, Coherent, Placed, Unique, Included, OneWriter, Backed, Match
<1> QED BY <1>1, <1>2, <1>3, Combine DEF Typed

----------------------------------------------------------------------------
(* The steps that leave the lines alone: first those of a lookup. *)

LEMMA StartStep ==
  ASSUME IInv, NEW t \in Core, NEW call \in Call[t], Start(t, call[1], call[2])
  PROVE  IInv' /\ LockedStep
<1> DEFINE q == th'[t]
<1>1. call[1] \in {"read", "write", "flush", "prefetch"} /\ call[2] \in Addr
  BY ParallelAssumption
<1>2. /\ th[t] = Idle /\ UNCHANGED <<meta, lock, word, mem>>
      /\ q = [Idle EXCEPT !.pc = "hit", !.op = call[1], !.addr = call[2],
                          !.deep = call[1] \in {"flush", "prefetch"}]
      /\ \A u \in Core \ {t} : th'[u] = th[u]
      /\ th' = [th EXCEPT ![t] = q]
  BY DEF Start, IInv, Typed
<1>3. /\ q.pc = "hit" /\ q.op = call[1] /\ q.addr = call[2]
      /\ q.deep <=> call[1] \in {"flush", "prefetch"}
      /\ q.line = None /\ q.out = None
      /\ q.act = None /\ q.todo = {} /\ q.why = None /\ q.in = None /\ q.data = FALSE
  BY <1>2 DEF Idle
<1>4. q \in Record
  <2>1. Idle \in Record
    BY DEF Idle, Record
  <2>2. PICK b \in BOOLEAN : q = [Idle EXCEPT !.pc = "hit", !.op = call[1], !.addr = call[2], !.deep = b]
    <3>1. (call[1] \in {"flush", "prefetch"}) \in BOOLEAN
      OBVIOUS
    <3> QED BY <1>2, <3>1, Zenon
  <2> HIDE DEF q
  <2> QED BY <1>1, <2>1, <2>2 DEF Record, L1Label
<1>5. Control(t)' /\ OwnL1(t)' /\ OwnLLC(t)' /\ Others(t)'
  <2>1. CASE call[1] \in ReadWrite
    BY <1>1, <1>3, <2>1
       DEF Control, InL1, L1Label, InProbe, ReadWrite, Looking, OwnL1, OwnLLC, Others, Ours, Probing
  <2>2. CASE call[1] \in {"flush", "prefetch"}
    BY <1>1, <1>3, <2>2
       DEF Control, InLLC, LLCLabel, InProbe, ReadWrite, Looking, OwnL1, OwnLLC, Others, Ours, Probing
  <2> QED BY <1>1, <2>1, <2>2 DEF ReadWrite
<1>6. LockStep(t)
  BY <1>2, <1>3 DEF LockStep, Owns, Idle
<1>7. \A z \in CacheSet : Reserved(t, z) = {} /\ Reserved(t, z)' = {}
  BY <1>2, <1>3 DEF Reserved, Idle, Looking, Probing
<1>8. WordStep(t)
  BY <1>2, <1>7 DEF WordStep
<1>9. th' \in [Core -> Record]
  BY <1>2, <1>4 DEF IInv, Typed
<1> QED BY <1>2, <1>5, <1>6, <1>8, <1>9, QuietStep DEF ThreadInv

LEMMA IdleRelies ==
  ASSUME NEW t \in Core, th'[t] = Idle
  PROVE  /\ ThreadInv(t)' /\ Idle \in Record
         /\ \A l : ~Owns(t, l)'
         /\ \A z : ~Probes(t, z)' /\ ~Releases(t, z)'
<1>1. Control(t)' /\ Idle \in Record
  BY DEF Control, Idle, Record
<1>2. OwnL1(t)' /\ OwnLLC(t)' /\ Others(t)'
  BY DEF Idle, OwnL1, OwnLLC, Others, Ours, InProbe, Probing
<1>3. \A l : ~Owns(t, l)'
  BY DEF Idle, Owns
<1>4. \A z : ~Probes(t, z)' /\ ~Releases(t, z)'
  BY DEF Idle, Probes, Releases, Probing
<1> QED BY <1>1, <1>2, <1>3, <1>4 DEF ThreadInv

(* A thread that looks up a block has nothing, but for what its L1 has     *)
(* when it is in the LLC.                                                  *)
LEMMA LookingHas ==
  ASSUME NEW t \in Core, th[t].pc \in Looking
  PROVE  /\ th[t] # Idle
         /\ \A l : ~Owns(t, l)
         /\ \A z : ~Probes(t, z) /\ ~Releases(t, z) /\ ~InSetLLC(t, z)
         /\ ~th[t].deep => \A z : ~InSetL1(t, z)
  BY DEF Looking, Idle, Owns, Probes, Releases, Probing, InSetLLC, InSetL1, Ours

LEMMA LookingWillHave ==
  ASSUME NEW t \in Core, th'[t].pc \in Looking
  PROVE  /\ th'[t] # Idle
         /\ \A l : ~Owns(t, l)'
         /\ \A z : ~Probes(t, z)' /\ ~Releases(t, z)' /\ ~InSetLLC(t, z)'
         /\ ~th'[t].deep => \A z : ~InSetL1(t, z)'
  BY DEF Looking, Idle, Owns, Probes, Releases, Probing, InSetLLC, InSetL1, Ours

(* It goes on looking, or has found nothing to do.                         *)
LEMMA LooksOn ==
  ASSUME IInv, NEW t \in Core, th[t].pc \in Looking, UNCHANGED <<meta, lock, word, mem>>,
         \/ th' = [th EXCEPT ![t] = Idle] /\ th[t].op \notin ReadWrite
         \/ \E label \in Looking : /\ th' = [th EXCEPT ![t].pc = label]
                                   /\ th[t].op = "flush" => label = "hit"
  PROVE  IInv' /\ LockedStep
<1> DEFINE r == th[t]
           q == th'[t]
<1>1. Typed /\ Control(t) /\ OwnL1(t) /\ r \in Record /\ r # Idle
  BY LookingHas DEF IInv, ThreadInv, Typed
<1>2. CASE th' = [th EXCEPT ![t] = Idle] /\ r.op \notin ReadWrite
  <2>1. q = Idle /\ th' \in [Core -> Record] /\ \A u \in Core \ {t} : th'[u] = th[u]
    BY <1>1, <1>2, IdleRelies DEF Typed
  <2>2. ThreadInv(t)' /\ LockStep(t)
    BY <2>1, LookingHas, IdleRelies DEF LockStep
  <2>3. \A z : ~InSetL1(t, z) /\ ~InSetLLC(t, z) /\ ~Probes(t, z) /\ ~Releases(t, z)
    BY <1>2, LookingHas DEF InSetL1
  <2>4. WordStep(t)
    BY <1>1, <2>1, <2>3, IdleRelies, KeepsSets
  <2> QED BY <2>1, <2>2, <2>4, QuietStep
<1>3. ASSUME NEW label \in Looking, th' = [th EXCEPT ![t].pc = label], r.op = "flush" => label = "hit"
      PROVE  IInv' /\ LockedStep
  <2>1. /\ q.pc = label /\ q.op = r.op /\ q.addr = r.addr /\ q.deep = r.deep /\ q.act = r.act
        /\ q.line = r.line /\ q.out = r.out /\ q.why = r.why /\ q.todo = r.todo /\ q.in = r.in
        /\ \A u \in Core \ {t} : th'[u] = th[u]
    <3>1. label \in L1Label \cup LLCLabel
      BY <1>3 DEF Looking, L1Label
    <3>2. q = [r EXCEPT !.pc = label] /\ \A u \in Core \ {t} : th'[u] = th[u]
      BY <1>1, <1>3 DEF Typed
    <3> QED BY <1>1, <3>1, <3>2, MovedRecord
  <2>2. th' \in [Core -> Record]
    <3>1. label \in L1Label \cup LLCLabel
      BY <1>3 DEF Looking, L1Label
    <3>2. [r EXCEPT !.pc = label] \in Record
      BY <1>1, <3>1, MovedRecord
    <3> QED BY <1>1, <1>3, <3>2 DEF Typed
  <2>3. LockStep(t)
    BY <1>3, <2>1, LookingHas, LookingWillHave DEF LockStep
  <2>4. WordStep(t)
    <3>1. \A z : InSetL1(t, z)' <=> InSetL1(t, z)
      BY <1>1, <1>3, <2>1, LookingWillHave DEF InSetL1, Looking
    <3> QED BY <1>1, <1>3, <2>1, <3>1, LookingHas, LookingWillHave, KeepsSets
  <2>5. Control(t)'
    BY <1>1, <1>3, <2>1 DEF Control, InL1, InLLC, Looking, L1Label, LLCLabel, InProbe, ReadWrite
  <2>6. OwnL1(t)'
    BY <1>1, <1>3, <2>1 DEF OwnL1, Looking, Match
  <2>7. OwnLLC(t)' /\ Others(t)'
    BY <1>3, <2>1 DEF OwnLLC, Others, Ours, Looking, InProbe, Probing
  <2> QED BY <2>1, <2>2, <2>3, <2>4, <2>5, <2>6, <2>7, QuietStep DEF ThreadInv
<1> QED BY <1>2, <1>3

(* A thread that takes its set does so for a line with the block, or for a *)
(* victim after it has missed.                                             *)
LEMMA TakesSet ==
  ASSUME IInv, NEW t \in Core, th[t].pc \in Looking, NEW label \in {"lock", "victim"},
         NEW l \in LinesOf(At(t), th[t].addr), ~Blocked(acquire, Here(t)),
         word' = [word EXCEPT ![Here(t)] = @ \cup {acquire}],
         th' = [th EXCEPT ![t] = IF th[t].deep THEN [@ EXCEPT !.pc = label, !.out = l]
                                               ELSE [@ EXCEPT !.pc = label, !.line = l]],
         UNCHANGED <<meta, lock, mem>>,
         label = "lock" => Match(l, th[t].addr) /\ th[t].op # "prefetch",
         label = "victim" => Hits(At(t), th[t].addr) = {} /\ th[t].op # "flush"
  PROVE  IInv' /\ LockedStep
<1> DEFINE r == th[t]
           q == th'[t]
           s == Here(t)
<1>1. Typed /\ Placed /\ Control(t) /\ OwnL1(t) /\ r \in Record
  BY DEF IInv, Coherent, ThreadInv, Typed
<1>2. /\ r # Idle /\ r.addr \in Addr
      /\ ~r.deep => InL1(t)
      /\ r.deep => InLLC(t)
      /\ At(t) \in Cache /\ s \in CacheSet
  <2>1. r # Idle
    BY DEF Looking, Idle
  <2>2. r.addr \in Addr /\ (~r.deep => InL1(t)) /\ (r.deep => InLLC(t))
    BY <1>1, <2>1 DEF Control, InL1, InLLC
  <2> QED BY <2>1, <2>2 DEF At, Here, Cache, CacheSet
<1>3. l \in Line /\ l[1] = At(t)
  BY <1>2, LineParts
<1>4. /\ q.pc = label /\ q.op = r.op /\ q.addr = r.addr /\ q.deep = r.deep /\ q.act = r.act
      /\ q.line = (IF r.deep THEN r.line ELSE l)
      /\ q.out = (IF r.deep THEN l ELSE r.out)
      /\ \A u \in Core \ {t} : th'[u] = th[u]
  BY <1>1 DEF Typed, Record
<1>5. th' \in [Core -> Record]
  <2> DEFINE e == IF r.deep THEN [r EXCEPT !.pc = label, !.out = l]
                  ELSE [r EXCEPT !.pc = label, !.line = l]
  <2>1. e \in Record
    BY <1>1, <1>3 DEF Record, L1Label
  <2>2. th' = [th EXCEPT ![t] = e]
    OBVIOUS
  <2> HIDE DEF e
  <2> QED BY <1>1, <2>1, <2>2 DEF Typed
<1>6. q # Idle
  <2>1. q.pc # "idle" /\ Idle.pc = "idle"
    BY <1>4 DEF Idle
  <2> QED BY <2>1
<1>7. LockStep(t)
  BY <1>4, LookingHas DEF LockStep, Owns
<1>8. WordStep(t)
  <2>1. \A z : ~Probes(t, z) /\ ~Releases(t, z) /\ ~Probes(t, z)' /\ ~Releases(t, z)'
    BY <1>4, LookingHas DEF Probes, Releases, Probing
  <2>2. CASE r.deep
    <3>1. \A z : InSetL1(t, z)' <=> InSetL1(t, z)
      BY <1>2, <1>4, <1>6, <2>2 DEF InSetL1, Looking
    <3>2. \A z : InSetLLC(t, z)' <=> z = s
      BY <1>4, <2>2 DEF InSetLLC, Ours, Looking, Here, At
    <3> QED BY <1>2, <1>6, <2>1, <3>1, <3>2, LookingHas, TakesAcquire
  <2>3. CASE ~r.deep
    <3>1. \A z : InSetL1(t, z)' <=> z = s
      BY <1>2, <1>4, <1>6, <2>3 DEF InSetL1, Looking, Here, At, InL1
    <3>2. \A z : ~InSetLLC(t, z)'
      BY <1>4, <2>3 DEF InSetLLC, Ours
    <3> QED BY <1>2, <1>6, <2>1, <2>3, <3>1, <3>2, LookingHas, TakesAcquire
  <2> QED BY <2>2, <2>3
<1>9. Control(t)'
  BY <1>2, <1>4 DEF Control, InL1, InLLC, Looking, L1Label, LLCLabel, InProbe, ReadWrite, At
<1>10. label = "victim" => \A k \in Line : k[1] = At(t) => ~Match(k, r.addr)
  BY <1>1, <1>2, HitsAre
<1>11. OwnL1(t)'
  <2>1. CASE r.deep
    BY <1>1, <1>4, <2>1 DEF OwnL1, Looking, Match
  <2>2. CASE ~r.deep
    BY <1>4, <1>10, <2>2 DEF OwnL1, Match, At
  <2> QED BY <2>1, <2>2
<1>12. OwnLLC(t)' /\ Others(t)'
  BY <1>2, <1>4, <1>10 DEF OwnLLC, Missed, Others, Ours, InProbe, Probing, Match, At
<1> QED BY <1>4, <1>5, <1>7, <1>8, <1>9, <1>11, <1>12, QuietStep DEF ThreadInv

LEMMA HitStep ==
  ASSUME IInv, NEW t \in Core, Hit(t)
  PROVE  IInv' /\ LockedStep
<1> DEFINE r == th[t]
           found == Hits(At(t), r.addr)
<1>1. r.pc = "hit" /\ r.pc \in Looking /\ UNCHANGED <<meta, lock, mem>>
  BY DEF Hit, Looking
<1>2. CASE r.op = "prefetch"
  <2>1. th' = [th EXCEPT ![t].pc = "replace"] \/ th' = [th EXCEPT ![t] = Idle]
    BY <1>2 DEF Hit
  <2> QED BY <1>1, <1>2, <2>1, LooksOn DEF Hit, Looking, ReadWrite
<1>3. CASE r.op # "prefetch" /\ found = {} /\ UNCHANGED word
           /\ th' = [th EXCEPT ![t] = IF r.op = "flush" THEN Idle ELSE [@ EXCEPT !.pc = "replace"]]
  <2>1. IF r.op = "flush" THEN th' = [th EXCEPT ![t] = Idle]
        ELSE th' = [th EXCEPT ![t].pc = "replace"]
    BY <1>3
  <2> QED BY <1>1, <1>3, <2>1, LooksOn DEF Looking, ReadWrite
<1>4. ASSUME NEW l \in found, r.op # "prefetch", ~Blocked(acquire, Here(t)),
             word' = [word EXCEPT ![Here(t)] = @ \cup {acquire}],
             th' = [th EXCEPT ![t] = IF th[t].deep
                                  THEN [@ EXCEPT !.pc = "lock", !.out = l]
                                  ELSE [@ EXCEPT !.pc = "lock", !.line = l]]
      PROVE  IInv' /\ LockedStep
  <2>1. l \in LinesOf(At(t), r.addr) /\ Match(l, r.addr)
    BY DEF Hits
  <2> QED BY <1>1, <1>4, <2>1, TakesSet
<1> QED BY <1>2, <1>3, <1>4 DEF Hit

LEMMA ReplaceStep ==
  ASSUME IInv, NEW t \in Core, Replace(t)
  PROVE  IInv' /\ LockedStep
<1> DEFINE r == th[t]
<1>1. /\ r.pc = "replace" /\ r.pc \in Looking /\ UNCHANGED <<meta, lock, mem>>
      /\ ~Blocked(acquire, Here(t))
  BY DEF Replace, Looking
<1>2. r.op # "flush"
  BY <1>1 DEF IInv, ThreadInv, Control, InL1, InLLC, Idle, ReadWrite, InProbe
<1>3. CASE Hits(At(t), r.addr) # {}
  BY <1>1, <1>3, LooksOn DEF Replace, Goto, Looking
<1>4. CASE Hits(At(t), r.addr) = {}
  <2>1. PICK l \in Victims(At(t), r.addr) : Took(t, l)
    BY <1>4 DEF Replace
  <2>2. l \in LinesOf(At(t), r.addr)
    BY DEF Victims
  <2> QED BY <1>1, <1>2, <1>4, <2>1, <2>2, TakesSet DEF Took
<1> QED BY <1>3, <1>4

(* Where a thread is that is at some label. *)
LEMMA WhereIs ==
  ASSUME IInv, NEW t \in Core, th[t].pc # "idle"
  PROVE  LET r == th[t]
         IN  /\ r # Idle /\ r \in Record /\ r.addr \in Addr
             /\ ~r.deep => InL1(t)
             /\ r.deep => InLLC(t)
             /\ r.pc \in {"release", "write"} => ~r.deep
             /\ r.pc \in InProbe \cup {"writeback", "copy", "fetch", "fill", "grant", "granted", "finish"}
                  => r.deep /\ Ours(t)
             /\ r.deep /\ r.pc \notin Looking => Ours(t)
             /\ ~r.deep => At(t) = t /\ Mine(t) = r.line /\ Here(t) = SetOf(t, r.addr)
             /\ r.deep => At(t) = LLC /\ Mine(t) = r.out /\ Here(t) = SetOf(LLC, r.addr)
             /\ Here(t) \in CacheSet
<1>1. Control(t) /\ th[t] \in Record /\ th[t] # Idle
  BY DEF IInv, ThreadInv, Typed, Idle
<1>2. /\ ~th[t].deep => InL1(t)
      /\ th[t].deep => InLLC(t)
  BY <1>1 DEF Control, InL1, InLLC
<1>3. th[t].addr \in Addr /\ At(t) \in Cache
  BY <1>2 DEF InL1, InLLC, At, Cache
<1> QED BY <1>1, <1>2, <1>3
        DEF InL1, InLLC, L1Label, LLCLabel, InProbe, Looking, Ours, At, Mine, Here, CacheSet

(* The step to another label. *)
LEMMA GotoIs ==
  ASSUME Typed, NEW t \in Core, NEW label \in L1Label \cup LLCLabel, Goto(t, label)
  PROVE  LET r == th[t]
             q == th'[t]
         IN  /\ q.pc = label /\ q.op = r.op /\ q.addr = r.addr /\ q.deep = r.deep /\ q.act = r.act
             /\ q.line = r.line /\ q.out = r.out /\ q.why = r.why /\ q.todo = r.todo /\ q.in = r.in
             /\ q.data = r.data
             /\ q # Idle
             /\ th' \in [Core -> Record]
             /\ \A u \in Core \ {t} : th'[u] = th[u]
<1>1. th' = [th EXCEPT ![t].pc = label] /\ th[t] \in Record
  BY DEF Goto, Typed
<1>2. th'[t] = [th[t] EXCEPT !.pc = label] /\ \A u \in Core \ {t} : th'[u] = th[u]
  BY <1>1 DEF Typed
<1>3. th'[t] \in Record
  BY <1>1, <1>2 DEF Record
<1>4. th'[t].pc = label /\ label # "idle"
  BY <1>1, <1>2 DEF Record, L1Label, LLCLabel, InProbe
<1>5. th'[t] # Idle
  BY <1>4 DEF Idle
<1>6. th' \in [Core -> Record]
  BY <1>1, <1>3 DEF Typed
<1> QED BY <1>1, <1>2, <1>4, <1>5, <1>6 DEF Record

(* A set of the LLC is not one of an L1. *)
LEMMA SetsApart ==
  ASSUME NEW t \in Core, NEW a, NEW b
  PROVE  SetOf(t, a) # SetOf(LLC, b)
  BY ParallelAssumption DEF SetOf

LEMMA LockAction ==
  ASSUME IInv, NEW t \in Core, Lock(t)
  PROVE  IInv' /\ LockedStep
<1> DEFINE r == th[t]
           q == th'[t]
           l == Mine(t)
           s == Here(t)
<1>1. /\ r.pc = "lock" /\ Free(l) /\ UNCHANGED <<meta, mem>>
      /\ Typed /\ OwnL1(t) /\ OwnLLC(t)
  BY DEF Lock, IInv, ThreadInv
<1>2. /\ r # Idle /\ r.addr \in Addr /\ s \in CacheSet
      /\ ~r.deep => InL1(t) /\ l = r.line /\ s = SetOf(t, r.addr)
      /\ r.deep => InLLC(t) /\ l = r.out /\ s = SetOf(LLC, r.addr)
  BY <1>1, WhereIs
<1>3. l \in Line
  <2>1. CASE r.deep
    BY <1>1, <1>2, <2>1, LineParts DEF InLLC, Looking, Cache
  <2>2. CASE ~r.deep
    BY <1>1, <1>2, <2>2, LineParts DEF InL1, Looking, Cache
  <2> QED BY <2>1, <2>2
<1>4. CASE /\ word' = [word EXCEPT ![s] = @ \ {acquire}]
           /\ Goto(t, "hit")
           /\ UNCHANGED lock
  <2>1. /\ q.pc = "hit" /\ q.op = r.op /\ q.addr = r.addr /\ q.deep = r.deep /\ q.act = r.act
        /\ q.line = r.line /\ q.out = r.out
        /\ th' \in [Core -> Record] /\ \A u \in Core \ {t} : th'[u] = th[u]
    BY <1>1, <1>4, GotoIs DEF L1Label
  <2>2. LockStep(t)
    BY <1>1, <1>4, <2>1 DEF LockStep, Owns
  <2>3. WordStep(t)
    <3>1. \A z : ~Probes(t, z) /\ ~Releases(t, z) /\ ~Probes(t, z)' /\ ~Releases(t, z)' /\ ~InSetLLC(t, z)'
      BY <1>1, <2>1 DEF Probes, Releases, Probing, InSetLLC, Ours, Looking
    <3>2. q # Idle
      BY <2>1 DEF Idle
    <3>3. CASE r.deep
      <4>1. \A z : (InSetL1(t, z)' <=> InSetL1(t, z)) /\ (InSetL1(t, z) => z # s)
        BY <1>1, <1>2, <2>1, <3>2, <3>3, SetsApart DEF InSetL1
      <4>2. \A z : InSetLLC(t, z) <=> z = s
        BY <1>1, <1>2, <3>3 DEF InSetLLC, Ours, Looking
      <4> QED BY <1>2, <1>4, <3>1, <3>2, <4>1, <4>2, GivesAcquire
    <3>4. CASE ~r.deep
      <4>1. \A z : (InSetL1(t, z) <=> z = s) /\ ~InSetL1(t, z)'
        BY <1>1, <1>2, <2>1, <3>4 DEF InSetL1, Looking, InL1
      <4>2. \A z : ~InSetLLC(t, z)
        BY <3>4 DEF InSetLLC, Ours
      <4> QED BY <1>2, <1>4, <3>1, <3>2, <4>1, <4>2, GivesAcquire
    <3> QED BY <3>3, <3>4
  <2>4. Control(t)'
    BY <1>1, <1>2, <2>1 DEF Control, InL1, InLLC, Looking, L1Label, LLCLabel, InProbe
  <2>5. OwnL1(t)' /\ OwnLLC(t)' /\ Others(t)'
    BY <1>1, <2>1 DEF OwnL1, OwnLLC, Others, Ours, Looking, InProbe, Probing, Match
  <2> QED BY <1>1, <2>1, <2>2, <2>3, <2>4, <2>5, QuietStep DEF ThreadInv
<1>5. CASE /\ Match(l, r.addr)
           /\ lock' = [lock EXCEPT ![l] = t]
           /\ Goto(t, "access")
           /\ UNCHANGED word
  <2>1. /\ q.pc = "access" /\ q.op = r.op /\ q.addr = r.addr /\ q.deep = r.deep /\ q.act = r.act
        /\ q.line = r.line /\ q.out = r.out /\ q # Idle
        /\ th' \in [Core -> Record] /\ \A u \in Core \ {t} : th'[u] = th[u]
    BY <1>1, <1>5, GotoIs DEF L1Label
  <2>2. LockStep(t)
    <3>1. \A k \in Line : Owns(t, k)' <=> Owns(t, k) \/ k = l
      BY <1>1, <1>2, <2>1 DEF Owns
    <3> QED BY <1>1, <1>3, <1>5, <3>1 DEF LockStep
  <2>3. WordStep(t)
    <3>1. \A z : /\ InSetL1(t, z)' <=> InSetL1(t, z)
                 /\ InSetLLC(t, z)' <=> InSetLLC(t, z)
                 /\ ~Probes(t, z) /\ ~Releases(t, z) /\ ~Probes(t, z)' /\ ~Releases(t, z)'
      BY <1>1, <1>2, <2>1 DEF InSetL1, InSetLLC, Ours, Probes, Releases, Probing, Looking
    <3> QED BY <1>2, <1>5, <2>1, <3>1, KeepsSets
  <2>4. Control(t)'
    BY <1>1, <1>2, <2>1 DEF Control, InL1, InLLC, Looking, L1Label, LLCLabel, InProbe
  <2>5. OwnL1(t)' /\ OwnLLC(t)' /\ Others(t)'
    BY <1>1, <1>2, <1>5, <2>1 DEF OwnL1, OwnLLC, Others, Ours, Missed, Looking, InProbe, Probing, Match
  <2> QED BY <1>1, <2>1, <2>2, <2>3, <2>4, <2>5, QuietStep DEF ThreadInv
<1> QED BY <1>4, <1>5 DEF Lock

LEMMA VictimStep ==
  ASSUME IInv, NEW t \in Core, Victim(t)
  PROVE  IInv' /\ LockedStep
<1> DEFINE r == th[t]
           q == th'[t]
           l == Mine(t)
<1>1. /\ r.pc = "victim" /\ Free(l) /\ UNCHANGED <<meta, word, mem>>
      /\ lock' = [lock EXCEPT ![l] = t] /\ Goto(t, "evict")
      /\ Typed /\ OwnL1(t) /\ OwnLLC(t)
  BY DEF Victim, IInv, ThreadInv
<1>2. /\ r # Idle /\ r.addr \in Addr
      /\ ~r.deep => InL1(t) /\ l = r.line
      /\ r.deep => InLLC(t) /\ l = r.out
  BY <1>1, WhereIs
<1>3. l \in Line
  <2>1. CASE r.deep
    BY <1>1, <1>2, <2>1, LineParts DEF InLLC, Looking, Cache
  <2>2. CASE ~r.deep
    BY <1>1, <1>2, <2>2, LineParts DEF InL1, Looking, Cache
  <2> QED BY <2>1, <2>2
<1>4. /\ q.pc = "evict" /\ q.op = r.op /\ q.addr = r.addr /\ q.deep = r.deep /\ q.act = r.act
      /\ q.line = r.line /\ q.out = r.out /\ q # Idle
      /\ th' \in [Core -> Record] /\ \A u \in Core \ {t} : th'[u] = th[u]
  BY <1>1, GotoIs DEF L1Label
<1>5. LockStep(t)
  <2>1. \A k \in Line : Owns(t, k)' <=> Owns(t, k) \/ k = l
    BY <1>1, <1>2, <1>4 DEF Owns
  <2> QED BY <1>1, <1>3, <2>1 DEF LockStep
<1>6. WordStep(t)
  <2>1. \A z : /\ InSetL1(t, z)' <=> InSetL1(t, z)
               /\ InSetLLC(t, z)' <=> InSetLLC(t, z)
               /\ ~Probes(t, z) /\ ~Releases(t, z) /\ ~Probes(t, z)' /\ ~Releases(t, z)'
    BY <1>1, <1>2, <1>4 DEF InSetL1, InSetLLC, Ours, Probes, Releases, Probing, Looking
  <2> QED BY <1>1, <1>2, <1>4, <2>1, KeepsSets
<1>7. Control(t)'
  BY <1>1, <1>2, <1>4 DEF Control, InL1, InLLC, Looking, L1Label, LLCLabel, InProbe
<1>8. OwnL1(t)' /\ OwnLLC(t)' /\ Others(t)'
  BY <1>1, <1>2, <1>4 DEF OwnL1, OwnLLC, Others, Ours, Missed, Looking, InProbe, Probing, Match
<1> QED BY <1>1, <1>4, <1>5, <1>6, <1>7, <1>8, QuietStep DEF ThreadInv

----------------------------------------------------------------------------
(* The steps in the L1 that leave the lines alone. *)

(* Where a thread with a line of its L1 has it. *)
LEMMA OwnLine ==
  ASSUME IInv, NEW t \in Core, th[t].pc # "idle",
         (~th[t].deep /\ th[t].pc \notin Looking) \/ (th[t].deep /\ th[t].op \in ReadWrite)
  PROVE  /\ th[t].line \in LinesOf(t, th[t].addr)
         /\ th[t].line \in Line /\ th[t].line[1] = t /\ t \in Cache
         /\ meta[th[t].line] \in Meta
<1>1. th[t].line \in LinesOf(t, th[t].addr) /\ th[t].addr \in Addr
  BY WhereIs DEF InL1, InLLC
<1>2. t \in Cache
  BY DEF Cache
<1> QED BY <1>1, <1>2, LineParts DEF IInv, Typed

(* ... and one with a line of the LLC. *)
LEMMA OutLine ==
  ASSUME IInv, NEW t \in Core, Ours(t)
  PROVE  /\ th[t].pc # "idle" /\ th[t].out \in LinesOf(LLC, th[t].addr)
         /\ th[t].out \in Line /\ th[t].out[1] = LLC
         /\ <<th[t].out[1], th[t].out[2]>> = SetOf(LLC, th[t].addr)
         /\ SetOf(LLC, th[t].addr) \in CacheSet
         /\ meta[th[t].out] \in Meta
<1>1. th[t].pc # "idle"
  BY DEF IInv, ThreadInv, Ours, Control, InL1, InLLC, Idle, L1Label, LLCLabel, InProbe
<1>2. th[t].out \in LinesOf(LLC, th[t].addr) /\ th[t].addr \in Addr
  BY <1>1, WhereIs DEF InLLC, Ours
<1> QED BY <1>1, <1>2, LineParts DEF IInv, Typed, Cache

(* After the L1 has put its line in order the thread asks the LLC.         *)
LEMMA AskIs ==
  ASSUME Typed, NEW t \in Core, NEW act \in {"fetch_read", "fetch_write"}, AskLLC(t, act)
  PROVE  LET r == th[t]
             q == th'[t]
         IN  /\ q.pc = "hit" /\ q.op = r.op /\ q.addr = r.addr /\ q.deep /\ q.act = act
             /\ q.line = r.line /\ q.out = r.out /\ q.why = r.why /\ q.todo = r.todo /\ q.in = r.in
             /\ q # Idle
             /\ th' \in [Core -> Record]
             /\ \A u \in Core \ {t} : th'[u] = th[u]
<1>1. th' = [th EXCEPT ![t].pc = "hit", ![t].deep = TRUE, ![t].act = act] /\ th[t] \in Record
  BY DEF AskLLC, Typed
<1>2. /\ th'[t] = [th[t] EXCEPT !.pc = "hit", !.deep = TRUE, !.act = act]
      /\ \A u \in Core \ {t} : th'[u] = th[u]
  BY <1>1 DEF Typed
<1>3. PICK b \in BOOLEAN : b /\ th'[t] = [th[t] EXCEPT !.pc = "hit", !.deep = b, !.act = act]
  BY <1>2, Zenon
<1>4. /\ th'[t] \in Record
      /\ th'[t].pc = "hit" /\ th'[t].op = th[t].op /\ th'[t].addr = th[t].addr /\ th'[t].act = act
      /\ th'[t].line = th[t].line /\ th'[t].out = th[t].out /\ th'[t].why = th[t].why
      /\ th'[t].todo = th[t].todo /\ th'[t].in = th[t].in
      /\ th'[t].deep <=> b
  <2> DEFINE e == [th[t] EXCEPT !.pc = "hit", !.deep = b, !.act = act]
  <2>1. /\ e \in Record
        /\ e.pc = "hit" /\ e.op = th[t].op /\ e.addr = th[t].addr /\ e.act = act
        /\ e.line = th[t].line /\ e.out = th[t].out /\ e.why = th[t].why
        /\ e.todo = th[t].todo /\ e.in = th[t].in
        /\ e.deep <=> b
    BY <1>1 DEF Record, L1Label
  <2>2. th'[t] = e
    BY <1>3
  <2> HIDE DEF e
  <2> QED BY <2>1, <2>2
<1>5. th'[t] # Idle
  BY <1>4 DEF Idle
<1>6. th' \in [Core -> Record]
  BY <1>1, <1>4 DEF Typed
<1> QED BY <1>2, <1>3, <1>4, <1>5, <1>6

(* It gives its line free, and keeps the set of its L1.                    *)
LEMMA AskRelies ==
  ASSUME IInv, NEW t \in Core, ~th[t].deep, th[t].pc \in {"access", "evict", "write"},
         NEW act \in {"fetch_read", "fetch_write"}, AskLLC(t, act),
         th[t].op = "write" \/ Proto = "MI" => act = "fetch_write",
         \A l \in Line : l[1] = t /\ Holds(meta'[l], th[t].addr) => l = th[t].line /\ ~AllowWrite(meta'[l]),
         IsValid(meta'[th[t].line]) => Holds(meta'[th[t].line], th[t].addr)
  PROVE  /\ ThreadInv(t)' /\ LockStep(t)
         /\ \A z \in CacheSet : /\ InSetL1(t, z)' \/ InSetLLC(t, z)' <=> InSetL1(t, z) \/ InSetLLC(t, z)
                                /\ ~Probes(t, z) /\ ~Probes(t, z)' /\ ~Releases(t, z)'
<1> DEFINE r == th[t]
           q == th'[t]
<1>1. /\ q.pc = "hit" /\ q.op = r.op /\ q.addr = r.addr /\ q.deep /\ q.act = act
      /\ q.line = r.line /\ q # Idle
  BY AskIs DEF IInv
<1>2. r # Idle /\ r.addr \in Addr /\ InL1(t)
  BY WhereIs
<1>3. r.line \in LinesOf(t, r.addr) /\ r.line \in Line
  <2>1. r.pc # "idle" /\ r.pc \notin Looking
    BY DEF Looking
  <2> QED BY <2>1, OwnLine
<1>4. Control(t)'
  BY <1>1, <1>2, <1>3 DEF Control, InL1, InLLC, Looking, LLCLabel, InProbe, ReadWrite
<1>5. OwnL1(t)'
  BY <1>1 DEF OwnL1, Match, Holds
<1>6. OwnLLC(t)' /\ Others(t)'
  BY <1>1 DEF OwnLLC, Others, Ours, Looking, InProbe, Probing
<1>7. LockStep(t)
  <2>1. Owns(t, r.line) /\ \A k \in Line : Owns(t, k)' <=> Owns(t, k) /\ k # r.line
    BY <1>1 DEF Owns
  <2>2. lock' = [lock EXCEPT ![r.line] = None]
    BY DEF AskLLC
  <2> QED BY <1>3, <2>1, <2>2 DEF LockStep
<1>8. \A z : /\ InSetL1(t, z)' <=> InSetL1(t, z)
             /\ ~InSetLLC(t, z)' /\ ~InSetLLC(t, z)
             /\ ~Probes(t, z) /\ ~Probes(t, z)' /\ ~Releases(t, z)'
  BY <1>1, <1>2 DEF InSetL1, InSetLLC, Ours, Probes, Releases, Probing, Looking
<1> QED BY <1>4, <1>5, <1>6, <1>7, <1>8 DEF ThreadInv

LEMMA PromoteStep ==
  ASSUME IInv, NEW t \in Core, th[t].pc = "access", ~th[t].deep,
         NeedPromote(Cmd(t), meta[th[t].line]), AskLLC(t, "fetch_write"),
         UNCHANGED <<meta, word, mem>>
  PROVE  IInv' /\ LockedStep
<1> DEFINE r == th[t]
           q == th'[t]
<1>1. Typed /\ Unique /\ OwnL1(t)
  BY DEF IInv, Coherent, ThreadInv
<1>2. ~AllowWrite(meta[r.line])
  BY DEF NeedPromote
<1>3. /\ th' \in [Core -> Record] /\ \A u \in Core \ {t} : th'[u] = th[u]
      /\ q # Idle /\ r # Idle
  BY <1>1, AskIs, WhereIs
<1>4. Match(r.line, r.addr) /\ r.line \in Line /\ r.line[1] = t
  <2>1. r.pc # "idle" /\ r.pc \notin Looking
    BY DEF Looking
  <2> QED BY <1>1, <2>1, OwnLine DEF OwnL1
<1>5. \A l \in Line : l[1] = t /\ Match(l, r.addr) => l = r.line /\ ~AllowWrite(meta[l])
  BY <1>1, <1>2, <1>4 DEF Unique, Match
<1>6. /\ ThreadInv(t)' /\ LockStep(t)
      /\ \A z \in CacheSet : /\ InSetL1(t, z)' \/ InSetLLC(t, z)' <=> InSetL1(t, z) \/ InSetLLC(t, z)
                             /\ ~Probes(t, z) /\ ~Probes(t, z)' /\ ~Releases(t, z)'
  BY <1>4, <1>5, AskRelies DEF Match, Holds
<1>7. \A z : ~Releases(t, z)
  BY DEF Releases
<1>8. WordStep(t)
  BY <1>3, <1>6, <1>7, KeepsSets
<1> QED BY <1>3, <1>6, <1>8, QuietStep

LEMMA EvictDirtyStep ==
  ASSUME IInv, NEW t \in Core, th[t].pc = "evict", ~th[t].deep, meta[th[t].line].dirty,
         Goto(t, "release"), UNCHANGED <<meta, lock, word, mem>>
  PROVE  IInv' /\ LockedStep
<1> DEFINE r == th[t]
           q == th'[t]
<1>1. Typed /\ OwnL1(t) /\ r # Idle /\ InL1(t)
  BY WhereIs DEF IInv, ThreadInv
<1>2. /\ q.pc = "release" /\ q.op = r.op /\ q.addr = r.addr /\ q.deep = r.deep /\ q.act = r.act
      /\ q.line = r.line /\ q.out = r.out /\ q # Idle
      /\ th' \in [Core -> Record] /\ \A u \in Core \ {t} : th'[u] = th[u]
  BY <1>1, GotoIs DEF L1Label
<1>3. LockStep(t)
  BY <1>2 DEF LockStep, Owns
<1>4. WordStep(t)
  <2>1. \A z : /\ InSetL1(t, z)' <=> InSetL1(t, z)
               /\ ~InSetLLC(t, z)' /\ ~InSetLLC(t, z)
               /\ ~Probes(t, z) /\ ~Releases(t, z) /\ ~Probes(t, z)' /\ ~Releases(t, z)'
    BY <1>1, <1>2 DEF InSetL1, InSetLLC, Ours, Probes, Releases, Probing, Looking
  <2> QED BY <1>1, <1>2, <2>1, KeepsSets
<1>5. Control(t)'
  BY <1>1, <1>2 DEF Control, InL1, Looking, L1Label
<1>6. OwnL1(t)' /\ OwnLLC(t)' /\ Others(t)'
  BY <1>1, <1>2 DEF OwnL1, OwnLLC, Others, Ours, InProbe, Probing, Match
<1> QED BY <1>2, <1>3, <1>4, <1>5, <1>6, QuietStep DEF ThreadInv

(* A dirty line is valid. *)
LEMMA DirtyValid ==
  ASSUME IInv, NEW l \in Line, meta[l].dirty
  PROVE  IsValid(meta[l]) /\ meta[l].addr \in Addr
  BY DEF IInv, Coherent, Placed, Empty

LEMMA ReleaseReqStep ==
  ASSUME IInv, NEW t \in Core, ReleaseReq(t)
  PROVE  IInv' /\ LockedStep
<1> DEFINE r == th[t]
           q == th'[t]
           a == meta[r.line].addr
           s == SetOf(LLC, a)
<1>1. Typed /\ Placed /\ OwnL1(t) /\ r.pc = "release" /\ ~Blocked(release, s) /\ UNCHANGED <<meta, lock, mem>>
      /\ word' = [word EXCEPT ![s] = @ \cup {release}]
  BY DEF IInv, Coherent, ThreadInv, ReleaseReq
<1>2. r # Idle /\ r \in Record /\ InL1(t) /\ ~r.deep
  BY <1>1, WhereIs
<1>3. r.line \in Line /\ a \in Addr
  <2>1. r.pc # "idle" /\ r.pc \notin Looking
    BY <1>1 DEF Looking
  <2>2. r.line \in Line
    BY <1>2, <2>1, OwnLine
  <2> QED BY <1>1, <2>2, DirtyValid DEF OwnL1
<1>4. PICK o \in Hits(LLC, a) : th' = [th EXCEPT ![t].pc = "write", ![t].out = o]
  BY DEF ReleaseReq
<1>5. o \in Line /\ o[1] = LLC /\ Match(o, a)
  BY <1>1, <1>3, HitsAre DEF Cache
<1>6. q = [r EXCEPT !.pc = "write", !.out = o] /\ \A u \in Core \ {t} : th'[u] = th[u]
  BY <1>1, <1>4 DEF Typed
<1>7. /\ q.pc = "write" /\ q.op = r.op /\ q.addr = r.addr /\ q.deep = r.deep
      /\ q.line = r.line /\ q.out = o
  BY <1>2, <1>6 DEF Record
<1>8. th' \in [Core -> Record]
  <2>1. q \in Record
    BY <1>2, <1>5, <1>6 DEF Record, L1Label
  <2> QED BY <1>1, <1>4, <1>6, <2>1 DEF Typed
<1>9. q # Idle
  BY <1>7 DEF Idle
<1>10. LockStep(t)
  BY <1>1, <1>7 DEF LockStep, Owns
<1>11. WordStep(t)
  <2>1. \A z : /\ InSetL1(t, z)' <=> InSetL1(t, z)
               /\ ~InSetLLC(t, z)' /\ ~InSetLLC(t, z)
               /\ ~Probes(t, z) /\ ~Probes(t, z)'
               /\ ~Releases(t, z) /\ (Releases(t, z)' <=> z = s)
    BY <1>1, <1>2, <1>7, <1>9 DEF InSetL1, InSetLLC, Ours, Probes, Releases, Probing, Looking
  <2>2. s \in CacheSet
    BY <1>3 DEF CacheSet, Cache
  <2> QED BY <1>1, <1>2, <1>9, <2>1, <2>2, ReleasesSet
<1>12. Control(t)'
  BY <1>1, <1>2, <1>7 DEF Control, InL1, Looking, L1Label
<1>13. OwnL1(t)' /\ OwnLLC(t)' /\ Others(t)'
  BY <1>1, <1>2, <1>5, <1>7 DEF OwnL1, OwnLLC, Others, Ours, InProbe, Probing, Match
<1> QED BY <1>1, <1>6, <1>8, <1>10, <1>11, <1>12, <1>13, QuietStep DEF ThreadInv

(* A thread that gives back its line and its set, and is done.             *)
LEMMA FinishStep ==
  ASSUME IInv, NEW t \in Core, Finish(t)
  PROVE  IInv' /\ LockedStep
<1> DEFINE r == th[t]
<1>1. /\ r.pc = "finish" /\ Typed /\ UNCHANGED <<meta, mem>>
      /\ lock' = [lock EXCEPT ![r.out] = None] /\ th' = [th EXCEPT ![t] = Idle]
      /\ word' = [word EXCEPT ![Here(t)] = @ \ {acquire}]
  BY DEF Finish, IInv
<1>2. r # Idle /\ r.deep /\ Ours(t) /\ Here(t) = SetOf(LLC, r.addr) /\ Here(t) \in CacheSet
  BY <1>1, WhereIs
<1>3. th' \in [Core -> Record] /\ (\A u \in Core \ {t} : th'[u] = th[u]) /\ th'[t] = Idle
  BY <1>1, IdleRelies DEF Typed
<1>4. LockStep(t)
  <2>1. r.out \in Line
    BY <1>2, OutLine
  <2>2. Owns(t, r.out) /\ \A l \in Line : Owns(t, l) => l = r.out
    BY <1>1, <1>2 DEF Owns
  <2>3. \A l : ~Owns(t, l)'
    BY <1>3, IdleRelies
  <2> QED BY <1>1, <2>1, <2>2, <2>3 DEF LockStep
<1>5. WordStep(t)
  <2>1. \A z : /\ ~InSetL1(t, z) /\ ~Probes(t, z) /\ ~Releases(t, z)
               /\ InSetLLC(t, z) <=> z = Here(t)
    BY <1>1, <1>2 DEF InSetL1, InSetLLC, Probes, Releases, Probing
  <2> QED BY <1>1, <1>2, <1>3, <2>1, IdleRelies, GivesAcquire
<1> QED BY <1>1, <1>3, <1>4, <1>5, IdleRelies, QuietStep

----------------------------------------------------------------------------
(* The steps in the LLC that leave the lines alone. *)

(* The line of the LLC below a copy in an L1 knows of it. *)
LEMMA Below ==
  ASSUME IInv, NEW o \in Line, o[1] = LLC, NEW l \in Line, l[1] # LLC,
         IsValid(meta[o]), Match(l, meta[o].addr)
  PROVE  /\ Directory => l[1] \in meta[o].sharer
         /\ AllowWrite(meta[l]) => meta[o].st # "S"
<1>1. PICK k \in Line : /\ k[1] = LLC /\ Match(k, meta[l].addr)
                        /\ Directory => l[1] \in meta[k].sharer
                        /\ AllowWrite(meta[l]) => meta[k].st # "S"
  BY DEF IInv, Coherent, Included, Match
<1>2. k = o
  BY <1>1 DEF IInv, Coherent, Unique, Match
<1> QED BY <1>1, <1>2

(* A step of a thread in the LLC keeps the reservations for its access.    *)
LEMMA StaysIn ==
  ASSUME IInv, NEW t \in Core, Ours(t), th[t].pc # "finish", th'[t].pc \notin Looking \cup {"finish", "idle"},
         th'[t].op = th[t].op, th'[t].addr = th[t].addr, th'[t].deep
  PROVE  /\ th[t] # Idle /\ th'[t] # Idle
         /\ \A z : /\ InSetL1(t, z)' \/ InSetLLC(t, z)' <=> InSetL1(t, z) \/ InSetLLC(t, z)
                   /\ ~Releases(t, z)
                   /\ th'[t].pc # "write" => ~Releases(t, z)'
                   /\ th[t].pc \notin Probing => ~Probes(t, z)
                   /\ th'[t].pc \notin Probing => ~Probes(t, z)'
<1>1. th[t] # Idle /\ ~(th[t].pc = "write") /\ th[t].deep
  BY OutLine, WhereIs DEF Ours
<1>2. th'[t] # Idle
  BY DEF Idle
<1> QED BY <1>1, <1>2 DEF InSetL1, InSetLLC, Ours, Releases, Probes

LEMMA ProbeReqStep ==
  ASSUME IInv, NEW t \in Core, th[t].deep, th[t].pc \in {"access", "evict"},
         NEW why \in {"grant", "writeback"}, NEW act \in {"evict", "downgrade"}, NEW id \in {t, NoId},
         ProbeReq(t, act, id, why), UNCHANGED <<meta, word, mem>>,
         IsValid(meta[th[t].out]),
         why = "writeback" => act = "evict" /\ id = NoId,
         why = "grant" => th[t].op \in ReadWrite /\ th[t].pc = "access",
         act = "downgrade" => Proto # "MI" /\ th[t].act = "fetch_read",
         why = "writeback" => (th[t].op = "flush" <=> th[t].pc = "access")
  PROVE  IInv' /\ LockedStep
<1> DEFINE r == th[t]
           q == th'[t]
           o == r.out
           b == meta[o].addr
           left == {c \in Core : ProbeNeedProbe(meta[o], c, id)}
<1>1. Typed /\ OwnL1(t) /\ OwnLLC(t) /\ Ours(t)
  BY DEF IInv, ThreadInv, Ours, Looking
<1>2. /\ r \in Record /\ InLLC(t) /\ r.addr \in Addr
      /\ o \in Line /\ o[1] = LLC /\ o \in LinesOf(LLC, r.addr)
  BY <1>1, WhereIs, OutLine
<1>3. q = [r EXCEPT !.pc = "probe", !.why = <<why, act>>, !.todo = left] /\ \A u \in Core \ {t} : th'[u] = th[u]
  BY <1>1 DEF ProbeReq, Typed
<1>4. /\ q.pc = "probe" /\ q.op = r.op /\ q.addr = r.addr /\ q.deep = r.deep /\ q.act = r.act
      /\ q.line = r.line /\ q.out = r.out /\ q.todo = left /\ q.why = <<why, act>>
  BY <1>2, <1>3 DEF Record
<1>5. q.why[1] = why /\ q.why[2] = act /\ q.why \in Cause
  BY <1>4 DEF Cause
<1>6. th' \in [Core -> Record]
  <2> DEFINE w == <<why, act>>
  <2>1. left \subseteq Core /\ w \in Cause
    BY DEF Cause
  <2>2. q = [r EXCEPT !.pc = "probe", !.why = w, !.todo = left]
    BY <1>3
  <2> HIDE DEF left, w
  <2>3. q \in Record
    <3>1. [r EXCEPT !.pc = "probe", !.why = w, !.todo = left] \in Record
      BY <1>2, <2>1, ProbeRecord
    <3> QED BY <2>2, <3>1
  <2> QED BY <1>1, <2>3 DEF ProbeReq, Typed
<1>7. LockStep(t)
  <2>1. Owns(t, o) /\ \A k \in Line : Owns(t, k)' <=> Owns(t, k) /\ k # o
    BY <1>4 DEF Owns
  <2> QED BY <1>2, <2>1 DEF LockStep, ProbeReq
<1>8. WordStep(t)
  <2>1. q.pc \notin Looking \cup {"finish", "idle"} /\ q.deep /\ r.pc # "finish"
    BY <1>4 DEF Looking
  <2>2. /\ r # Idle /\ q # Idle
        /\ \A z : /\ InSetL1(t, z)' \/ InSetLLC(t, z)' <=> InSetL1(t, z) \/ InSetLLC(t, z)
                  /\ ~Releases(t, z) /\ ~Releases(t, z)' /\ ~Probes(t, z) /\ ~Probes(t, z)'
    BY <1>1, <1>4, <2>1, StaysIn DEF Probing
  <2> QED BY <2>2, KeepsSets
<1>9. Control(t)'
  <2>1. q.deep /\ q.pc \in LLCLabel
    BY <1>4 DEF LLCLabel, InProbe
  <2>2. q.addr \in Addr /\ q.op \in ReadWrite \cup {"flush", "prefetch"}
    BY <1>2, <1>4 DEF InLLC
  <2>3. /\ q.op = "flush" => q.pc \in {"hit", "lock", "access", "writeback"} \cup InProbe
        /\ q.op = "prefetch" => q.pc \notin {"lock", "access", "grant", "granted"}
    BY <1>4 DEF InProbe
  <2>4. /\ q.op \in ReadWrite => q.act \in {"fetch_read", "fetch_write"} /\ q.line \in LinesOf(t, q.addr)
        /\ q.op = "write" \/ (q.op = "read" /\ Proto = "MI") => q.act = "fetch_write"
        /\ q.out \in LinesOf(LLC, q.addr)
    BY <1>2, <1>4 DEF InLLC
  <2>5. /\ q.why[1] = "writeback" => q.why[2] = "evict"
        /\ q.why[1] = "grant" => q.op \in ReadWrite
        /\ q.why[2] = "evict" \/ (Proto # "MI" /\ q.act = "fetch_read")
    BY <1>4, <1>5
  <2> QED BY <1>4, <1>5, <2>1, <2>2, <2>3, <2>4, <2>5 DEF Control, InLLC, InProbe
<1>10. OwnL1(t)'
  BY <1>1, <1>4 DEF OwnL1, Match
<1>11. OwnLLC(t)'
  <2>1. Missed(t)' <=> Missed(t)
    BY <1>4, <1>5 DEF Missed, InProbe
  <2>2. Ours(t)'
    BY <1>4 DEF Ours, Looking
  <2>3. IF Missed(t)' THEN \A l \in Line : l[1] = LLC => ~Match(l, r.addr)' ELSE Match(o, r.addr)'
    BY <1>1, <1>4, <2>1 DEF OwnLLC, Match
  <2> QED BY <1>4, <2>3 DEF OwnLLC, Match
<1>12. ASSUME NEW l \in Line, l[1] # LLC, l[1] \notin left, Match(l, b), why = "grant" => l[1] # t
       PROVE  FALSE
  <2>1. l[1] \in Core
    BY <1>12, LineCache
  <2>2. Directory => l[1] \in meta[o].sharer
    BY <1>2, <1>12, Below
  <2>3. l[1] # id
    BY <1>12, <2>1, IdIsNoNoId
  <2> QED BY <1>12, <2>1, <2>2, <2>3 DEF ProbeNeedProbe
<1>13. Others(t)'
  BY <1>4, <1>5, <1>12 DEF Others, Probing, Match
<1> QED BY <1>3, <1>6, <1>7, <1>8, <1>9, <1>10, <1>11, <1>13, QuietStep DEF ThreadInv

(* From one label to the next, with the line of the LLC locked.            *)
LEMMA AccessLLCStep ==
  ASSUME IInv, NEW t \in Core, AccessLLC(t)
  PROVE  IInv' /\ LockedStep
<1> DEFINE r == th[t]
           q == th'[t]
           o == r.out
           act == IF r.op = "flush" THEN FlushNeedSync("evict", meta[o])
                  ELSE AccessNeedSync(Acquire(r.act), meta[o])
<1>1. r.pc = "access" /\ r.deep /\ UNCHANGED <<meta, word, mem>>
  BY DEF AccessLLC
<1>2. Typed /\ Ours(t) /\ OwnLLC(t) /\ OwnL1(t)
  BY <1>1 DEF IInv, ThreadInv, Ours, Looking
<1>3. InLLC(t) /\ o \in Line /\ o[1] = LLC
  BY <1>2, WhereIs, OutLine DEF Ours
<1>4. Match(o, r.addr)
  BY <1>1, <1>2 DEF OwnLLC, Missed, InProbe
<1>5. r.op = "flush" \/ r.op \in ReadWrite
  BY <1>1, <1>3 DEF InLLC
<1>6. r.op # "flush" => r.act \in {"fetch_read", "fetch_write"}
  BY <1>3, <1>5 DEF InLLC
<1>7. CASE r.op = "flush"
  <2>1. act = "evict"
    BY <1>7 DEF FlushNeedSync
  <2>2. ProbeReq(t, "evict", NoId, "writeback")
    BY <1>7, <2>1 DEF AccessLLC
  <2>3. IsValid(meta[o])
    BY <1>4 DEF Match
  <2> QED BY <1>1, <1>7, <2>2, <2>3, ProbeReqStep
<1>8. CASE r.op # "flush" /\ act # "none"
  <2>1. act \in {"evict", "downgrade"} /\ (act = "downgrade" => Proto # "MI" /\ r.act = "fetch_read")
    BY <1>6, <1>8 DEF AccessNeedSync, Acquire
  <2>2. ProbeReq(t, act, t, "grant")
    BY <1>8 DEF AccessLLC
  <2>3. IsValid(meta[o])
    BY <1>4 DEF Match
  <2> HIDE DEF act
  <2> QED BY <1>1, <1>5, <1>8, <2>1, <2>2, <2>3, ProbeReqStep
<1>9. CASE r.op # "flush" /\ act = "none"
  <2>1. r.act = "fetch_read" /\ meta[o].st = "S"
    BY <1>6, <1>9 DEF AccessNeedSync, Acquire, IsRelease, IsShared
  <2>2. Goto(t, "grant") /\ UNCHANGED lock
    BY <1>9 DEF AccessLLC
  <2>3. /\ q.pc = "grant" /\ q.op = r.op /\ q.addr = r.addr /\ q.deep = r.deep /\ q.act = r.act
        /\ q.line = r.line /\ q.out = r.out
        /\ th' \in [Core -> Record] /\ \A u \in Core \ {t} : th'[u] = th[u]
    BY <1>2, <2>2, GotoIs DEF LLCLabel
  <2>4. LockStep(t)
    BY <1>1, <2>2, <2>3 DEF LockStep, Owns
  <2>5. WordStep(t)
    <3>1. q.pc \notin Looking \cup {"finish", "idle"} /\ q.deep /\ r.pc # "finish"
      BY <1>1, <2>3 DEF Looking
    <3>2. /\ r # Idle /\ q # Idle
          /\ \A z : /\ InSetL1(t, z)' \/ InSetLLC(t, z)' <=> InSetL1(t, z) \/ InSetLLC(t, z)
                    /\ ~Releases(t, z) /\ ~Releases(t, z)' /\ ~Probes(t, z) /\ ~Probes(t, z)'
      BY <1>1, <1>2, <2>3, <3>1, StaysIn DEF Probing
    <3> QED BY <1>1, <3>2, KeepsSets
  <2>6. Control(t)'
    BY <1>1, <1>3, <1>5, <1>9, <2>3 DEF Control, InLLC, LLCLabel, InProbe, Looking, ReadWrite
  <2>7. OwnL1(t)' /\ OwnLLC(t)'
    BY <1>1, <1>2, <1>4, <2>3 DEF OwnL1, OwnLLC, Missed, InProbe, Match
  <2>8. ASSUME NEW l \in Line, l[1] # LLC, Match(l, r.addr)
        PROVE  ~AllowWrite(meta[l])
    BY <1>3, <1>4, <2>1, <2>8, Below DEF Match
  <2>9. Others(t)'
    BY <1>1, <2>1, <2>3, <2>8 DEF Others, InProbe, Probing, Match
  <2> QED BY <1>1, <2>3, <2>4, <2>5, <2>6, <2>7, <2>9, QuietStep DEF ThreadInv
<1> QED BY <1>7, <1>8, <1>9

LEMMA EvictLLCStep ==
  ASSUME IInv, NEW t \in Core, EvictLLC(t)
  PROVE  IInv' /\ LockedStep
<1> DEFINE r == th[t]
           q == th'[t]
           o == r.out
<1>1. r.pc = "evict" /\ r.deep /\ UNCHANGED <<meta, word, mem>>
  BY DEF EvictLLC
<1>2. Typed /\ Ours(t) /\ OwnLLC(t) /\ OwnL1(t)
  BY <1>1 DEF IInv, ThreadInv, Ours, Looking
<1>3. InLLC(t) /\ o \in Line /\ o[1] = LLC /\ r.op # "flush"
  BY <1>1, <1>2, WhereIs, OutLine DEF Ours, InLLC, InProbe
<1>4. CASE IsValid(meta[o])
  <2>1. ProbeReq(t, "evict", NoId, "writeback")
    BY <1>4 DEF EvictLLC, WritebackNeedSync
  <2> QED BY <1>1, <1>3, <1>4, <2>1, ProbeReqStep
<1>5. CASE ~IsValid(meta[o])
  <2>1. Goto(t, "copy") /\ UNCHANGED lock
    BY <1>5 DEF EvictLLC
  <2>2. /\ q.pc = "copy" /\ q.op = r.op /\ q.addr = r.addr /\ q.deep = r.deep /\ q.act = r.act
        /\ q.line = r.line /\ q.out = r.out
        /\ th' \in [Core -> Record] /\ \A u \in Core \ {t} : th'[u] = th[u]
    BY <1>2, <2>1, GotoIs DEF LLCLabel
  <2>3. LockStep(t)
    BY <1>1, <2>1, <2>2 DEF LockStep, Owns
  <2>4. WordStep(t)
    <3>1. q.pc \notin Looking \cup {"finish", "idle"} /\ q.deep /\ r.pc # "finish"
      BY <1>1, <2>2 DEF Looking
    <3>2. /\ r # Idle /\ q # Idle
          /\ \A z : /\ InSetL1(t, z)' \/ InSetLLC(t, z)' <=> InSetL1(t, z) \/ InSetLLC(t, z)
                    /\ ~Releases(t, z) /\ ~Releases(t, z)' /\ ~Probes(t, z) /\ ~Probes(t, z)'
      BY <1>1, <1>2, <2>2, <3>1, StaysIn DEF Probing
    <3> QED BY <1>1, <3>2, KeepsSets
  <2>5. Control(t)'
    BY <1>1, <1>3, <2>2 DEF Control, InLLC, LLCLabel, InProbe, Looking, ReadWrite
  <2>6. OwnL1(t)' /\ OwnLLC(t)' /\ Others(t)'
    BY <1>1, <1>2, <1>5, <2>2 DEF OwnL1, OwnLLC, Others, Missed, Ours, InProbe, Probing, Match
  <2> QED BY <1>1, <2>2, <2>3, <2>4, <2>5, <2>6, QuietStep DEF ThreadInv
<1> QED BY <1>4, <1>5

(* A thread that probes others. *)
LEMMA ProbingHas ==
  ASSUME IInv, NEW t \in Core, th[t].pc \in InProbe
  PROVE  LET r == th[t]
             b == meta[r.out].addr
         IN  /\ r # Idle /\ r \in Record /\ r.deep /\ Ours(t) /\ InLLC(t)
             /\ r.out \in Line /\ r.out[1] = LLC /\ IsValid(meta[r.out]) /\ meta[r.out] \in Meta
             /\ b \in Addr
             /\ r.todo \subseteq Core
             /\ r.why \in Cause /\ r.why[2] \in {"evict", "downgrade"}
             /\ r.pc # "probe" => r.todo # {}
             /\ r.todo # {} => /\ Target(t) \in r.todo /\ Target(t) \in Core /\ Target(t) \in Cache
                               /\ SetOf(Target(t), b) \in CacheSet
<1>1. th[t].pc # "idle" /\ OwnLLC(t) /\ Placed
  BY DEF InProbe, IInv, ThreadInv, Coherent
<1>2. /\ th[t] # Idle /\ th[t] \in Record /\ th[t].deep /\ Ours(t) /\ InLLC(t)
  BY <1>1, WhereIs
<1>3. th[t].out \in Line /\ th[t].out[1] = LLC /\ IsValid(meta[th[t].out]) /\ meta[th[t].out] \in Meta
  BY <1>1, <1>2, OutLine DEF OwnLLC
<1>4. meta[th[t].out].addr \in Addr
  BY <1>1, <1>3 DEF Placed
<1>5. th[t].todo \subseteq Core
  BY <1>2 DEF Record
<1>6. th[t].todo # {} => Target(t) \in th[t].todo
  BY <1>5, TargetLeft
<1>7. th[t].why \in Cause /\ (th[t].pc # "probe" => th[t].todo # {})
  BY <1>2 DEF InLLC
<1>8. th[t].why[2] \in {"evict", "downgrade"}
  BY <1>7 DEF Cause
<1> QED BY <1>2, <1>3, <1>4, <1>5, <1>6, <1>7, <1>8 DEF Cache, CacheSet

(* ... and goes on doing so. *)
LEMMA ProbingOn ==
  ASSUME IInv, NEW t \in Core, th[t].pc \in InProbe, th'[t].pc \in InProbe,
         th'[t].op = th[t].op, th'[t].addr = th[t].addr, th'[t].deep <=> th[t].deep,
         th'[t].act = th[t].act, th'[t].line = th[t].line, th'[t].out = th[t].out,
         th'[t].why = th[t].why, th'[t].pc = "probe" \/ th'[t].todo # {}
  PROVE  /\ Control(t)'
         /\ Ours(t)' /\ (Missed(t)' <=> Missed(t))
         /\ th[t] # Idle /\ th'[t] # Idle
         /\ \A z : /\ InSetL1(t, z)' \/ InSetLLC(t, z)' <=> InSetL1(t, z) \/ InSetLLC(t, z)
                   /\ ~Releases(t, z) /\ ~Releases(t, z)'
         /\ UNCHANGED meta => OwnL1(t)' /\ OwnLLC(t)'
<1> DEFINE r == th[t]
           q == th'[t]
<1>1. Ours(t) /\ InLLC(t) /\ r.deep /\ OwnL1(t) /\ OwnLLC(t)
  BY ProbingHas DEF IInv, ThreadInv
<1>2. q.pc \notin Looking \cup {"finish", "idle"} /\ q.deep /\ r.pc # "finish" /\ q.pc # "write"
  BY <1>1 DEF Looking, InProbe
<1>3. Control(t)'
  <2>1. q.deep /\ q.pc \in LLCLabel /\ q.addr \in Addr /\ q.op \in ReadWrite \cup {"flush", "prefetch"}
    BY <1>1, <1>2 DEF InLLC, LLCLabel
  <2>2. /\ q.op = "flush" => q.pc \in {"hit", "lock", "access", "writeback"} \cup InProbe
        /\ q.op = "prefetch" => q.pc \notin {"lock", "access", "grant", "granted"}
    BY DEF InProbe
  <2>3. /\ q.op \in ReadWrite => q.act \in {"fetch_read", "fetch_write"} /\ q.line \in LinesOf(t, q.addr)
        /\ q.op = "write" \/ (q.op = "read" /\ Proto = "MI") => q.act = "fetch_write"
        /\ q.out \in LinesOf(LLC, q.addr)
        /\ q.why \in Cause
        /\ q.why[1] = "writeback" => q.why[2] = "evict"
        /\ q.why[1] = "grant" => q.op \in ReadWrite
        /\ q.why[2] = "evict" \/ (Proto # "MI" /\ q.act = "fetch_read")
    BY <1>1 DEF InLLC, Looking, InProbe
  <2>4. q.pc \in InProbe \ {"probe"} => q.todo # {}
    OBVIOUS
  <2> QED BY <2>1, <2>2, <2>3, <2>4 DEF Control, InLLC
<1>4. Ours(t)' /\ (Missed(t)' <=> Missed(t))
  BY <1>1, <1>2 DEF Ours, Missed, InProbe
<1>5. UNCHANGED meta => OwnL1(t)' /\ OwnLLC(t)'
  <2> SUFFICES ASSUME UNCHANGED meta PROVE OwnL1(t)' /\ OwnLLC(t)'
    OBVIOUS
  <2>1. OwnL1(t)'
    BY <1>1, <1>2 DEF OwnL1, InProbe, Match
  <2>2. OwnLLC(t)'
    BY <1>1, <1>4 DEF OwnLLC, InProbe, Match
  <2> QED BY <2>1, <2>2
<1> QED BY <1>1, <1>2, <1>3, <1>4, <1>5, StaysIn

LEMMA ProbeStep ==
  ASSUME IInv, NEW t \in Core, Probe(t)
  PROVE  IInv' /\ LockedStep
<1> DEFINE r == th[t]
           q == th'[t]
           c == Target(t)
           b == meta[r.out].addr
           s == SetOf(c, b)
<1>1. r.pc = "probe" /\ r.todo # {} /\ ~Blocked(probe, s) /\ UNCHANGED <<meta, lock, mem>>
      /\ Typed /\ Placed /\ Others(t) /\ r.pc \in InProbe
  BY DEF Probe, IInv, Coherent, ThreadInv, InProbe
<1>2. /\ r \in Record /\ c \in Core /\ c \in Cache /\ b \in Addr /\ s \in CacheSet
  BY <1>1, ProbingHas
<1>3. CASE Hits(c, b) = {} /\ Goto(t, "probe_miss") /\ UNCHANGED word
  <2>1. /\ q.pc = "probe_miss" /\ q.op = r.op /\ q.addr = r.addr /\ q.deep = r.deep /\ q.act = r.act
        /\ q.line = r.line /\ q.out = r.out /\ q.why = r.why /\ q.todo = r.todo
        /\ th' \in [Core -> Record] /\ \A u \in Core \ {t} : th'[u] = th[u]
        /\ q.pc \in InProbe
    BY <1>1, <1>3, GotoIs DEF LLCLabel, InProbe
  <2>2. LockStep(t)
    BY <1>1, <2>1 DEF LockStep, Owns
  <2>3. /\ Control(t)' /\ OwnL1(t)' /\ OwnLLC(t)' /\ r # Idle /\ q # Idle
        /\ \A z : /\ InSetL1(t, z)' \/ InSetLLC(t, z)' <=> InSetL1(t, z) \/ InSetLLC(t, z)
                  /\ ~Releases(t, z) /\ ~Releases(t, z)'
    BY <1>1, <2>1, ProbingOn
  <2>4. WordStep(t)
    <3>1. \A z : ~Probes(t, z) /\ ~Probes(t, z)'
      BY <1>1, <2>1 DEF Probes, Probing
    <3> QED BY <1>3, <2>3, <3>1, KeepsSets
  <2>5. \A l \in Line : l[1] = c => ~Match(l, b)
    BY <1>1, <1>2, <1>3, HitsAre
  <2>6. Target(t)' = c
    BY <2>1 DEF Target
  <2>7. Others(t)'
    BY <1>1, <2>1, <2>5, <2>6 DEF Others, Probing, Match
  <2> QED BY <1>1, <2>1, <2>2, <2>3, <2>4, <2>7, QuietStep DEF ThreadInv
<1>4. ASSUME NEW l \in Hits(c, b),
             word' = [word EXCEPT ![s] = @ \cup {probe}],
             th' = [th EXCEPT ![t].pc = "probe_lock", ![t].in = l]
      PROVE  IInv' /\ LockedStep
  <2>1. l \in Line /\ l \in LinesOf(c, b)
    BY <1>1, <1>2, HitsAre DEF Hits
  <2>2. q = [r EXCEPT !.pc = "probe_lock", !.in = l] /\ \A u \in Core \ {t} : th'[u] = th[u]
    BY <1>1, <1>4 DEF Typed
  <2>3. /\ q.pc = "probe_lock" /\ q.op = r.op /\ q.addr = r.addr /\ q.deep = r.deep /\ q.act = r.act
        /\ q.line = r.line /\ q.out = r.out /\ q.why = r.why /\ q.todo = r.todo /\ q.in = l
        /\ q.pc \in InProbe
    BY <1>2, <2>2 DEF Record, InProbe
  <2>4. q \in Record
    BY <1>2, <2>1, <2>2 DEF Record, LLCLabel, InProbe
  <2>5. th' \in [Core -> Record]
    BY <1>1, <1>4, <2>2, <2>4 DEF Typed
  <2>6. LockStep(t)
    BY <1>1, <2>3 DEF LockStep, Owns
  <2>7. /\ Control(t)' /\ OwnL1(t)' /\ OwnLLC(t)' /\ r # Idle /\ q # Idle
        /\ \A z : /\ InSetL1(t, z)' \/ InSetLLC(t, z)' <=> InSetL1(t, z) \/ InSetLLC(t, z)
                  /\ ~Releases(t, z) /\ ~Releases(t, z)'
    BY <1>1, <2>3, ProbingOn
  <2>8. Target(t)' = c
    BY <2>3 DEF Target
  <2>9. WordStep(t)
    <3>1. \A z : ~Probes(t, z) /\ (Probes(t, z)' <=> z = s)
      BY <1>1, <2>3, <2>8 DEF Probes, Probing
    <3> QED BY <1>1, <1>2, <1>4, <2>7, <3>1, ProbesSet
  <2>10. Others(t)'
    BY <1>1, <2>1, <2>3, <2>8 DEF Others, Match
  <2> QED BY <1>1, <2>2, <2>5, <2>6, <2>7, <2>9, <2>10, QuietStep DEF ThreadInv
<1> QED BY <1>3, <1>4 DEF Probe

LEMMA ProbeLockStep ==
  ASSUME IInv, NEW t \in Core, ProbeLock(t)
  PROVE  IInv' /\ LockedStep
<1> DEFINE r == th[t]
           q == th'[t]
           c == Target(t)
           l == r.in
           b == meta[r.out].addr
           s == SetOf(c, b)
<1>1. r.pc = "probe_lock" /\ Free(l) /\ UNCHANGED <<meta, mem>>
      /\ Typed /\ Others(t) /\ r.pc \in InProbe
  BY DEF ProbeLock, IInv, ThreadInv, InProbe
<1>2. /\ r \in Record /\ c \in Core /\ c \in Cache /\ b \in Addr /\ s \in CacheSet /\ r.todo # {}
  BY <1>1, ProbingHas
<1>3. l \in LinesOf(c, b) /\ l \in Line
  <2>1. l \in LinesOf(c, b)
    BY <1>1 DEF Others, Probing
  <2> QED BY <1>2, <2>1, LineParts
<1>4. CASE /\ word' = [word EXCEPT ![s] = @ \ {probe}]
           /\ th' = [th EXCEPT ![t].pc = "probe", ![t].in = None]
           /\ UNCHANGED lock
  <2>1. q = [r EXCEPT !.pc = "probe", !.in = None] /\ \A u \in Core \ {t} : th'[u] = th[u]
    BY <1>1, <1>4 DEF Typed
  <2>2. /\ q.pc = "probe" /\ q.op = r.op /\ q.addr = r.addr /\ q.deep = r.deep /\ q.act = r.act
        /\ q.line = r.line /\ q.out = r.out /\ q.why = r.why /\ q.todo = r.todo
        /\ q.pc \in InProbe
    BY <1>2, <2>1 DEF Record, InProbe
  <2>3. q \in Record
    BY <1>2, <2>1 DEF Record, LLCLabel, InProbe
  <2>4. th' \in [Core -> Record]
    BY <1>1, <1>4, <2>1, <2>3 DEF Typed
  <2>5. LockStep(t)
    BY <1>1, <1>4, <2>2 DEF LockStep, Owns
  <2>6. /\ Control(t)' /\ OwnL1(t)' /\ OwnLLC(t)' /\ r # Idle /\ q # Idle
        /\ \A z : /\ InSetL1(t, z)' \/ InSetLLC(t, z)' <=> InSetL1(t, z) \/ InSetLLC(t, z)
                  /\ ~Releases(t, z) /\ ~Releases(t, z)'
    BY <1>1, <2>2, ProbingOn
  <2>7. WordStep(t)
    <3>1. \A z : ~Probes(t, z)' /\ (Probes(t, z) <=> z = s)
      BY <1>1, <2>2 DEF Probes, Probing
    <3> QED BY <1>2, <1>4, <2>6, <3>1, ProbesSet
  <2>8. Others(t)'
    BY <1>1, <2>2 DEF Others, Probing, Match
  <2> QED BY <1>1, <2>1, <2>4, <2>5, <2>6, <2>7, <2>8, QuietStep DEF ThreadInv
<1>5. CASE /\ Match(l, b)
           /\ lock' = [lock EXCEPT ![l] = t]
           /\ Goto(t, "probe_hit")
           /\ UNCHANGED word
  <2>1. /\ q.pc = "probe_hit" /\ q.op = r.op /\ q.addr = r.addr /\ q.deep = r.deep /\ q.act = r.act
        /\ q.line = r.line /\ q.out = r.out /\ q.why = r.why /\ q.todo = r.todo /\ q.in = l
        /\ th' \in [Core -> Record] /\ \A u \in Core \ {t} : th'[u] = th[u]
        /\ q.pc \in InProbe
    BY <1>1, <1>5, GotoIs DEF LLCLabel, InProbe
  <2>2. LockStep(t)
    <3>1. \A k \in Line : Owns(t, k)' <=> Owns(t, k) \/ k = l
      BY <1>1, <2>1 DEF Owns
    <3> QED BY <1>1, <1>3, <1>5, <3>1 DEF LockStep
  <2>3. /\ Control(t)' /\ OwnL1(t)' /\ OwnLLC(t)' /\ r # Idle /\ q # Idle
        /\ \A z : /\ InSetL1(t, z)' \/ InSetLLC(t, z)' <=> InSetL1(t, z) \/ InSetLLC(t, z)
                  /\ ~Releases(t, z) /\ ~Releases(t, z)'
    BY <1>1, <1>2, <2>1, ProbingOn
  <2>4. Target(t)' = c
    BY <2>1 DEF Target
  <2>5. WordStep(t)
    <3>1. \A z : Probes(t, z) <=> Probes(t, z)'
      BY <1>1, <2>1, <2>4 DEF Probes, Probing
    <3> QED BY <1>5, <2>3, <3>1, KeepsSets
  <2>6. Others(t)'
    BY <1>1, <1>3, <1>5, <2>1, <2>4 DEF Others, Match
  <2> QED BY <1>1, <2>1, <2>2, <2>3, <2>5, <2>6, QuietStep DEF ThreadInv
<1> QED BY <1>4, <1>5 DEF ProbeLock

(* The next target. *)
LEMMA ProbedIs ==
  ASSUME Typed, NEW t \in Core, Probed(t)
  PROVE  LET r == th[t]
             q == th'[t]
         IN  /\ q.pc = "probe" /\ q.op = r.op /\ q.addr = r.addr /\ q.deep = r.deep /\ q.act = r.act
             /\ q.line = r.line /\ q.out = r.out /\ q.why = r.why /\ q.todo = r.todo \ {Target(t)}
             /\ q.pc \in InProbe
             /\ th' \in [Core -> Record]
             /\ \A u \in Core \ {t} : th'[u] = th[u]
<1> DEFINE left == th[t].todo \ {Target(t)}
<1>1. th' = [th EXCEPT ![t].pc = "probe", ![t].in = None, ![t].todo = left] /\ th[t] \in Record
  BY DEF Probed, Typed
<1>2. left \subseteq Core
  BY <1>1 DEF Record
<1>3. left = th[t].todo \ {Target(t)}
  OBVIOUS
<1> HIDE DEF left
<1>4. th'[t] = [th[t] EXCEPT !.pc = "probe", !.in = None, !.todo = left] /\ \A u \in Core \ {t} : th'[u] = th[u]
  BY <1>1 DEF Typed
<1>5. th'[t] \in Record
  <2>1. [th[t] EXCEPT !.pc = "probe", !.in = None, !.todo = left] \in Record
    BY <1>1, <1>2 DEF Record, LLCLabel, InProbe
  <2> QED BY <1>4, <2>1
<1>6. th' \in [Core -> Record]
  BY <1>1, <1>4, <1>5 DEF Typed
<1> QED BY <1>1, <1>3, <1>4, <1>6 DEF Record, InProbe

LEMMA ProbeMissStep ==
  ASSUME IInv, NEW t \in Core, ProbeMiss(t)
  PROVE  IInv' /\ LockedStep
<1> DEFINE r == th[t]
           q == th'[t]
           b == meta[r.out].addr
<1>1. r.pc = "probe_miss" /\ Probed(t) /\ UNCHANGED <<meta, lock, word, mem>>
      /\ Typed /\ Others(t) /\ r.pc \in InProbe
  BY DEF ProbeMiss, IInv, ThreadInv, InProbe
<1>2. /\ q.pc = "probe" /\ q.op = r.op /\ q.addr = r.addr /\ q.deep = r.deep /\ q.act = r.act
      /\ q.line = r.line /\ q.out = r.out /\ q.why = r.why /\ q.todo = r.todo \ {Target(t)}
      /\ q.pc \in InProbe /\ th' \in [Core -> Record] /\ \A u \in Core \ {t} : th'[u] = th[u]
  BY <1>1, ProbedIs
<1>3. LockStep(t)
  BY <1>1, <1>2 DEF LockStep, Owns
<1>4. /\ Control(t)' /\ OwnL1(t)' /\ OwnLLC(t)' /\ r # Idle /\ q # Idle
      /\ \A z : /\ InSetL1(t, z)' \/ InSetLLC(t, z)' <=> InSetL1(t, z) \/ InSetLLC(t, z)
                /\ ~Releases(t, z) /\ ~Releases(t, z)'
  BY <1>1, <1>2, ProbingOn
<1>5. WordStep(t)
  <2>1. \A z : ~Probes(t, z) /\ ~Probes(t, z)'
    BY <1>1, <1>2 DEF Probes, Probing
  <2> QED BY <1>1, <1>4, <2>1, KeepsSets
<1>6. Others(t)'
  BY <1>1, <1>2 DEF Others, Probing, Match
<1> QED BY <1>1, <1>2, <1>3, <1>4, <1>5, <1>6, QuietStep DEF ThreadInv

(* When all have been probed nobody has what the probe was to take away.   *)
LEMMA SyncedStep ==
  ASSUME IInv, NEW t \in Core, Synced(t)
  PROVE  IInv' /\ LockedStep
<1> DEFINE r == th[t]
           q == th'[t]
           o == r.out
           b == meta[o].addr
           label == r.why[1]
<1>1. /\ r.pc = "probe" /\ r.todo = {} /\ Free(o) /\ UNCHANGED <<meta, word, mem>>
      /\ lock' = [lock EXCEPT ![o] = t] /\ r.pc \in InProbe
      /\ th' = [th EXCEPT ![t].pc = label, ![t].why = None]
      /\ Typed /\ OwnL1(t) /\ OwnLLC(t) /\ Others(t)
  BY DEF Synced, IInv, ThreadInv, InProbe
<1>2. /\ r \in Record /\ r.deep /\ Ours(t) /\ InLLC(t) /\ o \in Line /\ IsValid(meta[o]) /\ r.why \in Cause
  BY <1>1, ProbingHas
<1>3. label \in {"grant", "writeback"}
  BY <1>2 DEF Cause
<1>4. /\ label = "writeback" => r.why[2] = "evict"
      /\ label = "grant" => r.op \in ReadWrite /\ (r.why[2] = "evict" \/ r.act = "fetch_read")
  BY <1>1, <1>2 DEF InLLC
<1>5. \A l \in Line : /\ l[1] # LLC /\ Match(l, b)
                      /\ label = "grant" => l[1] # t
                      => r.why[2] = "downgrade" /\ ~AllowWrite(meta[l])
  BY <1>1 DEF Others
<1> HIDE DEF label
<1>6. q = [r EXCEPT !.pc = label, !.why = None] /\ \A u \in Core \ {t} : th'[u] = th[u]
  BY <1>1 DEF Typed
<1>7. /\ q.pc = label /\ q.op = r.op /\ q.addr = r.addr /\ q.deep = r.deep /\ q.act = r.act
      /\ q.line = r.line /\ q.out = r.out
  <2> DEFINE e == [r EXCEPT !.pc = label, !.why = None]
  <2>1. /\ e.pc = label /\ e.op = r.op /\ e.addr = r.addr /\ e.deep = r.deep /\ e.act = r.act
        /\ e.line = r.line /\ e.out = r.out
    BY <1>2 DEF Record
  <2>2. q = e
    BY <1>6
  <2> HIDE DEF e
  <2> QED BY <2>1, <2>2
<1>8. th' \in [Core -> Record]
  <2>1. [r EXCEPT !.pc = label, !.why = None] \in Record
    BY <1>2, <1>3 DEF Record, LLCLabel
  <2> QED BY <1>1, <1>6, <2>1 DEF Typed
<1>9. LockStep(t)
  <2>1. \A k \in Line : Owns(t, k)' <=> Owns(t, k) \/ k = o
    BY <1>1, <1>2, <1>3, <1>7 DEF Owns
  <2> QED BY <1>1, <1>2, <2>1 DEF LockStep
<1>10. WordStep(t)
  <2>1. q.pc \notin Looking \cup {"finish", "idle"} /\ q.deep /\ r.pc # "finish" /\ q.pc # "write"
        /\ r.pc \notin Probing /\ q.pc \notin Probing
    BY <1>1, <1>2, <1>3, <1>7 DEF Looking, Probing
  <2>2. /\ r # Idle /\ q # Idle
        /\ \A z : /\ InSetL1(t, z)' \/ InSetLLC(t, z)' <=> InSetL1(t, z) \/ InSetLLC(t, z)
                  /\ ~Releases(t, z) /\ ~Releases(t, z)' /\ ~Probes(t, z) /\ ~Probes(t, z)'
    BY <1>2, <1>7, <2>1, StaysIn
  <2> QED BY <1>1, <2>2, KeepsSets
<1>11. Control(t)'
  <2>1. InLLC(t)'
    BY <1>1, <1>2, <1>3, <1>4, <1>7 DEF InLLC, LLCLabel, InProbe, Looking, ReadWrite
  <2> QED BY <2>1 DEF Control
<1>12. OwnL1(t)'
  BY <1>1, <1>3, <1>7 DEF OwnL1, Match
<1>13. OwnLLC(t)'
  <2>1. Ours(t)' /\ (Missed(t)' <=> Missed(t))
    BY <1>1, <1>2, <1>3, <1>4, <1>7 DEF Ours, Missed, InProbe, Looking, ReadWrite, label
  <2> QED BY <1>1, <1>2, <1>3, <1>7, <2>1 DEF OwnLLC, InProbe, Match
<1>14. Others(t)'
  <2>1. CASE label = "writeback"
    BY <1>1, <1>4, <1>5, <1>7, <2>1 DEF Others, InProbe, Probing, Match
  <2>2. CASE label = "grant"
    <3>1. b = r.addr
      BY <1>1, <1>2, <1>4, <2>2 DEF OwnLLC, Missed, InProbe, Match, label
    <3> QED BY <1>1, <1>4, <1>5, <1>7, <2>2, <3>1 DEF Others, InProbe, Probing, Match
  <2> QED BY <1>3, <2>1, <2>2
<1> QED BY <1>1, <1>6, <1>8, <1>9, <1>10, <1>11, <1>12, <1>13, <1>14, QuietStep DEF ThreadInv

LEMMA CopyLineStep ==
  ASSUME IInv, NEW t \in Core, CopyLine(t)
  PROVE  IInv' /\ LockedStep
<1> DEFINE r == th[t]
           q == th'[t]
           o == r.out
<1>1. /\ r.pc = "copy" /\ Goto(t, "fetch") /\ UNCHANGED <<meta, word, mem>>
      /\ lock' = [lock EXCEPT ![o] = None]
      /\ Typed /\ OwnL1(t) /\ OwnLLC(t)
  BY DEF CopyLine, IInv, ThreadInv
<1>2. r # Idle /\ r.deep /\ Ours(t) /\ InLLC(t) /\ o \in Line
  BY <1>1, WhereIs, OutLine
<1>3. /\ q.pc = "fetch" /\ q.op = r.op /\ q.addr = r.addr /\ q.deep = r.deep /\ q.act = r.act
      /\ q.line = r.line /\ q.out = r.out
      /\ th' \in [Core -> Record] /\ \A u \in Core \ {t} : th'[u] = th[u]
  BY <1>1, GotoIs DEF LLCLabel
<1>4. LockStep(t)
  <2>1. Owns(t, o) /\ \A k \in Line : Owns(t, k)' <=> Owns(t, k) /\ k # o
    BY <1>1, <1>2, <1>3 DEF Owns
  <2> QED BY <1>1, <1>2, <2>1 DEF LockStep
<1>5. WordStep(t)
  <2>1. q.pc \notin Looking \cup {"finish", "idle"} /\ q.deep /\ r.pc # "finish"
    BY <1>1, <1>2, <1>3 DEF Looking
  <2>2. /\ r # Idle /\ q # Idle
        /\ \A z : /\ InSetL1(t, z)' \/ InSetLLC(t, z)' <=> InSetL1(t, z) \/ InSetLLC(t, z)
                  /\ ~Releases(t, z) /\ ~Releases(t, z)' /\ ~Probes(t, z) /\ ~Probes(t, z)'
    BY <1>1, <1>2, <1>3, <2>1, StaysIn DEF Probing
  <2> QED BY <1>1, <2>2, KeepsSets
<1>6. Control(t)'
  BY <1>1, <1>2, <1>3 DEF Control, InLLC, LLCLabel, InProbe, Looking
<1>7. OwnL1(t)' /\ OwnLLC(t)' /\ Others(t)'
  BY <1>1, <1>2, <1>3 DEF OwnL1, OwnLLC, Others, Missed, Ours, InProbe, Probing, Match
<1> QED BY <1>1, <1>3, <1>4, <1>5, <1>6, <1>7, QuietStep DEF ThreadInv

(* What is fetched is up to date, for the LLC does not have the block.     *)
LEMMA FetchStep ==
  ASSUME IInv, NEW t \in Core, Fetch(t)
  PROVE  IInv' /\ LockedStep
<1> DEFINE r == th[t]
           q == th'[t]
           o == r.out
<1>1. /\ r.pc = "fetch" /\ UNCHANGED <<meta, lock, word, mem>>
      /\ th' = [th EXCEPT ![t].pc = "fill", ![t].data = mem[r.addr]]
      /\ Typed /\ OwnL1(t) /\ OwnLLC(t)
  BY DEF Fetch, IInv, ThreadInv
<1>2. r # Idle /\ r \in Record /\ r.deep /\ Ours(t) /\ InLLC(t) /\ r.addr \in Addr
  BY <1>1, WhereIs
<1>3. mem[r.addr] = TRUE
  <2>1. \A l \in Line : l[1] = LLC => ~Match(l, r.addr)
    BY <1>1, <1>2 DEF OwnLLC, Missed
  <2>2. mem[r.addr] /\ mem[r.addr] \in BOOLEAN
    BY <1>1, <1>2, <2>1 DEF IInv, Coherent, Backed, Typed
  <2> QED BY <2>2
<1>4. q = [r EXCEPT !.pc = "fill", !.data = TRUE] /\ \A u \in Core \ {t} : th'[u] = th[u]
  BY <1>1, <1>3 DEF Typed
<1>5. /\ q.pc = "fill" /\ q.op = r.op /\ q.addr = r.addr /\ q.deep = r.deep /\ q.act = r.act
      /\ q.line = r.line /\ q.out = r.out /\ q.data
      /\ q \in Record
  <2>1. PICK d \in BOOLEAN : d /\ q = [r EXCEPT !.pc = "fill", !.data = d]
    BY <1>4, Zenon
  <2> DEFINE e == [r EXCEPT !.pc = "fill", !.data = d]
  <2>2. /\ e.pc = "fill" /\ e.op = r.op /\ e.addr = r.addr /\ e.deep = r.deep /\ e.act = r.act
        /\ e.line = r.line /\ e.out = r.out /\ (e.data <=> d)
        /\ e \in Record
    <3>1. "fill" \in LLCLabel
      BY DEF LLCLabel
    <3>2. r \in Record /\ d \in BOOLEAN
      BY <1>2, <2>1
    <3> HIDE DEF r
    <3> QED BY <3>1, <3>2 DEF Record
  <2>3. q = e
    BY <2>1
  <2> HIDE DEF e
  <2> QED BY <2>1, <2>2, <2>3
<1>6. q \in Record
  BY <1>5
<1>7. th' \in [Core -> Record]
  BY <1>1, <1>4, <1>6 DEF Typed
<1>8. LockStep(t)
  BY <1>1, <1>5 DEF LockStep, Owns
<1>9. WordStep(t)
  <2>1. q.pc \notin Looking \cup {"finish", "idle"} /\ q.deep /\ r.pc # "finish"
    BY <1>1, <1>2, <1>5 DEF Looking
  <2>2. /\ r # Idle /\ q # Idle
        /\ \A z : /\ InSetL1(t, z)' \/ InSetLLC(t, z)' <=> InSetL1(t, z) \/ InSetLLC(t, z)
                  /\ ~Releases(t, z) /\ ~Releases(t, z)' /\ ~Probes(t, z) /\ ~Probes(t, z)'
    BY <1>1, <1>2, <1>5, <2>1, StaysIn DEF Probing
  <2> QED BY <1>1, <2>2, KeepsSets
<1>10. Control(t)'
  BY <1>1, <1>2, <1>5 DEF Control, InLLC, LLCLabel, InProbe, Looking
<1>11. OwnL1(t)' /\ OwnLLC(t)' /\ Others(t)'
  <2>1. OwnL1(t)'
    BY <1>1, <1>2, <1>5 DEF OwnL1, Match
  <2>2. OwnLLC(t)'
    BY <1>1, <1>2, <1>5 DEF OwnLLC, Missed, Ours, InProbe, Match
  <2>3. Others(t)'
    BY <1>1, <1>2, <1>5 DEF Others, InProbe, Probing, Match
  <2> QED BY <2>1, <2>2, <2>3
<1> QED BY <1>1, <1>4, <1>7, <1>8, <1>9, <1>10, <1>11, QuietStep DEF ThreadInv

----------------------------------------------------------------------------
(* The steps that change lines. *)

(* Two threads are never in the same set of the LLC. *)
LEMMA Alone ==
  ASSUME IInv, NEW t \in Core, NEW u \in Core \ {t}, Ours(t), Ours(u)
  PROVE  SetOf(LLC, th[t].addr) # SetOf(LLC, th[u].addr)
<1> SUFFICES ASSUME SetOf(LLC, th[t].addr) = SetOf(LLC, th[u].addr) PROVE FALSE
  OBVIOUS
<1> DEFINE s == SetOf(LLC, th[t].addr)
<1>1. s \in CacheSet /\ th[t] # Idle /\ th[u] # Idle
  BY OutLine, WhereIs
<1>2. acquire \in Reserved(t, s) /\ acquire \in Reserved(u, s)
  BY <1>1, ReservedAre DEF InSetLLC
<1> QED BY <1>1, <1>2 DEF IInv, Guarded, Words

(* A step is in the frame for others if no L1 gets a block, but for what   *)
(* t gets with the LLC's set reserved; if the LLC keeps its blocks and     *)
(* their sharers, but for that set; if the lines changed are those that t  *)
(* has locked or that nobody has; and if no line of the LLC is dropped     *)
(* from below a copy.                                                      *)
LEMMA FrameLines ==
  ASSUME IInv, NEW t \in Core, meta' \in [Line -> Meta],
         \A l \in Line, a \in Addr :
           l[1] # LLC /\ Holds(meta'[l], a)
           => \/ Match(l, a) /\ (AllowWrite(meta'[l]) => AllowWrite(meta[l]))
              \/ l[1] = t /\ Ours(t) /\ SetOf(LLC, a) = SetOf(LLC, th[t].addr),
         \A o \in Line :
           o[1] = LLC
           => \/ /\ meta'[o].addr = meta[o].addr /\ meta'[o].sharer = meta[o].sharer
                 /\ IsValid(meta'[o]) <=> IsValid(meta[o])
                 /\ meta'[o].st = "S" => meta[o].st = "S"
              \/ Ours(t) /\ <<o[1], o[2]>> = SetOf(LLC, th[t].addr),
         \A l \in Line : \/ meta'[l] \in {meta[l], [meta[l] EXCEPT !.data = FALSE]}
                         \/ lock[l] \in {t, None},
         \A o, l \in Line : o[1] = LLC /\ l[1] # LLC /\ IsValid(meta[l]) /\ Match(o, meta[l].addr)
                            => Holds(meta'[o], meta[l].addr)
  PROVE  \A u \in Core \ {t} : NoGain(t, u) /\ SetKept(u) /\ LineKept(u) /\ GoalKept(u)
<1> SUFFICES ASSUME NEW u \in Core \ {t}
             PROVE  NoGain(t, u) /\ SetKept(u) /\ LineKept(u) /\ GoalKept(u)
  OBVIOUS
<1>1. Ours(t) /\ Ours(u) => SetOf(LLC, th[t].addr) # SetOf(LLC, th[u].addr)
  BY Alone
<1>2. NoGain(t, u)
  BY <1>1 DEF NoGain
<1>3. SetKept(u)
  <2> SUFFICES ASSUME NEW o \in Line, Ours(u), <<o[1], o[2]>> = SetOf(LLC, th[u].addr)
               PROVE  /\ meta'[o].addr = meta[o].addr /\ meta'[o].sharer = meta[o].sharer
                      /\ IsValid(meta'[o]) <=> IsValid(meta[o])
                      /\ meta'[o].st = "S" => meta[o].st = "S"
    BY DEF SetKept
  <2>1. o[1] = LLC
    BY DEF SetOf
  <2> QED BY <1>1, <2>1
<1>4. LineKept(u)
  BY ParallelAssumption DEF LineKept
<1>5. GoalKept(u)
  <2> SUFFICES ASSUME th[u].pc = "write" PROVE Holds(meta'[th[u].out], meta'[th[u].line].addr)
    BY DEF GoalKept
  <2> DEFINE l == th[u].line
             o == th[u].out
  <2>1. OwnL1(u) /\ Typed /\ Locks
    BY DEF IInv, ThreadInv, Guarded
  <2>2. ~th[u].deep /\ th[u].pc # "idle" /\ th[u].pc \notin Looking
    BY WhereIs DEF Looking
  <2>3. l \in Line /\ l[1] = u /\ meta[l] \in Meta
    BY <2>2, OwnLine
  <2>4. o \in Line /\ o[1] = LLC /\ Match(o, meta[l].addr) /\ meta[l].dirty
    BY <2>1 DEF OwnL1
  <2>5. l[1] # LLC /\ IsValid(meta[l])
    BY <2>3, <2>4, DirtyValid, ParallelAssumption
  <2>6. lock[l] = u
    BY <2>1, <2>2, <2>3 DEF Locks, Owns
  <2>7. meta'[l] \in {meta[l], [meta[l] EXCEPT !.data = FALSE]}
    BY <1>4, <2>3, <2>6 DEF LineKept
  <2>8. meta'[l].addr = meta[l].addr
    BY <2>3, <2>7 DEF Meta
  <2> QED BY <2>3, <2>4, <2>5, <2>8
<1> QED BY <1>2, <1>3, <1>4, <1>5

(* A clean copy in an L1 can be dropped. *)
LEMMA EvictCleanStep ==
  ASSUME IInv, NEW t \in Core, th[t].pc = "evict", ~th[t].deep, ~meta[th[t].line].dirty,
         meta' = [meta EXCEPT ![th[t].line] = Empty],
         NEW act \in {"fetch_read", "fetch_write"}, AskLLC(t, act),
         th[t].op = "write" \/ Proto = "MI" => act = "fetch_write",
         UNCHANGED <<word, mem>>
  PROVE  IInv' /\ LockedStep
<1> DEFINE r == th[t]
           q == th'[t]
           l == r.line
<1>1. Typed /\ Coherent /\ OwnL1(t) /\ Locks
  BY DEF IInv, ThreadInv, Guarded
<1>2. l \in Line /\ l[1] = t /\ l[1] # LLC
  <2>1. r.pc # "idle" /\ r.pc \notin Looking
    BY DEF Looking
  <2> QED BY <2>1, OwnLine, ParallelAssumption
<1>3. /\ meta'[l] = Empty /\ \A k \in Line : k # l => meta'[k] = meta[k]
      /\ meta' \in [Line -> Meta]
  BY <1>1, <1>2, EmptyMeta DEF Typed
<1>4. ~IsValid(meta'[l]) /\ ~meta'[l].dirty
  BY <1>3, EmptyMeta
<1>5. Coherent'
  <2>1. Placed' /\ Unique' /\ OneWriter'
    BY <1>1, <1>3, <1>4 DEF Coherent, Placed, Unique, OneWriter
  <2>2. Included'
    <3> SUFFICES ASSUME NEW k \in Line, IsValid(meta'[k]), k[1] # LLC
                 PROVE  /\ meta'[k].data
                        /\ meta'[k].dirty \/ Proto = "MI" => AllowWrite(meta'[k])
                        /\ \E o \in Line :
                             /\ o[1] = LLC /\ Holds(meta'[o], meta'[k].addr)
                             /\ Directory => k[1] \in meta'[o].sharer
                             /\ AllowWrite(meta'[k]) => meta'[o].st # "S"
      BY DEF Included, Match, Holds
    <3>1. meta'[k] = meta[k]
      BY <1>3, <1>4
    <3>2. PICK o \in Line : /\ o[1] = LLC /\ Match(o, meta[k].addr)
                            /\ Directory => k[1] \in meta[o].sharer
                            /\ AllowWrite(meta[k]) => meta[o].st # "S"
      BY <1>1, <3>1 DEF Coherent, Included
    <3>3. meta'[o] = meta[o]
      BY <1>2, <1>3, <3>2
    <3> QED BY <1>1, <3>1, <3>2, <3>3 DEF Coherent, Included, Match, Holds
  <2>3. Backed'
    BY <1>1, <1>2, <1>3, <1>4 DEF Coherent, Backed, Match
  <2> QED BY <2>1, <2>2, <2>3 DEF Coherent
<1>6. \A k \in Line : k[1] = t => ~Match(k, r.addr)
  BY <1>1 DEF OwnL1
<1>7. /\ ThreadInv(t)' /\ LockStep(t)
      /\ \A z \in CacheSet : /\ InSetL1(t, z)' \/ InSetLLC(t, z)' <=> InSetL1(t, z) \/ InSetLLC(t, z)
                             /\ ~Probes(t, z) /\ ~Probes(t, z)' /\ ~Releases(t, z)'
  BY <1>3, <1>4, <1>6, AskRelies DEF Match, Holds
<1>8. /\ th' \in [Core -> Record] /\ \A u \in Core \ {t} : th'[u] = th[u]
      /\ q # Idle /\ r # Idle
  BY <1>1, AskIs, WhereIs
<1>9. WordStep(t)
  <2>1. \A z : ~Releases(t, z)
    BY DEF Releases
  <2> QED BY <1>7, <1>8, <2>1, KeepsSets
<1>10. \A u \in Core \ {t} : Still(u) /\ NoGain(t, u) /\ SetKept(u) /\ LineKept(u) /\ GoalKept(u)
  <2>1. lock[l] = t
    BY <1>1, <1>2 DEF Locks, Owns
  <2>2. \A u \in Core \ {t} : NoGain(t, u) /\ SetKept(u) /\ LineKept(u) /\ GoalKept(u)
    BY <1>2, <1>3, <1>4, <2>1, FrameLines DEF Holds, Match
  <2> QED BY <1>8, <2>2 DEF Still
<1> QED BY <1>1, <1>3, <1>5, <1>7, <1>8, <1>9, <1>10, Combine DEF Typed

(* The content of a line and that it is dirty. *)
LEMMA WrittenMeta ==
  ASSUME NEW m \in Meta, NEW d \in BOOLEAN
  PROVE  LET n == ToDirty([m EXCEPT !.data = d])
         IN  /\ n \in Meta
             /\ n.st = m.st /\ n.addr = m.addr /\ n.outer = m.outer /\ n.sharer = m.sharer
             /\ n.dirty /\ (n.data <=> d)
<1>1. PICK b \in BOOLEAN : b
  OBVIOUS
<1> DEFINE n == [[m EXCEPT !.data = d] EXCEPT !.dirty = b]
<1>2. /\ n \in Meta
      /\ n.st = m.st /\ n.addr = m.addr /\ n.outer = m.outer /\ n.sharer = m.sharer
      /\ (n.dirty <=> b) /\ (n.data <=> d)
  BY DEF Meta
<1>3. ToDirty([m EXCEPT !.data = d]) = n
  <2>1. b = TRUE
    BY <1>1
  <2> QED BY <2>1 DEF ToDirty
<1> HIDE DEF n
<1> QED BY <1>1, <1>2, <1>3

(* A dirty copy is the only one, and up to date. *)
LEMMA DirtyAlone ==
  ASSUME IInv, NEW l \in Line, l[1] # LLC, meta[l].dirty
  PROVE  /\ meta[l].data
         /\ \A k \in Line : k[1] # LLC /\ Match(k, meta[l].addr) => k = l
<1>1. IsValid(meta[l])
  BY DirtyValid
<1>2. meta[l].data /\ AllowWrite(meta[l])
  BY <1>1 DEF IInv, Coherent, Included
<1>3. ASSUME NEW k \in Line, k[1] # LLC, Match(k, meta[l].addr)
      PROVE  k = l
  BY <1>1, <1>2, <1>3 DEF IInv, Coherent, OneWriter, Unique, Match
<1> QED BY <1>2, <1>3

(* A dirty copy can be released to the line of the LLC below it.           *)
LEMMA ReleaseRespStep ==
  ASSUME IInv, NEW t \in Core, ReleaseResp(t)
  PROVE  IInv' /\ LockedStep
<1> DEFINE r == th[t]
           q == th'[t]
           l == r.line
           o == r.out
           a == meta[l].addr
           s == SetOf(LLC, a)
           n == ToDirty([ToModified(meta[o], NoId) EXCEPT !.data = meta[l].data])
           act == CmdForOuterAcquire(Cmd(t))
<1>1. /\ Typed /\ Coherent /\ OwnL1(t) /\ Locks
      /\ r.pc = "write" /\ Free(o) /\ word' = [word EXCEPT ![s] = @ \ {release}] /\ UNCHANGED mem
  BY DEF IInv, ThreadInv, Guarded, ReleaseResp
<1>2. /\ r # Idle /\ ~r.deep /\ InL1(t) /\ l \in Line /\ l[1] = t /\ l[1] # LLC /\ meta[l] \in Meta
  <2>1. r.pc # "idle" /\ r.pc \notin Looking
    BY <1>1 DEF Looking
  <2> QED BY <1>1, <2>1, WhereIs, OwnLine, ParallelAssumption
<1>3. /\ o \in Line /\ o[1] = LLC /\ Match(o, a) /\ meta[l].dirty /\ meta[o] \in Meta
      /\ IsValid(meta[l]) /\ a \in Addr /\ o # l
  <2>1. o \in Line /\ o[1] = LLC /\ Match(o, a) /\ meta[l].dirty
    BY <1>1 DEF OwnL1
  <2> QED BY <1>1, <1>2, <2>1, DirtyValid DEF Typed
<1>4. meta' = [meta EXCEPT ![l] = Empty, ![o] = n] /\ AskLLC(t, act)
  BY <1>2, <1>3 DEF ReleaseResp
<1>5. /\ n \in Meta /\ IsValid(n) /\ n.st = "M" /\ n.addr = a /\ n.sharer = meta[o].sharer
      /\ n.dirty /\ n.data
  <2> DEFINE m == ToModified(meta[o], NoId)
  <2>1. m \in Meta /\ m.st = "M" /\ m.addr = meta[o].addr /\ m.sharer = meta[o].sharer
    BY <1>3, ModifiedMeta
  <2>2. meta[l].data /\ meta[l].data \in BOOLEAN
    BY <1>2, <1>3, DirtyAlone DEF Meta
  <2> HIDE DEF m
  <2>3. /\ n \in Meta /\ n.st = m.st /\ n.addr = m.addr /\ n.sharer = m.sharer
        /\ n.dirty /\ (n.data <=> meta[l].data)
    BY <2>1, <2>2, WrittenMeta DEF m
  <2> QED BY <1>3, <2>1, <2>2, <2>3 DEF IsValid, Match
<1>6. act \in {"fetch_read", "fetch_write"} /\ (r.op = "write" \/ Proto = "MI" => act = "fetch_write")
  BY DEF CmdForOuterAcquire, Cmd, Acquire, IsWrite
<1> HIDE DEF n, act
<1>7. /\ meta'[l] = Empty /\ meta'[o] = n /\ \A k \in Line \ {l, o} : meta'[k] = meta[k]
      /\ meta' \in [Line -> Meta] /\ ~IsValid(meta'[l])
  BY <1>1, <1>2, <1>3, <1>4, <1>5, EmptyMeta DEF Typed
<1>8. \A k \in Line : k[1] # LLC /\ Match(k, a) => k = l
  BY <1>2, <1>3, DirtyAlone
<1>9. Coherent'
  <2>1. Placed' /\ Unique'
    BY <1>1, <1>3, <1>5, <1>7 DEF Coherent, Placed, Unique, Match
  <2>2. OneWriter'
    BY <1>1, <1>3, <1>7 DEF Coherent, OneWriter
  <2>3. Included'
    <3> SUFFICES ASSUME NEW k \in Line, IsValid(meta'[k]), k[1] # LLC
                 PROVE  /\ meta'[k].data
                        /\ meta'[k].dirty \/ Proto = "MI" => AllowWrite(meta'[k])
                        /\ \E x \in Line :
                             /\ x[1] = LLC /\ Holds(meta'[x], meta'[k].addr)
                             /\ Directory => k[1] \in meta'[x].sharer
                             /\ AllowWrite(meta'[k]) => meta'[x].st # "S"
      BY DEF Included, Match, Holds
    <3>1. meta'[k] = meta[k] /\ k # l
      BY <1>3, <1>7
    <3>2. PICK x \in Line : /\ x[1] = LLC /\ Match(x, meta[k].addr)
                            /\ Directory => k[1] \in meta[x].sharer
                            /\ AllowWrite(meta[k]) => meta[x].st # "S"
      BY <1>1, <3>1 DEF Coherent, Included
    <3>3. x # o
      BY <1>3, <1>8, <3>1, <3>2 DEF Match
    <3>4. meta'[x] = meta[x]
      BY <1>2, <1>7, <3>2, <3>3
    <3> QED BY <1>1, <3>1, <3>2, <3>4 DEF Coherent, Included, Match, Holds
  <2>4. Backed'
    <3>1. ASSUME NEW x \in Line, x[1] = LLC, IsValid(meta'[x])
          PROVE  /\ meta'[x].dirty \/ meta'[x].data = mem'[meta'[x].addr]
                 /\ meta'[x].data \/ \E k \in Line : k[1] # LLC /\ Holds(meta'[k], meta'[x].addr) /\ meta'[k].dirty
      <4>1. CASE x = o
        BY <1>5, <1>7, <4>1
      <4>2. CASE x # o
        <5>1. meta'[x] = meta[x]
          BY <1>2, <1>7, <3>1, <4>2
        <5>2. meta[x].addr # a
          BY <1>1, <1>3, <3>1, <4>2, <5>1 DEF Coherent, Unique, Match
        <5>3. \A k \in Line : k[1] # LLC /\ Match(k, meta[x].addr) => meta'[k] = meta[k]
          BY <1>3, <1>7, <5>2 DEF Match
        <5> QED BY <1>1, <3>1, <5>1, <5>3 DEF Coherent, Backed, Match, Holds
      <4> QED BY <4>1, <4>2
    <3>2. ASSUME NEW b \in Addr
          PROVE  mem'[b] \/ \E x \in Line : x[1] = LLC /\ Holds(meta'[x], b)
      <4>1. \A x \in Line : x[1] = LLC /\ Match(x, b) => Holds(meta'[x], b)
        BY <1>2, <1>3, <1>5, <1>7 DEF Match, Holds
      <4> QED BY <1>1, <4>1 DEF Coherent, Backed
    <3> QED BY <3>1, <3>2 DEF Backed, Match, Holds
  <2> QED BY <2>1, <2>2, <2>3, <2>4 DEF Coherent
<1>10. \A k \in Line : k[1] = t => ~Match(k, r.addr)
  BY <1>1, <1>2 DEF OwnL1
<1>11. /\ ThreadInv(t)' /\ LockStep(t)
       /\ \A z \in CacheSet : /\ InSetL1(t, z)' \/ InSetLLC(t, z)' <=> InSetL1(t, z) \/ InSetLLC(t, z)
                              /\ ~Probes(t, z) /\ ~Probes(t, z)' /\ ~Releases(t, z)'
  <2>1. \A k \in Line : k[1] = t => ~Holds(meta'[k], r.addr)
    BY <1>3, <1>7, <1>10, ParallelAssumption DEF Match, Holds
  <2> QED BY <1>1, <1>2, <1>4, <1>6, <1>7, <2>1, AskRelies
<1>12. /\ th' \in [Core -> Record] /\ \A u \in Core \ {t} : th'[u] = th[u]
       /\ q # Idle
  BY <1>1, <1>4, <1>6, AskIs
<1>13. WordStep(t)
  <2>1. \A z : Releases(t, z) <=> z = s
    BY <1>1 DEF Releases
  <2>2. s \in CacheSet
    BY <1>3 DEF CacheSet, Cache
  <2> QED BY <1>1, <1>2, <1>11, <1>12, <2>1, <2>2, ReleasesSet
<1>14. \A u \in Core \ {t} : Still(u) /\ NoGain(t, u) /\ SetKept(u) /\ LineKept(u) /\ GoalKept(u)
  <2>1. lock[l] = t /\ lock[o] = None
    BY <1>1, <1>2 DEF Locks, Owns, Free
  <2>2. \A k \in Line, b \in Addr : k[1] # LLC /\ Holds(meta'[k], b)
          => Match(k, b) /\ (AllowWrite(meta'[k]) => AllowWrite(meta[k]))
    BY <1>3, <1>7 DEF Match, Holds
  <2>3. \A x \in Line : x[1] = LLC =>
          /\ meta'[x].addr = meta[x].addr /\ meta'[x].sharer = meta[x].sharer
          /\ IsValid(meta'[x]) <=> IsValid(meta[x])
          /\ meta'[x].st = "S" => meta[x].st = "S"
    BY <1>2, <1>3, <1>5, <1>7 DEF Match
  <2>4. \A k \in Line : meta'[k] \in {meta[k], [meta[k] EXCEPT !.data = FALSE]} \/ lock[k] \in {t, None}
    BY <1>7, <2>1
  <2>5. \A x, k \in Line : x[1] = LLC /\ k[1] # LLC /\ IsValid(meta[k]) /\ Match(x, meta[k].addr)
                           => Holds(meta'[x], meta[k].addr)
    BY <2>3 DEF Match, Holds
  <2>6. \A u \in Core \ {t} : NoGain(t, u) /\ SetKept(u) /\ LineKept(u) /\ GoalKept(u)
    BY <1>7, <2>2, <2>3, <2>4, <2>5, FrameLines
  <2> QED BY <1>12, <2>6 DEF Still
<1> QED BY <1>1, <1>7, <1>9, <1>11, <1>12, <1>13, <1>14, Combine DEF Typed

(* A line of the LLC is dropped after its content has been written to the  *)
(* memory, when no L1 has a copy.                                          *)
LEMMA WriteBackStep ==
  ASSUME IInv, NEW t \in Core, WriteBack(t)
  PROVE  IInv' /\ LockedStep
<1> DEFINE r == th[t]
           q == th'[t]
           o == r.out
           b == meta[o].addr
           d == IF meta[o].dirty THEN meta[o].data ELSE mem[b]
<1>1. /\ Typed /\ Coherent /\ OwnL1(t) /\ OwnLLC(t) /\ Others(t) /\ Locks
      /\ r.pc = "writeback" /\ meta' = [meta EXCEPT ![o] = Empty]
      /\ mem' = [mem EXCEPT ![b] = d]
  BY DEF IInv, ThreadInv, Guarded, WriteBack, IsDirty
<1>2. /\ r # Idle /\ r.deep /\ Ours(t) /\ InLLC(t) /\ r.addr \in Addr
      /\ Here(t) = SetOf(LLC, r.addr) /\ Here(t) \in CacheSet
      /\ o \in Line /\ o[1] = LLC /\ meta[o] \in Meta /\ <<o[1], o[2]>> = SetOf(LLC, r.addr)
  BY <1>1, WhereIs, OutLine
<1>3. IsValid(meta[o]) /\ b \in Addr
  BY <1>1, <1>2 DEF OwnLLC, Coherent, Placed
<1>4. \A l \in Line : l[1] # LLC => ~Match(l, b)
  BY <1>1 DEF Others
<1>5. meta[o].data /\ d
  <2>1. meta[o].data
    BY <1>1, <1>2, <1>3, <1>4 DEF Coherent, Backed
  <2> QED BY <1>1, <1>2, <1>3, <2>1 DEF Coherent, Backed
<1>6. /\ meta'[o] = Empty /\ \A k \in Line \ {o} : meta'[k] = meta[k]
      /\ meta' \in [Line -> Meta] /\ ~IsValid(meta'[o])
  BY <1>1, <1>2, EmptyMeta DEF Typed
<1>7. mem' \in [Addr -> BOOLEAN] /\ mem'[b] /\ \A a \in Addr \ {b} : mem'[a] = mem[a]
  <2>1. d \in BOOLEAN
    BY <1>1, <1>2, <1>3 DEF Typed, Meta
  <2> HIDE DEF d
  <2> QED BY <1>1, <1>3, <1>5, <2>1 DEF Typed
<1>8. Coherent'
  <2>1. Placed' /\ Unique' /\ OneWriter'
    BY <1>1, <1>6 DEF Coherent, Placed, Unique, OneWriter
  <2>2. Included'
    <3> SUFFICES ASSUME NEW k \in Line, IsValid(meta'[k]), k[1] # LLC
                 PROVE  /\ meta'[k].data
                        /\ meta'[k].dirty \/ Proto = "MI" => AllowWrite(meta'[k])
                        /\ \E x \in Line :
                             /\ x[1] = LLC /\ Holds(meta'[x], meta'[k].addr)
                             /\ Directory => k[1] \in meta'[x].sharer
                             /\ AllowWrite(meta'[k]) => meta'[x].st # "S"
      BY DEF Included, Match, Holds
    <3>1. meta'[k] = meta[k]
      BY <1>6
    <3>2. PICK x \in Line : /\ x[1] = LLC /\ Match(x, meta[k].addr)
                            /\ Directory => k[1] \in meta[x].sharer
                            /\ AllowWrite(meta[k]) => meta[x].st # "S"
      BY <1>1, <3>1 DEF Coherent, Included
    <3>3. x # o
      BY <1>4, <3>1, <3>2 DEF Match
    <3>4. meta'[x] = meta[x]
      BY <1>6, <3>3
    <3> QED BY <1>1, <3>1, <3>2, <3>4 DEF Coherent, Included, Match, Holds
  <2>3. Backed'
    <3>1. ASSUME NEW x \in Line, x[1] = LLC, IsValid(meta'[x])
          PROVE  /\ meta'[x].dirty \/ meta'[x].data = mem'[meta'[x].addr]
                 /\ meta'[x].data \/ \E k \in Line : k[1] # LLC /\ Holds(meta'[k], meta'[x].addr) /\ meta'[k].dirty
      <4>1. x # o /\ meta'[x] = meta[x] /\ IsValid(meta[x])
        BY <1>6, <3>1
      <4>2. meta[x].addr \in Addr \ {b}
        BY <1>1, <1>2, <1>3, <3>1, <4>1 DEF Coherent, Placed, Unique
      <4>3. \A k \in Line : k[1] # LLC => meta'[k] = meta[k]
        BY <1>2, <1>6
      <4>4. /\ meta[x].dirty \/ meta[x].data = mem[meta[x].addr]
            /\ meta[x].data \/ \E k \in Line : k[1] # LLC /\ Match(k, meta[x].addr) /\ meta[k].dirty
        BY <1>1, <3>1, <4>1 DEF Coherent, Backed
      <4>5. mem'[meta[x].addr] = mem[meta[x].addr]
        BY <1>7, <4>2
      <4> QED BY <4>1, <4>3, <4>4, <4>5 DEF Match, Holds
    <3>2. ASSUME NEW a \in Addr
          PROVE  mem'[a] \/ \E x \in Line : x[1] = LLC /\ Holds(meta'[x], a)
      <4>1. CASE a = b
        BY <1>7, <4>1
      <4>2. CASE a # b
        <5>1. \A x \in Line : x[1] = LLC /\ Match(x, a) => Holds(meta'[x], a)
          BY <1>6, <4>2 DEF Match, Holds
        <5> QED BY <1>1, <1>7, <4>2, <5>1 DEF Coherent, Backed
      <4> QED BY <4>1, <4>2
    <3> QED BY <3>1, <3>2 DEF Backed, Match, Holds
  <2> QED BY <2>1, <2>2, <2>3 DEF Coherent
<1>9. ASSUME \A u \in Core \ {t} : th'[u] = th[u]
      PROVE  \A u \in Core \ {t} : Still(u) /\ NoGain(t, u) /\ SetKept(u) /\ LineKept(u) /\ GoalKept(u)
  <2>1. lock[o] = t
    BY <1>1, <1>2 DEF Locks, Owns
  <2>2. \A k \in Line, a \in Addr : k[1] # LLC /\ Holds(meta'[k], a)
          => Match(k, a) /\ (AllowWrite(meta'[k]) => AllowWrite(meta[k]))
    BY <1>6 DEF Match, Holds
  <2>3. \A x \in Line : x[1] = LLC =>
          \/ /\ meta'[x].addr = meta[x].addr /\ meta'[x].sharer = meta[x].sharer
             /\ IsValid(meta'[x]) <=> IsValid(meta[x])
             /\ meta'[x].st = "S" => meta[x].st = "S"
          \/ Ours(t) /\ <<x[1], x[2]>> = SetOf(LLC, r.addr)
    BY <1>2, <1>6
  <2>4. \A k \in Line : meta'[k] \in {meta[k], [meta[k] EXCEPT !.data = FALSE]} \/ lock[k] \in {t, None}
    BY <1>6, <2>1
  <2>5. \A x, k \in Line : x[1] = LLC /\ k[1] # LLC /\ IsValid(meta[k]) /\ Match(x, meta[k].addr)
                           => Holds(meta'[x], meta[k].addr)
    BY <1>4, <1>6 DEF Match, Holds
  <2>6. \A u \in Core \ {t} : NoGain(t, u) /\ SetKept(u) /\ LineKept(u) /\ GoalKept(u)
    BY <1>6, <2>2, <2>3, <2>4, <2>5, FrameLines
  <2> QED BY <1>9, <2>6 DEF Still
<1> HIDE DEF d
<1>10. CASE /\ r.op = "flush" /\ lock' = [lock EXCEPT ![o] = None]
            /\ word' = [word EXCEPT ![Here(t)] = @ \ {acquire}] /\ th' = [th EXCEPT ![t] = Idle]
  <2>1. th' \in [Core -> Record] /\ (\A u \in Core \ {t} : th'[u] = th[u]) /\ q = Idle
    BY <1>1, <1>10, IdleRelies DEF Typed
  <2>2. LockStep(t)
    <3>1. Owns(t, o) /\ \A l \in Line : Owns(t, l) => l = o
      BY <1>1, <1>2 DEF Owns
    <3>2. \A l : ~Owns(t, l)'
      BY <2>1, IdleRelies
    <3> QED BY <1>2, <1>10, <3>1, <3>2 DEF LockStep
  <2>3. WordStep(t)
    <3>1. \A z : /\ ~InSetL1(t, z) /\ ~Probes(t, z) /\ ~Releases(t, z)
                 /\ InSetLLC(t, z) <=> z = Here(t)
      BY <1>1, <1>2, <1>10 DEF InSetL1, InSetLLC, Probes, Releases, Probing, ReadWrite
    <3> QED BY <1>2, <1>10, <2>1, <3>1, IdleRelies, GivesAcquire
  <2> QED BY <1>6, <1>7, <1>8, <1>9, <2>1, <2>2, <2>3, IdleRelies, Combine
<1>11. CASE r.op # "flush" /\ Goto(t, "copy") /\ UNCHANGED <<lock, word>>
  <2>1. /\ q.pc = "copy" /\ q.op = r.op /\ q.addr = r.addr /\ q.deep = r.deep /\ q.act = r.act
        /\ q.line = r.line /\ q.out = r.out
        /\ th' \in [Core -> Record] /\ \A u \in Core \ {t} : th'[u] = th[u]
    BY <1>1, <1>11, GotoIs DEF LLCLabel
  <2>2. LockStep(t)
    BY <1>1, <1>11, <2>1 DEF LockStep, Owns
  <2>3. WordStep(t)
    <3>1. q.pc \notin Looking \cup {"finish", "idle"} /\ q.deep /\ r.pc # "finish"
      BY <1>1, <1>2, <2>1 DEF Looking
    <3>2. /\ r # Idle /\ q # Idle
          /\ \A z : /\ InSetL1(t, z)' \/ InSetLLC(t, z)' <=> InSetL1(t, z) \/ InSetLLC(t, z)
                    /\ ~Releases(t, z) /\ ~Releases(t, z)' /\ ~Probes(t, z) /\ ~Probes(t, z)'
      BY <1>1, <1>2, <2>1, <3>1, StaysIn DEF Probing
    <3> QED BY <1>11, <3>2, KeepsSets
  <2>4. Control(t)'
    BY <1>1, <1>2, <1>11, <2>1 DEF Control, InLLC, LLCLabel, InProbe, Looking
  <2>5. \A k \in Line : k[1] # LLC => meta'[k] = meta[k]
    BY <1>2, <1>6
  <2>6. OwnL1(t)'
    <3>1. r.op \in ReadWrite => r.line \in Line /\ r.line[1] # LLC
      BY <1>1, <1>2, OwnLine, ParallelAssumption
    <3> QED BY <1>1, <1>2, <2>1, <2>5, <3>1, ParallelAssumption DEF OwnL1, Match
  <2>7. OwnLLC(t)'
    <3>1. \A l \in Line : l[1] = LLC => ~Holds(meta'[l], r.addr)
      BY <1>1, <1>2, <1>6, <1>11 DEF OwnLLC, Missed, Match, Holds
    <3> QED BY <1>6, <2>1, <3>1 DEF OwnLLC, Missed, InProbe, Match, Holds
  <2>8. Others(t)'
    BY <2>1 DEF Others, InProbe, Probing
  <2> QED BY <1>6, <1>7, <1>8, <1>9, <2>1, <2>2, <2>3, <2>4, <2>6, <2>7, <2>8, Combine DEF ThreadInv
<1> QED BY <1>10, <1>11 DEF WriteBack

(* A block is filled into the LLC that neither the LLC nor any L1 has.     *)
LEMMA FillStep ==
  ASSUME IInv, NEW t \in Core, Fill(t)
  PROVE  IInv' /\ LockedStep
<1> DEFINE r == th[t]
           q == th'[t]
           o == r.out
           a == r.addr
           act == IF r.op = "prefetch" THEN "prefetch" ELSE CmdForOuterAcquire(Acquire(r.act))
           m == [Empty EXCEPT !.addr = a, !.data = r.data, !.outer = "M"]
           n == MetaAfterFetch(act, m)
<1>1. /\ Typed /\ Coherent /\ OwnL1(t) /\ OwnLLC(t) /\ Locks
      /\ r.pc = "fill" /\ Free(o) /\ meta' = [meta EXCEPT ![o] = n] /\ UNCHANGED mem
  BY DEF IInv, ThreadInv, Guarded, Fill
<1>2. /\ r # Idle /\ r \in Record /\ r.deep /\ Ours(t) /\ InLLC(t) /\ a \in Addr
      /\ Here(t) = SetOf(LLC, a) /\ Here(t) \in CacheSet
      /\ o \in Line /\ o[1] = LLC /\ o \in LinesOf(LLC, a) /\ <<o[1], o[2]>> = SetOf(LLC, a)
  BY <1>1, WhereIs, OutLine
<1>3. /\ ~IsValid(meta[o]) /\ r.data
      /\ \A l \in Line : l[1] = LLC => ~Match(l, a)
  BY <1>1, <1>2 DEF OwnLLC, Missed
<1>4. \A l \in Line : l[1] # LLC => ~Match(l, a)
  BY <1>1, <1>3 DEF Coherent, Included, Match
<1>5. mem[a]
  BY <1>1, <1>2, <1>3 DEF Coherent, Backed
<1>6. n \in Meta /\ IsValid(n) /\ n.addr = a /\ ~n.dirty /\ n.data
  <2>1. act \in AcquireAct
    BY DEF CmdForOuterAcquire, Acquire, IsWrite, AcquireAct
  <2>2. PICK d \in BOOLEAN : d /\ r.data = d
    BY <1>2, <1>3 DEF Record
  <2> DEFINE e == [Empty EXCEPT !.addr = a, !.data = d, !.outer = "M"]
  <2>3. e \in Meta /\ e.addr = a /\ ~e.dirty /\ (e.data <=> d)
    BY <1>2 DEF Empty, Meta, State
  <2>4. m = e
    BY <2>2
  <2> HIDE DEF act, m, e
  <2> QED BY <2>1, <2>2, <2>3, <2>4, FetchedMeta
<1> HIDE DEF n
<1>7. /\ meta'[o] = n /\ \A k \in Line \ {o} : meta'[k] = meta[k]
      /\ meta' \in [Line -> Meta]
  BY <1>1, <1>2, <1>6 DEF Typed
<1>8. Coherent'
  <2>1. Placed'
    BY <1>1, <1>2, <1>6, <1>7 DEF Coherent, Placed
  <2>2. Unique'
    BY <1>1, <1>2, <1>3, <1>6, <1>7 DEF Coherent, Unique, Match
  <2>3. OneWriter'
    BY <1>1, <1>2, <1>7 DEF Coherent, OneWriter
  <2>4. Included'
    <3> SUFFICES ASSUME NEW k \in Line, IsValid(meta'[k]), k[1] # LLC
                 PROVE  /\ meta'[k].data
                        /\ meta'[k].dirty \/ Proto = "MI" => AllowWrite(meta'[k])
                        /\ \E x \in Line :
                             /\ x[1] = LLC /\ Holds(meta'[x], meta'[k].addr)
                             /\ Directory => k[1] \in meta'[x].sharer
                             /\ AllowWrite(meta'[k]) => meta'[x].st # "S"
      BY DEF Included, Match, Holds
    <3>1. meta'[k] = meta[k]
      BY <1>2, <1>7
    <3>2. PICK x \in Line : /\ x[1] = LLC /\ Match(x, meta[k].addr)
                            /\ Directory => k[1] \in meta[x].sharer
                            /\ AllowWrite(meta[k]) => meta[x].st # "S"
      BY <1>1, <3>1 DEF Coherent, Included
    <3>3. meta'[x] = meta[x]
      BY <1>3, <1>7, <3>2 DEF Match
    <3> QED BY <1>1, <3>1, <3>2, <3>3 DEF Coherent, Included, Match, Holds
  <2>5. Backed'
    <3>1. ASSUME NEW x \in Line, x[1] = LLC, IsValid(meta'[x])
          PROVE  /\ meta'[x].dirty \/ meta'[x].data = mem'[meta'[x].addr]
                 /\ meta'[x].data \/ \E k \in Line : k[1] # LLC /\ Holds(meta'[k], meta'[x].addr) /\ meta'[k].dirty
      <4>1. CASE x = o
        <5>1. n.data = TRUE /\ mem[a] = TRUE
          BY <1>1, <1>2, <1>5, <1>6 DEF Typed, Meta
        <5> QED BY <1>1, <1>6, <1>7, <4>1, <5>1
      <4>2. CASE x # o
        <5>1. meta'[x] = meta[x] /\ \A k \in Line : k[1] # LLC => meta'[k] = meta[k]
          BY <1>2, <1>7, <4>2
        <5> QED BY <1>1, <3>1, <5>1 DEF Coherent, Backed, Match, Holds
      <4> QED BY <4>1, <4>2
    <3>2. ASSUME NEW b \in Addr
          PROVE  mem'[b] \/ \E x \in Line : x[1] = LLC /\ Holds(meta'[x], b)
      <4>1. \A x \in Line : x[1] = LLC /\ Match(x, b) => Holds(meta'[x], b)
        BY <1>3, <1>7 DEF Match, Holds
      <4> QED BY <1>1, <4>1 DEF Coherent, Backed
    <3> QED BY <3>1, <3>2 DEF Backed, Match, Holds
  <2> QED BY <2>1, <2>2, <2>3, <2>4, <2>5 DEF Coherent
<1>9. ASSUME \A u \in Core \ {t} : th'[u] = th[u]
      PROVE  \A u \in Core \ {t} : Still(u) /\ NoGain(t, u) /\ SetKept(u) /\ LineKept(u) /\ GoalKept(u)
  <2>1. \A k \in Line, b \in Addr : k[1] # LLC /\ Holds(meta'[k], b)
          => Match(k, b) /\ (AllowWrite(meta'[k]) => AllowWrite(meta[k]))
    BY <1>2, <1>7 DEF Match, Holds
  <2>2. \A x \in Line : x[1] = LLC =>
          \/ /\ meta'[x].addr = meta[x].addr /\ meta'[x].sharer = meta[x].sharer
             /\ IsValid(meta'[x]) <=> IsValid(meta[x])
             /\ meta'[x].st = "S" => meta[x].st = "S"
          \/ Ours(t) /\ <<x[1], x[2]>> = SetOf(LLC, r.addr)
    BY <1>2, <1>7
  <2>3. \A k \in Line : meta'[k] \in {meta[k], [meta[k] EXCEPT !.data = FALSE]} \/ lock[k] \in {t, None}
    BY <1>1, <1>7 DEF Free
  <2>4. \A x, k \in Line : x[1] = LLC /\ k[1] # LLC /\ IsValid(meta[k]) /\ Match(x, meta[k].addr)
                           => Holds(meta'[x], meta[k].addr)
    BY <1>3, <1>7 DEF Match, Holds
  <2>5. \A u \in Core \ {t} : NoGain(t, u) /\ SetKept(u) /\ LineKept(u) /\ GoalKept(u)
    BY <1>7, <2>1, <2>2, <2>3, <2>4, FrameLines
  <2> QED BY <1>9, <2>5 DEF Still
<1> DEFINE label == IF r.op = "prefetch" THEN "finish" ELSE "grant"
<1>10. /\ lock' = [lock EXCEPT ![o] = t] /\ UNCHANGED word
       /\ th' = [th EXCEPT ![t].pc = label, ![t].data = FALSE]
  BY DEF Fill
<1>11. q = [r EXCEPT !.pc = label, !.data = FALSE] /\ \A u \in Core \ {t} : th'[u] = th[u]
  BY <1>1, <1>10 DEF Typed
<1>12. /\ q.pc = label /\ q.op = r.op /\ q.addr = r.addr /\ q.deep = r.deep /\ q.act = r.act
       /\ q.line = r.line /\ q.out = r.out /\ q \in Record
  <2>1. PICK d \in BOOLEAN, lb \in {"finish", "grant"} : lb = label /\ q = [r EXCEPT !.pc = lb, !.data = d]
    BY <1>11, Zenon
  <2> DEFINE e == [r EXCEPT !.pc = lb, !.data = d]
  <2>2. /\ e.pc = lb /\ e.op = r.op /\ e.addr = r.addr /\ e.deep = r.deep /\ e.act = r.act
        /\ e.line = r.line /\ e.out = r.out /\ e \in Record
    <3>1. lb \in LLCLabel
      BY <2>1 DEF LLCLabel
    <3>2. r \in Record /\ d \in BOOLEAN
      BY <1>2, <2>1
    <3> HIDE DEF r
    <3> QED BY <3>1, <3>2 DEF Record
  <2>3. q = e
    BY <2>1
  <2> HIDE DEF e
  <2> QED BY <2>1, <2>2, <2>3
<1>13. th' \in [Core -> Record]
  BY <1>1, <1>10, <1>11, <1>12 DEF Typed
<1>14. LockStep(t)
  <2>1. \A k \in Line : Owns(t, k)' <=> Owns(t, k) \/ k = o
    BY <1>1, <1>2, <1>12 DEF Owns
  <2> QED BY <1>1, <1>2, <1>10, <2>1 DEF LockStep
<1>15. WordStep(t)
  <2>1. /\ r # Idle /\ q # Idle
        /\ \A z : /\ InSetL1(t, z)' \/ InSetLLC(t, z)' <=> InSetL1(t, z) \/ InSetLLC(t, z)
                  /\ ~Releases(t, z) /\ ~Releases(t, z)' /\ ~Probes(t, z) /\ ~Probes(t, z)'
    <3>1. CASE r.op = "prefetch"
      <4>1. r # Idle /\ q # Idle
        BY <1>1, <1>2, <1>12, <3>1 DEF Idle
      <4> QED BY <1>1, <1>2, <1>12, <3>1, <4>1
              DEF InSetL1, InSetLLC, Ours, Probes, Releases, Probing, ReadWrite, Looking
    <3>2. CASE r.op # "prefetch"
      <4>1. q.pc \notin Looking \cup {"finish", "idle"} /\ q.deep /\ r.pc # "finish"
        BY <1>1, <1>2, <1>12, <3>2 DEF Looking
      <4> QED BY <1>1, <1>2, <1>12, <3>2, <4>1, StaysIn DEF Probing
    <3> QED BY <3>1, <3>2
  <2> QED BY <1>10, <2>1, KeepsSets
<1>16. Control(t)'
  <2>1. r.op = "prefetch" => r.op \notin ReadWrite /\ r.op # "flush"
    BY DEF ReadWrite
  <2>2. r.op # "flush"
    BY <1>1, <1>2 DEF InLLC, InProbe
  <2> QED BY <1>1, <1>2, <1>12, <2>1, <2>2 DEF Control, InLLC, LLCLabel, InProbe, Looking
<1>17. OwnL1(t)'
  <2>1. r.op \in ReadWrite => r.line \in Line /\ r.line[1] # LLC /\ q.pc = "grant"
    BY <1>1, <1>2, <1>12, OwnLine, ParallelAssumption DEF ReadWrite
  <2>2. \A k \in Line : k[1] # LLC => meta'[k] = meta[k]
    BY <1>2, <1>7
  <2> QED BY <1>1, <1>2, <1>12, <2>1, <2>2, ParallelAssumption DEF OwnL1, Match
<1>18. OwnLLC(t)'
  BY <1>2, <1>6, <1>7, <1>12 DEF OwnLLC, Missed, InProbe, Match
<1>19. Others(t)'
  <2>1. \A l \in Line : l[1] # LLC => ~Holds(meta'[l], a)
    BY <1>2, <1>4, <1>7 DEF Match, Holds
  <2> QED BY <1>12, <2>1 DEF Others, InProbe, Probing, Match, Holds
<1> QED BY <1>1, <1>7, <1>8, <1>9, <1>11, <1>13, <1>14, <1>15, <1>16, <1>17, <1>18, <1>19, Combine DEF ThreadInv, Typed

(* The LLC grants a permission when no other L1 has one that forbids it.   *)
LEMMA GrantStep ==
  ASSUME IInv, NEW t \in Core, Grant(t)
  PROVE  IInv' /\ LockedStep
<1> DEFINE r == th[t]
           q == th'[t]
           o == r.out
           a == r.addr
           m == IF NeedPromoteLocal(Acquire(r.act), meta[o]) THEN ToModified(meta[o], NoId) ELSE meta[o]
           n == MetaAfterGrant(r.act, m, t)
<1>1. /\ Typed /\ Coherent /\ OwnL1(t) /\ OwnLLC(t) /\ Others(t) /\ Locks
      /\ r.pc = "grant" /\ meta' = [meta EXCEPT ![o] = n] /\ UNCHANGED <<lock, word, mem>>
      /\ th' = [th EXCEPT ![t].pc = "granted", ![t].data = m.data]
  BY DEF IInv, ThreadInv, Guarded, Grant
<1>2. /\ r # Idle /\ r \in Record /\ r.deep /\ Ours(t) /\ InLLC(t) /\ a \in Addr
      /\ o \in Line /\ o[1] = LLC /\ meta[o] \in Meta /\ <<o[1], o[2]>> = SetOf(LLC, a)
  BY <1>1, WhereIs, OutLine
<1>3. Match(o, a) /\ r.op \in ReadWrite /\ r.act \in {"fetch_read", "fetch_write"}
  BY <1>1, <1>2 DEF OwnLLC, Missed, InLLC, InProbe
<1>4. r.act = "fetch_read" => Proto # "MI"
  BY <1>2, <1>3 DEF InLLC, ReadWrite
<1>5. /\ \A l \in Line : l[1] # LLC /\ Match(l, a) => ~AllowWrite(meta[l])
      /\ \A l \in Line : l[1] # LLC /\ l[1] # t /\ Match(l, a) => r.act = "fetch_read"
  BY <1>1, <1>2, <1>3 DEF OwnL1, Others
<1>6. meta[o].data
  BY <1>1, <1>2, <1>3, <1>5 DEF Coherent, Backed, Included, Match
<1>7. m \in Meta /\ m.addr = a /\ m.dirty = meta[o].dirty /\ m.data = meta[o].data /\ m.sharer = meta[o].sharer
  BY <1>2, <1>3, ModifiedMeta DEF Match
<1> HIDE DEF m
<1>8. /\ n \in Meta /\ IsValid(n) /\ n.addr = a /\ n.dirty = meta[o].dirty /\ n.data = meta[o].data
      /\ n.sharer = IF Directory THEN meta[o].sharer \cup {t} ELSE meta[o].sharer
      /\ Granted(r.act, n, t) # "S" => n.st # "S"
  BY <1>3, <1>7, GrantedMeta
<1> HIDE DEF n
<1>9. /\ meta'[o] = n /\ \A k \in Line \ {o} : meta'[k] = meta[k]
      /\ meta' \in [Line -> Meta]
  BY <1>1, <1>2, <1>8 DEF Typed
<1>10. Coherent'
  <2>1. Placed' /\ Unique'
    BY <1>1, <1>2, <1>3, <1>8, <1>9 DEF Coherent, Placed, Unique, Match
  <2>2. OneWriter'
    BY <1>1, <1>2, <1>9 DEF Coherent, OneWriter
  <2>3. Included'
    <3> SUFFICES ASSUME NEW k \in Line, IsValid(meta'[k]), k[1] # LLC
                 PROVE  /\ meta'[k].data
                        /\ meta'[k].dirty \/ Proto = "MI" => AllowWrite(meta'[k])
                        /\ \E x \in Line :
                             /\ x[1] = LLC /\ Holds(meta'[x], meta'[k].addr)
                             /\ Directory => k[1] \in meta'[x].sharer
                             /\ AllowWrite(meta'[k]) => meta'[x].st # "S"
      BY DEF Included, Match, Holds
    <3>1. meta'[k] = meta[k]
      BY <1>2, <1>9
    <3>2. PICK x \in Line : /\ x[1] = LLC /\ Match(x, meta[k].addr)
                            /\ Directory => k[1] \in meta[x].sharer
                            /\ AllowWrite(meta[k]) => meta[x].st # "S"
      BY <1>1, <3>1 DEF Coherent, Included
    <3>3. CASE x = o
      <4>1. meta[k].addr = a
        BY <1>3, <3>2, <3>3 DEF Match
      <4>2. ~AllowWrite(meta[k])
        BY <1>5, <3>1, <4>1 DEF Match
      <4>3. Holds(meta'[o], a) /\ (Directory => k[1] \in meta'[o].sharer)
        BY <1>8, <1>9, <3>2, <3>3 DEF Holds
      <4> QED BY <1>1, <1>2, <3>1, <4>1, <4>2, <4>3 DEF Coherent, Included
    <3>4. CASE x # o
      <4>1. meta'[x] = meta[x]
        BY <1>9, <3>4
      <4> QED BY <1>1, <3>1, <3>2, <4>1 DEF Coherent, Included, Match, Holds
    <3> QED BY <3>3, <3>4
  <2>4. Backed'
    <3>1. ASSUME NEW x \in Line, x[1] = LLC, IsValid(meta'[x])
          PROVE  /\ meta'[x].dirty \/ meta'[x].data = mem'[meta'[x].addr]
                 /\ meta'[x].data \/ \E k \in Line : k[1] # LLC /\ Holds(meta'[k], meta'[x].addr) /\ meta'[k].dirty
      <4>1. CASE x = o
        <5>1. meta[o].dirty \/ meta[o].data = mem[a]
          BY <1>1, <1>2, <1>3 DEF Coherent, Backed, Match
        <5> QED BY <1>1, <1>6, <1>8, <1>9, <4>1, <5>1
      <4>2. CASE x # o
        <5>1. meta'[x] = meta[x] /\ \A k \in Line : k[1] # LLC => meta'[k] = meta[k]
          BY <1>2, <1>9, <4>2
        <5> QED BY <1>1, <3>1, <5>1 DEF Coherent, Backed, Match, Holds
      <4> QED BY <4>1, <4>2
    <3>2. ASSUME NEW b \in Addr
          PROVE  mem'[b] \/ \E x \in Line : x[1] = LLC /\ Holds(meta'[x], b)
      <4>1. \A x \in Line : x[1] = LLC /\ Match(x, b) => Holds(meta'[x], b)
        BY <1>3, <1>8, <1>9 DEF Match, Holds
      <4> QED BY <1>1, <4>1 DEF Coherent, Backed
    <3> QED BY <3>1, <3>2 DEF Backed, Match, Holds
  <2> QED BY <2>1, <2>2, <2>3, <2>4 DEF Coherent
<1>11. q = [r EXCEPT !.pc = "granted", !.data = m.data] /\ \A u \in Core \ {t} : th'[u] = th[u]
  BY <1>1 DEF Typed
<1>12. /\ q.pc = "granted" /\ q.op = r.op /\ q.addr = r.addr /\ q.deep = r.deep /\ q.act = r.act
       /\ q.line = r.line /\ q.out = r.out /\ q.data /\ q \in Record
  <2>1. PICK d \in BOOLEAN : d /\ m.data = d
    BY <1>6, <1>7 DEF Meta
  <2> DEFINE e == [r EXCEPT !.pc = "granted", !.data = d]
  <2>2. /\ e.pc = "granted" /\ e.op = r.op /\ e.addr = r.addr /\ e.deep = r.deep /\ e.act = r.act
        /\ e.line = r.line /\ e.out = r.out /\ (e.data <=> d) /\ e \in Record
    <3>1. "granted" \in LLCLabel
      BY DEF LLCLabel
    <3>2. r \in Record /\ d \in BOOLEAN
      BY <1>2, <2>1
    <3> HIDE DEF r
    <3> QED BY <3>1, <3>2 DEF Record
  <2>3. q = e
    BY <1>11, <2>1
  <2> HIDE DEF e
  <2> QED BY <2>1, <2>2, <2>3
<1>13. th' \in [Core -> Record]
  BY <1>1, <1>11, <1>12 DEF Typed
<1>14. LockStep(t)
  BY <1>1, <1>12 DEF LockStep, Owns
<1>15. WordStep(t)
  <2>1. q.pc \notin Looking \cup {"finish", "idle"} /\ q.deep /\ r.pc # "finish"
    BY <1>1, <1>2, <1>12 DEF Looking
  <2>2. /\ r # Idle /\ q # Idle
        /\ \A z : /\ InSetL1(t, z)' \/ InSetLLC(t, z)' <=> InSetL1(t, z) \/ InSetLLC(t, z)
                  /\ ~Releases(t, z) /\ ~Releases(t, z)' /\ ~Probes(t, z) /\ ~Probes(t, z)'
    BY <1>1, <1>2, <1>12, <2>1, StaysIn DEF Probing
  <2> QED BY <1>1, <2>2, KeepsSets
<1>16. Control(t)'
  BY <1>1, <1>2, <1>3, <1>12 DEF Control, InLLC, LLCLabel, InProbe, Looking, ReadWrite
<1>17. \A k \in Line : k[1] # LLC => meta'[k] = meta[k]
  BY <1>2, <1>9
<1>18. OwnL1(t)'
  <2>1. r.line \in Line /\ r.line[1] # LLC
    BY <1>1, <1>2, <1>3, OwnLine, ParallelAssumption
  <2>2. meta'[r.line] = meta[r.line] /\ \A l \in Line : l[1] = t => meta'[l] = meta[l]
    BY <1>17, <2>1, ParallelAssumption
  <2>3. /\ \A l \in Line : l[1] = t /\ Match(l, a) => l = r.line /\ ~AllowWrite(meta[l])
        /\ IsValid(meta[r.line]) => Match(r.line, a)
    BY <1>1, <1>2, <1>3 DEF OwnL1
  <2>4. q.deep /\ q.pc = "granted" /\ q.line = r.line /\ q.addr = r.addr
    BY <1>2, <1>12
  <2> HIDE DEF q
  <2>5. /\ \A l \in Line : l[1] = t /\ IsValid(meta'[l]) /\ meta'[l].addr = r.addr
                           => l = r.line /\ ~AllowWrite(meta'[l])
        /\ IsValid(meta'[r.line]) => meta'[r.line].addr = r.addr
    <3>1. ASSUME NEW l \in Line, l[1] = t, IsValid(meta'[l]), meta'[l].addr = r.addr
          PROVE  l = r.line /\ ~AllowWrite(meta'[l])
      <4>1. meta'[l] = meta[l] /\ Match(l, a)
        BY <2>2, <3>1 DEF Match
      <4> QED BY <2>3, <3>1, <4>1
    <3>2. IsValid(meta'[r.line]) => meta'[r.line].addr = r.addr
      BY <2>2, <2>3 DEF Match
    <3> QED BY <3>1, <3>2
  <2> QED BY <2>4, <2>5 DEF OwnL1, Match, q
<1>19. OwnLLC(t)'
  BY <1>2, <1>8, <1>9, <1>12 DEF OwnLLC, Missed, InProbe, Match
<1>20. Others(t)'
  <2>1. ASSUME NEW l \in Line, l[1] # LLC, l[1] # t, Holds(meta'[l], a)
        PROVE  r.act = "fetch_read" /\ ~AllowWrite(meta'[l]) /\ Granted(r.act, n, t) = "S"
    <3>1. meta'[l] = meta[l] /\ Match(l, a)
      BY <1>17, <2>1 DEF Match, Holds
    <3>2. r.act = "fetch_read" /\ ~AllowWrite(meta[l]) /\ Proto # "MI"
      BY <1>4, <1>5, <2>1, <3>1
    <3>3. Directory => l[1] \in meta[o].sharer
      BY <1>2, <1>3, <2>1, <3>1, Below DEF Match
    <3>4. ~(Directory /\ n.sharer \subseteq {t})
      BY <1>8, <2>1, <3>3
    <3> QED BY <1>8, <3>1, <3>2, <3>4, GrantedIs
  <2> QED BY <1>9, <1>12, <2>1 DEF Others, InProbe, Probing, Match, Holds
<1>21. \A u \in Core \ {t} : Still(u) /\ NoGain(t, u) /\ SetKept(u) /\ LineKept(u) /\ GoalKept(u)
  <2>1. lock[o] = t
    BY <1>1, <1>2 DEF Locks, Owns
  <2>2. \A k \in Line, b \in Addr : k[1] # LLC /\ Holds(meta'[k], b)
          => Match(k, b) /\ (AllowWrite(meta'[k]) => AllowWrite(meta[k]))
    BY <1>17 DEF Match, Holds
  <2>3. \A x \in Line : x[1] = LLC =>
          \/ /\ meta'[x].addr = meta[x].addr /\ meta'[x].sharer = meta[x].sharer
             /\ IsValid(meta'[x]) <=> IsValid(meta[x])
             /\ meta'[x].st = "S" => meta[x].st = "S"
          \/ Ours(t) /\ <<x[1], x[2]>> = SetOf(LLC, r.addr)
    BY <1>2, <1>9
  <2>4. \A k \in Line : meta'[k] \in {meta[k], [meta[k] EXCEPT !.data = FALSE]} \/ lock[k] \in {t, None}
    BY <1>9, <2>1
  <2>5. \A x, k \in Line : x[1] = LLC /\ k[1] # LLC /\ IsValid(meta[k]) /\ Match(x, meta[k].addr)
                           => Holds(meta'[x], meta[k].addr)
    BY <1>3, <1>8, <1>9 DEF Match, Holds
  <2>6. \A u \in Core \ {t} : NoGain(t, u) /\ SetKept(u) /\ LineKept(u) /\ GoalKept(u)
    BY <1>9, <2>2, <2>3, <2>4, <2>5, FrameLines
  <2> QED BY <1>11, <2>6 DEF Still
<1> QED BY <1>1, <1>9, <1>10, <1>13, <1>14, <1>15, <1>16, <1>18, <1>19, <1>20, <1>21, Combine DEF ThreadInv, Typed

(* A probe takes the copy or its permission away, and its content down.    *)
LEMMA ProbeHitStep ==
  ASSUME IInv, NEW t \in Core, ProbeHit(t)
  PROVE  IInv' /\ LockedStep
<1> DEFINE r == th[t]
           q == th'[t]
           l == r.in
           o == r.out
           c == Target(t)
           b == meta[o].addr
           s == SetOf(c, b)
           m == MetaAfterProbe(r.why[2], meta[l])
           x == IF IsValid(m) THEN m ELSE Empty
           y == IF IsDirty(meta[l]) THEN ToDirty([meta[o] EXCEPT !.data = meta[l].data]) ELSE meta[o]
<1>1. /\ Typed /\ Coherent /\ OwnL1(t) /\ OwnLLC(t) /\ Others(t) /\ Locks
      /\ r.pc = "probe_hit" /\ Free(o) /\ Probed(t) /\ UNCHANGED mem
      /\ lock' = [lock EXCEPT ![l] = None] /\ word' = [word EXCEPT ![s] = @ \ {probe}]
      /\ r.pc \in InProbe
  BY DEF IInv, ThreadInv, Guarded, ProbeHit, InProbe
<1>2. /\ r \in Record /\ r.deep /\ Ours(t) /\ InLLC(t) /\ o \in Line /\ o[1] = LLC
      /\ IsValid(meta[o]) /\ meta[o] \in Meta /\ b \in Addr
      /\ r.why \in Cause /\ r.why[2] \in {"evict", "downgrade"}
      /\ c \in r.todo /\ c \in Core /\ c \in Cache /\ s \in CacheSet
  BY <1>1, ProbingHas
<1>3. l \in LinesOf(c, b) /\ l \in Line /\ l[1] = c /\ Match(l, b) /\ l[1] # LLC /\ l # o /\ meta[l] \in Meta
  <2>1. l \in LinesOf(c, b) /\ Match(l, b)
    BY <1>1 DEF Others, Probing
  <2>2. l \in Line /\ l[1] = c
    BY <1>2, <2>1, LineParts
  <2> QED BY <1>1, <1>2, <2>1, <2>2, ParallelAssumption DEF Typed
<1>4. meta' = [meta EXCEPT ![l] = x, ![o] = y]
  BY <1>2, <1>3 DEF ProbeHit
<1>5. r.why[2] = "downgrade" => Proto # "MI"
  BY <1>1, <1>2 DEF InLLC
<1>6. /\ x \in Meta /\ ~x.dirty /\ ~AllowWrite(x)
      /\ IF IsValid(x) THEN r.why[2] = "downgrade" /\ x.addr = b /\ x.data = meta[l].data ELSE x = Empty
  <2>1. /\ m \in Meta
        /\ r.why[2] = "evict" => ~IsValid(m)
        /\ r.why[2] = "downgrade" => /\ IsValid(m) /\ m.addr = meta[l].addr /\ m.data = meta[l].data
                                     /\ ~m.dirty /\ ~AllowWrite(m)
    BY <1>2, <1>3, <1>5, ProbedMeta
  <2> HIDE DEF m
  <2> QED BY <1>2, <1>3, <2>1, EmptyMeta DEF Match
<1>7. meta[l].data /\ (meta[l].dirty => \A k \in Line : k[1] # LLC /\ Match(k, b) => k = l)
  BY <1>1, <1>3, DirtyAlone DEF Coherent, Included, Match
<1>8. /\ y \in Meta /\ y.addr = b /\ y.st = meta[o].st /\ y.sharer = meta[o].sharer /\ IsValid(y)
      /\ meta[l].dirty => y.dirty /\ y.data
      /\ ~meta[l].dirty => y = meta[o]
  <2> DEFINE w == ToDirty([meta[o] EXCEPT !.data = meta[l].data])
  <2>1. meta[l].data \in BOOLEAN
    BY <1>3 DEF Meta
  <2>2. /\ w \in Meta /\ w.st = meta[o].st /\ w.addr = b /\ w.sharer = meta[o].sharer
        /\ w.dirty /\ (w.data <=> meta[l].data)
    BY <1>2, <2>1, WrittenMeta
  <2>3. y = IF meta[l].dirty THEN w ELSE meta[o]
    BY DEF IsDirty
  <2> HIDE DEF w, y
  <2> QED BY <1>2, <1>7, <2>2, <2>3 DEF IsValid
<1> HIDE DEF x, y
<1>9. /\ meta'[l] = x /\ meta'[o] = y /\ \A k \in Line \ {l, o} : meta'[k] = meta[k]
      /\ meta' \in [Line -> Meta]
  BY <1>1, <1>2, <1>3, <1>4, <1>6, <1>8 DEF Typed
<1>10. ASSUME NEW k \in Line, k[1] # LLC, IsValid(meta'[k])
       PROVE  /\ IsValid(meta[k]) /\ meta'[k].addr = meta[k].addr
              /\ meta'[k].data = meta[k].data
              /\ AllowWrite(meta'[k]) => AllowWrite(meta[k])
              /\ meta'[k].dirty => meta[k].dirty
  BY <1>2, <1>3, <1>6, <1>9, <1>10 DEF Match
<1>11. ASSUME NEW k \in Line, k[1] = LLC
       PROVE  /\ meta'[k].addr = meta[k].addr /\ meta'[k].sharer = meta[k].sharer
              /\ meta'[k].st = meta[k].st
              /\ IsValid(meta'[k]) <=> IsValid(meta[k])
  BY <1>2, <1>3, <1>8, <1>9, <1>11
<1>12. Coherent'
  <2>1. Placed'
    BY <1>1, <1>2, <1>3, <1>6, <1>8, <1>9 DEF Coherent, Placed
  <2>2. Unique'
    BY <1>1, <1>10, <1>11 DEF Coherent, Unique
  <2>3. OneWriter'
    BY <1>1, <1>10 DEF Coherent, OneWriter
  <2>4. Included'
    <3> SUFFICES ASSUME NEW k \in Line, IsValid(meta'[k]), k[1] # LLC
                 PROVE  /\ meta'[k].data
                        /\ meta'[k].dirty \/ Proto = "MI" => AllowWrite(meta'[k])
                        /\ \E w \in Line :
                             /\ w[1] = LLC /\ Holds(meta'[w], meta'[k].addr)
                             /\ Directory => k[1] \in meta'[w].sharer
                             /\ AllowWrite(meta'[k]) => meta'[w].st # "S"
      BY DEF Included, Match, Holds
    <3>1. /\ IsValid(meta[k]) /\ meta'[k].addr = meta[k].addr /\ meta'[k].data = meta[k].data
          /\ AllowWrite(meta'[k]) => AllowWrite(meta[k])
      BY <1>10
    <3>2. PICK w \in Line : /\ w[1] = LLC /\ Match(w, meta[k].addr)
                            /\ Directory => k[1] \in meta[w].sharer
                            /\ AllowWrite(meta[k]) => meta[w].st # "S"
      BY <1>1, <3>1 DEF Coherent, Included
    <3>3. /\ w[1] = LLC /\ Holds(meta'[w], meta'[k].addr)
          /\ Directory => k[1] \in meta'[w].sharer
          /\ AllowWrite(meta'[k]) => meta'[w].st # "S"
      BY <1>11, <3>1, <3>2 DEF Match, Holds
    <3>4. meta'[k].dirty \/ Proto = "MI" => AllowWrite(meta'[k])
      BY <1>1, <1>2, <1>5, <1>6, <1>9, <3>1 DEF Coherent, Included
    <3>5. meta'[k].data
      BY <1>1, <3>1 DEF Coherent, Included
    <3> QED BY <3>3, <3>4, <3>5
  <2>5. Backed'
    <3>1. ASSUME NEW w \in Line, w[1] = LLC, IsValid(meta'[w])
          PROVE  /\ meta'[w].dirty \/ meta'[w].data = mem'[meta'[w].addr]
                 /\ meta'[w].data \/ \E k \in Line : k[1] # LLC /\ Holds(meta'[k], meta'[w].addr) /\ meta'[k].dirty
      <4>1. CASE w = o /\ meta[l].dirty
        BY <1>8, <1>9, <4>1
      <4>2. CASE ~(w = o /\ meta[l].dirty)
        <5>1. meta'[w] = meta[w] /\ IsValid(meta[w])
          BY <1>3, <1>8, <1>9, <3>1, <4>2
        <5>2. \A k \in Line : k[1] # LLC /\ Match(k, meta[w].addr) /\ meta[k].dirty => k # l
          <6>1. meta[w].addr = b => w = o
            BY <1>1, <1>2, <3>1, <5>1 DEF Coherent, Unique
          <6> QED BY <1>3, <4>2, <6>1 DEF Match
        <5>3. \A k \in Line : k[1] # LLC /\ Match(k, meta[w].addr) /\ meta[k].dirty => meta'[k] = meta[k]
          BY <1>2, <1>9, <5>2
        <5> QED BY <1>1, <3>1, <5>1, <5>3 DEF Coherent, Backed, Match, Holds
      <4> QED BY <4>1, <4>2
    <3>2. ASSUME NEW a \in Addr
          PROVE  mem'[a] \/ \E w \in Line : w[1] = LLC /\ Holds(meta'[w], a)
      BY <1>1, <1>11 DEF Coherent, Backed, Match, Holds
    <3> QED BY <3>1, <3>2 DEF Backed, Match, Holds
  <2> QED BY <2>1, <2>2, <2>3, <2>4, <2>5 DEF Coherent
<1>13. /\ q.pc = "probe" /\ q.op = r.op /\ q.addr = r.addr /\ q.deep = r.deep /\ q.act = r.act
       /\ q.line = r.line /\ q.out = r.out /\ q.why = r.why /\ q.todo = r.todo \ {c}
       /\ q.pc \in InProbe /\ th' \in [Core -> Record] /\ \A u \in Core \ {t} : th'[u] = th[u]
  BY <1>1, ProbedIs
<1>14. /\ Control(t)' /\ Ours(t)' /\ (Missed(t)' <=> Missed(t)) /\ r # Idle /\ q # Idle
       /\ \A z : /\ InSetL1(t, z)' \/ InSetLLC(t, z)' <=> InSetL1(t, z) \/ InSetLLC(t, z)
                 /\ ~Releases(t, z) /\ ~Releases(t, z)'
  BY <1>1, <1>13, ProbingOn
<1>15. LockStep(t)
  <2>1. Owns(t, l) /\ \A k \in Line : Owns(t, k)' <=> Owns(t, k) /\ k # l
    BY <1>1, <1>2, <1>13 DEF Owns
  <2> QED BY <1>1, <1>3, <2>1 DEF LockStep
<1>16. WordStep(t)
  <2>1. \A z : ~Probes(t, z)' /\ (Probes(t, z) <=> z = s)
    BY <1>1, <1>13 DEF Probes, Probing
  <2> QED BY <1>1, <1>2, <1>14, <2>1, ProbesSet
<1>17. OwnL1(t)'
  <2>1. t # LLC
    BY ParallelAssumption
  <2>2. ASSUME r.op \in ReadWrite
        PROVE  /\ \A k \in Line : k[1] = t /\ Holds(meta'[k], r.addr) => k = r.line /\ ~AllowWrite(meta'[k])
               /\ IsValid(meta'[r.line]) => Holds(meta'[r.line], r.addr)
    <3>1. r.line \in Line /\ r.line[1] = t
      BY <1>1, <1>2, <2>2, OwnLine
    <3>2. \A k \in Line : k[1] = t /\ Match(k, r.addr) => k = r.line /\ ~AllowWrite(meta[k])
      BY <1>1, <1>2, <2>2 DEF OwnL1
    <3>3. IsValid(meta[r.line]) => Match(r.line, r.addr)
      BY <1>1, <1>2, <2>2 DEF OwnL1
    <3>4. \A k \in Line : k[1] = t /\ Holds(meta'[k], r.addr) => k = r.line /\ ~AllowWrite(meta'[k])
      BY <1>10, <2>1, <3>2 DEF Match, Holds
    <3>5. IsValid(meta'[r.line]) => Holds(meta'[r.line], r.addr)
      BY <1>10, <2>1, <3>1, <3>3 DEF Match, Holds
    <3> QED BY <3>4, <3>5
  <2> QED BY <1>2, <1>13, <2>2 DEF OwnL1, Match, Holds
<1>18. OwnLLC(t)'
  <2>1. Missed(t) => \A k \in Line : k[1] = LLC => ~Holds(meta'[k], r.addr)
    BY <1>1, <1>2, <1>11 DEF OwnLLC, Match, Holds
  <2>2. ~Missed(t) => Holds(meta'[o], r.addr)
    BY <1>1, <1>2, <1>11 DEF OwnLLC, Match, Holds
  <2>3. IsValid(meta'[o])
    BY <1>8, <1>9
  <2> QED BY <1>13, <1>14, <2>1, <2>2, <2>3 DEF OwnLLC, InProbe, Match, Holds
<1>19. Others(t)'
  <2>1. meta'[o].addr = b
    BY <1>8, <1>9
  <2>2. ASSUME NEW k \in Line, k[1] # LLC, k[1] \notin r.todo \ {c}, Holds(meta'[k], b),
               r.why[1] = "grant" => k[1] # t
        PROVE  r.why[2] = "downgrade" /\ ~AllowWrite(meta'[k])
    <3>1. Match(k, b)
      BY <1>10, <2>2 DEF Match, Holds
    <3>2. CASE k[1] = c
      <4>1. k = l
        BY <1>1, <1>3, <3>1, <3>2 DEF Coherent, Unique, Match
      <4> QED BY <1>6, <1>9, <2>2, <4>1 DEF Holds
    <3>3. CASE k[1] # c
      <4>1. r.why[2] = "downgrade" /\ ~AllowWrite(meta[k])
        BY <1>1, <2>2, <3>1, <3>3 DEF Others
      <4> QED BY <1>10, <2>2, <4>1 DEF Holds
    <3> QED BY <3>2, <3>3
  <2> QED BY <1>13, <2>1, <2>2 DEF Others, Probing, Match, Holds
<1>20. \A u \in Core \ {t} : Still(u) /\ NoGain(t, u) /\ SetKept(u) /\ LineKept(u) /\ GoalKept(u)
  <2>1. lock[l] = t /\ lock[o] = None
    BY <1>1, <1>3 DEF Locks, Owns, Free
  <2>2. \A k \in Line, a \in Addr : k[1] # LLC /\ Holds(meta'[k], a)
          => Match(k, a) /\ (AllowWrite(meta'[k]) => AllowWrite(meta[k]))
    BY <1>10 DEF Match, Holds
  <2>3. \A k \in Line : meta'[k] \in {meta[k], [meta[k] EXCEPT !.data = FALSE]} \/ lock[k] \in {t, None}
    BY <1>9, <2>1
  <2>4. \A w, k \in Line : w[1] = LLC /\ k[1] # LLC /\ IsValid(meta[k]) /\ Match(w, meta[k].addr)
                           => Holds(meta'[w], meta[k].addr)
    BY <1>11 DEF Match, Holds
  <2>5. \A w \in Line : w[1] = LLC =>
          /\ meta'[w].addr = meta[w].addr /\ meta'[w].sharer = meta[w].sharer
          /\ IsValid(meta'[w]) <=> IsValid(meta[w])
          /\ meta'[w].st = "S" => meta[w].st = "S"
    BY <1>11
  <2>6. \A u \in Core \ {t} : NoGain(t, u) /\ SetKept(u) /\ LineKept(u) /\ GoalKept(u)
    BY <1>9, <2>2, <2>3, <2>4, <2>5, FrameLines
  <2> QED BY <1>13, <2>6 DEF Still
<1> QED BY <1>1, <1>9, <1>12, <1>13, <1>14, <1>15, <1>16, <1>17, <1>18, <1>19, <1>20, Combine DEF ThreadInv, Typed

LEMMA ServedMeta ==
  ASSUME NEW m \in Meta
  PROVE  LET n == [ToDirty(m) EXCEPT !.data = TRUE]
         IN  /\ n \in Meta
             /\ n.st = m.st /\ n.addr = m.addr /\ n.outer = m.outer /\ n.sharer = m.sharer
             /\ n.dirty /\ n.data
<1>1. PICK b \in BOOLEAN : b
  OBVIOUS
<1> DEFINE n == [[m EXCEPT !.dirty = b] EXCEPT !.data = b]
<1>2. /\ n \in Meta
      /\ n.st = m.st /\ n.addr = m.addr /\ n.outer = m.outer /\ n.sharer = m.sharer
      /\ (n.dirty <=> b) /\ (n.data <=> b)
  BY DEF Meta
<1>3. [ToDirty(m) EXCEPT !.data = TRUE] = n
  <2>1. b = TRUE
    BY <1>1
  <2> QED BY <2>1 DEF ToDirty
<1> HIDE DEF n
<1> QED BY <1>1, <1>2, <1>3

(* What a write does to all lines. *)
Writes(x, a, w) ==
  /\ meta' = [l \in Line |-> IF l = x THEN w
                             ELSE IF meta[l].addr = a THEN [meta[l] EXCEPT !.data = FALSE]
                             ELSE meta[l]]
  /\ mem' = [mem EXCEPT ![a] = FALSE]

(* A write, with the only copy of the block, keeps the lines coherent, and *)
(* is in the frame for others.                                             *)
LEMMA WriteServed ==
  ASSUME IInv, NEW t \in Core, NEW a \in Addr, NEW x \in LinesOf(t, a), NEW w \in Meta, NEW next \in Record,
         IsValid(w), w.addr = a, w.dirty, w.data, AllowWrite(w),
         th[t].op = "write", th[t].addr = a,
         \A k \in Line : k[1] # LLC /\ Match(k, a) => k = x,
         IsValid(meta[x]) => meta[x].addr = a,
         NEW o \in Line, o[1] = LLC, Match(o, a), Directory => t \in meta[o].sharer, meta[o].st # "S",
         Writes(x, a, w),
         (Match(x, a) /\ AllowWrite(meta[x])) \/ Ours(t),
         lock[x] \in {t, None},
         th' = Carried(t, next)
  PROVE  /\ meta' \in [Line -> Meta] /\ mem' \in [Addr -> BOOLEAN] /\ th' \in [Core -> Record]
         /\ th'[t] = next
         /\ Coherent'
         /\ Holds(meta'[o], a)
         /\ \A u \in Core \ {t} : Still(u) /\ NoGain(t, u) /\ SetKept(u) /\ LineKept(u) /\ GoalKept(u)
<1>1. /\ Typed /\ Coherent
      /\ meta' = [l \in Line |-> IF l = x THEN w
                                 ELSE IF meta[l].addr = a THEN [meta[l] EXCEPT !.data = FALSE]
                                 ELSE meta[l]]
      /\ mem' = [mem EXCEPT ![a] = FALSE]
  BY DEF IInv, Writes
<1>2. x \in Line /\ x[1] = t /\ x[1] # LLC /\ t \in Cache /\ o # x
  BY LineParts, ParallelAssumption DEF Cache
<1>3. ASSUME NEW k \in Line, k # x
      PROVE  /\ meta'[k] \in {meta[k], [meta[k] EXCEPT !.data = FALSE]}
             /\ meta'[k].addr = meta[k].addr /\ meta'[k].sharer = meta[k].sharer
             /\ meta'[k].st = meta[k].st /\ meta'[k].outer = meta[k].outer /\ meta'[k].dirty = meta[k].dirty
             /\ (IsValid(meta'[k]) <=> IsValid(meta[k])) /\ (AllowWrite(meta'[k]) <=> AllowWrite(meta[k]))
             /\ meta[k].addr # a => meta'[k] = meta[k]
             /\ meta[k].addr = a => ~meta'[k].data
             /\ meta'[k] \in Meta
  <2>1. meta[k] \in Meta
    BY <1>1 DEF Typed
  <2>2. PICK f \in BOOLEAN : ~f
    OBVIOUS
  <2>3. f = FALSE
    BY <2>2
  <2> DEFINE e == [meta[k] EXCEPT !.data = f]
  <2>4. /\ e.addr = meta[k].addr /\ e.sharer = meta[k].sharer /\ e.st = meta[k].st
        /\ e.outer = meta[k].outer /\ e.dirty = meta[k].dirty /\ (e.data <=> f) /\ e \in Meta
    BY <2>1 DEF Meta
  <2>5. meta'[k] = IF meta[k].addr = a THEN e ELSE meta[k]
    BY <1>1, <1>3, <2>3
  <2>6. e = [meta[k] EXCEPT !.data = FALSE]
    BY <2>3
  <2> HIDE DEF e
  <2> QED BY <2>1, <2>2, <2>4, <2>5, <2>6 DEF IsValid, AllowWrite
<1>4. meta'[x] = w
  BY <1>1, <1>2
<1>5. meta' \in [Line -> Meta] /\ mem' \in [Addr -> BOOLEAN]
  <2>1. \A k \in Line : meta'[k] \in Meta
    BY <1>3, <1>4
  <2>2. meta' \in [Line -> Meta]
    BY <1>1, <2>1
  <2> QED BY <1>1, <2>2 DEF Typed
<1>6. ASSUME NEW k \in Line, k[1] # LLC, k # x, IsValid(meta'[k])
      PROVE  IsValid(meta[k]) /\ meta'[k] = meta[k] /\ meta[k].addr # a
  <2>1. IsValid(meta[k])
    BY <1>3, <1>6
  <2>2. meta[k].addr # a
    BY <1>6, <2>1 DEF Match
  <2> QED BY <1>3, <1>6, <2>1, <2>2
<1>7. Holds(meta'[o], a)
  BY <1>2, <1>3 DEF Match, Holds
<1>8. Coherent'
  <2>1. Placed'
    <3> SUFFICES ASSUME NEW k \in Line
                 PROVE  IF IsValid(meta'[k])
                        THEN meta'[k].addr \in Addr /\ k \in LinesOf(k[1], meta'[k].addr)
                        ELSE meta'[k] = Empty
      BY DEF Placed
    <3>1. CASE k = x
      BY <1>2, <1>4, <3>1
    <3>2. CASE k # x
      <4>1. ~IsValid(meta[k]) => meta[k].addr # a
        BY <1>1, ParallelAssumption DEF Coherent, Placed, Empty
      <4> QED BY <1>1, <1>3, <3>2, <4>1 DEF Coherent, Placed
    <3> QED BY <3>1, <3>2
  <2>2. Unique'
    <3> SUFFICES ASSUME NEW k \in Line, NEW l \in Line, IsValid(meta'[k]), IsValid(meta'[l]), k[1] = l[1],
                        meta'[k].addr = meta'[l].addr
                 PROVE  k = l
      BY DEF Unique
    <3>1. CASE k = x
      BY <1>2, <1>4, <1>6, <3>1
    <3>2. CASE l = x
      BY <1>2, <1>4, <1>6, <3>2
    <3>3. CASE k # x /\ l # x
      <4>1. /\ IsValid(meta[k]) /\ meta[k].addr = meta'[k].addr
            /\ IsValid(meta[l]) /\ meta[l].addr = meta'[l].addr
        BY <1>3, <3>3
      <4> QED BY <1>1, <4>1 DEF Coherent, Unique
    <3> QED BY <3>1, <3>2, <3>3
  <2>3. OneWriter'
    <3> SUFFICES ASSUME NEW k \in Line, NEW l \in Line, k[1] # LLC, l[1] # LLC, k[1] # l[1],
                        IsValid(meta'[k]), IsValid(meta'[l]), meta'[k].addr = meta'[l].addr
                 PROVE  ~AllowWrite(meta'[k])
      BY DEF OneWriter
    <3>1. k # x /\ l # x
      BY <1>4, <1>6
    <3> QED BY <1>1, <1>3, <3>1 DEF Coherent, OneWriter
  <2>4. Included'
    <3> SUFFICES ASSUME NEW k \in Line, IsValid(meta'[k]), k[1] # LLC
                 PROVE  /\ meta'[k].data
                        /\ meta'[k].dirty \/ Proto = "MI" => AllowWrite(meta'[k])
                        /\ \E y \in Line :
                             /\ y[1] = LLC /\ Holds(meta'[y], meta'[k].addr)
                             /\ Directory => k[1] \in meta'[y].sharer
                             /\ AllowWrite(meta'[k]) => meta'[y].st # "S"
      BY DEF Included, Match, Holds
    <3>1. CASE k = x
      <4>1. meta'[o].sharer = meta[o].sharer /\ meta'[o].st = meta[o].st
        BY <1>2, <1>3
      <4> QED BY <1>2, <1>4, <1>7, <3>1, <4>1
    <3>2. CASE k # x
      <4>1. IsValid(meta[k]) /\ meta'[k] = meta[k]
        BY <1>6, <3>2
      <4>2. PICK y \in Line : /\ y[1] = LLC /\ Match(y, meta[k].addr)
                              /\ Directory => k[1] \in meta[y].sharer
                              /\ AllowWrite(meta[k]) => meta[y].st # "S"
        BY <1>1, <4>1 DEF Coherent, Included
      <4>3. /\ meta'[y].sharer = meta[y].sharer /\ meta'[y].st = meta[y].st
            /\ Holds(meta'[y], meta[k].addr)
        BY <1>2, <1>3, <4>2 DEF Match, Holds
      <4>4. meta[k].data /\ (meta[k].dirty \/ Proto = "MI" => AllowWrite(meta[k]))
        BY <1>1, <4>1 DEF Coherent, Included
      <4> QED BY <4>1, <4>2, <4>3, <4>4
    <3> QED BY <3>1, <3>2
  <2>5. Backed'
    <3>1. ASSUME NEW y \in Line, y[1] = LLC, IsValid(meta'[y])
          PROVE  /\ meta'[y].dirty \/ meta'[y].data = mem'[meta'[y].addr]
                 /\ meta'[y].data \/ \E k \in Line : k[1] # LLC /\ Holds(meta'[k], meta'[y].addr) /\ meta'[k].dirty
      <4>1. y # x /\ IsValid(meta[y]) /\ meta'[y].addr = meta[y].addr
        BY <1>2, <1>3, <3>1
      <4>2. CASE meta[y].addr = a
        <5>1. ~meta'[y].data /\ ~mem'[a] /\ meta'[y].data \in BOOLEAN /\ mem'[a] \in BOOLEAN
          <6>1. meta'[y] \in Meta /\ ~meta'[y].data /\ mem'[a] = FALSE
            BY <1>1, <1>3, <4>1, <4>2 DEF Typed
          <6> QED BY <6>1 DEF Meta
        <5>2. x[1] # LLC /\ Holds(meta'[x], a) /\ meta'[x].dirty
          BY <1>2, <1>4 DEF Holds
        <5> QED BY <1>2, <4>1, <4>2, <5>1, <5>2
      <4>3. CASE meta[y].addr # a
        <5>1. meta'[y] = meta[y] /\ mem'[meta[y].addr] = mem[meta[y].addr]
          <6>1. meta[y].addr \in Addr
            BY <1>1, <4>1 DEF Coherent, Placed
          <6> QED BY <1>1, <1>3, <4>1, <4>3, <6>1 DEF Typed
        <5>2. \A k \in Line : k[1] # LLC /\ Match(k, meta[y].addr) => meta'[k] = meta[k]
          BY <1>3, <4>3 DEF Match
        <5>3. /\ meta[y].dirty \/ meta[y].data = mem[meta[y].addr]
              /\ meta[y].data \/ \E k \in Line : k[1] # LLC /\ Match(k, meta[y].addr) /\ meta[k].dirty
          BY <1>1, <3>1, <4>1 DEF Coherent, Backed
        <5>4. \A k \in Line : k[1] # LLC /\ Match(k, meta[y].addr) /\ meta[k].dirty
                => Holds(meta'[k], meta[y].addr) /\ meta'[k].dirty
          BY <5>2 DEF Match, Holds
        <5> QED BY <5>1, <5>3, <5>4
      <4> QED BY <4>2, <4>3
    <3>2. ASSUME NEW b \in Addr
          PROVE  mem'[b] \/ \E y \in Line : y[1] = LLC /\ Holds(meta'[y], b)
      <4>1. CASE b = a
        BY <1>7, <4>1
      <4>2. CASE b # a
        <5>1. mem'[b] = mem[b]
          BY <1>1, <4>2 DEF Typed
        <5>2. \A y \in Line : y[1] = LLC /\ Match(y, b) => Holds(meta'[y], b)
          BY <1>2, <1>3 DEF Match, Holds
        <5> QED BY <1>1, <5>1, <5>2 DEF Coherent, Backed
      <4> QED BY <4>1, <4>2
    <3> QED BY <3>1, <3>2 DEF Backed, Match, Holds
  <2> QED BY <2>1, <2>2, <2>3, <2>4, <2>5 DEF Coherent
<1>9. ASSUME NEW u \in Core \ {t}
      PROVE  /\ th'[u] = IF th[u].addr = a THEN [th[u] EXCEPT !.data = FALSE] ELSE th[u]
             /\ th'[u] \in Record
             /\ Still(u)
  <2>1. th'[u] = IF th[u].addr = a THEN [th[u] EXCEPT !.data = FALSE] ELSE th[u]
    BY DEF Carried
  <2>2. th[u] \in Record
    BY <1>1 DEF Typed
  <2>3. th'[u] \in Record
    <3>1. PICK f \in BOOLEAN : f = FALSE
      OBVIOUS
    <3> DEFINE e == [th[u] EXCEPT !.data = f]
    <3>2. e \in Record
      BY <2>2 DEF Record
    <3>3. th'[u] = IF th[u].addr = a THEN e ELSE th[u]
      BY <2>1, <3>1
    <3> HIDE DEF e
    <3> QED BY <2>2, <3>2, <3>3
  <2>4. th[u] = Idle \/ th[u].pc \in {"fill", "granted"} => th[u].addr # a
    <3>1. CASE th[u] = Idle
      BY <3>1, ParallelAssumption DEF Idle
    <3>2. CASE th[u].pc = "fill"
      <4>1. Ours(u) /\ OwnLLC(u)
        BY <3>2, WhereIs DEF IInv, ThreadInv
      <4> QED BY <3>2, <4>1 DEF OwnLLC, Missed
    <3>3. CASE th[u].pc = "granted"
      <4>1. Ours(u) /\ Others(u)
        BY <3>3, WhereIs DEF IInv, ThreadInv
      <4>2. CASE Match(x, a) /\ AllowWrite(meta[x])
        BY <1>2, <3>3, <4>1, <4>2 DEF Others
      <4>3. CASE Ours(t)
        BY <4>1, <4>3, Alone
      <4> QED BY <4>2, <4>3
    <3> QED BY <3>1, <3>2, <3>3
  <2>5. Still(u)
    BY <2>1, <2>4 DEF Still
  <2> QED BY <2>1, <2>3, <2>5
<1>10. th'[t] = next /\ th' \in [Core -> Record]
  <2>1. th'[t] = next
    BY DEF Carried
  <2>2. \A u \in Core : th'[u] \in Record
    BY <1>9, <2>1
  <2> QED BY <2>1, <2>2 DEF Carried
<1>11. \A u \in Core \ {t} : NoGain(t, u) /\ SetKept(u) /\ LineKept(u) /\ GoalKept(u)
  <2>1. ASSUME NEW k \in Line, NEW b \in Addr, k[1] # LLC, Holds(meta'[k], b)
        PROVE  \/ Match(k, b) /\ (AllowWrite(meta'[k]) => AllowWrite(meta[k]))
               \/ k[1] = t /\ Ours(t) /\ SetOf(LLC, b) = SetOf(LLC, th[t].addr)
    <3>1. CASE k = x
      BY <1>2, <1>4, <2>1, <3>1 DEF Holds
    <3>2. CASE k # x
      BY <1>3, <2>1, <3>2 DEF Holds, Match
    <3> QED BY <3>1, <3>2
  <2>2. \A y \in Line : y[1] = LLC =>
          /\ meta'[y].addr = meta[y].addr /\ meta'[y].sharer = meta[y].sharer
          /\ IsValid(meta'[y]) <=> IsValid(meta[y])
          /\ meta'[y].st = "S" => meta[y].st = "S"
    BY <1>2, <1>3
  <2>3. \A k \in Line : meta'[k] \in {meta[k], [meta[k] EXCEPT !.data = FALSE]} \/ lock[k] \in {t, None}
    BY <1>3
  <2>4. \A y, k \in Line : y[1] = LLC /\ k[1] # LLC /\ IsValid(meta[k]) /\ Match(y, meta[k].addr)
                           => Holds(meta'[y], meta[k].addr)
    BY <2>2 DEF Match, Holds
  <2> QED BY <1>5, <2>1, <2>2, <2>3, <2>4, FrameLines
<1> QED BY <1>5, <1>7, <1>8, <1>9, <1>10, <1>11

(* A hit with the permission it needs is served, and line and set are      *)
(* given free.                                                             *)
LEMMA ServeStep ==
  ASSUME IInv, NEW t \in Core, th[t].pc = "access", ~th[t].deep,
         ~NeedPromote(Cmd(t), meta[th[t].line]),
         Serve(t, IF NeedPromoteLocal(Cmd(t), meta[th[t].line])
                  THEN ToModified(meta[th[t].line], NoId) ELSE meta[th[t].line]),
         lock' = [lock EXCEPT ![th[t].line] = None],
         word' = [word EXCEPT ![Here(t)] = @ \ {acquire}],
         th' = Carried(t, Idle)
  PROVE  IInv' /\ LockedStep
<1> DEFINE r == th[t]
           x == r.line
           a == r.addr
           m == IF NeedPromoteLocal(Cmd(t), meta[x]) THEN ToModified(meta[x], NoId) ELSE meta[x]
           w == [ToDirty(m) EXCEPT !.data = TRUE]
<1>1. Typed /\ Coherent /\ OwnL1(t) /\ Locks
  BY DEF IInv, ThreadInv, Guarded
<1>2. /\ r # Idle /\ InL1(t) /\ r.op \in ReadWrite /\ a \in Addr
      /\ Here(t) = SetOf(t, a) /\ Here(t) \in CacheSet
  BY WhereIs DEF InL1
<1>3. x \in LinesOf(t, a) /\ x \in Line /\ x[1] = t /\ x[1] # LLC /\ meta[x] \in Meta
  <2>1. r.pc # "idle" /\ r.pc \notin Looking
    BY DEF Looking
  <2> QED BY <2>1, OwnLine, ParallelAssumption
<1>4. Match(x, a) /\ lock[x] = t
  BY <1>1, <1>3 DEF OwnL1, Locks, Owns
<1>5. th'[t] = Idle /\ ThreadInv(t)' /\ Idle \in Record
  BY IdleRelies DEF Carried
<1>6. LockStep(t)
  <2>1. Owns(t, x) /\ \A l \in Line : Owns(t, l) => l = x
    BY DEF Owns
  <2> QED BY <1>3, <1>5, <2>1, IdleRelies DEF LockStep
<1>7. WordStep(t)
  <2>1. \A z : /\ InSetL1(t, z) <=> z = Here(t)
               /\ ~InSetLLC(t, z) /\ ~Probes(t, z) /\ ~Releases(t, z)
    BY <1>2 DEF InSetL1, InSetLLC, Ours, Looking, Probes, Releases, Probing
  <2> QED BY <1>2, <1>5, <2>1, IdleRelies, GivesAcquire
<1>8. CASE r.op = "read"
  <2>1. ~NeedPromoteLocal(Cmd(t), meta[x])
    BY <1>8 DEF NeedPromoteLocal, Cmd, Acquire, IsWrite
  <2>2. meta' = [meta EXCEPT ![x] = meta[x]] /\ mem' = mem
    BY <1>8, <2>1 DEF Serve
  <2>3. UNCHANGED <<meta, mem>>
    BY <1>1, <2>2 DEF Typed
  <2>4. \A u \in Core \ {t} : th'[u] = th[u]
    BY <1>8 DEF Carried
  <2>5. th' \in [Core -> Record]
    <3>1. \A u \in Core : th'[u] \in Record
      BY <1>1, <1>5, <2>4 DEF Typed
    <3> QED BY <3>1 DEF Carried
  <2> QED BY <1>5, <1>6, <1>7, <2>3, <2>4, <2>5, QuietStep
<1>9. CASE r.op = "write"
  <2>1. AllowWrite(meta[x])
    <3>1. Proto = "MI" \/ AllowWrite(meta[x])
      BY <1>9 DEF NeedPromote, Cmd, Acquire, IsWrite
    <3> QED BY <1>1, <1>3, <1>4, <3>1 DEF Coherent, Included, Match
  <2>2. /\ m \in Meta /\ IsValid(m) /\ m.addr = a /\ AllowWrite(m)
    <3>1. /\ ToModified(meta[x], NoId) \in Meta /\ ToModified(meta[x], NoId).st = "M"
          /\ ToModified(meta[x], NoId).addr = meta[x].addr
          /\ ToModified(meta[x], NoId).outer = meta[x].outer
      BY <1>3, ModifiedMeta
    <3> QED BY <1>3, <1>4, <2>1, <3>1 DEF Match, IsValid, AllowWrite
  <2>3. Writes(x, a, w)
    BY <1>9 DEF Serve, Writes
  <2> HIDE DEF m
  <2>4. w \in Meta /\ IsValid(w) /\ w.addr = a /\ w.dirty /\ w.data /\ AllowWrite(w)
    BY <2>2, ServedMeta DEF IsValid, AllowWrite
  <2> HIDE DEF w
  <2>5. \A k \in Line : k[1] # LLC /\ Match(k, a) => k = x
    BY <1>1, <1>3, <1>4, <2>1 DEF Coherent, Unique, OneWriter, Match
  <2>6. PICK o \in Line : /\ o[1] = LLC /\ Match(o, a)
                          /\ Directory => t \in meta[o].sharer
                          /\ meta[o].st # "S"
    BY <1>1, <1>3, <1>4, <2>1 DEF Coherent, Included, Match
  <2>7. /\ meta' \in [Line -> Meta] /\ mem' \in [Addr -> BOOLEAN] /\ th' \in [Core -> Record]
        /\ Coherent'
        /\ \A u \in Core \ {t} : Still(u) /\ NoGain(t, u) /\ SetKept(u) /\ LineKept(u) /\ GoalKept(u)
    <3>1. IsValid(meta[x]) => meta[x].addr = a
      BY <1>4 DEF Match
    <3> QED BY <1>2, <1>3, <1>4, <1>5, <1>9, <2>1, <2>3, <2>4, <2>5, <2>6, <3>1, WriteServed
  <2> QED BY <1>5, <1>6, <1>7, <2>7, Combine
<1> QED BY <1>2, <1>8, <1>9 DEF ReadWrite

LEMMA AccessStep ==
  ASSUME IInv, NEW t \in Core, Access(t)
  PROVE  IInv' /\ LockedStep
<1>1. CASE NeedPromote(Cmd(t), meta[th[t].line])
  BY <1>1, PromoteStep DEF Access
<1>2. CASE ~NeedPromote(Cmd(t), meta[th[t].line])
  BY <1>2, ServeStep DEF Access
<1> QED BY <1>1, <1>2

LEMMA EvictStep ==
  ASSUME IInv, NEW t \in Core, Evict(t)
  PROVE  IInv' /\ LockedStep
<1>1. /\ CmdForOuterAcquire(Cmd(t)) \in {"fetch_read", "fetch_write"}
      /\ th[t].op = "write" \/ Proto = "MI" => CmdForOuterAcquire(Cmd(t)) = "fetch_write"
  BY DEF CmdForOuterAcquire, Cmd, Acquire, IsWrite
<1>2. CASE meta[th[t].line].dirty
  BY <1>2, EvictDirtyStep DEF Evict, IsDirty
<1>3. CASE ~meta[th[t].line].dirty
  <2>1. /\ meta' = [meta EXCEPT ![th[t].line] = Empty]
        /\ AskLLC(t, CmdForOuterAcquire(Cmd(t)))
        /\ th[t].pc = "evict" /\ ~th[t].deep /\ UNCHANGED <<word, mem>>
    BY <1>3 DEF Evict, IsDirty
  <2> QED BY <1>1, <1>3, <2>1, EvictCleanStep
<1> QED BY <1>2, <1>3

(* What the LLC has granted is filled in the L1: a read only adds a copy,  *)
(* a write has no other.                                                   *)
LEMMA FillL1Step ==
  ASSUME IInv, NEW t \in Core, FillL1(t)
  PROVE  IInv' /\ LockedStep
<1> DEFINE r == th[t]
           x == r.line
           a == r.addr
           o == r.out
           g == Granted(r.act, meta[o], t)
           m == MetaAfterFetch(r.act, [Empty EXCEPT !.addr = a, !.data = r.data, !.outer = g])
           w == [ToDirty(m) EXCEPT !.data = TRUE]
           next == [r EXCEPT !.pc = "finish"]
<1>1. /\ Typed /\ Coherent /\ OwnL1(t) /\ OwnLLC(t) /\ Others(t)
      /\ r.pc = "granted" /\ Free(x) /\ Serve(t, m)
      /\ word' = [word EXCEPT ![SetOf(t, a)] = @ \ {acquire}]
      /\ th' = Carried(t, next)
      /\ UNCHANGED lock
  BY DEF IInv, ThreadInv, FillL1
<1>2. /\ r # Idle /\ r \in Record /\ r.deep /\ Ours(t) /\ InLLC(t) /\ a \in Addr
      /\ o \in Line /\ o[1] = LLC /\ meta[o] \in Meta
  BY <1>1, WhereIs, OutLine
<1>3. r.op \in ReadWrite /\ r.act \in {"fetch_read", "fetch_write"}
  BY <1>1, <1>2 DEF InLLC, InProbe
<1>4. /\ Match(o, a) /\ r.data
      /\ Directory => t \in meta[o].sharer
      /\ g # "S" => meta[o].st # "S"
  BY <1>1, <1>2 DEF OwnLLC, Missed, InProbe
<1>5. x \in LinesOf(t, a) /\ x \in Line /\ x[1] = t /\ x[1] # LLC /\ t \in Cache /\ meta[x] \in Meta
  BY <1>1, <1>2, <1>3, OwnLine, ParallelAssumption
<1>6. /\ \A l \in Line : l[1] = t /\ Match(l, a) => l = x /\ ~AllowWrite(meta[l])
      /\ IsValid(meta[x]) => Match(x, a)
      /\ \A l \in Line : l[1] # LLC /\ l[1] # t /\ Match(l, a) =>
           r.act = "fetch_read" /\ ~AllowWrite(meta[l]) /\ g = "S"
  BY <1>1, <1>2, <1>3 DEF OwnL1, Others
<1>7. ~meta[x].dirty
  <2> SUFFICES ASSUME meta[x].dirty PROVE FALSE
    OBVIOUS
  <2>1. IsValid(meta[x])
    BY <1>5, DirtyValid
  <2> QED BY <1>1, <1>5, <1>6, <2>1 DEF Coherent, Included
<1>8. /\ g \in {"S", "E", "M"}
      /\ Proto = "MI" \/ r.op = "write" => r.act = "fetch_write" /\ g = "M"
  <2>1. Proto = "MI" \/ r.op = "write" => r.act = "fetch_write"
    BY <1>2, <1>3 DEF InLLC, ReadWrite
  <2> QED BY <1>2, <2>1, GrantedIs
<1> HIDE DEF g
<1>9. /\ m \in Meta /\ IsValid(m) /\ m.addr = a /\ m.outer = g /\ ~m.dirty /\ m.data
      /\ AllowWrite(m) <=> g # "S"
  <2> DEFINE e == [Empty EXCEPT !.addr = a, !.data = r.data, !.outer = g]
  <2>1. e \in Meta /\ e.addr = a /\ e.outer = g /\ ~e.dirty /\ e.data
    <3>1. r.data \in BOOLEAN
      BY <1>2 DEF Record
    <3> QED BY <1>2, <1>4, <1>8, <3>1 DEF Empty, Meta, State
  <2> HIDE DEF e
  <2>2. r.act \in AcquireAct
    BY <1>3 DEF AcquireAct
  <2>3. LET n == MetaAfterFetch(r.act, e)
        IN  /\ n \in Meta
            /\ IsValid(n) /\ n.addr = e.addr /\ n.outer = e.outer
            /\ n.dirty = e.dirty /\ n.data = e.data
    BY <2>1, <2>2, FetchedMeta
  <2>4. m = MetaAfterFetch(r.act, e)
    BY DEF e
  <2> HIDE DEF m
  <2> QED BY <1>8, <2>1, <2>3, <2>4 DEF AllowWrite
<1> HIDE DEF m
<1>10. /\ next \in Record /\ next.pc = "finish" /\ next.op = r.op /\ next.addr = a /\ next.deep = r.deep
       /\ next.act = r.act /\ next.line = x /\ next.out = o
  BY <1>2 DEF Record, LLCLabel
<1> HIDE DEF next
<1>11. th'[t] = next /\ th'[t] # Idle
  BY <1>1, <1>10 DEF Carried, Idle
<1>12. LockStep(t)
  BY <1>1, <1>10, <1>11 DEF LockStep, Owns
<1>13. WordStep(t)
  <2>1. SetOf(t, a) \in CacheSet
    BY <1>2, <1>5 DEF CacheSet
  <2>2. \A z : /\ InSetL1(t, z) <=> z = SetOf(t, a)
               /\ InSetLLC(t, z) <=> z = SetOf(LLC, a)
               /\ ~Probes(t, z) /\ ~Releases(t, z)
    BY <1>1, <1>2, <1>3 DEF InSetL1, InSetLLC, Probes, Releases, Probing
  <2>3. \A z : /\ ~InSetL1(t, z)'
               /\ InSetLLC(t, z)' <=> z = SetOf(LLC, a)
               /\ ~Probes(t, z)' /\ ~Releases(t, z)'
    BY <1>2, <1>10, <1>11 DEF InSetL1, InSetLLC, Ours, Looking, Probes, Releases, Probing
  <2>4. SetOf(t, a) # SetOf(LLC, a)
    BY SetsApart
  <2> QED BY <1>1, <1>2, <1>11, <2>1, <2>2, <2>3, <2>4, GivesAcquire
<1>14. ASSUME Holds(meta'[o], a)
       PROVE  ThreadInv(t)'
  <2>1. Control(t)'
    BY <1>1, <1>2, <1>3, <1>10, <1>11 DEF Control, InLLC, LLCLabel, InProbe, Looking, ReadWrite
  <2>2. OwnL1(t)' /\ OwnLLC(t)' /\ Others(t)'
    BY <1>2, <1>10, <1>11, <1>14 DEF OwnL1, OwnLLC, Others, Missed, InProbe, Probing, Match, Holds
  <2> QED BY <2>1, <2>2 DEF ThreadInv
<1>15. CASE r.op = "write"
  <2>1. /\ \A k \in Line : k[1] # LLC /\ Match(k, a) => k = x
        /\ IsValid(meta[x]) => meta[x].addr = a
        /\ meta[o].st # "S" /\ lock[x] \in {t, None}
    BY <1>1, <1>4, <1>6, <1>8, <1>15 DEF Match, Free
  <2>2. Writes(x, a, w)
    BY <1>1, <1>15 DEF Serve, Writes
  <2>3. w \in Meta /\ IsValid(w) /\ w.addr = a /\ w.dirty /\ w.data /\ AllowWrite(w)
    BY <1>8, <1>9, <1>15, ServedMeta DEF IsValid, AllowWrite
  <2> HIDE DEF w
  <2>4. /\ meta' \in [Line -> Meta] /\ mem' \in [Addr -> BOOLEAN] /\ th' \in [Core -> Record]
        /\ Coherent' /\ Holds(meta'[o], a)
        /\ \A u \in Core \ {t} : Still(u) /\ NoGain(t, u) /\ SetKept(u) /\ LineKept(u) /\ GoalKept(u)
    BY <1>1, <1>2, <1>4, <1>5, <1>10, <1>15, <2>1, <2>2, <2>3, WriteServed
  <2> QED BY <1>12, <1>13, <1>14, <2>4, Combine
<1>16. CASE r.op = "read"
  <2>1. meta' = [meta EXCEPT ![x] = m] /\ mem' = mem
    BY <1>1, <1>16 DEF Serve
  <2>2. meta'[x] = m /\ (\A k \in Line \ {x} : meta'[k] = meta[k]) /\ meta' \in [Line -> Meta]
    BY <1>1, <1>5, <1>9, <2>1 DEF Typed
  <2>3. \A k \in Line : k[1] = LLC => meta'[k] = meta[k]
    BY <1>5, <2>2
  <2>4. Holds(meta'[o], a)
    BY <1>2, <1>4, <2>3 DEF Match, Holds
  <2>5. Coherent'
    <3>1. Placed' /\ Unique'
      BY <1>1, <1>2, <1>5, <1>6, <1>9, <2>2 DEF Coherent, Placed, Unique, Match
    <3>2. OneWriter'
      <4> SUFFICES ASSUME NEW k \in Line, NEW l \in Line, k[1] # LLC, l[1] # LLC, k[1] # l[1],
                          IsValid(meta'[k]), IsValid(meta'[l]), meta'[k].addr = meta'[l].addr
                   PROVE  ~AllowWrite(meta'[k])
        BY DEF OneWriter
      <4>1. CASE k = x
        BY <1>5, <1>6, <1>9, <2>2, <4>1 DEF Match
      <4>2. CASE l = x
        BY <1>5, <1>6, <1>9, <2>2, <4>2 DEF Match
      <4>3. CASE k # x /\ l # x
        BY <1>1, <2>2, <4>3 DEF Coherent, OneWriter
      <4> QED BY <4>1, <4>2, <4>3
    <3>3. Included'
      <4> SUFFICES ASSUME NEW k \in Line, IsValid(meta'[k]), k[1] # LLC
                   PROVE  /\ meta'[k].data
                          /\ meta'[k].dirty \/ Proto = "MI" => AllowWrite(meta'[k])
                          /\ \E y \in Line :
                               /\ y[1] = LLC /\ Holds(meta'[y], meta'[k].addr)
                               /\ Directory => k[1] \in meta'[y].sharer
                               /\ AllowWrite(meta'[k]) => meta'[y].st # "S"
        BY DEF Included, Match, Holds
      <4>1. CASE k = x
        <5>1. Proto = "MI" => AllowWrite(m)
          BY <1>8, <1>9
        <5> QED BY <1>2, <1>4, <1>5, <1>9, <2>2, <2>3, <2>4, <4>1, <5>1
      <4>2. CASE k # x
        <5>1. IsValid(meta[k]) /\ meta'[k] = meta[k]
          BY <2>2, <4>2
        <5>2. PICK y \in Line : /\ y[1] = LLC /\ Match(y, meta[k].addr)
                                /\ Directory => k[1] \in meta[y].sharer
                                /\ AllowWrite(meta[k]) => meta[y].st # "S"
          BY <1>1, <5>1 DEF Coherent, Included
        <5>3. meta'[y] = meta[y]
          BY <2>3, <5>2
        <5> QED BY <1>1, <5>1, <5>2, <5>3 DEF Coherent, Included, Match, Holds
      <4> QED BY <4>1, <4>2
    <3>4. Backed'
      <4>1. ASSUME NEW y \in Line, y[1] = LLC, IsValid(meta'[y])
            PROVE  /\ meta'[y].dirty \/ meta'[y].data = mem'[meta'[y].addr]
                   /\ meta'[y].data \/ \E k \in Line : k[1] # LLC /\ Holds(meta'[k], meta'[y].addr) /\ meta'[k].dirty
        <5>1. meta'[y] = meta[y]
          BY <2>3, <4>1
        <5>2. \A k \in Line : meta[k].dirty => meta'[k] = meta[k]
          BY <1>7, <2>2
        <5>3. /\ meta[y].dirty \/ meta[y].data = mem[meta[y].addr]
              /\ meta[y].data \/ \E k \in Line : k[1] # LLC /\ Match(k, meta[y].addr) /\ meta[k].dirty
          BY <1>1, <4>1, <5>1 DEF Coherent, Backed
        <5>4. \A k \in Line : k[1] # LLC /\ Match(k, meta[y].addr) /\ meta[k].dirty
                => Holds(meta'[k], meta[y].addr) /\ meta'[k].dirty
          BY <5>2 DEF Match, Holds
        <5> QED BY <2>1, <5>1, <5>3, <5>4
      <4>2. ASSUME NEW b \in Addr
            PROVE  mem'[b] \/ \E y \in Line : y[1] = LLC /\ Holds(meta'[y], b)
        <5>1. \A y \in Line : y[1] = LLC /\ Match(y, b) => Holds(meta'[y], b)
          BY <2>3 DEF Match, Holds
        <5> QED BY <1>1, <2>1, <5>1 DEF Coherent, Backed
      <4> QED BY <4>1, <4>2 DEF Backed, Match, Holds
    <3> QED BY <3>1, <3>2, <3>3, <3>4 DEF Coherent
  <2>6. \A u \in Core \ {t} : th'[u] = th[u]
    BY <1>1, <1>16 DEF Carried
  <2>7. th' \in [Core -> Record]
    <3>1. \A u \in Core : th'[u] \in Record
      BY <1>1, <1>10, <1>11, <2>6 DEF Typed
    <3> QED BY <1>1, <3>1 DEF Carried
  <2>8. \A u \in Core \ {t} : NoGain(t, u) /\ SetKept(u) /\ LineKept(u) /\ GoalKept(u)
    <3>1. \A k \in Line, b \in Addr : k[1] # LLC /\ Holds(meta'[k], b)
            => \/ Match(k, b) /\ (AllowWrite(meta'[k]) => AllowWrite(meta[k]))
               \/ k[1] = t /\ Ours(t) /\ SetOf(LLC, b) = SetOf(LLC, th[t].addr)
      BY <1>2, <1>5, <1>9, <2>2 DEF Match, Holds
    <3>2. \A y \in Line : y[1] = LLC =>
            /\ meta'[y].addr = meta[y].addr /\ meta'[y].sharer = meta[y].sharer
            /\ IsValid(meta'[y]) <=> IsValid(meta[y])
            /\ meta'[y].st = "S" => meta[y].st = "S"
      BY <2>3
    <3>3. \A k \in Line : meta'[k] \in {meta[k], [meta[k] EXCEPT !.data = FALSE]} \/ lock[k] \in {t, None}
      BY <1>1, <2>2 DEF Free
    <3>4. \A y, k \in Line : y[1] = LLC /\ k[1] # LLC /\ IsValid(meta[k]) /\ Match(y, meta[k].addr)
                             => Holds(meta'[y], meta[k].addr)
      BY <2>3 DEF Match, Holds
    <3> QED BY <2>2, <3>1, <3>2, <3>3, <3>4, FrameLines
  <2>9. \A u \in Core \ {t} : Still(u)
    BY <2>6 DEF Still
  <2> QED BY <1>1, <1>12, <1>13, <1>14, <2>1, <2>2, <2>4, <2>5, <2>7, <2>8, <2>9, Combine DEF Typed
<1> QED BY <1>3, <1>15, <1>16 DEF ReadWrite

----------------------------------------------------------------------------
(* The invariant. *)

LEMMA StepKeeps ==
  ASSUME IInv, Next
  PROVE  IInv' /\ LockedStep
<1>1. PICK t \in Core : Step(t) \/ \E call \in Call[t] : Start(t, call[1], call[2])
  BY DEF Next
<1>2. CASE \E call \in Call[t] : Start(t, call[1], call[2])
  BY <1>2, StartStep
<1>3. CASE Hit(t) \/ Lock(t) \/ Replace(t) \/ Victim(t)
  BY <1>3, HitStep, LockAction, ReplaceStep, VictimStep
<1>4. CASE Access(t) \/ Evict(t) \/ ReleaseReq(t) \/ ReleaseResp(t) \/ FillL1(t) \/ Finish(t)
  BY <1>4, AccessStep, EvictStep, ReleaseReqStep, ReleaseRespStep, FillL1Step, FinishStep
<1>5. CASE AccessLLC(t) \/ EvictLLC(t) \/ WriteBack(t) \/ CopyLine(t) \/ Fetch(t) \/ Fill(t) \/ Grant(t)
  BY <1>5, AccessLLCStep, EvictLLCStep, WriteBackStep, CopyLineStep, FetchStep, FillStep, GrantStep
<1>6. CASE Probe(t) \/ ProbeLock(t) \/ ProbeHit(t) \/ ProbeMiss(t) \/ Synced(t)
  BY <1>6, ProbeStep, ProbeLockStep, ProbeHitStep, ProbeMissStep, SyncedStep
<1> QED BY <1>1, <1>2, <1>3, <1>4, <1>5, <1>6 DEF Step

LEMMA StutterKeeps ==
  ASSUME IInv, UNCHANGED vars
  PROVE  IInv' /\ LockedStep
<1>1. meta' = meta /\ lock' = lock /\ word' = word /\ mem' = mem /\ th' = th
  BY DEF vars
<1>2. Typed' /\ Coherent'
  BY <1>1 DEF IInv, Typed, Coherent, Placed, Unique, Included, OneWriter, Backed, Match
<1>3. \A t \in Core : ThreadInv(t)'
  <2> SUFFICES ASSUME NEW t \in Core PROVE ThreadInv(t)'
    OBVIOUS
  <2>1. Control(t) /\ OwnL1(t) /\ OwnLLC(t) /\ Others(t)
    BY DEF IInv, ThreadInv
  <2>2. Control(t)' /\ OwnL1(t)'
    BY <1>1, <2>1 DEF Control, InL1, InLLC, OwnL1, Match
  <2>3. OwnLLC(t)' /\ Others(t)'
    BY <1>1, <2>1 DEF OwnLLC, Others, Ours, Missed, Match, Target
  <2> QED BY <2>2, <2>3 DEF ThreadInv
<1>4. /\ \A t \in Core, l \in Line : Owns(t, l)' <=> Owns(t, l)
      /\ \A t \in Core, s \in CacheSet : Reserved(t, s)' = Reserved(t, s)
  BY <1>1 DEF Owns, Reserved, Target
<1>5. Guarded'
  BY <1>1, <1>4 DEF IInv, Guarded, Locks, Words
<1>6. LockedStep
  BY <1>4 DEF LockedStep, Held
<1> QED BY <1>2, <1>3, <1>5, <1>6 DEF IInv

LEMMA InitInv == Init => IInv
<1> SUFFICES ASSUME Init PROVE IInv
  OBVIOUS
<1>1. /\ \A l \in Line : meta[l] = Empty /\ lock[l] = None
      /\ \A s \in CacheSet : word[s] = {}
      /\ \A a \in Addr : mem[a]
      /\ \A t \in Core : th[t] = Idle
  BY DEF Init
<1>2. Typed
  <2>1. Idle \in Record
    BY DEF Idle, Record
  <2> QED BY <2>1, EmptyMeta DEF Init, Typed
<1>3. Coherent
  BY <1>1, EmptyMeta DEF Coherent, Placed, Unique, Included, OneWriter, Backed, Match
<1>4. ASSUME NEW t \in Core
      PROVE  ThreadInv(t) /\ \A s : Reserved(t, s) = {}
  <2>1. th[t] = Idle /\ th[t].pc = "idle" /\ ~th[t].deep
    <3>1. th[t] = Idle
      BY <1>1
    <3>2. Idle.pc = "idle" /\ ~Idle.deep
      BY DEF Idle
    <3> QED BY <3>1, <3>2
  <2>2. OwnL1(t) /\ OwnLLC(t) /\ Others(t)
    BY <2>1 DEF OwnL1, OwnLLC, Others, Ours, InProbe, Probing
  <2>3. \A s : Reserved(t, s) = {}
    BY <2>1 DEF Reserved, Probing
  <2> QED BY <2>1, <2>2, <2>3 DEF ThreadInv, Control
<1>5. Guarded
  <2>1. \A t \in Core, l \in Line : ~Owns(t, l)
    BY <1>1 DEF Owns, Idle
  <2>2. \A t \in Core, s \in CacheSet : Reserved(t, s) = {}
    BY <1>4
  <2> QED BY <1>1, <2>1, <2>2, ParallelAssumption DEF Guarded, Locks, Words
<1> QED BY <1>2, <1>3, <1>4, <1>5 DEF IInv

(* Lines, locks, set words and threads fit together in every reachable     *)
(* state, whatever the threads do between each other's steps.              *)
THEOREM Invariance == Spec => []IInv
<1>1. IInv /\ [Next]_vars => IInv'
  BY StepKeeps, StutterKeeps
<1> QED BY <1>1, InitInv, PTL DEF Spec

----------------------------------------------------------------------------
(* What follows from it. *)

(* While one L1 may write a block no other L1 has a copy (SingleWriter):   *)
(* nor when a permission is granted by one thread, probed away by another  *)
(* and filled in later.                                                    *)
THEOREM WriterIsAlone == Spec => []SingleWriter
<1>1. IInv => SingleWriter
  <2> SUFFICES ASSUME IInv, NEW c \in Core, NEW d \in Core, NEW a \in Addr, c # d,
                      NEW l \in Hits(c, a), NEW m \in Hits(d, a)
               PROVE  ~AllowWrite(meta[l]) /\ ~AllowWrite(meta[m])
    BY DEF SingleWriter
  <2>1. c \in Cache /\ d \in Cache /\ c # LLC /\ d # LLC
    BY ParallelAssumption DEF Cache
  <2>2. /\ l \in Line /\ l[1] = c /\ Match(l, a)
        /\ m \in Line /\ m[1] = d /\ Match(m, a)
    BY <2>1, HitsAre DEF IInv, Coherent
  <2> QED BY <2>1, <2>2 DEF IInv, Coherent, OneWriter, Match
<1> QED BY <1>1, Invariance, PTL

(* Every valid copy in an L1 is that of the last write, and a line is only *)
(* served while it holds the block (CopiesLatest).                         *)
THEOREM CopiesAreLatest == Spec => []CopiesLatest
<1>1. IInv => CopiesLatest
  <2> SUFFICES ASSUME IInv PROVE CopiesLatest
    OBVIOUS
  <2>1. ASSUME NEW c \in Core, NEW a \in Addr, NEW l \in Hits(c, a)
        PROVE  meta[l].data
    <3>1. c \in Cache /\ c # LLC
      BY ParallelAssumption DEF Cache
    <3>2. l \in Line /\ l[1] = c /\ Match(l, a)
      BY <3>1, HitsAre DEF IInv, Coherent
    <3> QED BY <3>1, <3>2 DEF IInv, Coherent, Included, Match
  <2>2. ASSUME NEW t \in Core, th[t].pc = "access"
        PROVE  Match(Mine(t), th[t].addr)
    <3>1. OwnL1(t) /\ OwnLLC(t)
      BY DEF IInv, ThreadInv
    <3>2. CASE th[t].deep
      BY <2>2, <3>1, <3>2 DEF OwnLLC, Ours, Looking, Missed, InProbe, Mine
    <3>3. CASE ~th[t].deep
      BY <2>2, <3>1, <3>3 DEF OwnL1, Mine
    <3> QED BY <3>2, <3>3
  <2> QED BY <2>1, <2>2 DEF CopiesLatest
<1> QED BY <1>1, Invariance, PTL

(* The content of the last write of each block is in some valid line or in *)
(* the memory at every moment (NothingLost): evictions, releases, probes   *)
(* and flushes hand it down before they drop it.                           *)
THEOREM NothingIsLost == Spec => []NothingLost
<1>1. IInv => NothingLost
  <2> SUFFICES ASSUME IInv, NEW a \in Addr, ~mem[a]
               PROVE  \E l \in Line : Match(l, a) /\ meta[l].data
    BY DEF NothingLost
  <2>1. PICK o \in Line : o[1] = LLC /\ Match(o, a)
    BY DEF IInv, Coherent, Backed
  <2>2. CASE meta[o].data
    BY <2>1, <2>2
  <2>3. CASE ~meta[o].data
    <3>1. PICK l \in Line : l[1] # LLC /\ Match(l, a) /\ meta[l].dirty
      BY <2>1, <2>3 DEF IInv, Coherent, Backed, Match
    <3> QED BY <3>1, DirtyAlone
  <2> QED BY <2>2, <2>3
<1> QED BY <1>1, Invariance, PTL

(* No cache holds a block twice, though two threads may have missed it at  *)
(* the same time (OnceInSet).                                              *)
THEOREM InsertedOnce == Spec => []OnceInSet
<1>1. IInv => OnceInSet
  <2> SUFFICES ASSUME IInv, NEW c \in Cache, NEW a \in Addr
               PROVE  Cardinality(Hits(c, a)) <= 1
    BY DEF OnceInSet
  <2>1. \A l, m \in Hits(c, a) : l = m
    BY HitsAre DEF IInv, Coherent, Unique, Match
  <2>2. CASE Hits(c, a) = {}
    BY <2>2, FS_EmptySet
  <2>3. ASSUME NEW l \in Hits(c, a)
        PROVE  Cardinality(Hits(c, a)) <= 1
    <3>1. Hits(c, a) = {l}
      BY <2>1, <2>3
    <3> QED BY <3>1, FS_Singleton
  <2> QED BY <2>2, <2>3
<1> QED BY <1>1, Invariance, PTL

(* A thread at the memory for a block has reserved the LLC's set of it.    *)
LEMMA AtMemory ==
  ASSUME IInv, NEW t \in Core, NEW b \in InMemory(t)
  PROVE  Ours(t) /\ SetOf(LLC, b) = SetOf(LLC, th[t].addr)
<1> DEFINE r == th[t]
<1>1. CASE r.pc \in {"copy", "fetch"}
  BY <1>1, WhereIs DEF InMemory
<1>2. CASE r.pc \notin {"copy", "fetch"}
  <2>1. r.pc = "writeback" /\ b = meta[r.out].addr
    BY <1>2 DEF InMemory
  <2>2. Ours(t)
    BY <2>1, WhereIs
  <2>3. r.out \in Line /\ r.out[1] = LLC /\ <<r.out[1], r.out[2]>> = SetOf(LLC, r.addr)
    BY <2>2, OutLine
  <2>4. IsValid(meta[r.out])
    BY <2>1, <2>2 DEF IInv, ThreadInv, OwnLLC
  <2>5. b \in Addr /\ r.out \in LinesOf(LLC, b)
    BY <2>1, <2>3, <2>4 DEF IInv, Coherent, Placed
  <2> QED BY <2>2, <2>3, <2>5, LineParts DEF Cache
<1> QED BY <1>1, <1>2

(* Two threads are never at the memory for the same block (MemoryAlone),   *)
(* so the assertion of the memory model holds.                             *)
THEOREM MemoryIsAlone == Spec => []MemoryAlone
<1>1. IInv => MemoryAlone
  BY AtMemory, Alone DEF MemoryAlone
<1> QED BY <1>1, Invariance, PTL

(* The threads use every set as a lock with priorities                     *)
(* (ImplementsPriorityLocks): a set is only ever entered above all that    *)
(* are in it, and left by one who is in it.                                *)
THEOREM LocksRefined == Spec => ImplementsPriorityLocks
<1>1. Init => \A s \in CacheSet : LockOf(s)!Init
  BY DEF Init, LockOf!Init, Held, Reserved, Idle, Probing
<1>2. IInv /\ [Next]_vars => [\A s \in CacheSet : UNCHANGED Held(s) \/ LockOf(s)!Next]_vars
  BY StepKeeps DEF LockedStep
<1> QED BY <1>1, <1>2, Invariance, PTL DEF Spec, ImplementsPriorityLocks
=============================================================================
