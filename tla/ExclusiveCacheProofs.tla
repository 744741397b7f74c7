------------------------ MODULE ExclusiveCacheProofs ------------------------
(***************************************************************************)
(* Proofs about ExclusiveCache, for every number of caches, blocks, values *)
(* and ways, every index function and every protocol, with the extended    *)
(* directory and by broadcast.                                             *)
(*                                                                         *)
(* As for the inclusive hierarchy everything rests on a predicate of one   *)
(* block: Coherent(b, v) says that b is consistent and v its content.  A   *)
(* line that is being served, or released, is outside it: a copy buffer    *)
(* is neither a normal way nor an entry of the directory.  So Serves and   *)
(* the lemmas on ProbeReq and Fetch describe what such a line is, and only *)
(* the handlers as a whole keep Coherent.                                  *)
(***************************************************************************)
EXTENDS ExclusiveCache, TLAPS

(* An invalid copy is empty; who may write is the only holder, and who is  *)
(* dirty may write; an MI cache may write whatever it holds.               *)
LineInv(m) ==
  /\ ~IsValid(m) => m.outer = "I" /\ ~m.dirty
  /\ m.dirty => AllowWrite(m)

Upper(b, v) ==
  /\ \A p \in Port : LineInv(b.up[p]) /\ (IsValid(b.up[p]) => b.up[p].data = v)
  /\ \A i \in ICore : ~b.up[i].dirty
  /\ L1Proto = "MI" => \A c \in Core : IsValid(b.up[c]) => AllowWrite(b.up[c])
  /\ \A c, d \in Core : AllowWrite(b.up[c]) /\ IsValid(b.up[d]) => d = c

(* A normal way excludes the L1Ds; without one, and without a dirty L1D,   *)
(* the memory is current.                                                  *)
NoDirty(b) == \A c \in Core : ~b.up[c].dirty
NoHolder(b) == \A c \in Core : ~IsValid(b.up[c])

Lower(b, v) ==
  /\ Normal(b.llc) => NoHolder(b) /\ b.llc.data = v /\ (b.llc.dirty \/ b.mem = v)
  /\ ~Normal(b.llc) /\ NoDirty(b) => b.mem = v
  /\ b.llc.dirty => Normal(b.llc) /\ AllowWrite(b.llc)

(* The extended directory has an entry for every block that an L1D holds,  *)
(* in which all of them are; MSI caches leave no entry behind.             *)
Entry(b) ==
  /\ b.llc.ext => Directory /\ IsValid(b.llc) /\ (L1Proto = "MSI" => ~NoHolder(b))
  /\ Directory => \A c \in Core : IsValid(b.up[c]) => b.llc.ext /\ c \in b.llc.sharer

Coherent(b, v) ==
  /\ b \in Block
  /\ v \in Val
  /\ b.ok
  /\ Upper(b, v)
  /\ Lower(b, v)
  /\ Entry(b)

IInv ==
  /\ block \in [Addr -> Block]
  /\ \A a \in Addr : Coherent(block[a], Latest(block[a]))
  /\ \A a \in Addr \ Inst, i \in ICore : ~IsValid(block[a].up[i])

(* The LLC's line or copy buffer has the content, which a promotion of a   *)
(* dirty line does not fetch again; and r is what access_line makes of a   *)
(* coherent block for an acquire of port p.                                *)
Serving(r, v) ==
  /\ IsValid(r.llc) /\ r.llc.data = v
  /\ IF r.llc.dirty THEN AllowWrite(r.llc) ELSE r.mem = v

Serves(b, p, act, v, r) ==
  /\ r \in Block /\ r.ok /\ Upper(r, v) /\ Serving(r, v)
  /\ r.llc.ext = b.llc.ext /\ b.llc.sharer \subseteq r.llc.sharer
  /\ r.llc.dirty => Normal(b.llc) /\ p \notin Core
  /\ r.mem \in {b.mem, v}
  /\ \A q \in Port : q = p \/ q \in ICore => r.up[q] = b.up[q]
  /\ \A c \in Core : /\ IsValid(r.up[c]) => IsValid(b.up[c])
                     /\ ~AllowWrite(r.up[c])
                     /\ act = "fetch_write" /\ c # p => ~IsValid(r.up[c])
  /\ act # "fetch_write" /\ L1Proto = "MSI" =>
       \A c \in Core : IsValid(b.up[c]) => IsValid(r.up[c])

(* What a probe makes of a coherent block.  A releasing one takes the      *)
(* copies of the other L1Ds, a downgrading one their permission to write;  *)
(* if one of them was dirty, the prober's line or copy buffer now has the  *)
(* content.                                                                *)
Probes(b, act, id, v, r) ==
  /\ r \in Block /\ r.mem = b.mem /\ r.ok = b.ok /\ Upper(r, v)
  /\ \A p \in Port : p = id \/ p \in ICore => r.up[p] = b.up[p]
  /\ \A c \in Core : IsValid(r.up[c]) => IsValid(b.up[c])
  /\ \A c \in Core \ {id} : /\ ~AllowWrite(r.up[c]) /\ ~r.up[c].dirty
                            /\ act = "evict" => ~IsValid(r.up[c])
  /\ act = "downgrade" /\ L1Proto = "MSI" =>
       \A c \in Core : IsValid(b.up[c]) => IsValid(r.up[c])
  /\ r.llc.sharer = b.llc.sharer /\ r.llc.ext = b.llc.ext
  /\ IF ProbeWriteback(b, id)
     THEN IsValid(r.llc) /\ r.llc.dirty = TRUE /\ r.llc.data = v
     ELSE r.llc = b.llc

(* What every handler leaves alone: no L1I but those of P gains a copy,    *)
(* and the memory keeps its content or receives v.                         *)
Frame(b, r, v, P) ==
  /\ \A i \in ICore \ P : IsValid(r.up[i]) => IsValid(b.up[i])
  /\ r.mem \in {b.mem, v}

(* A prefetch of an L1D goes through the inclusive prefetch_line(), which  *)
(* without a directory puts into a normal way what an L1D may hold.        *)
PrefetchSupported == Directory \/ PrefetchPort \cap Core = {}

----------------------------------------------------------------------------
(* The ports. *)
LEMMA Ports ==
  /\ Core \subseteq Port /\ ICore \subseteq Port /\ NoId \notin Core
  /\ \A p \in Port : p \in ICore <=> p \notin Core
  /\ \A p \in Port : /\ Id(p) \in Core \cup {NoId}
                     /\ Id(p) = IF p \in Core THEN p ELSE NoId
  /\ Proto \in {"MSI", "MESI"}
  /\ L1Proto \in {"MI", "MSI"}
BY ExclusiveAssumption DEF Port, NoId, Id

(* A dirty copy is valid, and v is what the definition of Latest finds.    *)
LEMMA LatestContent ==
  ASSUME NEW b, NEW v, Coherent(b, v)
  PROVE  Latest(b) = v
<1> DEFINE dirty == {c \in Core : IsDirty(b.up[c])}
<1>1. CASE dirty # {}
  <2> DEFINE c == CHOOSE c \in dirty : TRUE
  <2>1. c \in dirty
    BY <1>1
  <2>2. c \in Port /\ b.up[c].dirty
    BY <2>1, Ports DEF IsDirty
  <2> HIDE DEF c
  <2>3. IsValid(b.up[c])
    BY <2>2 DEF Coherent, Upper, LineInv
  <2>4. b.up[c].data = v
    BY <2>2, <2>3 DEF Coherent, Upper
  <2> QED BY <1>1, <2>4 DEF Latest, c
<1>2. CASE dirty = {}
  <2>1. NoDirty(b)
    BY <1>2 DEF NoDirty, IsDirty
  <2> QED BY <1>2, <2>1 DEF Coherent, Lower, Latest
<1> QED BY <1>1, <1>2

----------------------------------------------------------------------------
(* The metadata methods change the state, and may add a sharer.            *)
Keeps(m, n) ==
  /\ n \in Line
  /\ IsValid(n)
  /\ n.outer = m.outer /\ n.dirty = m.dirty /\ n.data = m.data /\ n.ext = m.ext
  /\ m.sharer \subseteq n.sharer

LEMMA SharedKeeps ==
  ASSUME NEW m \in Line, NEW id \in Core \cup {NoId}
  PROVE  /\ Keeps(m, ToShared(m, id))
         /\ Directory /\ id # NoId => id \in ToShared(m, id).sharer
BY Ports DEF ToShared, AddSharer, Line, State, Keeps, IsValid

LEMMA ModifiedKeeps ==
  ASSUME NEW m \in Line, NEW id \in Core \cup {NoId}
  PROVE  /\ Keeps(m, ToModified(m, id))
         /\ Directory /\ id # NoId => id \in ToModified(m, id).sharer
BY Ports DEF ToModified, AddSharer, Line, State, Keeps, IsValid

LEMMA ExclusiveKeeps ==
  ASSUME NEW m \in Line, NEW id \in Core \cup {NoId}, IsValid(m)
  PROVE  /\ Keeps(m, ToExclusive(m, id))
         /\ id \in m.sharer => id \in ToExclusive(m, id).sharer
BY Ports DEF ToExclusive, AddSharer, Line, State, Keeps, IsValid

(* meta_after_grant(), with and without a directory.                       *)
LEMMA GrantKeeps ==
  ASSUME NEW m \in Line, NEW id \in Core \cup {NoId}, NEW act
  PROVE  LET n == MetaAfterGrant(act, m, id)
         IN  Keeps(m, n) /\ (Directory /\ id # NoId => id \in n.sharer)
<1> DEFINE s == ToShared(m, id)
           n == MetaAfterGrant(act, m, id)
<1>1. Keeps(m, s) /\ (Directory /\ id # NoId => id \in s.sharer)
  BY SharedKeeps
<1>2. n \in {s, ToExclusive(s, id), ToModified(m, id)}
  BY DEF MetaAfterGrant
<1> HIDE DEF n, s
<1>3. s \in Line /\ IsValid(s)
  BY <1>1 DEF Keeps
<1>4. CASE n = ToExclusive(s, id)
  <2>1. Keeps(s, n) /\ (id \in s.sharer => id \in n.sharer)
    BY <1>3, <1>4, ExclusiveKeeps
  <2> QED BY <1>1, <2>1 DEF Keeps, n
<1>5. CASE n = ToModified(m, id)
  BY <1>5, ModifiedKeeps DEF n
<1> QED BY <1>1, <1>2, <1>4, <1>5 DEF n

(* meta_after_fetch() of the LLC.                                          *)
LEMMA FetchKeeps ==
  ASSUME NEW m \in Line, NEW act
  PROVE  Keeps(m, MetaAfterFetch(act, m))
<1> DEFINE i == [m EXCEPT !.st = "I"]
           n == MetaAfterFetch(act, m)
<1>1. /\ i \in Line /\ i.outer = m.outer /\ i.dirty = m.dirty /\ i.data = m.data
      /\ i.ext = m.ext /\ i.sharer = m.sharer
  BY DEF Line, State
<1>2. n = ToShared(i, NoId) \/ n = ToModified(i, NoId)
  BY DEF MetaAfterFetch
<1> HIDE DEF i, n
<1>3. Keeps(i, n)
  BY <1>1, <1>2, SharedKeeps, ModifiedKeeps
<1> QED BY <1>1, <1>3 DEF Keeps, n

----------------------------------------------------------------------------
(* What a probe leaves of a copy of an L1D: MI knows no downgrade.         *)
LEMMA ProbedLine ==
  ASSUME NEW m \in Line, NEW act \in {"evict", "downgrade"}
  PROVE  LET n == L1D!MetaAfterProbe(act, m)
         IN  /\ n \in Line
             /\ n.data = m.data
             /\ ~n.dirty /\ n.outer \in {"I", "S"}
             /\ IsValid(n) <=> act = "downgrade" /\ L1Proto = "MSI"
<1> DEFINE n == L1D!MetaAfterProbe(act, m)
           i == L1D!ToInvalid(m)
           o == [i EXCEPT !.outer = "S"]
<1>1. i \in Line /\ i.st = "I" /\ i.outer = "I" /\ i.dirty = FALSE /\ i.data = m.data
  BY DEF L1D!ToInvalid, Line, State
<1>2. CASE act = "evict" \/ L1Proto = "MI"
  <2>1. n = i \/ n = L1D!ToInvalid(i)
    BY <1>2 DEF L1D!MetaAfterProbe
  <2> HIDE DEF n, i
  <2>2. n \in Line /\ n.st = "I" /\ n.outer = "I" /\ n.dirty = FALSE /\ n.data = m.data
    BY <1>1, <2>1 DEF L1D!ToInvalid, Line, State
  <2> QED BY <1>2, <2>2 DEF IsValid, n
<1>3. CASE act = "downgrade" /\ L1Proto = "MSI"
  <2>1. o \in Line /\ o.outer = "S" /\ o.dirty = FALSE /\ o.data = m.data
    BY <1>1 DEF Line, State
  <2>2. n = L1D!ToClean(L1D!ToShared(o, L1D!NoId))
    BY <1>3 DEF L1D!MetaAfterProbe
  <2> HIDE DEF n, o
  <2>3. L1D!ToShared(o, L1D!NoId) = [o EXCEPT !.st = "S"]
    BY <1>3 DEF L1D!ToShared, L1D!AddSharer
  <2>4. n \in Line /\ n.st = "S" /\ n.outer = "S" /\ n.dirty = FALSE /\ n.data = m.data
    BY <2>1, <2>2, <2>3 DEF L1D!ToClean, Line, State
  <2> QED BY <1>3, <2>4 DEF IsValid, n
<1> QED BY <1>2, <1>3, Ports

(* An empty way. *)
LEMMA EmptyLine ==
  /\ NoLine \in Line
  /\ NoLine.st = "I" /\ NoLine.outer = "I" /\ NoLine.dirty = FALSE
  /\ NoLine.ext = FALSE /\ NoLine.data = NoVal
  /\ ~IsValid(NoLine) /\ ~Normal(NoLine) /\ ~AllowWrite(NoLine) /\ LineInv(NoLine)
BY DEF NoLine, Line, State, IsValid, Normal, AllowWrite, LineInv

(* A probe reaches every other holder: the directory misses none.          *)
LEMMA ProbedHolders ==
  ASSUME NEW b, NEW v, Coherent(b, v), NEW id \in Core \cup {NoId}
  PROVE  /\ Probed(b, id) = {c \in Core : c # id /\ IsValid(b.up[c])}
         /\ ProbeWriteback(b, id) <=> \E c \in Core \ {id} : b.up[c].dirty
<1>1. Probed(b, id) = {c \in Core : c # id /\ IsValid(b.up[c])}
  BY DEF Coherent, Entry, Probed, Holders, ProbeNeedProbe
<1>2. \A c \in Core : b.up[c].dirty => IsValid(b.up[c])
  BY Ports DEF Coherent, Upper, LineInv
<1> QED BY <1>1, <1>2 DEF ProbeWriteback, IsDirty

(* The line of the LLC, or its copy buffer, that takes over the content of *)
(* the one dirty copy.                                                     *)
LEMMA WrittenBackLine ==
  ASSUME NEW b, NEW v, Coherent(b, v), NEW c \in Core, b.up[c].dirty
  PROVE  LET n == AfterWriteback(b, c)
         IN  /\ n \in Line /\ IsValid(n) /\ n.dirty = TRUE /\ n.data = v
             /\ n.sharer = b.llc.sharer /\ n.ext = b.llc.ext
<1> DEFINE m == IF IsValid(b.llc) THEN b.llc
                ELSE [b.llc EXCEPT !.st = "S", !.outer = b.up[c].outer]
           d == [m EXCEPT !.data = b.up[c].data]
<1>1. b.llc \in Line /\ b.up[c] \in Line /\ b.up[c].data = v /\ v \in Val
  BY Ports DEF Coherent, Upper, LineInv, Block
<1>2. m \in Line /\ IsValid(m) /\ m.sharer = b.llc.sharer /\ m.ext = b.llc.ext
  <2>1. CASE IsValid(b.llc)
    BY <1>1, <2>1
  <2>2. CASE ~IsValid(b.llc)
    BY <1>1, <2>2 DEF IsValid, Line, State
  <2> QED BY <2>1, <2>2
<1>3. AfterWriteback(b, c) = ToDirty(d)
  BY DEF AfterWriteback
<1> HIDE DEF m
<1>4. /\ d \in Line /\ IsValid(d) /\ d.data = v
      /\ d.sharer = b.llc.sharer /\ d.ext = b.llc.ext
  BY <1>1, <1>2 DEF Line, IsValid
<1> HIDE DEF d
<1>5. /\ ToDirty(d) \in Line /\ IsValid(ToDirty(d)) /\ ToDirty(d).dirty = TRUE
      /\ ToDirty(d).data = v /\ ToDirty(d).sharer = b.llc.sharer
      /\ ToDirty(d).ext = b.llc.ext
  BY <1>4 DEF ToDirty, Line, IsValid
<1> QED BY <1>3, <1>5

(* probe_req, of which Probes says what it did.                            *)
LEMMA ProbeFields ==
  ASSUME NEW b, NEW v, Coherent(b, v),
         NEW act \in {"evict", "downgrade"}, NEW id \in Core \cup {NoId}
  PROVE  Probes(b, act, id, v, ProbeReq(b, act, id))
<1> DEFINE r     == ProbeReq(b, act, id)
           held  == {c \in Core : c # id /\ IsValid(b.up[c])}
           dirty == {c \in Probed(b, id) : IsDirty(b.up[c])}
           last  == CHOOSE c \in dirty : \A d \in dirty : d <= c
           after(c) == L1D!MetaAfterProbe(act, b.up[c])
           ups   == [p \in Port |-> IF p \notin Probed(b, id) THEN b.up[p]
                                    ELSE IF IsValid(after(p)) THEN after(p) ELSE NoLine]
           low   == IF dirty = {} THEN b.llc ELSE AfterWriteback(b, last)
<1>1. /\ b \in Block /\ b.up \in [Port -> Line] /\ b.llc \in Line
      /\ \A p \in Port : b.up[p] \in Line
      /\ Core \subseteq Port /\ Core \cap ICore = {}
  BY ExclusiveAssumption, Ports DEF Coherent, Block
<1>2. Probed(b, id) = held
  BY ProbedHolders
<1>3. r = [b EXCEPT !.up = ups, !.llc = low]
  BY DEF ProbeReq
<1>4. r.mem = b.mem /\ r.ok = b.ok /\ r.up = ups /\ r.llc = low
  BY <1>1, <1>3 DEF Block
<1>5. ASSUME NEW c \in held
      PROVE  /\ r.up[c] \in Line /\ LineInv(r.up[c])
             /\ ~AllowWrite(r.up[c]) /\ ~r.up[c].dirty
             /\ IsValid(r.up[c]) => r.up[c].data = b.up[c].data
             /\ IsValid(r.up[c]) <=> act = "downgrade" /\ L1Proto = "MSI"
  <2> DEFINE n == after(c)
  <2>1. /\ n \in Line /\ n.data = b.up[c].data /\ ~n.dirty /\ n.outer \in {"I", "S"}
        /\ IsValid(n) <=> act = "downgrade" /\ L1Proto = "MSI"
    BY <1>1, ProbedLine
  <2>2. r.up[c] = IF IsValid(n) THEN n ELSE NoLine
    BY <1>1, <1>2, <1>4
  <2> HIDE DEF n, r
  <2>3. CASE IsValid(n)
    BY <2>1, <2>2, <2>3 DEF LineInv, AllowWrite
  <2>4. CASE ~IsValid(n)
    BY <2>1, <2>2, <2>4, EmptyLine
  <2> QED BY <2>3, <2>4
<1>6. \A p \in Port \ held : r.up[p] = b.up[p]
  BY <1>2, <1>4
<1>7. /\ low.sharer = b.llc.sharer /\ low.ext = b.llc.ext /\ low \in Line
      /\ IF ProbeWriteback(b, id)
         THEN IsValid(low) /\ low.dirty = TRUE /\ low.data = v
         ELSE low = b.llc
  <2>1. CASE dirty = {}
    BY <1>1, <2>1 DEF ProbeWriteback
  <2>2. CASE dirty # {}
    <3>1. PICK c \in dirty : TRUE
      BY <2>2
    <3>2. c \in Core /\ b.up[c].dirty
      BY <1>2, <3>1 DEF IsDirty
    <3>3. AllowWrite(b.up[c])
      BY <1>1, <3>2 DEF Coherent, Upper, LineInv
    <3>4. \A d \in dirty : d = c
      BY <1>2, <3>2, <3>3 DEF Coherent, Upper
    <3>5. last = c
      <4>1. c <= c
        BY <3>2, ExclusiveAssumption
      <4> QED BY <3>1, <3>4, <4>1
    <3>6. ProbeWriteback(b, id)
      BY <2>2 DEF ProbeWriteback
    <3>7. low = AfterWriteback(b, c)
      BY <2>2, <3>5
    <3> HIDE DEF low
    <3>8. /\ low \in Line /\ IsValid(low) /\ low.dirty = TRUE /\ low.data = v
          /\ low.sharer = b.llc.sharer /\ low.ext = b.llc.ext
      BY <3>2, <3>7, WrittenBackLine
    <3> QED BY <3>6, <3>8
  <2> QED BY <2>1, <2>2
<1> HIDE DEF r, ups, low, dirty
<1>8. r \in Block
  <2>1. r.up \in [Port -> Line]
    <3>1. DOMAIN r.up = Port /\ r.up = [p \in Port |-> r.up[p]]
      BY <1>4 DEF ups
    <3> QED BY <1>1, <1>5, <1>6, <3>1
  <2>2. r.llc \in Line
    BY <1>4, <1>7
  <2>3. r = [b EXCEPT !.up = r.up, !.llc = r.llc]
    BY <1>3, <1>4
  <2> QED BY <1>1, <2>1, <2>2, <2>3 DEF Block
<1>9. Upper(r, v)
  <2>1. \A p \in Port : LineInv(r.up[p]) /\ (IsValid(r.up[p]) => r.up[p].data = v)
    BY <1>5, <1>6 DEF Coherent, Upper
  <2>2. \A i \in ICore : ~r.up[i].dirty
    BY <1>1, <1>6, Ports DEF Coherent, Upper
  <2>3. L1Proto = "MI" => \A c \in Core : IsValid(r.up[c]) => AllowWrite(r.up[c])
    BY <1>1, <1>5, <1>6 DEF Coherent, Upper
  <2>4. ASSUME NEW c \in Core, NEW d \in Core, AllowWrite(r.up[c]), IsValid(r.up[d])
        PROVE  d = c
    <3>1. AllowWrite(b.up[c]) /\ IsValid(b.up[d])
      BY <1>1, <1>5, <1>6, <2>4
    <3> QED BY <3>1 DEF Coherent, Upper
  <2> QED BY <2>1, <2>2, <2>3, <2>4 DEF Upper
<1>10. \A p \in Port : p = id \/ p \in ICore => r.up[p] = b.up[p]
  BY <1>1, <1>6
<1>11. \A c \in Core : IsValid(r.up[c]) => IsValid(b.up[c])
  BY <1>1, <1>6
<1>12. ASSUME NEW c \in Core \ {id}
       PROVE  /\ ~AllowWrite(r.up[c]) /\ ~r.up[c].dirty
              /\ act = "evict" => ~IsValid(r.up[c])
  <2>1. CASE c \in held
    BY <1>5, <2>1
  <2>2. CASE c \notin held
    <3>1. r.up[c] = b.up[c] /\ ~IsValid(b.up[c]) /\ LineInv(b.up[c])
      BY <1>1, <1>6, <2>2 DEF Coherent, Upper
    <3> QED BY <3>1 DEF LineInv, AllowWrite
  <2> QED BY <2>1, <2>2
<1>13. act = "downgrade" /\ L1Proto = "MSI" =>
         \A c \in Core : IsValid(b.up[c]) => IsValid(r.up[c])
  BY <1>1, <1>5, <1>6
<1> QED BY <1>4, <1>7, <1>8, <1>9, <1>10, <1>11, <1>12, <1>13 DEF Probes, r

(* A fetch of the memory's content, which is always granted for writing.   *)
LEMMA FetchFields ==
  ASSUME NEW b \in Block, NEW act \in AcquireAct
  PROVE  LET r == Fetch(b, act)
         IN  /\ r \in Block /\ r.mem = b.mem /\ r.ok = b.ok /\ r.up = b.up
             /\ IsValid(r.llc) /\ r.llc.data = b.mem
             /\ r.llc.dirty = b.llc.dirty /\ r.llc.ext = b.llc.ext
             /\ b.llc.sharer \subseteq r.llc.sharer
<1> DEFINE a == [b.llc EXCEPT !.data = b.mem, !.outer = "M"]
           n == MetaAfterFetch(act, a)
           r == Fetch(b, act)
<1>1. b.llc \in Line /\ b.mem \in Val /\ b.ok \in BOOLEAN
  BY DEF Block
<1>2. /\ a \in Line /\ a.data = b.mem /\ a.outer = "M" /\ a.dirty = b.llc.dirty
      /\ a.ext = b.llc.ext /\ a.sharer = b.llc.sharer
  BY <1>1 DEF Line, State
<1>3. FetchAssertion(act, a)
  BY <1>2, Ports DEF FetchAssertion, AllowWrite, AcquireAct
<1>4. r = [b EXCEPT !.llc = n, !.ok = @ /\ FetchAssertion(act, a)]
  BY DEF Fetch
<1> HIDE DEF r, a
<1>5. Keeps(a, n)
  BY <1>2, FetchKeeps
<1> HIDE DEF n
<1>6. r = [b EXCEPT !.llc = n]
  BY <1>1, <1>3, <1>4 DEF Block
<1>7. r.llc = n /\ r.mem = b.mem /\ r.up = b.up /\ r.ok = b.ok /\ r \in Block
  BY <1>5, <1>6 DEF Block, Keeps
<1> QED BY <1>2, <1>5, <1>7 DEF Keeps, r

(* A write-back of a dirty line. *)
LEMMA WritebackFields ==
  ASSUME NEW b \in Block, b.llc.dirty => b.llc.data \in Val
  PROVE  LET r == MemWriteback(b)
         IN  /\ r \in Block /\ r.ok = b.ok /\ r.up = b.up
             /\ r.mem = IF b.llc.dirty THEN b.llc.data ELSE b.mem
             /\ ~r.llc.dirty /\ r.llc.st = b.llc.st /\ r.llc.data = b.llc.data
             /\ r.llc.ext = b.llc.ext /\ r.llc.sharer = b.llc.sharer
<1> DEFINE n == ToClean(b.llc)
           r == MemWriteback(b)
<1>1. b.llc \in Line
  BY DEF Block
<1>2. /\ n \in Line /\ n.dirty = FALSE /\ n.st = b.llc.st /\ n.data = b.llc.data
      /\ n.ext = b.llc.ext /\ n.sharer = b.llc.sharer
  BY <1>1 DEF ToClean, Line
<1>3. r = IF b.llc.dirty THEN [b EXCEPT !.mem = b.llc.data, !.llc = n] ELSE b
  BY DEF MemWriteback, IsDirty
<1> HIDE DEF n, r
<1>4. CASE b.llc.dirty
  <2>1. /\ r \in Block /\ r.ok = b.ok /\ r.up = b.up /\ r.mem = b.llc.data /\ r.llc = n
    BY <1>2, <1>3, <1>4 DEF Block
  <2> QED BY <1>2, <1>4, <2>1 DEF r
<1>5. CASE ~b.llc.dirty
  BY <1>3, <1>5 DEF r
<1> QED BY <1>4, <1>5

----------------------------------------------------------------------------
(* access_need_promote and what follows: a line that serves still does.    *)
LEMMA PromotedFields ==
  ASSUME NEW b \in Block, NEW v, Serving(b, v), NEW act \in AcquireAct
  PROVE  LET r == Promoted(b, Acquire(act))
         IN  /\ r \in Block /\ r.mem = b.mem /\ r.ok = b.ok /\ r.up = b.up
             /\ Serving(r, v)
             /\ r.llc.dirty = b.llc.dirty /\ r.llc.ext = b.llc.ext
             /\ b.llc.sharer \subseteq r.llc.sharer
<1> DEFINE cmd == Acquire(act)
           n   == ToModified(b.llc, NoId)
           r   == Promoted(b, cmd)
<1>1. b.llc \in Line
  BY DEF Block
<1>2. CASE NeedPromote(cmd, b.llc)
  <2>1. ~AllowWrite(b.llc)
    BY <1>2 DEF NeedPromote
  <2>2. ~b.llc.dirty /\ b.mem = v
    BY <2>1 DEF Serving
  <2>3. r = Fetch(b, "fetch_write") /\ "fetch_write" \in AcquireAct
    BY <1>2 DEF Promoted, AcquireAct
  <2> HIDE DEF r
  <2>4. /\ r \in Block /\ r.mem = b.mem /\ r.ok = b.ok /\ r.up = b.up
        /\ IsValid(r.llc) /\ r.llc.data = b.mem
        /\ r.llc.dirty = b.llc.dirty /\ r.llc.ext = b.llc.ext
        /\ b.llc.sharer \subseteq r.llc.sharer
    BY <2>3, FetchFields
  <2> QED BY <2>2, <2>4 DEF Serving, r
<1>3. CASE ~NeedPromote(cmd, b.llc) /\ NeedPromoteLocal(cmd, b.llc)
  <2>1. r = [b EXCEPT !.llc = n]
    BY <1>3 DEF Promoted
  <2>2. Keeps(b.llc, n)
    BY <1>1, ModifiedKeeps
  <2> HIDE DEF n, r
  <2>3. r \in Block /\ r.mem = b.mem /\ r.ok = b.ok /\ r.up = b.up /\ r.llc = n
    BY <2>1, <2>2 DEF Block, Keeps
  <2> QED BY <2>2, <2>3 DEF Serving, Keeps, AllowWrite, r
<1>4. CASE ~NeedPromote(cmd, b.llc) /\ ~NeedPromoteLocal(cmd, b.llc)
  BY <1>4 DEF Promoted
<1> QED BY <1>2, <1>3, <1>4

(* The commands of an acquire. *)
LEMMA AcquireCmd ==
  ASSUME NEW act \in AcquireAct
  PROVE  /\ SyncAct(Acquire(act)) \in {"evict", "downgrade"}
         /\ SyncAct(Acquire(act)) = "evict" <=> act = "fetch_write"
         /\ CmdForOuterAcquire(Acquire(act)) \in AcquireAct
BY DEF SyncAct, Acquire, CmdForOuterAcquire, AcquireAct, IsWrite

(* Serving a block that the LLC has in no normal way.                      *)
LEMMA FetchLineServes ==
  ASSUME NEW b, NEW v, Coherent(b, v), NEW p \in Port, NEW act \in AcquireAct,
         p \in Core => ~AllowWrite(b.up[p]), ~Normal(b.llc)
  PROVE  LET r == FetchLine(b, Acquire(act), Id(p))
         IN  Serves(b, p, act, v, r) /\ ~r.llc.dirty
<1> DEFINE cmd == Acquire(act)
           id  == Id(p)
           syn == SyncAct(cmd)
           out == CmdForOuterAcquire(cmd)
           s   == ProbeReq(b, syn, id)
           r   == FetchLine(b, cmd, id)
<1>1. /\ id \in Core \cup {NoId} /\ Core \subseteq Port
      /\ \A c \in Core : c = id <=> c = p
  BY Ports
<1>2. /\ syn \in {"evict", "downgrade"} /\ (syn = "evict" <=> act = "fetch_write")
      /\ out \in AcquireAct
  BY AcquireCmd
<1>8. r = IF ProbeWriteback(b, id) THEN MemWriteback(s) ELSE Fetch(s, out)
  BY DEF FetchLine
<1> HIDE DEF r, syn, out, id
<1>3. Probes(b, syn, id, v, s)
  BY <1>1, <1>2, ProbeFields
<1> HIDE DEF s
<1>4. \A q \in Port : q = p \/ q \in ICore => s.up[q] = b.up[q]
  BY <1>1, <1>3, Ports DEF Probes
<1>5. \A c \in Core : ~AllowWrite(s.up[c])
  BY <1>1, <1>3, <1>4 DEF Probes
<1>6. act = "fetch_write" => \A c \in Core \ {p} : ~IsValid(s.up[c])
  BY <1>1, <1>2, <1>3 DEF Probes
<1>7. act # "fetch_write" /\ L1Proto = "MSI" =>
        \A c \in Core : IsValid(b.up[c]) => IsValid(s.up[c])
  BY <1>2, <1>3 DEF Probes
<1>9. /\ r \in Block /\ r.ok /\ r.up = s.up /\ r.mem \in {b.mem, v}
      /\ ~r.llc.dirty /\ r.mem = v /\ r.llc.data = v /\ IsValid(r.llc)
      /\ r.llc.ext = b.llc.ext /\ b.llc.sharer \subseteq r.llc.sharer
  <2>1. CASE ProbeWriteback(b, id)
    BY <1>3, <1>8, <2>1, WritebackFields DEF Probes, Coherent, IsValid
  <2>2. CASE ~ProbeWriteback(b, id)
    <3>1. NoDirty(b)
      BY <1>1, <2>2, ProbedHolders DEF NoDirty, Coherent, Upper, LineInv
    <3>2. b.mem = v /\ ~b.llc.dirty
      BY <3>1 DEF Coherent, Lower
    <3> QED BY <1>2, <1>3, <1>8, <2>2, <3>2, FetchFields DEF Probes, Coherent
  <2> QED BY <2>1, <2>2
<1>10. Upper(r, v)
  BY <1>3, <1>9 DEF Probes, Upper
<1> QED BY <1>3, <1>4, <1>5, <1>6, <1>7, <1>9, <1>10 DEF Probes, Serves, Serving, r, id

(* access_line. *)
LEMMA AccessServes ==
  ASSUME NEW b, NEW v, Coherent(b, v), NEW p \in Port, NEW act \in AcquireAct,
         p \in Core => ~AllowWrite(b.up[p]),
         p \in ICore => act # "fetch_write"
  PROVE  Serves(b, p, act, v, AccessLine(b, p, Acquire(act)))
<1> DEFINE cmd == Acquire(act)
           id  == Id(p)
           f   == FetchLine(b, cmd, id)
           r   == AccessLine(b, p, cmd)
<1>1. b \in Block /\ b.ok /\ v \in Val /\ (p \in ICore <=> p \notin Core)
  BY Ports DEF Coherent
<1>2. CASE Normal(b.llc)
  <2> DEFINE m == Promoted(b, cmd)
  <2>1. Serving(b, v) /\ NoHolder(b)
    BY <1>2 DEF Coherent, Lower, Serving, Normal
  <2>2. /\ m \in Block /\ m.mem = b.mem /\ m.ok = b.ok /\ m.up = b.up
        /\ Serving(m, v)
        /\ m.llc.dirty = b.llc.dirty /\ m.llc.ext = b.llc.ext
        /\ b.llc.sharer \subseteq m.llc.sharer
    BY <1>1, <2>1, PromotedFields
  <2>3. r = IF p \in Core THEN MemWriteback(m) ELSE m
    BY <1>2 DEF AccessLine, MoveUp
  <2> HIDE DEF m, r
  <2>4. /\ r \in Block /\ r.mem \in {b.mem, v} /\ r.ok = b.ok /\ r.up = b.up
        /\ Serving(r, v)
        /\ r.llc.dirty => p \notin Core
        /\ r.llc.ext = b.llc.ext /\ b.llc.sharer \subseteq r.llc.sharer
    <3>1. CASE p \in Core
      <4>1. /\ r \in Block /\ r.ok = m.ok /\ r.up = m.up
            /\ r.mem = IF m.llc.dirty THEN m.llc.data ELSE m.mem
            /\ ~r.llc.dirty /\ r.llc.st = m.llc.st /\ r.llc.data = m.llc.data
            /\ r.llc.ext = m.llc.ext /\ r.llc.sharer = m.llc.sharer
        BY <1>1, <2>2, <2>3, <3>1, WritebackFields DEF Serving
      <4> QED BY <2>2, <4>1 DEF Serving, IsValid
    <3>2. CASE p \notin Core
      BY <2>2, <2>3, <3>2
    <3> QED BY <3>1, <3>2
  <2>5. \A c \in Core : ~IsValid(r.up[c]) /\ ~AllowWrite(r.up[c])
    BY <2>1, <2>4, Ports DEF NoHolder, Coherent, Upper, LineInv, AllowWrite
  <2>6. Upper(r, v)
    BY <2>4 DEF Coherent, Upper
  <2> QED BY <1>1, <1>2, <2>1, <2>4, <2>5, <2>6 DEF Serves, NoHolder, r
<1>3. CASE ~Normal(b.llc) /\ (~Directory \/ (IsValid(b.llc) /\ ~ProbeWriteback(b, id)))
  <2>1. r = f
    BY <1>3 DEF AccessLine
  <2> QED BY <1>3, <2>1, FetchLineServes
<1>4. CASE ~Normal(b.llc) /\ Directory /\ IsValid(b.llc) /\ ProbeWriteback(b, id)
  <2>1. r = Promoted(f, cmd)
    BY <1>4 DEF AccessLine
  <2>2. Serves(b, p, act, v, f) /\ ~f.llc.dirty
    BY <1>4, FetchLineServes
  <2> HIDE DEF f, r
  <2>3. f \in Block /\ Serving(f, v)
    BY <2>2 DEF Serves
  <2>4. /\ r \in Block /\ r.mem = f.mem /\ r.ok = f.ok /\ r.up = f.up
        /\ Serving(r, v)
        /\ r.llc.dirty = f.llc.dirty /\ r.llc.ext = f.llc.ext
        /\ f.llc.sharer \subseteq r.llc.sharer
    BY <2>1, <2>3, PromotedFields
  <2> QED BY <2>2, <2>4 DEF Serves, Upper, r
<1>5. CASE Directory /\ ~IsValid(b.llc)
  <2> DEFINE out == CmdForOuterAcquire(cmd)
  <2>1. r = Fetch(b, out) /\ out \in AcquireAct
    BY <1>5, AcquireCmd DEF AccessLine, Normal
  <2> HIDE DEF out, r
  <2>2. /\ r \in Block /\ r.mem = b.mem /\ r.ok = b.ok /\ r.up = b.up
        /\ IsValid(r.llc) /\ r.llc.data = b.mem
        /\ r.llc.dirty = b.llc.dirty /\ r.llc.ext = b.llc.ext
        /\ b.llc.sharer \subseteq r.llc.sharer
    BY <1>1, <2>1, FetchFields
  <2>3. NoHolder(b) /\ ~b.llc.ext /\ ~b.llc.dirty
    BY <1>5 DEF Coherent, Entry, Lower, Normal, NoHolder
  <2>4. NoDirty(b) /\ \A c \in Core : ~AllowWrite(b.up[c])
    BY <2>3, Ports DEF NoHolder, NoDirty, Coherent, Upper, LineInv, AllowWrite
  <2>5. b.mem = v
    BY <1>5, <2>4 DEF Coherent, Lower, Normal
  <2>6. Upper(r, v)
    BY <2>2 DEF Coherent, Upper
  <2> QED BY <1>1, <2>2, <2>3, <2>4, <2>5, <2>6 DEF Serves, Serving, NoHolder, r
<1> QED BY <1>2, <1>3, <1>4, <1>5

----------------------------------------------------------------------------
(* What an L1, MI or MSI, makes of the content it is sent.                 *)
LEMMA FetchedCopy ==
  ASSUME NEW line \in Line, ~line.dirty, NEW act \in AcquireAct,
         act = "fetch_write" => line.outer = "M"
  PROVE  LET n == L1I!MetaAfterFetch(act, line)
         IN  /\ n \in Line /\ IsValid(n) /\ ~n.dirty
             /\ n.outer = line.outer /\ n.data = line.data
             /\ L1I!FetchAssertion(act, line)
<1> DEFINE i == [line EXCEPT !.st = "I"]
           n == L1I!MetaAfterFetch(act, line)
<1>1. L1I!FetchAssertion(act, line)
  BY DEF L1I!FetchAssertion, L1I!AllowWrite, AcquireAct
<1>2. n \in {[i EXCEPT !.st = "S"], [i EXCEPT !.st = "M"]}
  BY DEF L1I!MetaAfterFetch, L1I!ToShared, L1I!ToModified, L1I!AddSharer
<1> HIDE DEF n
<1>3. i \in Line /\ i.outer = line.outer /\ i.dirty = line.dirty /\ i.data = line.data
  BY DEF Line, State
<1> HIDE DEF i
<1>4. /\ n \in Line /\ IsValid(n) /\ ~n.dirty
      /\ n.outer = line.outer /\ n.data = line.data
  BY <1>2, <1>3 DEF Line, State, IsValid
<1> QED BY <1>1, <1>4 DEF n

(* An exclusive or modified copy is granted only when no other L1D has     *)
(* one; and whoever asked to write is granted a modified one.              *)
LEMMA GrantedAlone ==
  ASSUME NEW b, NEW v, Coherent(b, v), NEW p \in Port, NEW act \in AcquireAct,
         NEW acc, Serves(b, p, act, v, acc), p \in Core => act # "prefetch"
  PROVE  LET o == Granted(act, acc.llc, Id(p))
         IN  /\ o \in {"S", "E", "M"}
             /\ act = "fetch_write" => o = "M"
             /\ p \in Core /\ o # "S" => \A c \in Core \ {p} : ~IsValid(acc.up[c])
<1> DEFINE id == Id(p)
           s  == ToShared(acc.llc, id)
           o  == Granted(act, acc.llc, id)
<1>1. /\ acc.llc \in Line /\ id \in Core \cup {NoId} /\ (p \in Core => id = p)
      /\ b.llc.sharer \subseteq acc.llc.sharer
  BY Ports DEF Serves, Block
<1>2. acc.llc.sharer \subseteq s.sharer
  BY <1>1, SharedKeeps DEF Keeps
<1> HIDE DEF s, id
<1>3. o = IF act = "fetch_read"
          THEN IF Proto = "MESI" /\ s.sharer = {id} THEN "E" ELSE "S"
          ELSE "M"
  BY Ports DEF Granted, IsExclusiveSharer, s
<1> HIDE DEF o
<1>4. ASSUME p \in Core, o # "S", NEW c \in Core \ {p}
      PROVE  ~IsValid(acc.up[c])
  <2>1. CASE act = "fetch_write"
    BY <1>4, <2>1 DEF Serves
  <2>2. CASE act = "fetch_read"
    <3>1. Directory /\ s.sharer = {p}
      BY <1>1, <1>3, <1>4, <2>2, ProtoAssumption
    <3>2. c \notin b.llc.sharer
      BY <1>1, <1>2, <1>4, <3>1
    <3>3. ~IsValid(b.up[c])
      BY <3>1, <3>2 DEF Coherent, Entry
    <3> QED BY <3>3 DEF Serves
  <2> QED BY <1>4, <2>1, <2>2 DEF AcquireAct
<1> QED BY <1>3, <1>4 DEF o, id

(* Where the line is kept: in a normal way only if no L1D has the block,   *)
(* otherwise it leaves the LLC, whose memory is then current.              *)
Settles(b, p, v, acc, g) ==
  /\ g \in Line
  /\ g.dirty => Normal(g) /\ AllowWrite(g)
  /\ IF Normal(g)
     THEN g.data = v /\ (g.dirty \/ acc.mem = v) /\ p \notin Core /\ NoHolder(b)
     ELSE acc.mem = v
  /\ g.ext <=> Directory /\ (p \in Core \/ b.llc.ext)
  /\ g.ext => IsValid(g)
  /\ Directory => b.llc.sharer \subseteq g.sharer /\ (p \in Core => p \in g.sharer)

LEMMA LineGrantedSettles ==
  ASSUME NEW b, NEW v, Coherent(b, v), NEW p \in Port, NEW act \in AcquireAct,
         NEW acc, Serves(b, p, act, v, acc)
  PROVE  Settles(b, p, v, acc, LineGranted(b, acc.llc, p, act))
<1> DEFINE g == LineGranted(b, acc.llc, p, act)
<1>1. /\ acc.llc \in Line /\ Serving(acc, v) /\ v \in Val /\ Directory \in BOOLEAN
      /\ Id(p) \in Core \cup {NoId} /\ NoId \in Core \cup {NoId} /\ NoId \notin Core
      /\ p \in Core => Id(p) = p /\ ~acc.llc.dirty
      /\ acc.llc.dirty => Normal(b.llc)
      /\ acc.llc.ext = b.llc.ext /\ b.llc.sharer \subseteq acc.llc.sharer
      /\ b.llc.ext \in BOOLEAN
  BY Ports, ProtoAssumption DEF Serves, Coherent, Block, Line
<1>2. CASE ~Directory
  <2>1. ~b.llc.ext
    BY <1>2 DEF Coherent, Entry
  <2>2. CASE p \notin Core /\ (Normal(b.llc) \/ Holders(b) = {})
    <3>1. g = ToShared(acc.llc, NoId)
      BY <1>2, <2>2 DEF LineGranted
    <3> HIDE DEF g
    <3>2. Keeps(acc.llc, g)
      BY <1>1, <3>1, SharedKeeps
    <3>3. NoHolder(b)
      BY <2>2 DEF Holders, NoHolder, Coherent, Lower
    <3> QED BY <1>1, <1>2, <2>1, <2>2, <3>2, <3>3
            DEF Keeps, Serving, Settles, Normal, AllowWrite, g
  <2>3. CASE ~(p \notin Core /\ (Normal(b.llc) \/ Holders(b) = {}))
    <3>1. g = NoLine
      BY <1>2, <2>3 DEF LineGranted
    <3>2. ~acc.llc.dirty
      BY <1>1, <2>3
    <3>3. acc.mem = v
      BY <1>1, <3>2 DEF Serving
    <3> HIDE DEF g
    <3> QED BY <1>2, <2>1, <3>1, <3>3, EmptyLine DEF Settles, g
  <2> QED BY <2>2, <2>3
<1>3. CASE Directory
  <2> DEFINE ext == p \in Core \/ b.llc.ext
             d   == DirectoryGranted(acc.llc, p, act)
  <2>1. Keeps(acc.llc, d) /\ (p \in Core => p \in d.sharer)
    <3>1. CASE Proto = "MESI" /\ p \notin Core
      <4>1. d = ToShared(acc.llc, NoId)
        BY <3>1 DEF DirectoryGranted
      <4> QED BY <1>1, <3>1, <4>1, SharedKeeps
    <3>2. CASE ~(Proto = "MESI" /\ p \notin Core)
      <4>1. d = MetaAfterGrant(act, acc.llc, Id(p))
        BY <3>2 DEF DirectoryGranted
      <4> HIDE DEF d
      <4>2. Keeps(acc.llc, d) /\ (Id(p) # NoId => Id(p) \in d.sharer)
        BY <1>1, <1>3, <4>1, GrantKeeps
      <4> QED BY <1>1, <4>2
    <3> QED BY <3>1, <3>2
  <2>2. g = [d EXCEPT !.ext = ext, !.data = IF ext THEN NoVal ELSE @]
    BY <1>3 DEF LineGranted
  <2>3. ext \in BOOLEAN
    BY <1>1
  <2> HIDE DEF d, g
  <2>4. CASE ext
    <3>1. g = [d EXCEPT !.ext = TRUE, !.data = NoVal]
      BY <2>2, <2>3, <2>4
    <3>2. /\ g \in Line /\ g.ext = TRUE /\ IsValid(g) /\ g.dirty = acc.llc.dirty
          /\ acc.llc.sharer \subseteq g.sharer /\ (p \in Core => p \in g.sharer)
      BY <2>1, <3>1 DEF Keeps, Line, IsValid
    <3>3. ~acc.llc.dirty
      BY <1>1, <2>4 DEF Normal
    <3>4. acc.mem = v
      BY <1>1, <3>3 DEF Serving
    <3> QED BY <1>1, <1>3, <2>4, <3>2, <3>3, <3>4 DEF Settles, Normal, g
  <2>5. CASE ~ext
    <3>1. g = [d EXCEPT !.ext = FALSE]
      <4>1. ext = FALSE
        BY <2>5
      <4>2. [d EXCEPT !.ext = FALSE, !.data = d.data] = [d EXCEPT !.ext = FALSE]
        BY <2>1 DEF Keeps, Line
      <4> QED BY <2>2, <4>1, <4>2
    <3>2. /\ g \in Line /\ g.ext = FALSE /\ IsValid(g) /\ g.dirty = acc.llc.dirty
          /\ g.data = acc.llc.data /\ g.outer = acc.llc.outer
          /\ acc.llc.sharer \subseteq g.sharer
      BY <2>1, <3>1 DEF Keeps, Line, IsValid
    <3>3. NoHolder(b)
      BY <1>3, <2>5 DEF Coherent, Entry, NoHolder
    <3> QED BY <1>1, <1>3, <2>5, <3>2, <3>3
            DEF Serving, Settles, Normal, AllowWrite, g
  <2> QED BY <2>4, <2>5
<1> QED BY <1>2, <1>3

(* acquire_resp and acquire_req: the copy that p receives is current, and  *)
(* it is the only one of the L1Ds if p asked to write.                     *)
LEMMA AcquireCoherent ==
  ASSUME NEW b, NEW v, Coherent(b, v), NEW p \in Port, NEW act \in AcquireAct,
         p \in ICore => act # "fetch_write",
         p \in Core => ~AllowWrite(b.up[p]) /\ act # "prefetch",
         p \in Core /\ L1Proto = "MI" => act = "fetch_write"
  PROVE  LET r == AcquireReq(b, p, act)
         IN  /\ Coherent(r, v) /\ Frame(b, r, v, {p})
             /\ IsValid(r.up[p]) /\ r.up[p].data = v
             /\ act = "fetch_write" => AllowWrite(r.up[p])
<1> DEFINE acc  == AccessLine(b, p, Acquire(act))
           o    == Granted(act, acc.llc, Id(p))
           line == [b.up[p] EXCEPT !.data = acc.llc.data, !.outer = o]
           n    == L1I!MetaAfterFetch(act, line)
           g    == LineGranted(b, acc.llc, p, act)
           r    == AcquireReq(b, p, act)
<1>1. /\ b \in Block /\ v \in Val /\ b.ok /\ b.up[p] \in Line /\ LineInv(b.up[p])
      /\ Core \subseteq Port /\ ICore \subseteq Port
      /\ \A q \in Port : q \in ICore <=> q \notin Core
  BY Ports DEF Coherent, Upper, Block
<1>2. ~b.up[p].dirty
  BY <1>1 DEF LineInv, Coherent, Upper
<1>3. Serves(b, p, act, v, acc)
  BY AccessServes
<1>4. Settles(b, p, v, acc, g)
  BY <1>3, LineGrantedSettles
<1>5. /\ o \in {"S", "E", "M"} /\ (act = "fetch_write" => o = "M")
      /\ p \in Core /\ o # "S" => \A c \in Core \ {p} : ~IsValid(acc.up[c])
  BY <1>3, GrantedAlone
<1>6. /\ r = [acc EXCEPT !.llc = g, !.up[p] = n,
                !.ok = /\ @
                       /\ ~IsDirty(b.up[p])
                       /\ Proto = "MESI" /\ p \in Core => act \in {"fetch_read", "fetch_write"}
                       /\ L1I!FetchAssertion(act, line)]
  BY DEF AcquireReq
<1> HIDE DEF acc, o, g
<1>7. acc \in Block /\ acc.ok /\ acc.llc.data = v /\ o \in State
  BY <1>3, <1>5 DEF Serves, Serving, State
<1>8. n \in Line /\ IsValid(n) /\ ~n.dirty /\ n.outer = o /\ n.data = v
      /\ L1I!FetchAssertion(act, line)
  <2>1. line \in Line /\ ~line.dirty /\ line.outer = o /\ line.data = v
    BY <1>1, <1>2, <1>7 DEF Line
  <2> HIDE DEF line
  <2> QED BY <1>5, <2>1, FetchedCopy
<1> HIDE DEF n, line, r
<1>9. /\ r.llc = g /\ r.up = [acc.up EXCEPT ![p] = n] /\ r.mem = acc.mem /\ r.ok
      /\ r \in Block
  <2>1. act \in {"fetch_read", "fetch_write"} \/ p \notin Core
    BY DEF AcquireAct
  <2>2. r = [acc EXCEPT !.llc = g, !.up[p] = n, !.ok = TRUE]
    BY <1>2, <1>6, <1>7, <1>8, <2>1 DEF IsDirty, Block
  <2>3. g \in Line
    BY <1>4 DEF Settles
  <2> QED BY <1>7, <1>8, <2>2, <2>3 DEF Block
<1>10. r.up[p] = n /\ \A q \in Port \ {p} : r.up[q] = acc.up[q]
  BY <1>7, <1>9 DEF Block
<1>11. \A c \in Core : ~AllowWrite(acc.up[c]) /\ (IsValid(acc.up[c]) => IsValid(b.up[c]))
  BY <1>3 DEF Serves
<1>12. AllowWrite(n) <=> o # "S"
  BY <1>5, <1>8 DEF AllowWrite
<1>13. Upper(r, v)
  <2>1. Upper(acc, v)
    BY <1>3 DEF Serves
  <2>2. LineInv(n)
    BY <1>8 DEF LineInv
  <2>3. \A q \in Port : LineInv(r.up[q]) /\ (IsValid(r.up[q]) => r.up[q].data = v)
    BY <1>8, <1>10, <2>1, <2>2 DEF Upper
  <2>4. \A i \in ICore : ~r.up[i].dirty
    BY <1>1, <1>8, <1>10, <2>1 DEF Upper
  <2>5. L1Proto = "MI" => \A c \in Core : IsValid(r.up[c]) => AllowWrite(r.up[c])
    <3>1. ASSUME L1Proto = "MI", NEW c \in Core \ {p}
          PROVE  ~IsValid(r.up[c])
      BY <1>1, <1>10, <1>11, <2>1, <3>1 DEF Upper
    <3> QED BY <1>5, <1>10, <1>12, <3>1
  <2>6. ASSUME NEW c \in Core, NEW d \in Core, AllowWrite(r.up[c]), IsValid(r.up[d])
        PROVE  d = c
    <3>1. c = p
      BY <1>1, <1>10, <1>11, <2>6
    <3> QED BY <1>1, <1>5, <1>10, <1>12, <2>6, <3>1
  <2> QED BY <2>3, <2>4, <2>5, <2>6 DEF Upper
<1>14. Lower(r, v)
  <2>1. NoHolder(b) /\ p \notin Core => NoHolder(r)
    BY <1>1, <1>10, <1>11 DEF NoHolder
  <2> QED BY <1>4, <1>9, <2>1 DEF Settles, Lower
<1>15. Entry(r)
  <2>1. ASSUME g.ext
        PROVE  Directory /\ IsValid(g) /\ (L1Proto = "MSI" => ~NoHolder(r))
    <3>1. Directory /\ IsValid(g) /\ (p \in Core \/ b.llc.ext)
      BY <1>4, <2>1 DEF Settles
    <3>2. p \in Core => ~NoHolder(r)
      BY <1>8, <1>10 DEF NoHolder
    <3>3. ASSUME p \notin Core, L1Proto = "MSI"
          PROVE  ~NoHolder(r)
      <4>1. PICK c \in Core : IsValid(b.up[c])
        BY <3>1, <3>3 DEF Coherent, Entry, NoHolder
      <4>2. act # "fetch_write"
        BY <1>1, <3>3
      <4>3. IsValid(acc.up[c])
        BY <1>3, <3>3, <4>1, <4>2 DEF Serves
      <4> QED BY <1>1, <1>10, <3>3, <4>1, <4>3 DEF NoHolder
    <3> QED BY <3>1, <3>2, <3>3
  <2>2. ASSUME Directory, NEW c \in Core, IsValid(r.up[c])
        PROVE  g.ext /\ c \in g.sharer
    <3>1. CASE c = p
      BY <1>4, <2>2, <3>1 DEF Settles
    <3>2. CASE c # p
      <4>1. IsValid(b.up[c])
        BY <1>1, <1>10, <1>11, <2>2, <3>2
      <4>2. b.llc.ext /\ c \in b.llc.sharer
        BY <2>2, <4>1 DEF Coherent, Entry
      <4> QED BY <1>4, <2>2, <4>2 DEF Settles
    <3> QED BY <3>1, <3>2
  <2> QED BY <1>9, <2>1, <2>2 DEF Entry
<1>16. Frame(b, r, v, {p})
  BY <1>1, <1>3, <1>9, <1>10 DEF Serves, Frame
<1>17. act = "fetch_write" => AllowWrite(r.up[p])
  BY <1>5, <1>10, <1>12
<1> QED BY <1>1, <1>8, <1>9, <1>10, <1>13, <1>14, <1>15, <1>16, <1>17 DEF Coherent, r

----------------------------------------------------------------------------
(* A copy that is dropped by an L1 whose port keeps no content.            *)
LEMMA DropCoherent ==
  ASSUME NEW b, NEW v, Coherent(b, v), NEW i \in ICore
  PROVE  LET r == [b EXCEPT !.up[i] = NoLine]
         IN  Coherent(r, v) /\ Frame(b, r, v, {})
<1> DEFINE r == [b EXCEPT !.up[i] = NoLine]
<1>1. b \in Block /\ i \in Port /\ i \notin Core /\ Core \subseteq Port /\ ICore \subseteq Port
  BY Ports DEF Coherent
<1>2. /\ r \in Block /\ r.mem = b.mem /\ r.llc = b.llc /\ r.ok = b.ok
      /\ r.up[i] = NoLine /\ \A q \in Port \ {i} : r.up[q] = b.up[q]
  BY <1>1, EmptyLine DEF Block
<1> HIDE DEF r
<1>3. \A c \in Core : r.up[c] = b.up[c]
  BY <1>1, <1>2
<1>4. Upper(r, v)
  BY <1>1, <1>2, <1>3, EmptyLine DEF Coherent, Upper
<1>5. Lower(r, v) /\ Entry(r)
  BY <1>2, <1>3 DEF Coherent, Lower, Entry, NoHolder, NoDirty
<1>6. Frame(b, r, v, {})
  BY <1>1, <1>2, EmptyLine DEF Frame
<1> QED BY <1>2, <1>4, <1>5, <1>6 DEF Coherent, r

(* The driver's flush of the L1Is. *)
LEMMA InstFlushedCoherent ==
  ASSUME NEW b, NEW v, Coherent(b, v)
  PROVE  LET r == InstFlushed(b)
         IN  Coherent(r, v) /\ r.mem = b.mem /\ \A i \in ICore : ~IsValid(r.up[i])
<1> DEFINE r == InstFlushed(b)
<1>1. b \in Block /\ Core \cap ICore = {} /\ Core \subseteq Port /\ ICore \subseteq Port
  BY ExclusiveAssumption, Ports DEF Coherent
<1>2. /\ r \in Block /\ r.mem = b.mem /\ r.llc = b.llc /\ r.ok = b.ok
      /\ \A q \in Port : r.up[q] = IF q \in ICore THEN NoLine ELSE b.up[q]
  BY <1>1, EmptyLine DEF Block, InstFlushed
<1> HIDE DEF r
<1>3. \A c \in Core : r.up[c] = b.up[c]
  BY <1>1, <1>2
<1>4. Upper(r, v)
  BY <1>1, <1>2, <1>3, EmptyLine DEF Coherent, Upper
<1>5. Lower(r, v) /\ Entry(r)
  BY <1>2, <1>3 DEF Coherent, Lower, Entry, NoHolder, NoDirty
<1> QED BY <1>1, <1>2, <1>4, <1>5, EmptyLine DEF Coherent, r

(* A release and the replacement that it is for.  The LLC takes the block  *)
(* into a normal way exactly when no other L1D has it.                     *)
LEMMA ReleaseCoherent ==
  ASSUME NEW b, NEW v, Coherent(b, v), NEW p \in Core, IsValid(b.up[p])
  PROVE  LET r == L1Evict(b, p)
         IN  Coherent(r, v) /\ Frame(b, r, v, {})
<1> DEFINE s   == IF Directory THEN ProbeReq(b, "downgrade", p) ELSE b
           l   == [s.llc EXCEPT !.outer = b.up[p].outer, !.dirty = b.up[p].dirty,
                                !.data  = b.up[p].data,  !.ext   = FALSE]
           g   == IF Kept(b, p) THEN s.llc
                  ELSE IF Directory THEN l ELSE ToShared(l, NoId)
           rel == Released(b, p)
           r   == L1Evict(b, p)
<1>1. /\ b \in Block /\ b.ok /\ v \in Val /\ b.up[p] \in Line /\ LineInv(b.up[p])
      /\ b.up[p].data = v /\ b.llc \in Line /\ ~Normal(b.llc)
      /\ Core \subseteq Port /\ ICore \subseteq Port /\ Core \cap ICore = {}
      /\ p \in Core \cup {NoId} /\ p \in Port
  BY ExclusiveAssumption, Ports DEF Coherent, Upper, Lower, NoHolder, Block
<1>2. \A c \in Core \ {p} : ~AllowWrite(b.up[c]) /\ ~b.up[c].dirty
  BY <1>1 DEF Coherent, Upper, LineInv
<1>3. /\ Probed(b, p) = {c \in Core : c # p /\ IsValid(b.up[c])}
      /\ ~ProbeWriteback(b, p)
  BY <1>1, <1>2, ProbedHolders
<1>4. Probes(b, "downgrade", p, v, s)
  <2>1. CASE Directory
    BY <1>1, <2>1, ProbeFields
  <2>2. CASE ~Directory
    BY <1>1, <1>2, <1>3, <2>2 DEF Coherent, Probes
  <2> QED BY <2>1, <2>2
<1> HIDE DEF s
<1>5. /\ s \in Block /\ s.mem = b.mem /\ s.ok /\ s.llc = b.llc /\ Upper(s, v)
      /\ s.up[p] = b.up[p] /\ \A i \in ICore : s.up[i] = b.up[i]
      /\ \A c \in Core : IsValid(s.up[c]) => IsValid(b.up[c])
      /\ L1Proto = "MSI" => \A c \in Core : IsValid(b.up[c]) => IsValid(s.up[c])
  BY <1>1, <1>3, <1>4 DEF Probes
<1>6. IF Directory THEN IsValid(b.llc) /\ b.llc.ext ELSE ~IsValid(b.llc)
  BY <1>1 DEF Coherent, Entry, Normal
<1>7. rel = [s EXCEPT !.llc = g, !.up[p] = ToClean(@),
               !.ok = /\ @
                      /\ IF Directory THEN IsValid(b.llc) /\ b.llc.ext ELSE ~IsValid(b.llc)
                      /\ ReleaseProbes(b, p) => ~ProbeWriteback(b, p)]
  <2>1. rel = [s EXCEPT
          !.llc   = IF Kept(b, p) THEN @ ELSE IF Directory THEN l ELSE ToShared(l, NoId),
          !.up[p] = ToClean(@),
          !.ok    = /\ @
                    /\ IF Directory THEN IsValid(b.llc) /\ b.llc.ext ELSE ~IsValid(b.llc)
                    /\ ReleaseProbes(b, p) => ~ProbeWriteback(b, p)]
    BY DEF Released, s
  <2> HIDE DEF rel, l
  <2> QED BY <2>1
<1> HIDE DEF g, rel
<1>8. /\ rel.llc = g /\ rel.up = [s.up EXCEPT ![p] = ToClean(@)] /\ rel.mem = s.mem
      /\ rel.ok /\ rel = [s EXCEPT !.llc = g, !.up = rel.up, !.ok = TRUE]
  <2>1. rel = [s EXCEPT !.llc = g, !.up[p] = ToClean(@), !.ok = TRUE]
    BY <1>3, <1>5, <1>6, <1>7 DEF Block
  <2> QED BY <1>5, <2>1 DEF Block
<1>9. rel.up[p] = ToClean(b.up[p]) /\ \A q \in Port \ {p} : rel.up[q] = s.up[q]
  BY <1>1, <1>5, <1>8 DEF Block
<1>10. ~IsDirty(rel.up[p])
  BY <1>1, <1>9 DEF IsDirty, ToClean, Line
<1>11. r = [rel EXCEPT !.up[p] = NoLine, !.ok = @ /\ ~IsDirty(rel.up[p])]
  BY DEF L1Evict, rel
<1> HIDE DEF r
<1>12. /\ r.llc = g /\ r.mem = b.mem /\ r.ok
       /\ r.up[p] = NoLine /\ \A q \in Port \ {p} : r.up[q] = s.up[q]
       /\ r.up = [q \in Port |-> IF q = p THEN NoLine ELSE s.up[q]]
       /\ r = [s EXCEPT !.llc = g, !.up = r.up, !.ok = TRUE]
  <2>1. r = [rel EXCEPT !.up = [rel.up EXCEPT ![p] = NoLine], !.ok = TRUE]
    BY <1>5, <1>8, <1>10, <1>11 DEF Block
  <2> QED BY <1>1, <1>5, <1>8, <1>9, <2>1 DEF Block
<1>13. ~AllowWrite(r.up[p]) /\ ~IsValid(r.up[p]) /\ LineInv(r.up[p]) /\ NoLine \in Line
  BY <1>12, EmptyLine
<1>14. Upper(r, v)
  <2>1. \A q \in Port : LineInv(r.up[q]) /\ (IsValid(r.up[q]) => r.up[q].data = v)
    BY <1>5, <1>12, <1>13 DEF Upper
  <2>2. \A i \in ICore : ~r.up[i].dirty
    BY <1>1, <1>5, <1>12 DEF Upper
  <2>3. L1Proto = "MI" => \A c \in Core : IsValid(r.up[c]) => AllowWrite(r.up[c])
    BY <1>1, <1>5, <1>12, <1>13 DEF Upper
  <2>4. \A c, d \in Core : AllowWrite(r.up[c]) /\ IsValid(r.up[d]) => d = c
    BY <1>1, <1>5, <1>12, <1>13 DEF Upper
  <2> QED BY <2>1, <2>2, <2>3, <2>4 DEF Upper
<1>15. g \in Line /\ Lower(r, v) /\ Entry(r)
  <2>1. CASE Kept(b, p)
    <3>1. g = b.llc
      BY <1>5, <2>1 DEF g
    <3>2. PICK d \in Core \ {p} : IsValid(b.up[d])
      BY <1>3, <2>1 DEF Kept
    <3>3. ~AllowWrite(b.up[p]) /\ ~b.up[p].dirty /\ L1Proto = "MSI"
      BY <1>1, <1>2, <3>2, Ports DEF Coherent, Upper, LineInv
    <3>4. b.mem = v
      <4>1. NoDirty(b)
        BY <1>2, <3>3 DEF NoDirty
      <4> QED BY <1>1, <4>1 DEF Coherent, Lower
    <3>5. Lower(r, v)
      BY <1>1, <1>12, <3>1, <3>4 DEF Coherent, Lower
    <3>6. IsValid(r.up[d]) /\ d \in Core
      BY <1>1, <1>5, <1>12, <3>2, <3>3
    <3>7. \A c \in Core : IsValid(r.up[c]) => IsValid(b.up[c])
      BY <1>1, <1>5, <1>12, <1>13
    <3>8. Entry(r)
      BY <1>12, <3>1, <3>6, <3>7 DEF Coherent, Entry, NoHolder
    <3> QED BY <1>1, <3>1, <3>5, <3>8
  <2>2. CASE ~Kept(b, p)
    <3>1. \A c \in Core \ {p} : ~IsValid(b.up[c])
      BY <1>1, <1>3, <2>2 DEF Kept, ReleaseProbes, Coherent, Upper
    <3>2. NoHolder(r)
      BY <1>1, <1>5, <1>12, <1>13, <3>1 DEF NoHolder
    <3>3. ~b.up[p].dirty => b.mem = v
      <4>1. ~b.up[p].dirty => NoDirty(b)
        BY <1>2 DEF NoDirty
      <4> QED BY <1>1, <4>1 DEF Coherent, Lower
    <3>4. /\ l \in Line /\ l.ext = FALSE /\ l.data = v /\ l.dirty = b.up[p].dirty
          /\ l.outer = b.up[p].outer /\ l.st = b.llc.st
      BY <1>1, <1>5 DEF Line
    <3>5. g = IF Directory THEN l ELSE ToShared(l, NoId)
      BY <2>2 DEF g
    <3> HIDE DEF l
    <3>6. /\ g \in Line /\ g.ext = FALSE /\ g.data = v /\ g.dirty = b.up[p].dirty
          /\ g.outer = b.up[p].outer /\ IsValid(g)
      <4>1. CASE Directory
        BY <1>6, <3>4, <3>5, <4>1 DEF IsValid
      <4>2. CASE ~Directory
        <5>1. Keeps(l, g)
          BY <3>4, <3>5, <4>2, SharedKeeps
        <5> QED BY <3>4, <5>1 DEF Keeps
      <4> QED BY <4>1, <4>2
    <3>7. g.dirty => AllowWrite(g)
      BY <1>1, <3>6 DEF LineInv, AllowWrite
    <3>8. Lower(r, v)
      BY <1>12, <3>2, <3>3, <3>6, <3>7 DEF Lower, Normal
    <3>9. Entry(r)
      BY <1>12, <3>2, <3>6 DEF Entry, NoHolder
    <3> QED BY <3>6, <3>8, <3>9
  <2> QED BY <2>1, <2>2
<1>16. r \in Block
  <2>1. r.up \in [Port -> Line]
    BY <1>5, <1>12, <1>13 DEF Block
  <2> QED BY <1>5, <1>12, <1>15, <2>1 DEF Block
<1>17. Frame(b, r, v, {})
  BY <1>1, <1>5, <1>12 DEF Frame
<1> QED BY <1>1, <1>12, <1>14, <1>15, <1>16, <1>17 DEF Coherent, r

(* The replacement of a copy of any port. *)
LEMMA L1EvictCoherent ==
  ASSUME NEW b, NEW v, Coherent(b, v), NEW p \in Port, IsValid(b.up[p])
  PROVE  LET r == L1Evict(b, p)
         IN  Coherent(r, v) /\ Frame(b, r, v, {})
<1>1. CASE p \in Core
  BY <1>1, ReleaseCoherent
<1>2. CASE p \in ICore
  <2> DEFINE r == [b EXCEPT !.up[p] = NoLine]
  <2>1. b \in Block /\ p \notin Core /\ ~b.up[p].dirty /\ b.ok
    BY <1>2, Ports DEF Coherent, Upper
  <2>2. L1Evict(b, p) = r
    <3>1. L1Evict(b, p) = [b EXCEPT !.up[p] = NoLine, !.ok = TRUE]
      BY <2>1 DEF L1Evict, IsDirty, Block
    <3>2. [b EXCEPT !.up[p] = NoLine, !.ok = TRUE] = r
      BY <2>1 DEF Block
    <3> QED BY <3>1, <3>2
  <2>3. Coherent(r, v) /\ Frame(b, r, v, {})
    BY <1>2, DropCoherent
  <2> QED BY <2>2, <2>3
<1> QED BY <1>1, <1>2, Ports

----------------------------------------------------------------------------
(* A way of the LLC is written back and emptied. *)
Emptied(s) == [MemWriteback(s) EXCEPT !.llc = NoLine]

LEMMA EmptiedCoherent ==
  ASSUME NEW s \in Block, NEW v \in Val, s.ok, Upper(s, v),
         IF s.llc.dirty THEN s.llc.data = v ELSE NoDirty(s) => s.mem = v,
         Directory => NoHolder(s)
  PROVE  LET r == Emptied(s)
         IN  /\ Coherent(r, v) /\ r.up = s.up /\ r.mem \in {s.mem, v}
             /\ NoDirty(s) => r.mem = v
<1> DEFINE w == MemWriteback(s)
           r == Emptied(s)
<1>1. /\ w \in Block /\ w.ok = s.ok /\ w.up = s.up
      /\ w.mem = IF s.llc.dirty THEN s.llc.data ELSE s.mem
  BY WritebackFields
<1>2. r = [w EXCEPT !.llc = NoLine]
  BY DEF Emptied
<1> HIDE DEF w, r
<1>3. r \in Block /\ r.ok /\ r.up = s.up /\ r.llc = NoLine /\ r.mem = w.mem
  BY <1>1, <1>2, EmptyLine DEF Block
<1>4. Upper(r, v)
  BY <1>3 DEF Upper
<1>5. Lower(r, v)
  BY <1>1, <1>3, EmptyLine DEF Lower, NoDirty
<1>6. Entry(r)
  BY <1>3, EmptyLine DEF Entry, NoHolder
<1> QED BY <1>1, <1>3, <1>4, <1>5, <1>6 DEF Coherent, NoDirty, r

(* A releasing probe of every L1D, and what was its content to write back. *)
LEMMA ProbedEmptied ==
  ASSUME NEW b, NEW v, Coherent(b, v)
  PROVE  LET r == Emptied(ProbeReq(b, "evict", NoId))
         IN  Coherent(r, v) /\ Frame(b, r, v, {}) /\ r.mem = v
<1> DEFINE s == ProbeReq(b, "evict", NoId)
           r == Emptied(s)
<1>1. b.ok /\ v \in Val /\ NoId \notin Core /\ ICore \subseteq Port
  BY Ports DEF Coherent
<1>2. Probes(b, "evict", NoId, v, s)
  BY ProbeFields
<1> HIDE DEF s
<1>3. NoHolder(s) /\ NoDirty(s)
  BY <1>1, <1>2 DEF Probes, NoHolder, NoDirty
<1>4. IF s.llc.dirty THEN s.llc.data = v ELSE s.mem = v
  <2>1. CASE ProbeWriteback(b, NoId)
    BY <1>2, <2>1 DEF Probes
  <2>2. CASE ~ProbeWriteback(b, NoId)
    <3>1. NoDirty(b)
      BY <1>1, <2>2, ProbedHolders DEF NoDirty
    <3>2. s.llc = b.llc /\ s.mem = b.mem
      BY <1>2, <2>2 DEF Probes
    <3> QED BY <3>1, <3>2 DEF Coherent, Lower
  <2> QED BY <2>1, <2>2
<1>5. s \in Block /\ s.ok /\ Upper(s, v)
  BY <1>1, <1>2 DEF Probes
<1> HIDE DEF r
<1>6. Coherent(r, v) /\ r.up = s.up /\ r.mem = v
  BY <1>1, <1>3, <1>4, <1>5, EmptiedCoherent DEF r
<1>7. Frame(b, r, v, {})
  BY <1>1, <1>2, <1>6 DEF Frame, Probes
<1> QED BY <1>6, <1>7 DEF r, s

(* evict() of the LLC, of any of its ways. *)
LEMMA LLCEvictCoherent ==
  ASSUME NEW b, NEW v, Coherent(b, v)
  PROVE  LET r == LLCEvict(b)
         IN  Coherent(r, v) /\ Frame(b, r, v, {})
<1> DEFINE r == LLCEvict(b)
<1>1. CASE b.llc.ext
  <2>1. r = Emptied(ProbeReq(b, "evict", NoId))
    BY <1>1 DEF LLCEvict, Emptied
  <2> QED BY <2>1, ProbedEmptied
<1>2. CASE ~b.llc.ext
  <2>1. r = Emptied(b)
    BY <1>2 DEF LLCEvict, Emptied
  <2>2. IF b.llc.dirty THEN b.llc.data = v ELSE NoDirty(b) => b.mem = v
    BY DEF Coherent, Lower
  <2>3. Directory => NoHolder(b)
    BY <1>2 DEF Coherent, Entry, NoHolder
  <2> HIDE DEF r
  <2>4. Coherent(r, v) /\ r.up = b.up /\ r.mem \in {b.mem, v}
    BY <2>1, <2>2, <2>3, EmptiedCoherent DEF Coherent
  <2> QED BY <2>4 DEF Frame, r
<1> QED BY <1>1, <1>2

(* flush_line: afterwards the memory is current. *)
LEMMA LLCFlushCoherent ==
  ASSUME NEW b, NEW v, Coherent(b, v)
  PROVE  LET r == LLCFlush(b)
         IN  Coherent(r, v) /\ Frame(b, r, v, {}) /\ r.mem = v
<1>1. CASE DirectoryMisses(b)
  <2>1. LLCFlush(b) = b
    BY <1>1 DEF LLCFlush
  <2>2. \A c \in Core : ~IsValid(b.up[c])
    BY <1>1 DEF DirectoryMisses, Coherent, Entry
  <2>3. NoDirty(b) /\ ~Normal(b.llc)
    BY <1>1, <2>2, Ports DEF NoDirty, DirectoryMisses, Normal, Coherent, Upper, LineInv
  <2>4. b.mem = v
    BY <2>3 DEF Coherent, Lower
  <2> QED BY <2>1, <2>4 DEF Frame
<1>2. CASE ~DirectoryMisses(b)
  <2>1. LLCFlush(b) = Emptied(ProbeReq(b, "evict", NoId))
    BY <1>2 DEF LLCFlush, Emptied
  <2> QED BY <2>1, ProbedEmptied
<1> QED BY <1>1, <1>2

(* prefetch_line.  With a directory, a block that the LLC misses is in no  *)
(* L1D.                                                                    *)
LEMMA LLCPrefetchCoherent ==
  ASSUME Directory, NEW b, NEW v, Coherent(b, v)
  PROVE  LET r == LLCPrefetch(b)
         IN  Coherent(r, v) /\ Frame(b, r, v, {})
<1> DEFINE r == LLCPrefetch(b)
<1>1. CASE IsValid(b.llc)
  BY <1>1 DEF LLCPrefetch, Frame
<1>2. CASE ~IsValid(b.llc)
  <2>1. r = Fetch(b, "prefetch") /\ "prefetch" \in AcquireAct
    BY <1>2 DEF LLCPrefetch, AcquireAct
  <2>2. b \in Block /\ b.ok /\ v \in Val /\ ~Normal(b.llc)
    BY <1>2 DEF Coherent, Normal
  <2>3. \A c \in Core : ~IsValid(b.up[c])
    BY <1>2 DEF Coherent, Entry
  <2>4. NoDirty(b)
    BY <2>3, Ports DEF NoDirty, Coherent, Upper, LineInv
  <2>5. b.mem = v /\ ~b.llc.dirty /\ ~b.llc.ext
    BY <1>2, <2>2, <2>4 DEF Coherent, Lower, Entry
  <2> HIDE DEF r
  <2>6. /\ r \in Block /\ r.mem = b.mem /\ r.ok = b.ok /\ r.up = b.up
        /\ IsValid(r.llc) /\ r.llc.data = b.mem
        /\ r.llc.dirty = b.llc.dirty /\ r.llc.ext = b.llc.ext
    BY <2>1, <2>2, FetchFields
  <2>7. Upper(r, v) /\ Lower(r, v) /\ Entry(r)
    BY <2>3, <2>5, <2>6 DEF Coherent, Upper, Lower, Entry, NoHolder, Normal
  <2> QED BY <2>2, <2>6, <2>7 DEF Coherent, Frame, r
<1> QED BY <1>1, <1>2

----------------------------------------------------------------------------
(* The request of an L1, which has no permission to write yet.             *)
LEMMA RequestFields ==
  ASSUME NEW b, NEW v, Coherent(b, v), NEW p \in Port, NEW act \in {"fetch_read", "fetch_write"},
         p \in ICore => act = "fetch_read"
  PROVE  LET q == L1Request(b, p, Acquire(act))
         IN  IF q = "none"
             THEN IsValid(b.up[p]) /\ (act = "fetch_write" => AllowWrite(b.up[p]))
             ELSE /\ q \in {"fetch_read", "fetch_write"}
                  /\ act = "fetch_write" => q = "fetch_write"
                  /\ p \in ICore => q = "fetch_read"
                  /\ p \in Core => ~AllowWrite(b.up[p])
                  /\ p \in Core /\ L1Proto = "MI" => q = "fetch_write"
<1> DEFINE cmd == Acquire(act)
           q   == L1Request(b, p, cmd)
<1>1. /\ p \in ICore <=> p \notin Core
      /\ LineInv(b.up[p]) /\ L1Proto \in {"MI", "MSI"}
  BY Ports DEF Coherent, Upper
<1>2. /\ L1D!IsWrite(cmd) <=> act = "fetch_write"
      /\ L1I!IsWrite(cmd) <=> act = "fetch_write"
      /\ L1D!AllowWrite(b.up[p]) <=> AllowWrite(b.up[p])
  BY DEF Acquire, L1D!IsWrite, L1I!IsWrite, L1D!AllowWrite, AllowWrite
<1>3. CASE ~IsValid(b.up[p])
  <2>1. ~AllowWrite(b.up[p])
    BY <1>1, <1>3 DEF LineInv, AllowWrite
  <2>2. q = IF p \in Core
            THEN IF L1Proto = "MI" \/ act = "fetch_write" THEN "fetch_write" ELSE "fetch_read"
            ELSE IF act = "fetch_write" THEN "fetch_write" ELSE "fetch_read"
    BY <1>2, <1>3 DEF L1Request, L1D!CmdForOuterAcquire, L1I!CmdForOuterAcquire
  <2> HIDE DEF q
  <2> QED BY <1>1, <1>3, <2>1, <2>2 DEF q
<1>4. CASE IsValid(b.up[p])
  <2>1. q = IF L1Proto # "MI" /\ act = "fetch_write" /\ ~AllowWrite(b.up[p])
            THEN "fetch_write" ELSE "none"
    BY <1>2, <1>4 DEF L1Request, L1D!NeedPromote
  <2>2. L1Proto = "MI" /\ p \in Core => AllowWrite(b.up[p])
    BY <1>4 DEF Coherent, Upper
  <2> HIDE DEF q
  <2> QED BY <1>1, <1>4, <2>1, <2>2 DEF q
<1> QED BY <1>3, <1>4

(* Promoting a copy that may be written. *)
LEMMA PromoteCoherent ==
  ASSUME NEW b, NEW v, Coherent(b, v), NEW p \in Port, IsValid(b.up[p])
  PROVE  LET r == [b EXCEPT !.up[p] = L1D!ToModified(@, NoId)]
         IN  /\ Coherent(r, v) /\ Frame(b, r, v, {}) /\ IsValid(r.up[p])
             /\ AllowWrite(r.up[p]) <=> AllowWrite(b.up[p])
<1> DEFINE n == L1D!ToModified(b.up[p], NoId)
           r == [b EXCEPT !.up[p] = L1D!ToModified(@, NoId)]
<1>1. /\ b \in Block /\ b.up[p] \in Line /\ Core \subseteq Port /\ ICore \subseteq Port
  BY Ports DEF Coherent, Block
<1>2. n = [b.up[p] EXCEPT !.st = "M"]
  BY DEF L1D!ToModified, L1D!AddSharer
<1>3. r = [b EXCEPT !.up = [b.up EXCEPT ![p] = n]]
  BY <1>1 DEF Block
<1> HIDE DEF n, r
<1>4. /\ n \in Line /\ IsValid(n) /\ n.outer = b.up[p].outer
      /\ n.dirty = b.up[p].dirty /\ n.data = b.up[p].data
  BY <1>1, <1>2 DEF Line, State, IsValid
<1>5. /\ r \in Block /\ r.mem = b.mem /\ r.ok = b.ok /\ r.llc = b.llc
      /\ r.up[p] = n /\ \A q \in Port \ {p} : r.up[q] = b.up[q]
  BY <1>1, <1>3, <1>4 DEF Block
<1>6. \A q \in Port : /\ IsValid(r.up[q]) <=> IsValid(b.up[q])
                      /\ r.up[q].dirty = b.up[q].dirty /\ r.up[q].data = b.up[q].data
                      /\ r.up[q].outer = b.up[q].outer
  BY <1>4, <1>5
<1>7. Upper(r, v)
  BY <1>1, <1>6 DEF Coherent, Upper, LineInv, AllowWrite
<1>8. Lower(r, v) /\ Entry(r)
  BY <1>1, <1>5, <1>6 DEF Coherent, Lower, Entry, NoHolder, NoDirty
<1> QED BY <1>1, <1>4, <1>5, <1>6, <1>7, <1>8 DEF Coherent, Frame, AllowWrite, r

(* access_line of an L1: afterwards it has a current copy, that it may     *)
(* write if it asked to.                                                   *)
LEMMA L1AccessCoherent ==
  ASSUME NEW b, NEW v, Coherent(b, v), NEW p \in Port, NEW act \in {"fetch_read", "fetch_write"},
         p \in ICore => act = "fetch_read"
  PROVE  LET r == L1Access(b, p, Acquire(act))
         IN  /\ Coherent(r, v) /\ Frame(b, r, v, {p})
             /\ IsValid(r.up[p]) /\ r.up[p].data = v
             /\ act = "fetch_write" => AllowWrite(r.up[p])
<1> DEFINE cmd == Acquire(act)
           q   == L1Request(b, p, cmd)
           r   == L1Access(b, p, cmd)
<1>1. IF q = "none"
      THEN IsValid(b.up[p]) /\ (act = "fetch_write" => AllowWrite(b.up[p]))
      ELSE /\ q \in {"fetch_read", "fetch_write"}
           /\ act = "fetch_write" => q = "fetch_write"
           /\ p \in ICore => q = "fetch_read"
           /\ p \in Core => ~AllowWrite(b.up[p])
           /\ p \in Core /\ L1Proto = "MI" => q = "fetch_write"
  BY RequestFields
<1>2. r = IF q # "none" THEN AcquireReq(b, p, q)
          ELSE IF L1D!NeedPromoteLocal(cmd, b.up[p])
               THEN [b EXCEPT !.up[p] = L1D!ToModified(@, NoId)]
               ELSE b
  BY DEF L1Access
<1> HIDE DEF q, r, cmd
<1>3. Coherent(r, v) /\ Frame(b, r, v, {p}) /\ IsValid(r.up[p])
      /\ (act = "fetch_write" => AllowWrite(r.up[p]))
  <2>1. CASE q # "none"
    <3>1. q \in AcquireAct /\ q # "prefetch" /\ (q = "fetch_read" => q # "fetch_write")
      BY <1>1, <2>1 DEF AcquireAct
    <3> QED BY <1>1, <1>2, <2>1, <3>1, AcquireCoherent
  <2>2. CASE q = "none" /\ L1D!NeedPromoteLocal(cmd, b.up[p])
    BY <1>1, <1>2, <2>2, PromoteCoherent DEF Frame
  <2>3. CASE q = "none" /\ ~L1D!NeedPromoteLocal(cmd, b.up[p])
    BY <1>1, <1>2, <2>3 DEF Frame
  <2> QED BY <2>1, <2>2, <2>3
<1> QED BY <1>3 DEF Coherent, Upper, r, cmd

(* A write to a block that no L1I holds.                                   *)
LEMMA L1WriteCoherent ==
  ASSUME NEW b, NEW v, Coherent(b, v), NEW p \in Core, NEW x \in Val,
         \A i \in ICore : ~IsValid(b.up[i])
  PROVE  LET r == L1Write(b, p, x)
         IN  /\ Coherent(r, x) /\ r.mem \in {b.mem, v}
             /\ \A i \in ICore : ~IsValid(r.up[i])
<1> DEFINE a == L1Access(b, p, Acquire("fetch_write"))
           d == ToDirty(a.up[p])
           n == [d EXCEPT !.data = x]
           r == L1Write(b, p, x)
<1>1. p \in Port /\ p \notin ICore /\ Core \subseteq Port /\ ICore \subseteq Port
  BY Ports
<1>2. /\ Coherent(a, v) /\ Frame(b, a, v, {p}) /\ IsValid(a.up[p]) /\ AllowWrite(a.up[p])
  BY <1>1, L1AccessCoherent
<1>3. r = [a EXCEPT !.up[p] = [ToDirty(@) EXCEPT !.data = x]]
  BY DEF L1Write
<1> HIDE DEF a, r
<1>4. /\ a \in Block /\ a.ok /\ a.up[p] \in Line
  BY <1>1, <1>2 DEF Coherent, Block
<1>5. /\ n \in Line /\ IsValid(n) /\ AllowWrite(n) /\ n.dirty = TRUE /\ n.data = x
  <2>1. /\ d \in Line /\ d.st = a.up[p].st /\ d.outer = a.up[p].outer /\ d.dirty = TRUE
    BY <1>4 DEF ToDirty, Line
  <2> HIDE DEF d
  <2> QED BY <1>2, <2>1 DEF Line, IsValid, AllowWrite
<1>6. r = [a EXCEPT !.up = [a.up EXCEPT ![p] = n]]
  BY <1>1, <1>3, <1>4 DEF Block
<1> HIDE DEF n
<1>7. /\ r \in Block /\ r.mem = a.mem /\ r.ok = a.ok /\ r.llc = a.llc
      /\ r.up[p] = n /\ \A q \in Port \ {p} : r.up[q] = a.up[q]
  BY <1>1, <1>4, <1>5, <1>6 DEF Block
<1>8. \A c \in Core \ {p} : ~IsValid(a.up[c]) /\ LineInv(a.up[c])
  BY <1>1, <1>2 DEF Coherent, Upper
<1>9. \A i \in ICore : ~IsValid(r.up[i]) /\ ~r.up[i].dirty /\ LineInv(r.up[i])
  BY <1>1, <1>2, <1>7 DEF Frame, Coherent, Upper
<1>10. LineInv(n)
  BY <1>5 DEF LineInv
<1>11. \A c \in Core \ {p} : r.up[c] = a.up[c] /\ ~AllowWrite(r.up[c])
  BY <1>1, <1>7, <1>8 DEF LineInv, AllowWrite
<1>12. Upper(r, x)
  <2>1. \A q \in Port : LineInv(r.up[q]) /\ (IsValid(r.up[q]) => r.up[q].data = x)
    BY <1>5, <1>7, <1>8, <1>9, <1>10, Ports
  <2>2. \A c \in Core : IsValid(r.up[c]) => c = p
    BY <1>8, <1>11
  <2> QED BY <1>5, <1>7, <1>9, <1>11, <2>1, <2>2 DEF Upper
<1>13. Lower(r, x)
  <2>1. ~Normal(a.llc) /\ ~a.llc.dirty
    BY <1>2 DEF Coherent, Lower, NoHolder
  <2>2. ~NoDirty(r)
    BY <1>5, <1>7 DEF NoDirty
  <2> QED BY <1>7, <2>1, <2>2 DEF Lower
<1>14. Entry(r)
  <2>1. \A c \in Core : IsValid(r.up[c]) <=> IsValid(a.up[c])
    BY <1>2, <1>5, <1>7, <1>11
  <2> QED BY <1>2, <1>7, <2>1 DEF Coherent, Entry, NoHolder
<1> QED BY <1>2, <1>4, <1>7, <1>9, <1>12, <1>13, <1>14 DEF Coherent, Frame, r

(* flush() and writeback(), which a data port makes a flush of the block.  *)
LEMMA L1FlushCoherent ==
  ASSUME NEW b, NEW v, Coherent(b, v), NEW p \in Port, NEW act
  PROVE  LET r == L1Flush(b, p, act)
         IN  Coherent(r, v) /\ Frame(b, r, v, {}) /\ (p \in Core => r.mem = v)
<1>1. CASE p \in Core
  BY <1>1, LLCFlushCoherent DEF L1Flush
<1>2. CASE p \notin Core /\ act = "evict"
  <2>1. L1Flush(b, p, act) = [b EXCEPT !.up[p] = NoLine] /\ p \in ICore
    BY <1>2, Ports DEF L1Flush
  <2> QED BY <1>2, <2>1, DropCoherent
<1>3. CASE p \notin Core /\ act # "evict"
  BY <1>3 DEF L1Flush, Frame
<1> QED BY <1>1, <1>2, <1>3

(* prefetch() of a data port with a directory, or of an instruction port.  *)
LEMMA L1PrefetchCoherent ==
  ASSUME NEW b, NEW v, Coherent(b, v), NEW p \in Port, p \in Core => Directory
  PROVE  LET r == L1Prefetch(b, p)
         IN  Coherent(r, v) /\ Frame(b, r, v, {p})
<1> DEFINE r == L1Prefetch(b, p)
<1>1. CASE p \in Core
  <2>1. r = LLCPrefetch(b)
    BY <1>1 DEF L1Prefetch
  <2> HIDE DEF r
  <2>2. Coherent(r, v) /\ Frame(b, r, v, {})
    BY <1>1, <2>1, LLCPrefetchCoherent
  <2> QED BY <2>2 DEF Frame, r
<1>2. CASE p \notin Core /\ IsValid(b.up[p])
  BY <1>2 DEF L1Prefetch, Frame
<1>3. CASE p \notin Core /\ ~IsValid(b.up[p])
  <2>1. r = AcquireReq(b, p, "prefetch") /\ "prefetch" \in AcquireAct
    BY <1>3 DEF L1Prefetch, AcquireAct
  <2> HIDE DEF r
  <2> QED BY <1>3, <2>1, AcquireCoherent DEF r
<1> QED BY <1>1, <1>2, <1>3

----------------------------------------------------------------------------
(* The calls.  The contents as a program sees them; and all blocks as they *)
(* may be when room was made: coherent, with the contents they had.        *)
Store == [a \in Addr |-> Latest(block[a])]

Room(bs) ==
  /\ DOMAIN bs = Addr
  /\ \A b \in Addr : /\ Coherent(bs[b], Store[b])
                     /\ Frame(block[b], bs[b], Store[b], {})

LEMMA BlockRoom ==
  ASSUME IInv
  PROVE  Room(block)
BY DEF IInv, Room, Store, Frame

(* An eviction of the LLC leaves room. *)
LEMMA EvictedRoom ==
  ASSUME NEW bs, Room(bs), NEW w
  PROVE  Room(LLCEvicted(bs, w))
<1> DEFINE e == LLCEvicted(bs, w)
<1>1. DOMAIN e = Addr
  BY DEF LLCEvicted
<1>2. ASSUME NEW b \in Addr
      PROVE  Coherent(e[b], Store[b]) /\ Frame(block[b], e[b], Store[b], {})
  <2>1. Coherent(bs[b], Store[b]) /\ Frame(block[b], bs[b], Store[b], {})
    BY DEF Room
  <2>2. e[b] = IF b = w THEN LLCEvict(bs[b]) ELSE bs[b]
    BY DEF LLCEvicted
  <2> HIDE DEF e
  <2>3. CASE b = w
    <3>1. Coherent(e[b], Store[b]) /\ Frame(bs[b], e[b], Store[b], {})
      BY <2>1, <2>2, <2>3, LLCEvictCoherent
    <3> QED BY <2>1, <3>1 DEF Frame
  <2>4. CASE b # w
    BY <2>1, <2>2, <2>4
  <2> QED BY <2>3, <2>4
<1> QED BY <1>1, <1>2 DEF Room

(* The replacement in an L1, and the one in the LLC for the block that it  *)
(* releases, which is never that block: what an L1D holds is in no normal  *)
(* way.                                                                    *)
LEMMA MadeRoomRoom ==
  ASSUME IInv, NEW p \in Port, NEW a \in Addr, NEW bs \in MadeRoom(p, a)
  PROVE  Room(bs)
<1>1. PICK v \in L1Victims(p, a) : \E w \in ReleaseVictims(p, v) :
        bs = [b \in Addr |-> IF b = v THEN L1Evict(LLCEvicted(block, w)[b], p)
                             ELSE LLCEvicted(block, w)[b]]
  BY DEF MadeRoom
<1>2. PICK w \in ReleaseVictims(p, v) :
        bs = [b \in Addr |-> IF b = v THEN L1Evict(LLCEvicted(block, w)[b], p)
                             ELSE LLCEvicted(block, w)[b]]
  BY <1>1
<1> DEFINE e == LLCEvicted(block, w)
<1>3. Room(e)
  BY BlockRoom, EvictedRoom
<1>4. ASSUME v \in Addr
      PROVE  IsValid(block[v].up[p]) /\ e[v] = block[v]
  <2>1. IsValid(block[v].up[p]) /\ NoBlock \notin Addr
    BY <1>4, ExclusiveAssumption DEF L1Victims, InSet
  <2>2. w # v
    <3>1. w = NoBlock \/ (~Normal(block[v].llc) /\ w \in NormalVictims(block, v))
      BY DEF ReleaseVictims
    <3>2. w \in NormalVictims(block, v) => w = NoBlock \/ Normal(block[w].llc)
      BY DEF NormalVictims, Victims
    <3> QED BY <1>4, <2>1, <3>1, <3>2
  <2> QED BY <1>4, <2>1, <2>2 DEF LLCEvicted
<1>5. bs = [b \in Addr |-> IF b = v THEN L1Evict(e[b], p) ELSE e[b]]
  BY <1>2
<1> HIDE DEF e
<1>6. ASSUME NEW b \in Addr
      PROVE  Coherent(bs[b], Store[b]) /\ Frame(block[b], bs[b], Store[b], {})
  <2>1. Coherent(e[b], Store[b]) /\ Frame(block[b], e[b], Store[b], {})
    BY <1>3 DEF Room
  <2>2. CASE b = v
    <3>1. bs[b] = L1Evict(e[b], p) /\ IsValid(e[b].up[p])
      BY <1>4, <1>5, <2>2
    <3>2. Coherent(bs[b], Store[b]) /\ Frame(e[b], bs[b], Store[b], {})
      BY <2>1, <3>1, L1EvictCoherent
    <3> QED BY <2>1, <3>2 DEF Frame
  <2>3. CASE b # v
    BY <1>5, <2>1, <2>3
  <2> QED BY <2>2, <2>3
<1> QED BY <1>5, <1>6 DEF Room

(* All that an access replaces. *)
LEMMA BeforeRoom ==
  ASSUME IInv, NEW p \in Port, NEW a \in Addr, NEW cmd, NEW bs \in Before(p, a, cmd)
  PROVE  Room(bs)
<1>1. CASE bs = block
  BY <1>1, BlockRoom
<1>2. CASE bs # block
  <2>1. PICK m \in MadeRoom(p, a) : bs \in MadeRoomBelow(m, p, a)
    BY <1>2 DEF Before
  <2>2. Room(m)
    BY MadeRoomRoom
  <2>3. PICK v : bs = LLCEvicted(m, v)
    BY <2>1 DEF MadeRoomBelow
  <2> QED BY <2>2, <2>3, EvictedRoom
<1> QED BY <1>1, <1>2

(* A step after which f is the content: every block is coherent, and the   *)
(* memory received current contents only.                                  *)
Stepped(f) ==
  /\ block' \in [Addr -> Block]
  /\ \A a \in Addr :
       /\ Coherent(block'[a], f[a])
       /\ block'[a].mem \in {block[a].mem, Latest(block[a])}
       /\ a \notin Inst => \A i \in ICore : ~IsValid(block'[a].up[i])

(* Once there is room, a call makes r of one block, with the content x.    *)
Called(bs, a, r, x) ==
  /\ Coherent(r, x)
  /\ r.mem \in {bs[a].mem, Store[a]}
  /\ a \notin Inst => \A i \in ICore : IsValid(r.up[i]) => IsValid(bs[a].up[i])

SameBut(f, a, x) ==
  /\ f[a] = x
  /\ \A b \in Addr \ {a} : f[b] = Store[b]

LEMMA CallStep ==
  ASSUME IInv, NEW bs, Room(bs), NEW a \in Addr, NEW r, NEW x, Called(bs, a, r, x),
         block' = [bs EXCEPT ![a] = r],
         NEW f, SameBut(f, a, x)
  PROVE  Stepped(f) /\ block'[a] = r
<1>1. block'[a] = r /\ \A b \in Addr \ {a} : block'[b] = bs[b]
  BY DEF Room
<1>2. ASSUME NEW b \in Addr
      PROVE  /\ Coherent(block'[b], f[b])
             /\ block'[b].mem \in {block[b].mem, Latest(block[b])}
             /\ b \notin Inst => \A i \in ICore : ~IsValid(block'[b].up[i])
  <2>1. /\ Store[b] = Latest(block[b])
        /\ Coherent(bs[b], Store[b]) /\ Frame(block[b], bs[b], Store[b], {})
        /\ b \notin Inst => \A i \in ICore : ~IsValid(block[b].up[i])
    BY DEF Store, Room, IInv
  <2>2. CASE b = a
    BY <1>1, <2>1, <2>2 DEF Frame, Called, SameBut
  <2>3. CASE b # a
    BY <1>1, <2>1, <2>3 DEF Frame, SameBut
  <2> QED BY <2>2, <2>3
<1>3. block' \in [Addr -> Block]
  BY <1>2 DEF Room, Coherent
<1> QED BY <1>1, <1>2, <1>3 DEF Stepped

(* Each call is such a step, says what it answers, and moves what it must. *)
LEMMA ReadStep ==
  ASSUME IInv, NEW p \in Port, NEW a \in Addr, Read(p, a)
  PROVE  /\ Stepped(Store)
         /\ resp' = [op |-> "read", port |-> p, addr |-> a, val |-> Store[a]]
<1>1. PICK bs \in Before(p, a, Acquire("fetch_read")) :
        block' = [bs EXCEPT ![a] = L1Read(@, p)]
  BY DEF Read
<1> DEFINE r == L1Access(bs[a], p, Acquire("fetch_read"))
<1>2. Room(bs) /\ block' = [bs EXCEPT ![a] = r]
  BY <1>1, BeforeRoom DEF L1Read
<1>3. /\ Coherent(r, Store[a]) /\ Frame(bs[a], r, Store[a], {p})
      /\ r.up[p].data = Store[a]
  BY <1>2, L1AccessCoherent DEF Room
<1> HIDE DEF r
<1>4. Called(bs, a, r, Store[a]) /\ SameBut(Store, a, Store[a])
  BY <1>3 DEF Frame, Read, Called, SameBut
<1>5. Stepped(Store) /\ block'[a] = r
  BY <1>2, <1>4, CallStep
<1> QED BY <1>3, <1>5 DEF Read

(* A write makes its value the content of its block. *)
LEMMA WriteStep ==
  ASSUME IInv, NEW p \in Core, NEW a \in Addr, NEW v \in Val, Write(p, a, v)
  PROVE  /\ Stepped([Store EXCEPT ![a] = v])
         /\ resp' = [op |-> "write", port |-> p, addr |-> a, val |-> v]
<1> DEFINE f == [Store EXCEPT ![a] = v]
<1>1. p \in Port /\ ICore \subseteq Port
  BY Ports
<1>2. PICK bs \in Before(p, a, Acquire("fetch_write")) :
        block' = [bs EXCEPT ![a] = L1Write(IF a \in Inst THEN InstFlushed(@) ELSE @, p, v)]
  BY DEF Write
<1> DEFINE s == IF a \in Inst THEN InstFlushed(bs[a]) ELSE bs[a]
           r == L1Write(s, p, v)
<1>3. Room(bs) /\ block' = [bs EXCEPT ![a] = r]
  BY <1>1, <1>2, BeforeRoom
<1>4. Coherent(bs[a], Store[a]) /\ Frame(block[a], bs[a], Store[a], {})
  BY <1>3 DEF Room
<1>5. Coherent(s, Store[a]) /\ s.mem = bs[a].mem /\ \A i \in ICore : ~IsValid(s.up[i])
  <2>1. CASE a \in Inst
    BY <1>4, <2>1, InstFlushedCoherent
  <2>2. CASE a \notin Inst
    BY <1>4, <2>2 DEF Frame, IInv
  <2> QED BY <2>1, <2>2
<1> HIDE DEF s
<1>6. /\ Coherent(r, v) /\ r.mem \in {bs[a].mem, Store[a]}
      /\ \A i \in ICore : ~IsValid(r.up[i])
  BY <1>5, L1WriteCoherent
<1> HIDE DEF r
<1>7. Called(bs, a, r, v) /\ SameBut(f, a, v)
  BY <1>6 DEF Called, SameBut, Store
<1> HIDE DEF f
<1>8. Stepped(f)
  BY <1>3, <1>7, CallStep
<1> QED BY <1>8 DEF Write, f

(* A flush or write-back changes no content; that of a data port is durable. *)
LEMMA FlushStep ==
  ASSUME IInv, NEW p \in Port, NEW a \in Addr, NEW act \in FlushAct, Flush(p, a, act)
  PROVE  /\ Stepped(Store)
         /\ p \in Core => block'[a].mem = Store[a]
         /\ resp' = [op |-> IF act = "evict" THEN "flush" ELSE "writeback", port |-> p, addr |-> a]
<1> DEFINE r == L1Flush(block[a], p, act)
<1>1. Room(block) /\ block' = [block EXCEPT ![a] = r]
  BY BlockRoom DEF Flush
<1>2. /\ Coherent(r, Store[a]) /\ Frame(block[a], r, Store[a], {})
      /\ p \in Core => r.mem = Store[a]
  BY <1>1, L1FlushCoherent DEF Room
<1> HIDE DEF r
<1>3. Called(block, a, r, Store[a]) /\ SameBut(Store, a, Store[a])
  BY <1>2 DEF Frame, Called, SameBut
<1>4. Stepped(Store) /\ block'[a] = r
  BY <1>1, <1>3, CallStep
<1> QED BY <1>2, <1>4 DEF Flush

(* A prefetch changes no content. *)
LEMMA PrefetchStep ==
  ASSUME PrefetchSupported, IInv, NEW p \in PrefetchPort, NEW a \in Addr, Prefetch(p, a)
  PROVE  /\ Stepped(Store)
         /\ resp' = [op |-> "prefetch", port |-> p, addr |-> a]
<1>1. p \in Port /\ (p \in Core => Directory)
  BY ExclusiveAssumption DEF PrefetchSupported
<1>2. PICK bs \in (IF p \in Core THEN {LLCEvicted(block, v) : v \in PrefetchVictims(a)}
                   ELSE Before(p, a, Acquire("prefetch"))) :
        block' = [bs EXCEPT ![a] = L1Prefetch(@, p)]
  BY DEF Prefetch
<1> DEFINE r == L1Prefetch(bs[a], p)
<1>3. Room(bs)
  <2>1. CASE p \in Core
    <3>1. PICK v : bs = LLCEvicted(block, v)
      BY <1>2, <2>1
    <3> QED BY <3>1, BlockRoom, EvictedRoom
  <2>2. CASE p \notin Core
    BY <1>1, <1>2, <2>2, BeforeRoom
  <2> QED BY <2>1, <2>2
<1>4. block' = [bs EXCEPT ![a] = r]
  BY <1>2
<1>5. Coherent(r, Store[a]) /\ Frame(bs[a], r, Store[a], {p})
  BY <1>1, <1>3, L1PrefetchCoherent DEF Room
<1> HIDE DEF r
<1>6. Called(bs, a, r, Store[a]) /\ SameBut(Store, a, Store[a])
  BY <1>5 DEF Frame, Prefetch, Called, SameBut
<1>7. Stepped(Store)
  BY <1>3, <1>4, <1>6, CallStep
<1> QED BY <1>7 DEF Prefetch

(* Nor does the flush of a whole cache. *)
LEMMA FlushCacheStep ==
  ASSUME IInv, NEW p \in Port, FlushCache(p)
  PROVE  /\ Stepped(Store)
         /\ resp' = [op |-> "flush_cache", port |-> p]
<1>1. ASSUME NEW b \in Addr
      PROVE  /\ Coherent(block'[b], Store[b])
             /\ block'[b].mem \in {block[b].mem, Latest(block[b])}
             /\ b \notin Inst => \A i \in ICore : ~IsValid(block'[b].up[i])
  <2> DEFINE r == L1Flush(block[b], p, "evict")
  <2>1. Store[b] = Latest(block[b])
    BY DEF Store
  <2>2. Coherent(block[b], Store[b])
    BY <2>1 DEF IInv
  <2>3. Coherent(r, Store[b]) /\ Frame(block[b], r, Store[b], {})
    BY <2>2, L1FlushCoherent
  <2> HIDE DEF r
  <2>4. block'[b] = r \/ block'[b] = block[b]
    BY DEF FlushCache, r
  <2> QED BY <2>1, <2>2, <2>3, <2>4 DEF Frame, IInv
<1>2. block' \in [Addr -> Block]
  BY <1>1 DEF FlushCache, Coherent
<1> QED BY <1>1, <1>2 DEF Stepped, FlushCache

(* After a step to f the invariant holds again, and f is the content.      *)
LEMMA SteppedContent ==
  ASSUME NEW f, Stepped(f), NEW a \in Addr
  PROVE  /\ Latest(block'[a]) = f[a]
         /\ Coherent(block'[a], Latest(block'[a]))
         /\ block'[a].mem \in Val
<1>1. Coherent(block'[a], f[a]) /\ block'[a] \in Block
  BY DEF Stepped, Coherent
<1>2. Latest(block'[a]) = f[a]
  BY <1>1, LatestContent
<1> QED BY <1>1, <1>2 DEF Block

LEMMA SteppedInv ==
  ASSUME NEW f, Stepped(f)
  PROVE  IInv'
<1>1. \A a \in Addr : Coherent(block'[a], Latest(block'[a]))
  BY SteppedContent
<1> QED BY <1>1 DEF Stepped, IInv

(* Empty caches are coherent. *)
LEMMA InitInv ==
  ASSUME Init
  PROVE  IInv /\ \A a \in Addr : block[a].mem = Latest(block[a])
<1>1. PICK content \in [Addr -> Val] :
        block = [a \in Addr |-> [up  |-> [p \in Port |-> NoLine], llc |-> NoLine,
                                 mem |-> content[a], ok |-> TRUE]]
  BY DEF Init
<1>2. ASSUME NEW a \in Addr
      PROVE  /\ Coherent(block[a], content[a])
             /\ block[a].mem = content[a]
             /\ \A p \in Port : ~IsValid(block[a].up[p])
  <2> DEFINE b == block[a]
  <2>1. b = [up |-> [p \in Port |-> NoLine], llc |-> NoLine, mem |-> content[a], ok |-> TRUE]
    BY <1>1
  <2> HIDE DEF b
  <2>2. /\ b \in Block /\ b.ok /\ b.llc = NoLine /\ b.mem = content[a] /\ content[a] \in Val
        /\ \A p \in Port : b.up[p] = NoLine
    BY <2>1, EmptyLine DEF Block
  <2>3. Core \subseteq Port /\ ICore \subseteq Port
    BY Ports
  <2>4. Upper(b, content[a]) /\ Lower(b, content[a]) /\ Entry(b)
    BY <2>2, <2>3, EmptyLine DEF Upper, Lower, Entry
  <2> QED BY <2>2, <2>4, EmptyLine DEF Coherent, b
<1>3. \A a \in Addr : Latest(block[a]) = content[a]
  BY <1>2, LatestContent
<1>4. block \in [Addr -> Block]
  BY <1>1, <1>2 DEF Coherent
<1> QED BY <1>2, <1>3, <1>4, Ports DEF IInv

(* Every call preserves the inductive invariant. *)
LEMMA NextInv ==
  ASSUME PrefetchSupported, IInv, Next
  PROVE  IInv'
<1>1. ASSUME NEW p \in Port, NEW a \in Addr, Read(p, a)
      PROVE  IInv'
  BY <1>1, ReadStep, SteppedInv
<1>2. ASSUME NEW p \in Core, NEW a \in Addr, NEW v \in Val, Write(p, a, v)
      PROVE  IInv'
  BY <1>2, WriteStep, SteppedInv
<1>3. ASSUME NEW p \in Port, NEW a \in Addr, NEW act \in FlushAct, Flush(p, a, act)
      PROVE  IInv'
  BY <1>3, FlushStep, SteppedInv
<1>4. ASSUME NEW p \in PrefetchPort, NEW a \in Addr, Prefetch(p, a)
      PROVE  IInv'
  BY <1>4, PrefetchStep, SteppedInv
<1>5. ASSUME NEW p \in Port, FlushCache(p)
      PROVE  IInv'
  BY <1>5, FlushCacheStep, SteppedInv
<1> QED BY <1>1, <1>2, <1>3, <1>4, <1>5 DEF Next

(* Every reachable state satisfies the inductive invariant: in particular  *)
(* each block has one content, which all valid copies share.               *)
THEOREM Invariance ==
  ASSUME PrefetchSupported
  PROVE  Spec => []IInv
<1>1. Init => IInv
  BY InitInv
<1>2. IInv /\ [Next]_vars => IInv'
  <2>1. CASE UNCHANGED vars
    BY <2>1 DEF vars, IInv
  <2>2. CASE Next
    BY <2>2, NextInv
  <2> QED BY <2>1, <2>2
<1> QED BY <1>1, <1>2, PTL DEF Spec

(* A block that the exclusive LLC holds with its content is in no L1D, for *)
(* any number of L1s and ways: neither a release of what others still hold, *)
(* nor a line that moves up, nor an instruction fetch leaves two copies.   *)
THEOREM ExclusionHolds ==
  ASSUME PrefetchSupported
  PROVE  Spec => []Exclusion
<1>1. IInv => Exclusion
  BY DEF IInv, Coherent, Lower, NoHolder, Exclusion, Holders
<1> QED BY <1>1, Invariance, PTL

(* The extended directory names every L1D that has a block and keeps       *)
(* neither content nor, with MSI caches, an entry that nobody needs.       *)
THEOREM DirectoryComplete ==
  ASSUME PrefetchSupported
  PROVE  Spec => []DirectoryCovers
<1>1. IInv => DirectoryCovers
  BY DEF IInv, Coherent, Entry, Lower, NoHolder, Normal, DirectoryCovers, Holders, IsDirty
<1> QED BY <1>1, Invariance, PTL

(* No assert() of the exclusive cache, of its policies or of the L1s fails *)
(* when prefetches are restricted to where they are supported.             *)
THEOREM NoAssertionFails ==
  ASSUME PrefetchSupported
  PROVE  Spec => []AssertionsHold
<1>1. IInv => AssertionsHold
  BY DEF IInv, Coherent, AssertionsHold
<1> QED BY <1>1, Invariance, PTL

----------------------------------------------------------------------------
(* Refinement: the exclusive hierarchy is the same memory.                 *)

Backing == [a \in Addr |-> block[a].mem]

(* The blocks of Must are written back by the step.                        *)
Moves(Must) == \A a \in Addr : a \in Must => block'[a].mem = Store[a]

(* A step to f, seen from the abstract memory.                             *)
LEMMA SteppedMemory ==
  ASSUME NEW f, f = [a \in Addr |-> f[a]], Stepped(f), NEW Must, Moves(Must)
  PROVE  Memory!WriteBack(Must) /\ Store' = f
<1>1. \A a \in Addr : /\ Latest(block'[a]) = f[a]
                      /\ block'[a].mem \in Val
                      /\ block'[a].mem \in {block[a].mem, Latest(block[a])}
  BY SteppedContent DEF Stepped
<1>2. Store' = f
  BY <1>1 DEF Store
<1> QED BY <1>1, <1>2 DEF Memory!WriteBack, Moves, Store

(* Every call is a step of the abstract memory. *)
LEMMA NextMemory ==
  ASSUME PrefetchSupported, IInv, Next
  PROVE  Memory!Next
<1>1. Store = [a \in Addr |-> Store[a]] /\ Moves({})
  BY DEF Store, Moves
<1>2. ASSUME NEW p \in Port, NEW a \in Addr, Read(p, a)
      PROVE  Memory!Next
  <2>1. Memory!WriteBack({}) /\ Store' = Store
    BY <1>1, <1>2, ReadStep, SteppedMemory
  <2>2. Memory!Read(p, a)
    BY <1>2, <2>1, ReadStep DEF Memory!Read, Store
  <2> QED BY <2>2 DEF Memory!Next, Port
<1>3. ASSUME NEW p \in Core, NEW a \in Addr, NEW v \in Val, Write(p, a, v)
      PROVE  Memory!Next
  <2> DEFINE f == [Store EXCEPT ![a] = v]
  <2>1. f = [b \in Addr |-> f[b]]
    BY DEF Store
  <2>2. Stepped(f) /\ resp' = [op |-> "write", port |-> p, addr |-> a, val |-> v]
    BY <1>3, WriteStep
  <2> HIDE DEF f
  <2>3. Memory!WriteBack({}) /\ Store' = f
    BY <1>1, <2>1, <2>2, SteppedMemory
  <2>4. Memory!Write(p, a, v)
    BY <2>2, <2>3 DEF Memory!Write, Store, f
  <2> QED BY <2>4 DEF Memory!Next
<1>4. ASSUME NEW p \in Port, NEW a \in Addr, NEW act \in FlushAct, Flush(p, a, act)
      PROVE  Memory!Next
  <2> DEFINE op == IF act = "evict" THEN "flush" ELSE "writeback"
  <2>1. /\ Stepped(Store) /\ (p \in Core => block'[a].mem = Store[a])
        /\ resp' = [op |-> op, port |-> p, addr |-> a]
        /\ op \in {"flush", "writeback"}
    BY <1>4, FlushStep
  <2> HIDE DEF op
  <2>2. CASE p \in Core
    <3>1. Moves({a})
      BY <2>1, <2>2 DEF Moves
    <3>2. Memory!WriteBack({a}) /\ Store' = Store
      BY <1>1, <2>1, <3>1, SteppedMemory
    <3>3. Memory!Persist(op, p, a)
      BY <2>1, <3>2 DEF Memory!Persist, Store
    <3> QED BY <2>1, <2>2, <3>3 DEF Memory!Next
  <2>3. CASE p \notin Core
    <3>1. Memory!WriteBack({}) /\ Store' = Store
      BY <1>1, <2>1, SteppedMemory
    <3>2. Memory!Manage(op, p, a)
      BY <2>1, <3>1 DEF Memory!Manage, Store
    <3> QED BY <2>1, <2>3, <3>2 DEF Memory!Next, Port
  <2> QED BY <2>2, <2>3
<1>5. ASSUME NEW p \in PrefetchPort, NEW a \in Addr, Prefetch(p, a)
      PROVE  Memory!Next
  <2>1. Stepped(Store) /\ resp' = [op |-> "prefetch", port |-> p, addr |-> a]
    BY <1>5, PrefetchStep
  <2>2. Memory!WriteBack({}) /\ Store' = Store
    BY <1>1, <2>1, SteppedMemory
  <2>3. Memory!Manage("prefetch", p, a)
    BY <2>1, <2>2 DEF Memory!Manage, Store
  <2>4. p \in Core \cup ICore
    BY ExclusiveAssumption DEF Port
  <2> QED BY <2>3, <2>4 DEF Memory!Next
<1>6. ASSUME NEW p \in Port, FlushCache(p)
      PROVE  Memory!Next
  <2>1. Stepped(Store) /\ resp' = [op |-> "flush_cache", port |-> p]
    BY <1>6, FlushCacheStep
  <2>2. Memory!WriteBack({}) /\ Store' = Store
    BY <1>1, <2>1, SteppedMemory
  <2>3. Memory!FlushCache(p)
    BY <2>1, <2>2 DEF Memory!FlushCache, Store
  <2> QED BY <2>3 DEF Memory!Next, Port
<1> QED BY <1>2, <1>3, <1>4, <1>5, <1>6 DEF Next

(* The initial states are those of the abstract memory. *)
LEMMA InitMemory ==
  ASSUME Init
  PROVE  Memory!Init
<1>1. IInv /\ \A a \in Addr : block[a].mem = Latest(block[a])
  BY InitInv
<1>2. \A a \in Addr : Latest(block[a]) \in Val
  BY <1>1 DEF IInv, Coherent
<1>3. Store \in [Addr -> Val] /\ Backing = Store /\ resp = [op |-> "none"]
  BY <1>1, <1>2 DEF Store, Backing, Init
<1> QED BY <1>3 DEF Memory!Init, Store, Backing

(* The exclusive hierarchy, too, is indistinguishable from one memory,     *)
(* with its extended directory or by broadcast: every read returns the     *)
(* last value written, flush() and writeback() of a data port are durable, *)
(* and the memory receives nothing but current content.                    *)
THEOREM Refinement ==
  ASSUME PrefetchSupported
  PROVE  Spec => ImplementsMemory
<1>1. Init => Memory!Init
  BY InitMemory
<1>2. IInv /\ [Next]_vars => [Memory!Next]_Memory!vars
  <2>1. CASE UNCHANGED vars
    BY <2>1 DEF vars, Memory!vars
  <2>2. CASE Next
    BY <2>2, NextMemory
  <2> QED BY <2>1, <2>2
<1>3. Spec => []IInv
  BY Invariance, PTL
<1> QED BY <1>1, <1>2, <1>3, PTL DEF Spec, ImplementsMemory, Memory!Spec
=============================================================================
