------------------------ MODULE InclusiveCacheProofs ------------------------
(***************************************************************************)
(* Proofs about InclusiveCache, for every number of caches, blocks, values *)
(* and ways, every index function and every protocol.                      *)
(*                                                                         *)
(* Everything rests on one predicate of one block: Coherent(b, v), of      *)
(* InclusiveCache, says that b is in a consistent state in which v is its  *)
(* content.  Each nested handler is an operator on one block, and a lemma  *)
(* each says that it keeps Coherent; a call is a composition of them on    *)
(* each block, and IInv says Coherent of every block.                      *)
(***************************************************************************)
EXTENDS InclusiveCache, TLAPS

(* What every handler leaves alone: no port but those of P gains a copy,   *)
(* and the memory keeps its content or receives v.                         *)
Frame(b, r, v, P) ==
  /\ \A p \in Port \ P : IsValid(r.up[p]) => IsValid(b.up[p])
  /\ r.mem \in {b.mem, v}

----------------------------------------------------------------------------
(* A dirty copy is valid, and v is what the definition of Latest finds.    *)
LEMMA LatestContent ==
  ASSUME NEW b, NEW v, Coherent(b, v)
  PROVE  Latest(b) = v
<1> DEFINE dirty == {c \in Core : IsDirty(b.up[c])}
<1>1. CASE dirty # {}
  <2> DEFINE c == CHOOSE c \in dirty : TRUE
  <2>1. c \in dirty
    BY <1>1
  <2>2. c \in Port /\ IsValid(b.up[c])
    BY <2>1 DEF Coherent, UpperInv, LineInv, IsDirty, Port
  <2>3. b.up[c].data = v
    BY <2>2 DEF Coherent, Content
  <2> QED BY <1>1, <2>3 DEF Latest
<1>2. CASE dirty = {}
  <2>1. NoDirty(b)
    BY <1>2 DEF NoDirty, IsDirty
  <2> QED BY <1>2, <2>1 DEF Coherent, Content, Latest
<1> QED BY <1>1, <1>2

(* A probe: who is probed, and what is left where.                         *)
LEMMA ProbeFields ==
  ASSUME NEW b \in Block, NEW act \in ProbeAct, NEW id \in Core \cup {NoId},
         NEW v, Coherent(b, v)
  PROVE  LET r == ProbeReq(b, act, id)
             held == {c \in Core : c # id /\ IsValid(b.up[c])}
         IN  /\ r.mem = b.mem /\ r.ok = b.ok
             /\ r.up = [p \in Port |-> IF p \in held THEN MetaAfterProbe(act, b.up[p]) ELSE b.up[p]]
             /\ IF \E c \in held : b.up[c].dirty
                THEN r.llc = [b.llc EXCEPT !.data = v, !.dirty = TRUE]
                ELSE r.llc = b.llc
<1> DEFINE probed == {c \in Core : ProbeNeedProbe(b.llc, c, id)}
           held   == {c \in probed : IsValid(b.up[c])}
           dirty  == {c \in held : IsDirty(b.up[c])}
           last   == CHOOSE c \in dirty : \A d \in dirty : d <= c
           r      == ProbeReq(b, act, id)
           ups    == [p \in Port |-> IF p \in held THEN MetaAfterProbe(act, b.up[p]) ELSE b.up[p]]
           low    == IF dirty = {} THEN b.llc
                     ELSE ToDirty([b.llc EXCEPT !.data = b.up[last].data])
<1>1. held = {c \in Core : c # id /\ IsValid(b.up[c])}
  BY DEF Coherent, Covered, ProbeNeedProbe
<1>2. r = [b EXCEPT !.up = ups, !.llc = low]
  BY DEF ProbeReq, Sync
<1>3. r.mem = b.mem /\ r.ok = b.ok /\ r.up = ups /\ r.llc = low
  BY <1>2 DEF Block
<1>4. ASSUME NEW c \in held, b.up[c].dirty
      PROVE  dirty = {c} /\ last = c
  <2>1. c \in dirty /\ c \in Core
    BY <1>4 DEF IsDirty
  <2>2. \A d \in dirty : d = c
    BY <2>1, <1>4 DEF IsDirty, Coherent, UpperInv, LineInv, OneWriter, Port
  <2>3. dirty = {c}
    BY <2>1, <2>2
  <2>4. c <= c
    BY <2>1, CacheAssumption
  <2>5. last \in dirty
    BY <2>3, <2>4
  <2> QED BY <2>3, <2>5
<1>5. ASSUME NEW c \in held, b.up[c].dirty
      PROVE  r.llc = [b.llc EXCEPT !.data = v, !.dirty = TRUE]
  <2>1. b.up[c].data = v
    BY <1>5 DEF Coherent, Content, Port
  <2>2. low = ToDirty([b.llc EXCEPT !.data = v])
    BY <1>4, <1>5, <2>1
  <2>3. b.llc \in Line
    BY DEF Block
  <2> QED BY <1>3, <2>2, <2>3 DEF ToDirty, Line
<1>6. ASSUME \A c \in held : ~b.up[c].dirty
      PROVE  r.llc = b.llc
  BY <1>3, <1>6 DEF IsDirty
<1> QED BY <1>1, <1>3, <1>5, <1>6

(* The fields of a line after each metadata method.                        *)
LEMMA InvalidFields ==
  ASSUME NEW m \in Line
  PROVE  /\ ToInvalid(m) \in Line
         /\ ToInvalid(m).st = "I" /\ ToInvalid(m).outer = "I" /\ ~ToInvalid(m).dirty
         /\ ToInvalid(m).data = m.data
         /\ LineInv(ToInvalid(m))
  BY DEF ToInvalid, Line, State, LineInv, IsValid

(* to_shared(), as the three protocols have it. *)
LEMMA SharedFields ==
  ASSUME NEW m \in Line, NEW id \in Core \cup {NoId}
  PROVE  LET n == ToShared(m, id)
         IN  /\ n \in Line
             /\ n.st = IF Proto = "MI" THEN m.st ELSE "S"
             /\ n.outer = m.outer /\ n.dirty = m.dirty /\ n.data = m.data
             /\ m.sharer \subseteq n.sharer
             /\ Proto # "MI" /\ Directory /\ id # NoId => n.sharer = m.sharer \cup {id}
  BY DEF ToShared, AddSharer, Line, State

(* to_exclusive(), which only MESI has. *)
LEMMA ExclusiveFields ==
  ASSUME NEW m \in Line, NEW id \in Core \cup {NoId}
  PROVE  LET n == ToExclusive(m, id)
         IN  /\ n \in Line
             /\ n.st = IF Proto = "MESI" THEN "E" ELSE m.st
             /\ n.outer = m.outer /\ n.dirty = m.dirty /\ n.data = m.data
             /\ m.sharer \subseteq n.sharer
  BY DEF ToExclusive, AddSharer, Line, State

(* to_modified(). *)
LEMMA ModifiedFields ==
  ASSUME NEW m \in Line, NEW id \in Core \cup {NoId}
  PROVE  LET n == ToModified(m, id)
         IN  /\ n \in Line
             /\ n.st = "M"
             /\ n.outer = m.outer /\ n.dirty = m.dirty /\ n.data = m.data
             /\ m.sharer \subseteq n.sharer
             /\ Directory /\ id # NoId => id \in n.sharer
  BY DEF ToModified, AddSharer, Line, State

(* What a probe leaves of the probed line.                                 *)
LEMMA ProbedLine ==
  ASSUME NEW m \in Line, NEW act \in ProbeAct
  PROVE  LET n == MetaAfterProbe(act, m)
         IN  /\ n \in Line
             /\ n.data = m.data
             /\ act = "writeback" => n = m
             /\ act # "writeback" => ~n.dirty /\ ~AllowWrite(n)
             /\ act = "evict" \/ (act = "downgrade" /\ Proto = "MI") => n.st = "I" /\ n.outer = "I"
             /\ LineInv(m) => LineInv(n)
<1> DEFINE n == MetaAfterProbe(act, m)
           i == ToInvalid(m)
<1>1. i \in Line /\ i.st = "I" /\ i.outer = "I" /\ ~i.dirty /\ i.data = m.data
  BY InvalidFields
<1>2. CASE act = "writeback"
  BY <1>2 DEF MetaAfterProbe
<1>3. CASE act = "evict" \/ (act = "downgrade" /\ Proto = "MI")
  <2>1. n = i \/ n = ToInvalid(i)
    BY <1>3 DEF MetaAfterProbe
  <2>2. n \in Line /\ n.st = "I" /\ n.outer = "I" /\ ~n.dirty /\ n.data = m.data
    BY <1>1, <2>1, InvalidFields
  <2> QED BY <1>3, <2>2 DEF LineInv, AllowWrite, IsValid
<1>4. CASE act = "downgrade" /\ Proto # "MI"
  <2> DEFINE o == [i EXCEPT !.outer = "S"]
             s == ToShared(o, NoId)
  <2>1. n = ToClean(s)
    BY <1>4 DEF MetaAfterProbe
  <2>2. o \in Line /\ o.outer = "S" /\ ~o.dirty /\ o.data = m.data
    BY <1>1 DEF Line, State
  <2>3. s \in Line /\ s.st = "S" /\ s.outer = "S" /\ ~s.dirty /\ s.data = m.data
    BY <1>4, <2>2, SharedFields
  <2>4. n \in Line /\ n.st = "S" /\ n.outer = "S" /\ ~n.dirty /\ n.data = m.data
    BY <2>1, <2>3 DEF ToClean, Line
  <2> QED BY <1>4, <2>4 DEF LineInv, AllowWrite, IsValid
<1> QED BY <1>2, <1>3, <1>4 DEF ProbeAct

(* A probe keeps the block coherent.  A releasing probe takes the copies   *)
(* of the other caches, a downgrading one their permission; and unless the *)
(* skipped cache is dirty, the LLC then has the content.                   *)
LEMMA ProbeCoherent ==
  ASSUME NEW b \in Block, NEW v, Coherent(b, v),
         NEW act \in ProbeAct, NEW id \in Core \cup {NoId}
  PROVE  LET r == ProbeReq(b, act, id)
         IN  /\ Coherent(r, v)
             /\ Frame(b, r, v, {})
             /\ r.mem = b.mem
             /\ \A p \in Port : p = id \/ p \in ICore => r.up[p] = b.up[p]
             /\ r.llc.st = b.llc.st /\ r.llc.sharer = b.llc.sharer
             /\ \A c \in Core \ {id} :
                  /\ act # "writeback" => ~r.up[c].dirty /\ ~AllowWrite(r.up[c])
                  /\ act = "evict" => ~IsValid(r.up[c])
             /\ (\A c \in Core : c = id => ~b.up[c].dirty) /\ IsValid(b.llc)
                   => r.llc.data = v
<1> DEFINE r    == ProbeReq(b, act, id)
           held == {c \in Core : c # id /\ IsValid(b.up[c])}
<1>1. /\ r.mem = b.mem /\ r.ok = b.ok
      /\ r.up = [p \in Port |-> IF p \in held THEN MetaAfterProbe(act, b.up[p]) ELSE b.up[p]]
      /\ IF \E c \in held : b.up[c].dirty
         THEN r.llc = [b.llc EXCEPT !.data = v, !.dirty = TRUE]
         ELSE r.llc = b.llc
  BY ProbeFields
<1> HIDE DEF r
<1>2. /\ b.up \in [Port -> Line] /\ b.llc \in Line
      /\ \A p \in Port : b.up[p] \in Line
      /\ Core \subseteq Port /\ Core \cap ICore = {}
  BY CacheAssumption DEF Block, Port
<1>3. ASSUME NEW c \in held
      PROVE  /\ r.up[c] \in Line /\ r.up[c].data = b.up[c].data /\ LineInv(r.up[c])
             /\ act = "writeback" => r.up[c] = b.up[c]
             /\ act # "writeback" => ~r.up[c].dirty /\ ~AllowWrite(r.up[c])
             /\ act = "evict" \/ (act = "downgrade" /\ Proto = "MI") => r.up[c].st = "I"
  BY <1>1, <1>2, ProbedLine DEF Coherent, UpperInv
<1>4. \A p \in Port \ held : r.up[p] = b.up[p]
  BY <1>1
<1>5. \A p \in held : IsValid(b.up[p])
  OBVIOUS
<1>6. \A c \in Core : b.up[c].dirty => IsValid(b.up[c]) /\ AllowWrite(b.up[c])
  BY <1>2 DEF Coherent, UpperInv, LineInv, Port
<1>7. /\ r.llc.st = b.llc.st /\ r.llc.sharer = b.llc.sharer /\ r.llc.outer = b.llc.outer
      /\ \/ r.llc = b.llc /\ \A c \in held : ~b.up[c].dirty
         \/ r.llc.data = v /\ r.llc.dirty = TRUE /\ IsValid(b.llc)
  BY <1>1, <1>2 DEF Line, Coherent, Covered
<1>8. r \in Block
  <2>1. v \in Val \/ r.llc = b.llc
    BY <1>1, <1>2 DEF Coherent, Content, Line
  <2>2. r.llc \in Line
    BY <1>1, <1>2, <2>1 DEF Line
  <2>3. r.up \in [Port -> Line]
    BY <1>1, <1>2, <1>3
  <2>4. r = [b EXCEPT !.up = r.up, !.llc = r.llc]
    BY DEF ProbeReq, Block, r
  <2> QED BY <2>2, <2>3, <2>4 DEF Block
<1>9. r.ok /\ UpperInv(r) /\ LowerInv(r)
  <2>1. \A p \in Port : LineInv(r.up[p])
    BY <1>3, <1>4 DEF Coherent, UpperInv
  <2>2. \A i \in ICore : ~r.up[i].dirty
    BY <1>2, <1>4 DEF Coherent, UpperInv, Port
  <2>3. Proto = "MI" => \A c \in Core : IsValid(r.up[c]) => AllowWrite(r.up[c])
    <3>1. ASSUME Proto = "MI", NEW c \in held, act # "writeback"
          PROVE  ~IsValid(r.up[c])
      BY <1>3, <3>1 DEF IsValid, ProbeAct
    <3> QED BY <1>2, <1>3, <1>4, <3>1 DEF Coherent, UpperInv
  <2> QED BY <1>1, <1>7, <2>1, <2>2, <2>3 DEF Coherent, UpperInv, LowerInv, IsValid
<1>10. Covered(r)
  BY <1>2, <1>4, <1>5, <1>7 DEF Coherent, Covered, IsValid
<1>11. OneWriter(r)
  <2>1. \A p \in Port : IsValid(r.up[p]) => IsValid(b.up[p])
    BY <1>4, <1>5
  <2>2. \A c \in Core : AllowWrite(r.up[c]) => r.up[c] = b.up[c]
    BY <1>2, <1>3, <1>4
  <2> QED BY <1>2, <1>7, <2>1, <2>2 DEF Coherent, OneWriter, IsShared
<1>12. Content(r, v)
  <2>1. \A p \in Port : IsValid(r.up[p]) => r.up[p].data = v
    BY <1>3, <1>4, <1>5 DEF Coherent, Content
  <2>2. NoDirty(r) => IF IsValid(r.llc) THEN r.llc.data = v ELSE r.mem = v
    <3>1. CASE r.llc = b.llc /\ \A c \in held : ~b.up[c].dirty
      <4>1. NoDirty(r) => NoDirty(b)
        BY <1>2, <1>4, <3>1 DEF NoDirty
      <4> QED BY <1>1, <3>1, <4>1 DEF Coherent, Content
    <3> QED BY <1>7, <3>1 DEF IsValid
  <2>3. IsValid(r.llc) /\ ~r.llc.dirty => r.llc.data = r.mem
    BY <1>1, <1>7 DEF Coherent, Content
  <2> QED BY <2>1, <2>2, <2>3 DEF Content
<1>13. (\A c \in Core : c = id => ~b.up[c].dirty) /\ IsValid(b.llc) => r.llc.data = v
  <2>1. ASSUME \A c \in Core : c = id => ~b.up[c].dirty, \A c \in held : ~b.up[c].dirty
        PROVE  NoDirty(b)
    BY <1>6, <2>1 DEF NoDirty
  <2> QED BY <1>7, <2>1 DEF Coherent, Content
<1>14. \A p \in Port : p = id \/ p \in ICore => r.up[p] = b.up[p]
  BY <1>2, <1>4
<1>15. ASSUME NEW c \in Core \ {id}
       PROVE  /\ act # "writeback" => ~r.up[c].dirty /\ ~AllowWrite(r.up[c])
              /\ act = "evict" => ~IsValid(r.up[c])
  <2>1. CASE c \in held
    BY <1>3, <2>1 DEF IsValid
  <2>2. CASE c \notin held
    BY <1>2, <1>4, <2>2 DEF Coherent, UpperInv, LineInv, AllowWrite
  <2> QED BY <2>1, <2>2
<1>16. Frame(b, r, v, {})
  BY <1>1, <1>4, <1>5 DEF Frame
<1> QED
  BY <1>1, <1>7, <1>8, <1>9, <1>10, <1>11, <1>12, <1>13, <1>14, <1>15, <1>16 DEF Coherent, r

(* An acquire command never reads the write actions of a release.          *)
LEMMA IdPort ==
  ASSUME NEW p \in Port
  PROVE  /\ Id(p) \in Core \cup {NoId}
         /\ p \in Core => Id(p) = p
         /\ p \notin Core => p \in ICore /\ Id(p) = NoId
         /\ NoId \notin Core
  BY CacheAssumption DEF Id, Port, NoId

(* Fetching a missing block. *)
LEMMA FetchCoherent ==
  ASSUME NEW b \in Block, NEW v, Coherent(b, v), ~IsValid(b.llc),
         NEW act \in AcquireAct, Proto = "MI" => act = "fetch_write"
  PROVE  LET r == Fetch(b, act)
         IN  /\ Coherent(r, v)
             /\ Frame(b, r, v, {})
             /\ r.mem = b.mem /\ r.up = b.up
             /\ IsValid(r.llc) /\ r.llc.data = v
             /\ \A c \in Core : ~IsValid(r.up[c])
<1> DEFINE r == Fetch(b, act)
           a == MemAcquired(b)
           i == [a EXCEPT !.st = "I"]
<1>1. b.llc \in Line /\ b.mem \in Val /\ Core \subseteq Port
  BY DEF Block, Port
<1>2. a \in Line /\ a.data = b.mem /\ a.outer = "M" /\ ~a.dirty
  BY <1>1 DEF MemAcquired, Line, State, Coherent, LowerInv
<1>3. i \in Line /\ i.data = b.mem /\ i.outer = "M" /\ ~i.dirty
  BY <1>2 DEF Line, State
<1>4. r.llc = MetaAfterFetch(act, a) /\ r.ok /\ r.mem = b.mem /\ r.up = b.up
      /\ r = [b EXCEPT !.llc = r.llc, !.ok = TRUE]
  <2>1. FetchAssertion(act, a)
    BY <1>2 DEF FetchAssertion, AllowWrite, AcquireAct
  <2> QED BY <2>1 DEF Fetch, Block, Coherent
<1> HIDE DEF r, a, i
<1>5. r.llc \in Line /\ r.llc.st \in {"S", "M"} /\ r.llc.data = b.mem /\ r.llc.outer = "M" /\ ~r.llc.dirty
  <2>1. r.llc \in {ToShared(i, NoId), ToModified(i, NoId)} /\ (Proto = "MI" => r.llc = ToModified(i, NoId))
    BY <1>4 DEF MetaAfterFetch, i
  <2> QED BY <1>3, <2>1, SharedFields, ModifiedFields
<1>6. \A c \in Core : ~IsValid(b.up[c]) /\ ~b.up[c].dirty
  BY <1>1 DEF Coherent, Covered, UpperInv, LineInv
<1>7. b.mem = v
  BY <1>6 DEF Coherent, Content, NoDirty
<1>8. r \in Block
  BY <1>4, <1>5 DEF Block
<1>9. UpperInv(r) /\ LowerInv(r) /\ Covered(r) /\ OneWriter(r)
  BY <1>4, <1>5, <1>6 DEF Coherent, UpperInv, LowerInv, Covered, OneWriter, IsValid
<1>10. Content(r, v)
  BY <1>4, <1>5, <1>6, <1>7 DEF Coherent, Content, IsValid
<1> QED BY <1>4, <1>5, <1>6, <1>7, <1>8, <1>9, <1>10 DEF Coherent, Frame, IsValid, r

(* Promoting the LLC's own copy. *)
LEMMA PromoteCoherent ==
  ASSUME NEW b \in Block, NEW v, Coherent(b, v), IsValid(b.llc)
  PROVE  LET r == [b EXCEPT !.llc = ToModified(b.llc, NoId)]
         IN  /\ Coherent(r, v)
             /\ r.up = b.up /\ r.mem = b.mem /\ r.llc.data = b.llc.data
             /\ IsValid(r.llc) /\ r.llc.st = "M"
<1> DEFINE r == [b EXCEPT !.llc = ToModified(b.llc, NoId)]
           l == ToModified(b.llc, NoId)
<1>1. b.llc \in Line
  BY DEF Block
<1>2. /\ l \in Line /\ l.st = "M" /\ l.outer = b.llc.outer /\ l.dirty = b.llc.dirty
      /\ l.data = b.llc.data /\ b.llc.sharer \subseteq l.sharer
  BY <1>1, ModifiedFields
<1>3. r.llc = l /\ r.up = b.up /\ r.mem = b.mem /\ r.ok = b.ok /\ r \in Block
  BY <1>2 DEF Block
<1> HIDE DEF r, l
<1>4. UpperInv(r) /\ LowerInv(r) /\ Covered(r) /\ OneWriter(r)
  BY <1>2, <1>3 DEF Coherent, UpperInv, LowerInv, Covered, OneWriter, IsValid, IsShared
<1>5. Content(r, v)
  BY <1>2, <1>3 DEF Coherent, Content, IsValid, NoDirty
<1> QED BY <1>2, <1>3, <1>4, <1>5 DEF Coherent, IsValid, r

(* Serving an acquire of a port that cannot write its copy: afterwards no  *)
(* copy is dirty or writable, the LLC has the content, and if the port is  *)
(* to write then no other data cache has a copy.                           *)
LEMMA AccessAcquire ==
  ASSUME NEW b \in Block, NEW v, Coherent(b, v), NEW p \in Port,
         p \in Core => ~AllowWrite(b.up[p]),
         NEW act \in {"fetch_read", "fetch_write"}, Proto = "MI" => act = "fetch_write"
  PROVE  LET r == AccessLine(b, Acquire(act), Id(p))
         IN  /\ Coherent(r, v)
             /\ Frame(b, r, v, {})
             /\ r.mem = b.mem /\ r.up[p] = b.up[p]
             /\ IsValid(r.llc) /\ r.llc.data = v
             /\ \A c \in Core : ~AllowWrite(r.up[c])
             /\ act = "fetch_write" => \A c \in Core \ {p} : ~IsValid(r.up[c])
<1> DEFINE cmd   == Acquire(act)
           id    == Id(p)
           r     == AccessLine(b, cmd, id)
           probe == AccessNeedSync(cmd, b.llc)
           s     == IF probe = "none" THEN b ELSE ProbeReq(b, probe, id)
<1>1. /\ id \in Core \cup {NoId} /\ (p \in Core => id = p) /\ (p \notin Core => p \in ICore /\ id = NoId)
      /\ NoId \notin Core /\ Core \subseteq Port
  BY IdPort DEF Port
<1>2. /\ IsWrite(cmd) <=> act = "fetch_write"
      /\ ~IsRelease(cmd) /\ cmd.act = act
      /\ CmdForOuterAcquire(cmd) = act
  BY DEF Acquire, IsWrite, IsRelease, CmdForOuterAcquire
<1>3. CASE ~IsValid(b.llc)
  <2>1. r = Fetch(b, act)
    BY <1>2, <1>3 DEF AccessLine
  <2>2. act \in AcquireAct
    BY DEF AcquireAct
  <2>3. /\ Coherent(r, v) /\ Frame(b, r, v, {}) /\ r.mem = b.mem /\ r.up = b.up
        /\ IsValid(r.llc) /\ r.llc.data = v /\ \A c \in Core : ~IsValid(r.up[c])
    BY <1>3, <2>1, <2>2, FetchCoherent
  <2>4. \A c \in Core : ~AllowWrite(r.up[c])
    BY <1>1, <2>3 DEF Coherent, UpperInv, LineInv, AllowWrite
  <2> QED BY <2>3, <2>4
<1>4. CASE IsValid(b.llc)
  <2>1. \A c \in Core : c = id => ~b.up[c].dirty /\ ~AllowWrite(b.up[c])
    BY <1>1 DEF Coherent, UpperInv, LineInv
  <2>2. /\ Coherent(s, v) /\ Frame(b, s, v, {}) /\ s.mem = b.mem /\ s.up[p] = b.up[p]
        /\ s.llc.st = b.llc.st /\ s.llc.data = v
        /\ \A c \in Core : ~AllowWrite(s.up[c])
        /\ act = "fetch_write" => \A c \in Core \ {p} : ~IsValid(s.up[c])
    <3>1. CASE probe = "none"
      <4>1. s = b /\ act = "fetch_read" /\ IsShared(b.llc)
        BY <1>2, <3>1 DEF AccessNeedSync
      <4>2. \A c \in Core : ~AllowWrite(b.up[c]) /\ ~b.up[c].dirty
        BY <1>1, <4>1 DEF Coherent, OneWriter, UpperInv, LineInv, AllowWrite
      <4> QED BY <1>4, <4>1, <4>2 DEF Coherent, Content, NoDirty, Frame
    <3>2. CASE probe # "none"
      <4>1. /\ probe \in ProbeAct /\ probe # "writeback" /\ s = ProbeReq(b, probe, id)
            /\ act = "fetch_write" => probe = "evict"
        BY <1>2, <3>2 DEF AccessNeedSync, ProbeAct
      <4> HIDE DEF probe, s
      <4>2. /\ Coherent(s, v) /\ Frame(b, s, v, {}) /\ s.mem = b.mem
            /\ s.up[p] = b.up[p] /\ s.llc.st = b.llc.st /\ s.llc.data = v
            /\ \A c \in Core \ {id} : ~AllowWrite(s.up[c]) /\ (probe = "evict" => ~IsValid(s.up[c]))
        BY <1>1, <1>4, <2>1, <4>1, ProbeCoherent
      <4>3. \A c \in Core : c = id => ~AllowWrite(s.up[c]) /\ c = p
        BY <1>1, <2>1, <4>2
      <4> QED BY <4>1, <4>2, <4>3
    <3> QED BY <3>1, <3>2
  <2>3. s \in Block /\ IsValid(s.llc) /\ AllowWrite(s.llc)
    BY <1>4, <2>2 DEF Coherent, IsValid, LowerInv, AllowWrite
  <2>4. r = IF NeedPromoteLocal(cmd, s.llc) THEN [s EXCEPT !.llc = ToModified(s.llc, NoId)] ELSE s
    BY <1>4, <2>3 DEF AccessLine, NeedPromote
  <2> HIDE DEF s, r
  <2>5. Coherent(r, v) /\ r.up = s.up /\ r.mem = s.mem /\ r.llc.data = s.llc.data /\ IsValid(r.llc)
    BY <2>2, <2>3, <2>4, PromoteCoherent
  <2>6. Frame(b, r, v, {})
    BY <2>2, <2>5 DEF Frame
  <2> QED BY <2>2, <2>5, <2>6 DEF r
<1> QED BY <1>3, <1>4

(* What the LLC records and grants for a read or a write.                  *)
GrantSound(act, m, id) ==
  LET n == MetaAfterGrant(act, m, id)
      g == Granted(act, m, id)
  IN  /\ n \in Line /\ n.st # "I"
      /\ n.outer = m.outer /\ n.dirty = m.dirty /\ n.data = m.data
      /\ m.sharer \subseteq n.sharer
      /\ Directory /\ id # NoId => id \in n.sharer
      /\ g \in {"S", "E", "M"}
      /\ act = "fetch_write" => g = "M"
      /\ g # "S" => n.st # "S"
      /\ g = "E" => Directory /\ m.sharer \subseteq {id}

(* meta_after_grant on the LLC line, with the granted state.               *)
LEMMA GrantFields ==
  ASSUME NEW m \in Line, NEW id \in Core \cup {NoId}, NEW act \in {"fetch_read", "fetch_write"},
         Proto = "MI" => act = "fetch_write"
  PROVE  GrantSound(act, m, id)
<1> DEFINE n == MetaAfterGrant(act, m, id)
           g == Granted(act, m, id)
           s == ToShared(m, id)
<1> USE DEF GrantSound
<1>1. CASE act = "fetch_write"
  <2>1. n = ToModified(m, id) /\ g = "M"
    BY <1>1 DEF MetaAfterGrant, Granted
  <2> QED BY <1>1, <2>1, ModifiedFields
<1>2. CASE act = "fetch_read" /\ Proto # "MI"
  <2>1. /\ s \in Line /\ s.st = "S" /\ s.outer = m.outer /\ s.dirty = m.dirty /\ s.data = m.data
        /\ m.sharer \subseteq s.sharer
        /\ Directory /\ id # NoId => s.sharer = m.sharer \cup {id}
    BY <1>2, SharedFields
  <2>2. CASE Proto = "MESI" /\ IsExclusiveSharer(s, id)
    <3>1. n = ToExclusive(s, id) /\ g = "E"
      BY <1>2, <2>2 DEF MetaAfterGrant, Granted
    <3>2. /\ n \in Line /\ n.st = "E" /\ n.outer = s.outer /\ n.dirty = s.dirty /\ n.data = s.data
          /\ s.sharer \subseteq n.sharer
      BY <2>1, <2>2, <3>1, ExclusiveFields
    <3> QED BY <1>2, <2>1, <2>2, <3>1, <3>2, ProtoAssumption DEF IsExclusiveSharer
  <2>3. CASE ~(Proto = "MESI" /\ IsExclusiveSharer(s, id))
    <3>1. n = s /\ g = "S"
      BY <1>2, <2>3 DEF MetaAfterGrant, Granted
    <3> QED BY <1>2, <2>1, <3>1
  <2> QED BY <2>2, <2>3
<1> QED BY <1>1, <1>2

(* A line filled by a read or a write. *)
LEMMA FetchedFields ==
  ASSUME NEW m \in Line, NEW act \in {"fetch_read", "fetch_write"},
         Proto = "MI" => act = "fetch_write"
  PROVE  LET n == MetaAfterFetch(act, m)
         IN  /\ n \in Line
             /\ n.st = IF act = "fetch_read" THEN "S" ELSE "M"
             /\ n.outer = m.outer /\ n.dirty = m.dirty /\ n.data = m.data
<1> DEFINE n == MetaAfterFetch(act, m)
           i == [m EXCEPT !.st = "I"]
<1>1. i \in Line /\ i.outer = m.outer /\ i.dirty = m.dirty /\ i.data = m.data
  BY DEF Line, State
<1>2. n = IF act = "fetch_read" THEN ToShared(i, NoId) ELSE ToModified(i, NoId)
  BY DEF MetaAfterFetch
<1> HIDE DEF i, n
<1>3. CASE act = "fetch_read"
  BY <1>1, <1>2, <1>3, SharedFields DEF n
<1>4. CASE act = "fetch_write"
  BY <1>1, <1>2, <1>4, ModifiedFields DEF n
<1> QED BY <1>3, <1>4

(* A port that cannot write its copy, or has none, acquires the block.     *)
LEMMA AcquireCoherent ==
  ASSUME NEW b \in Block, NEW v, Coherent(b, v), NEW p \in Port,
         p \in Core => ~AllowWrite(b.up[p]),
         NEW act \in {"fetch_read", "fetch_write"}, Proto = "MI" => act = "fetch_write"
  PROVE  LET r == AcquireReq(b, p, act)
         IN  /\ Coherent(r, v)
             /\ Frame(b, r, v, {p})
             /\ r.mem = b.mem
             /\ IsValid(r.up[p])
             /\ act = "fetch_write" => AllowWrite(r.up[p]) /\ r.up[p].st = "M"
             /\ \A i \in ICore \ {p} : IsValid(r.up[i]) => IsValid(b.up[i])
<1> DEFINE id   == Id(p)
           acc  == AccessLine(b, Acquire(act), id)
           g    == Granted(act, acc.llc, id)
           line == [b.up[p] EXCEPT !.data = acc.llc.data, !.outer = g]
           low  == MetaAfterGrant(act, acc.llc, id)
           new  == MetaAfterFetch(act, line)
           r    == AcquireReq(b, p, act)
<1>1. /\ id \in Core \cup {NoId} /\ (p \in Core => id = p) /\ (p \notin Core => p \in ICore /\ id = NoId)
      /\ NoId \notin Core /\ Core \subseteq Port /\ ICore \subseteq Port /\ Core \cap ICore = {}
  BY IdPort, CacheAssumption DEF Port
<1>2. /\ Coherent(acc, v) /\ Frame(b, acc, v, {}) /\ acc.mem = b.mem /\ acc.up[p] = b.up[p]
      /\ IsValid(acc.llc) /\ acc.llc.data = v
      /\ \A c \in Core : ~AllowWrite(acc.up[c])
      /\ act = "fetch_write" => \A c \in Core \ {p} : ~IsValid(acc.up[c])
  BY AccessAcquire
<1> HIDE DEF acc
<1>3. acc \in Block /\ acc.llc \in Line /\ acc.up \in [Port -> Line] /\ b.up[p] \in Line /\ acc.ok
  BY <1>2 DEF Coherent, Block
<1>4. /\ low \in Line /\ low.st # "I" /\ low.outer = acc.llc.outer /\ low.dirty = acc.llc.dirty
      /\ low.data = v /\ acc.llc.sharer \subseteq low.sharer
      /\ Directory /\ id # NoId => id \in low.sharer
      /\ g \in {"S", "E", "M"} /\ (act = "fetch_write" => g = "M") /\ (g # "S" => low.st # "S")
      /\ g = "E" => Directory /\ acc.llc.sharer \subseteq {id}
  <2>1. GrantSound(act, acc.llc, id)
    BY <1>1, <1>3, GrantFields
  <2> QED BY <1>2, <2>1 DEF GrantSound
<1>5. ~b.up[p].dirty
  BY <1>1 DEF Coherent, UpperInv, LineInv
<1>6. line \in Line /\ line.data = v /\ line.outer = g /\ ~line.dirty
  BY <1>2, <1>3, <1>4, <1>5 DEF Line, State
<1>7. /\ r = [acc EXCEPT !.llc = low, !.up[p] = new, !.ok = @ /\ GrantAssertion(act) /\ FetchAssertion(act, line)]
  BY DEF AcquireReq, acc
<1>8. GrantAssertion(act) /\ FetchAssertion(act, line)
  BY <1>4, <1>6 DEF GrantAssertion, FetchAssertion, AllowWrite
<1> HIDE DEF line, low, g
<1>9. /\ new \in Line /\ new.st = IF act = "fetch_read" THEN "S" ELSE "M"
      /\ new.outer = g /\ ~new.dirty /\ new.data = v
  BY <1>6, FetchedFields
<1> HIDE DEF new, r
<1>10. /\ r.llc = low /\ r.up = [acc.up EXCEPT ![p] = new] /\ r.ok /\ r.mem = acc.mem
       /\ r \in Block
  BY <1>3, <1>4, <1>7, <1>8, <1>9 DEF Block
<1>11. r.up[p] = new /\ \A q \in Port \ {p} : r.up[q] = acc.up[q]
  BY <1>3, <1>10
<1>12. UpperInv(r) /\ LowerInv(r)
  <2>1. LineInv(new)
    BY <1>4, <1>9 DEF LineInv, IsValid
  <2>2. Proto = "MI" => AllowWrite(new)
    BY <1>4, <1>9 DEF AllowWrite
  <2>3. UpperInv(r)
    BY <1>1, <1>2, <1>9, <1>11, <2>1, <2>2 DEF Coherent, UpperInv
  <2> QED BY <1>2, <1>4, <1>10, <2>3 DEF Coherent, LowerInv, IsValid
<1>13. Covered(r)
  BY <1>1, <1>2, <1>4, <1>10, <1>11 DEF Coherent, Covered, IsValid
<1>14. OneWriter(r)
  <2>1. ASSUME NEW c \in Core, AllowWrite(r.up[c])
        PROVE  c = p /\ g \in {"E", "M"}
    BY <1>1, <1>2, <1>9, <1>11, <2>1 DEF AllowWrite
  <2>2. ASSUME p \in Core, g \in {"E", "M"}, NEW d \in Core \ {p}
        PROVE  ~IsValid(acc.up[d])
    <3>1. CASE act = "fetch_write"
      BY <1>2, <2>2, <3>1
    <3>2. CASE g = "E"
      BY <1>1, <1>2, <1>4, <2>2, <3>2 DEF Coherent, Covered
    <3>3. CASE act = "fetch_read" /\ g = "M"
      BY <3>3 DEF g, Granted
    <3> QED BY <2>2, <3>1, <3>2, <3>3
  <2> QED BY <1>1, <1>4, <1>10, <1>11, <2>1, <2>2 DEF OneWriter, IsShared
<1>15. Content(r, v)
  BY <1>2, <1>4, <1>9, <1>10, <1>11 DEF Coherent, Content, IsValid
<1>16. Frame(b, r, v, {p})
  BY <1>2, <1>10, <1>11 DEF Frame
<1>17. /\ IsValid(r.up[p])
       /\ act = "fetch_write" => AllowWrite(r.up[p]) /\ r.up[p].st = "M"
  BY <1>4, <1>9, <1>11 DEF IsValid, AllowWrite
<1>18. \A i \in ICore \ {p} : IsValid(r.up[i]) => IsValid(b.up[i])
  BY <1>1, <1>16 DEF Frame
<1> QED BY <1>2, <1>10, <1>12, <1>13, <1>14, <1>15, <1>16, <1>17, <1>18 DEF Coherent, r

(* Dropping a clean copy of an L1. *)
LEMMA DropCoherent ==
  ASSUME NEW b \in Block, NEW v, Coherent(b, v), NEW p \in Port, ~b.up[p].dirty
  PROVE  LET r == [b EXCEPT !.up[p] = ToInvalid(b.up[p])]
         IN  /\ Coherent(r, v)
             /\ Frame(b, r, v, {})
             /\ r.mem = b.mem /\ r.llc = b.llc /\ ~IsValid(r.up[p])
<1> DEFINE r == [b EXCEPT !.up[p] = ToInvalid(b.up[p])]
           i == ToInvalid(b.up[p])
<1>1. b.up[p] \in Line /\ Core \subseteq Port /\ ICore \subseteq Port
  BY DEF Block, Port
<1>2. i \in Line /\ i.st = "I" /\ i.outer = "I" /\ ~i.dirty /\ LineInv(i)
  BY <1>1, InvalidFields
<1> HIDE DEF i
<1>3. /\ r.up[p] = i /\ (\A q \in Port \ {p} : r.up[q] = b.up[q])
      /\ r.llc = b.llc /\ r.mem = b.mem /\ r.ok = b.ok /\ r \in Block
  BY <1>2 DEF Block, i
<1> HIDE DEF r
<1>4. ~IsValid(r.up[p]) /\ ~AllowWrite(r.up[p])
  BY <1>2, <1>3 DEF IsValid, AllowWrite
<1>5. \A q \in Port : ~IsValid(r.up[q]) \/ r.up[q] = b.up[q]
  BY <1>3, <1>4
<1>6. UpperInv(r) /\ LowerInv(r) /\ Covered(r) /\ OneWriter(r)
  <2>1. \A q \in Port : LineInv(r.up[q])
    BY <1>2, <1>3 DEF Coherent, UpperInv
  <2>2. \A q \in ICore : ~r.up[q].dirty
    BY <1>1, <1>2, <1>3 DEF Coherent, UpperInv
  <2>3. UpperInv(r)
    BY <1>1, <1>5, <2>1, <2>2 DEF Coherent, UpperInv
  <2>4. LowerInv(r) /\ Covered(r) /\ OneWriter(r)
    BY <1>1, <1>3, <1>5 DEF Coherent, LowerInv, Covered, OneWriter
  <2> QED BY <2>3, <2>4
<1>7. Content(r, v)
  <2>1. NoDirty(r) => NoDirty(b)
    BY <1>1, <1>3 DEF NoDirty
  <2> QED BY <1>3, <1>5, <2>1 DEF Coherent, Content
<1> QED BY <1>3, <1>4, <1>5, <1>6, <1>7 DEF Coherent, Frame, r

(* Evicting a block from an L1. *)
LEMMA L1EvictCoherent ==
  ASSUME NEW b \in Block, NEW v, Coherent(b, v), NEW p \in Port
  PROVE  LET r == L1Evict(b, p)
         IN  /\ Coherent(r, v)
             /\ Frame(b, r, v, {})
             /\ r.mem = b.mem
<1>1. CASE ~b.up[p].dirty
  <2>1. L1Evict(b, p) = [b EXCEPT !.up[p] = ToInvalid(b.up[p])]
    BY <1>1 DEF L1Evict, L1Writeback, IsDirty, Coherent, Block
  <2> QED BY <1>1, <2>1, DropCoherent
<1>2. CASE b.up[p].dirty
  <2> DEFINE s   == IF Proto = "MI" THEN ProbeReq(b, "evict", Id(p)) ELSE b
             acc == AccessLine(b, Release, Id(p))
             w   == ReleaseLine(b, p)
             r   == L1Evict(b, p)
             i   == ToInvalid(w.up[p])
  <2>1. /\ p \in Core /\ Id(p) = p /\ p # NoId
        /\ Core \subseteq Port /\ ICore \subseteq Port /\ Core \cap ICore = {}
        /\ b.up[p] \in Line /\ b.up[p].data = v
        /\ IsValid(b.up[p]) /\ AllowWrite(b.up[p])
        /\ \A c \in Core \ {p} : ~IsValid(b.up[c])
        /\ IsValid(b.llc) /\ b.llc.outer = "M"
    BY <1>2, IdPort, CacheAssumption
       DEF Coherent, UpperInv, LowerInv, LineInv, Content, OneWriter, Covered, Block, Port
  <2>2. /\ Coherent(s, v) /\ Frame(b, s, v, {}) /\ s.mem = b.mem /\ s.up[p] = b.up[p]
        /\ s.llc.st = b.llc.st
    <3>1. CASE Proto = "MI"
      BY <2>1, <3>1, ProbeCoherent DEF ProbeAct
    <3>2. CASE Proto # "MI"
      BY <3>2 DEF Frame
    <3> QED BY <3>1, <3>2
  <2>3. s \in Block /\ IsValid(s.llc) /\ AllowWrite(s.llc)
    BY <2>1, <2>2 DEF Coherent, IsValid, LowerInv, AllowWrite
  <2>4. acc = IF NeedPromoteLocal(Release, s.llc) THEN [s EXCEPT !.llc = ToModified(s.llc, NoId)] ELSE s
    <3>1. AccessNeedSync(Release, b.llc) = IF Proto = "MI" THEN "evict" ELSE "none"
      BY DEF AccessNeedSync, Release, IsRelease
    <3> QED BY <2>1, <2>3, <3>1 DEF AccessLine, NeedPromote
  <2> HIDE DEF s, acc
  <2>5. /\ Coherent(acc, v) /\ acc.up = s.up /\ acc.mem = s.mem /\ IsValid(acc.llc)
    BY <2>2, <2>3, <2>4, PromoteCoherent
  <2>6. /\ w.llc = ToDirty([acc.llc EXCEPT !.data = v])
        /\ w.up = [acc.up EXCEPT ![p] = ToClean([b.up[p] EXCEPT !.outer = "I"])]
        /\ w.mem = b.mem /\ w.ok
        /\ w = [acc EXCEPT !.llc = w.llc, !.up = w.up]
    <3>1. acc \in Block /\ acc.ok
      BY <2>5 DEF Coherent
    <3>2. ~NeedPromote(Release, b.llc)
      BY <2>1 DEF NeedPromote, AllowWrite
    <3> QED BY <2>1, <2>2, <2>5, <3>1, <3>2 DEF ReleaseLine, acc, Block
  <2> HIDE DEF w
  <2>7. acc \in Block /\ acc.llc \in Line /\ acc.up \in [Port -> Line] /\ v \in Val
    BY <2>1, <2>5 DEF Coherent, Block, Line
  <2>8. /\ w.llc \in Line /\ w.llc.st = acc.llc.st /\ w.llc.outer = acc.llc.outer
        /\ w.llc.sharer = acc.llc.sharer /\ w.llc.data = v /\ w.llc.dirty
    <3> DEFINE l == [acc.llc EXCEPT !.data = v]
    <3>1. /\ l \in Line /\ l.st = acc.llc.st /\ l.outer = acc.llc.outer
          /\ l.sharer = acc.llc.sharer /\ l.data = v
      BY <2>7 DEF Line
    <3>2. w.llc = ToDirty(l)
      BY <2>6
    <3> HIDE DEF l
    <3> QED BY <3>1, <3>2 DEF ToDirty, Line
  <2>9. w.up[p] \in Line /\ ~w.up[p].dirty /\ w.up \in [Port -> Line]
    <3> DEFINE o == [b.up[p] EXCEPT !.outer = "I"]
    <3>1. o \in Line
      BY <2>1 DEF Line, State
    <3>2. w.up = [acc.up EXCEPT ![p] = ToClean(o)]
      BY <2>6
    <3> HIDE DEF o
    <3>3. ToClean(o) \in Line /\ ~ToClean(o).dirty
      BY <3>1 DEF ToClean, Line
    <3> QED BY <2>7, <3>2, <3>3
  <2>10. i \in Line /\ i.st = "I" /\ i.outer = "I" /\ ~i.dirty /\ LineInv(i)
    BY <2>9, InvalidFields
  <2>11. r = [w EXCEPT !.up[p] = i, !.ok = @ /\ ~IsDirty(w.up[p])]
    BY <1>2 DEF L1Evict, L1Writeback, IsDirty, w
  <2>12. w \in Block
    BY <2>6, <2>7, <2>8, <2>9 DEF Block
  <2> HIDE DEF r, i
  <2>13. /\ r.llc = w.llc /\ r.mem = w.mem /\ r.ok /\ r \in Block
         /\ r.up[p] = i /\ \A q \in Port \ {p} : r.up[q] = w.up[q]
    BY <2>6, <2>9, <2>10, <2>11, <2>12 DEF Block, IsDirty
  <2>14. /\ ~IsValid(r.up[p]) /\ \A q \in Port \ {p} : r.up[q] = acc.up[q]
    BY <2>6, <2>7, <2>10, <2>13 DEF IsValid
  <2>15. \A c \in Core : ~IsValid(r.up[c])
    BY <2>1, <2>2, <2>5, <2>14 DEF Frame
  <2>16. UpperInv(r) /\ LowerInv(r) /\ Covered(r) /\ OneWriter(r)
    <3>1. UpperInv(r)
      BY <2>1, <2>5, <2>10, <2>13, <2>14, <2>15 DEF Coherent, UpperInv
    <3>2. LowerInv(r)
      BY <2>5, <2>8, <2>13 DEF Coherent, LowerInv, IsValid
    <3> QED BY <2>15, <3>1, <3>2 DEF Covered, OneWriter
  <2>17. Content(r, v)
    BY <2>5, <2>8, <2>13, <2>14 DEF Coherent, Content, IsValid
  <2>18. Frame(b, r, v, {}) /\ r.mem = b.mem
    BY <2>2, <2>5, <2>6, <2>13, <2>14 DEF Frame
  <2> QED BY <2>13, <2>16, <2>17, <2>18 DEF Coherent, r
<1> QED BY <1>1, <1>2

(* The LLC writes its copy back, if dirty, once it has the content.        *)
LEMMA WrittenBack ==
  ASSUME NEW b \in Block, NEW v, Coherent(b, v), IsValid(b.llc), b.llc.data = v
  PROVE  LET r == MemWriteback(b)
         IN  /\ Coherent(r, v)
             /\ r.mem = v /\ r.up = b.up /\ r.llc.st = b.llc.st
             /\ r.llc.data = v /\ ~r.llc.dirty
<1> DEFINE r == MemWriteback(b)
           l == ToClean(b.llc)
<1>1. CASE ~b.llc.dirty
  BY <1>1 DEF MemWriteback, IsDirty, Coherent, Content
<1>2. CASE b.llc.dirty
  <2>1. b.llc \in Line /\ v \in Val
    BY DEF Block, Line
  <2>2. /\ l \in Line /\ l.st = b.llc.st /\ l.outer = b.llc.outer /\ l.sharer = b.llc.sharer
        /\ l.data = v /\ ~l.dirty
    BY <2>1 DEF ToClean, Line
  <2> HIDE DEF l
  <2>3. /\ r.llc = l /\ r.mem = v /\ r.up = b.up /\ r.ok = b.ok /\ r \in Block
    BY <1>2, <2>1, <2>2 DEF MemWriteback, IsDirty, Block, l
  <2> HIDE DEF r
  <2>4. UpperInv(r) /\ LowerInv(r) /\ Covered(r) /\ OneWriter(r) /\ Content(r, v)
    BY <2>2, <2>3 DEF Coherent, UpperInv, LowerInv, Covered, OneWriter, Content, IsValid, IsShared, NoDirty
  <2> QED BY <2>2, <2>3, <2>4 DEF Coherent, r
<1> QED BY <1>1, <1>2

(* Dropping the LLC's clean copy when no data cache has one.               *)
LEMMA LLCDropCoherent ==
  ASSUME NEW b \in Block, NEW v, Coherent(b, v), b.mem = v,
         \A c \in Core : ~IsValid(b.up[c])
  PROVE  LET r == [b EXCEPT !.llc = ToInvalid(b.llc)]
         IN  /\ Coherent(r, v)
             /\ r.mem = v /\ r.up = b.up /\ ~IsValid(r.llc)
<1> DEFINE r == [b EXCEPT !.llc = ToInvalid(b.llc)]
           l == ToInvalid(b.llc)
<1>1. l \in Line /\ l.st = "I" /\ l.outer = "I" /\ ~l.dirty
  BY InvalidFields DEF Block
<1> HIDE DEF l
<1>2. r.llc = l /\ r.mem = v /\ r.up = b.up /\ r.ok = b.ok /\ r \in Block
  BY <1>1 DEF Block, l
<1> HIDE DEF r
<1>3. UpperInv(r) /\ LowerInv(r) /\ Covered(r) /\ OneWriter(r) /\ Content(r, v)
  BY <1>1, <1>2 DEF Coherent, UpperInv, LowerInv, Covered, OneWriter, Content, IsValid
<1> QED BY <1>1, <1>2, <1>3 DEF Coherent, IsValid, r

(* Evicting a block from the LLC: it is back in memory.                    *)
LEMMA LLCEvictCoherent ==
  ASSUME NEW b \in Block, NEW v, Coherent(b, v)
  PROVE  LET r == LLCEvict(b)
         IN  /\ Coherent(r, v)
             /\ Frame(b, r, v, {})
             /\ ~IsValid(r.llc)
<1> DEFINE s == ProbeReq(b, "evict", NoId)
           w == MemWriteback(s)
           r == LLCEvict(b)
<1>1. /\ Coherent(s, v) /\ Frame(b, s, v, {}) /\ s.mem = b.mem /\ s.llc.st = b.llc.st
      /\ \A c \in Core : ~IsValid(s.up[c])
      /\ IsValid(b.llc) => s.llc.data = v
  <2>1. \A c \in Core : c # NoId
    BY CacheAssumption DEF NoId
  <2> QED BY <2>1, ProbeCoherent DEF ProbeAct
<1> HIDE DEF s
<1>2. s \in Block
  BY <1>1 DEF Coherent
<1>3. /\ Coherent(w, v) /\ w.mem = v /\ w.up = s.up
  <2>1. CASE IsValid(s.llc)
    <3>1. s.llc.data = v
      BY <1>1, <2>1 DEF IsValid
    <3> QED BY <1>1, <1>2, <2>1, <3>1, WrittenBack
  <2>2. CASE ~IsValid(s.llc)
    <3>1. w = s
      BY <1>1, <2>2 DEF Coherent, LowerInv, MemWriteback, IsDirty
    <3>2. NoDirty(s)
      BY <1>1 DEF NoDirty, Coherent, UpperInv, LineInv, Port
    <3> QED BY <1>1, <2>2, <3>1, <3>2 DEF Coherent, Content
  <2> QED BY <2>1, <2>2
<1>4. r = [w EXCEPT !.llc = ToInvalid(w.llc)]
  BY DEF LLCEvict, WritebackNeedSync, s
<1> HIDE DEF w, r
<1>5. w \in Block
  BY <1>3 DEF Coherent
<1>6. /\ Coherent(r, v) /\ r.mem = v /\ r.up = w.up /\ ~IsValid(r.llc)
  BY <1>1, <1>3, <1>4, <1>5, LLCDropCoherent
<1> QED BY <1>1, <1>3, <1>6 DEF Frame, r

(* A flush or write-back at the LLC leaves the content in memory, and a    *)
(* flush no copy above it.                                                 *)
LEMMA LLCFlushCoherent ==
  ASSUME NEW b \in Block, NEW v, Coherent(b, v), NEW act \in FlushAct
  PROVE  LET r == LLCFlush(b, act)
         IN  /\ Coherent(r, v)
             /\ Frame(b, r, v, {})
             /\ r.mem = v
             /\ act = "evict" => ~IsValid(r.llc) /\ \A c \in Core : ~IsValid(r.up[c])
<1> DEFINE probe == FlushNeedSync(act, b.llc)
           s == IF probe = "none" THEN b ELSE ProbeReq(b, probe, NoId)
           w == MemWriteback(s)
           r == LLCFlush(b, act)
<1>1. \A c \in Core : c # NoId
  BY CacheAssumption DEF NoId
<1>2. CASE ~IsValid(b.llc)
  <2>1. r = b
    BY <1>2 DEF LLCFlush
  <2>2. \A c \in Core : ~IsValid(b.up[c]) /\ ~b.up[c].dirty
    BY <1>2 DEF Coherent, Covered, UpperInv, LineInv, Port
  <2>3. b.mem = v
    BY <1>2, <2>2 DEF Coherent, Content, NoDirty
  <2> QED BY <1>2, <2>1, <2>2, <2>3 DEF Frame
<1>3. CASE IsValid(b.llc)
  <2>1. /\ Coherent(s, v) /\ Frame(b, s, v, {}) /\ s.mem = b.mem /\ s.llc.st = b.llc.st /\ s.llc.data = v
        /\ act = "evict" => \A c \in Core : ~IsValid(s.up[c])
    <3>1. CASE probe = "none"
      <4>1. s = b /\ IsShared(b.llc) /\ act # "evict"
        BY <3>1 DEF FlushNeedSync
      <4>2. NoDirty(b)
        BY <4>1 DEF NoDirty, Coherent, OneWriter, UpperInv, LineInv, Port
      <4> QED BY <1>3, <4>1, <4>2 DEF Coherent, Content, Frame
    <3>2. CASE probe # "none"
      <4>1. probe \in ProbeAct /\ s = ProbeReq(b, probe, NoId) /\ (act = "evict" => probe = "evict")
        BY <3>2 DEF FlushNeedSync, ProbeAct
      <4> HIDE DEF probe, s
      <4> QED BY <1>1, <1>3, <4>1, ProbeCoherent
    <3> QED BY <3>1, <3>2
  <2> HIDE DEF s
  <2>2. s \in Block /\ IsValid(s.llc)
    BY <1>3, <2>1 DEF Coherent, IsValid
  <2>3. Coherent(w, v) /\ w.mem = v /\ w.up = s.up
    BY <2>1, <2>2, WrittenBack
  <2>4. r = [w EXCEPT !.llc = MetaAfterFlush(act, w.llc)]
    BY <1>3 DEF LLCFlush, s
  <2> HIDE DEF w, r
  <2>5. w \in Block
    BY <2>3 DEF Coherent
  <2>6. CASE act = "evict"
    <3>1. r = [w EXCEPT !.llc = ToInvalid(w.llc)]
      BY <2>4, <2>6 DEF MetaAfterFlush
    <3>2. Coherent(r, v) /\ r.mem = v /\ r.up = w.up /\ ~IsValid(r.llc)
      BY <2>1, <2>3, <2>5, <2>6, <3>1, LLCDropCoherent
    <3> QED BY <2>1, <2>3, <2>6, <3>2 DEF Frame, r
  <2>7. CASE act # "evict"
    <3>1. r = w
      BY <2>4, <2>5, <2>7 DEF MetaAfterFlush, Block
    <3> QED BY <2>1, <2>3, <2>7, <3>1 DEF Frame, r
  <2> QED BY <2>6, <2>7
<1> QED BY <1>2, <1>3

(* A prefetch at the LLC fetches what the memory has.                      *)
LEMMA LLCPrefetchCoherent ==
  ASSUME NEW b \in Block, NEW v, Coherent(b, v), Proto # "MI"
  PROVE  LET r == LLCPrefetch(b)
         IN  /\ Coherent(r, v)
             /\ Frame(b, r, v, {})
<1>1. CASE IsValid(b.llc)
  BY <1>1 DEF LLCPrefetch, Frame
<1>2. CASE ~IsValid(b.llc)
  BY <1>2, FetchCoherent DEF LLCPrefetch, AcquireAct
<1> QED BY <1>1, <1>2

(* An access of an L1, for a read or, at a data cache, for a write.        *)
LEMMA L1AccessCoherent ==
  ASSUME NEW b \in Block, NEW v, Coherent(b, v), NEW p \in Port,
         NEW act \in {"fetch_read", "fetch_write"}, act = "fetch_write" => p \in Core
  PROVE  LET r == L1Access(b, p, Acquire(act))
         IN  /\ Coherent(r, v)
             /\ Frame(b, r, v, {p})
             /\ r.mem = b.mem
             /\ IsValid(r.up[p])
             /\ act = "fetch_write" => AllowWrite(r.up[p])
<1> DEFINE cmd == Acquire(act)
           r   == L1Access(b, p, cmd)
<1>1. /\ IsWrite(cmd) <=> act = "fetch_write"
      /\ CmdForOuterAcquire(cmd) = IF Proto = "MI" THEN "fetch_write" ELSE act
  BY DEF Acquire, IsWrite, CmdForOuterAcquire
<1>2. CASE ~IsValid(b.up[p])
  <2> DEFINE outer == CmdForOuterAcquire(cmd)
  <2>1. outer \in {"fetch_read", "fetch_write"} /\ (Proto = "MI" => outer = "fetch_write")
        /\ (act = "fetch_write" => outer = "fetch_write")
    BY <1>1
  <2>2. ~AllowWrite(b.up[p])
    BY <1>2 DEF Coherent, UpperInv, LineInv, AllowWrite
  <2>3. r = AcquireReq(b, p, outer)
    BY <1>2 DEF L1Access
  <2> HIDE DEF outer, r
  <2> QED BY <2>1, <2>2, <2>3, AcquireCoherent DEF r
<1>3. CASE IsValid(b.up[p]) /\ NeedPromote(cmd, b.up[p])
  <2>1. act = "fetch_write" /\ ~AllowWrite(b.up[p])
    BY <1>1, <1>3 DEF NeedPromote
  <2>2. r = AcquireReq(b, p, "fetch_write")
    BY <1>3 DEF L1Access
  <2> QED BY <2>1, <2>2, AcquireCoherent
<1>4. CASE IsValid(b.up[p]) /\ ~NeedPromote(cmd, b.up[p]) /\ NeedPromoteLocal(cmd, b.up[p])
  <2> DEFINE n == ToModified(b.up[p], NoId)
  <2>1. b.up[p] \in Line /\ Core \subseteq Port /\ ICore \subseteq Port
    BY DEF Block, Port
  <2>2. /\ n \in Line /\ n.st = "M" /\ n.outer = b.up[p].outer /\ n.dirty = b.up[p].dirty
        /\ n.data = b.up[p].data
    BY <2>1, ModifiedFields
  <2>3. r = [b EXCEPT !.up[p] = n]
    BY <1>4 DEF L1Access
  <2> HIDE DEF n, r
  <2>4. /\ r.up[p] = n /\ (\A q \in Port \ {p} : r.up[q] = b.up[q])
        /\ r.llc = b.llc /\ r.mem = b.mem /\ r.ok = b.ok /\ r \in Block
    BY <2>2, <2>3 DEF Block
  <2>5. \A q \in Port : /\ IsValid(r.up[q]) <=> IsValid(b.up[q])
                        /\ r.up[q].outer = b.up[q].outer /\ r.up[q].dirty = b.up[q].dirty
                        /\ r.up[q].data = b.up[q].data
    BY <1>4, <2>2, <2>4 DEF IsValid
  <2>6. UpperInv(r) /\ LowerInv(r) /\ Covered(r)
    BY <2>1, <2>4, <2>5 DEF Coherent, UpperInv, LineInv, LowerInv, Covered, AllowWrite
  <2>7. OneWriter(r)
    BY <2>1, <2>4, <2>5 DEF Coherent, OneWriter, AllowWrite
  <2>8. Content(r, v)
    <3>1. NoDirty(r) => NoDirty(b)
      BY <2>1, <2>5 DEF NoDirty
    <3> QED BY <2>4, <2>5, <3>1 DEF Coherent, Content
  <2>9. AllowWrite(r.up[p])
    BY <1>4, <2>5 DEF NeedPromoteLocal, AllowWrite
  <2>10. Coherent(r, v) /\ Frame(b, r, v, {p}) /\ IsValid(r.up[p])
    BY <1>4, <2>4, <2>5, <2>6, <2>7, <2>8 DEF Coherent, Frame
  <2> QED BY <2>4, <2>9, <2>10 DEF r
<1>5. CASE IsValid(b.up[p]) /\ ~NeedPromote(cmd, b.up[p]) /\ ~NeedPromoteLocal(cmd, b.up[p])
  <2>1. r = b
    BY <1>5 DEF L1Access
  <2>2. act = "fetch_write" => AllowWrite(b.up[p])
    BY <1>1, <1>5 DEF NeedPromote, Coherent, UpperInv
  <2> QED BY <1>5, <2>1, <2>2 DEF Frame
<1> QED BY <1>2, <1>3, <1>4, <1>5

(* A write, once no instruction cache has a copy, makes w the content, and *)
(* the memory is not touched.                                              *)
LEMMA L1WriteCoherent ==
  ASSUME NEW b \in Block, NEW v, Coherent(b, v), NEW p \in Core, NEW w \in Val,
         \A i \in ICore : ~IsValid(b.up[i])
  PROVE  LET r == L1Write(b, p, w)
         IN  /\ Coherent(r, w)
             /\ r.mem = b.mem
             /\ \A i \in ICore : ~IsValid(r.up[i])
<1> DEFINE acc == L1Access(b, p, Acquire("fetch_write"))
           d   == ToDirty(acc.up[p])
           n   == [d EXCEPT !.data = w]
           r   == L1Write(b, p, w)
<1>1. p \in Port /\ p \notin ICore /\ Core \subseteq Port /\ ICore \subseteq Port
  BY CacheAssumption DEF Port
<1>2. /\ Coherent(acc, v) /\ Frame(b, acc, v, {p}) /\ acc.mem = b.mem
      /\ IsValid(acc.up[p]) /\ AllowWrite(acc.up[p])
  BY <1>1, L1AccessCoherent
<1>3. r = [acc EXCEPT !.up[p] = n]
  BY DEF L1Write
<1> HIDE DEF acc
<1>4. acc \in Block /\ acc.up[p] \in Line
  BY <1>1, <1>2 DEF Coherent, Block
<1>5. d \in Line /\ d.st = acc.up[p].st /\ d.outer = acc.up[p].outer /\ d.dirty
  BY <1>4 DEF ToDirty, Line
<1> HIDE DEF d
<1>6. n \in Line /\ n.st = acc.up[p].st /\ n.outer = acc.up[p].outer /\ n.dirty /\ n.data = w
  BY <1>5 DEF Line
<1> HIDE DEF n, r
<1>7. /\ r.up[p] = n /\ (\A q \in Port \ {p} : r.up[q] = acc.up[q])
      /\ r.llc = acc.llc /\ r.mem = acc.mem /\ r.ok = acc.ok /\ r \in Block
  BY <1>1, <1>3, <1>4, <1>6 DEF Block
<1>8. \A q \in Port \ {p} : ~IsValid(acc.up[q])
  BY <1>1, <1>2 DEF Coherent, OneWriter, Frame, Port
<1>9. UpperInv(r) /\ LowerInv(r) /\ Covered(r) /\ OneWriter(r)
  <2>1. LineInv(n) /\ AllowWrite(n) /\ IsValid(n)
    BY <1>2, <1>6 DEF LineInv, AllowWrite, IsValid
  <2>2. UpperInv(r)
    BY <1>1, <1>2, <1>7, <2>1 DEF Coherent, UpperInv
  <2>3. LowerInv(r) /\ Covered(r) /\ OneWriter(r)
    BY <1>1, <1>2, <1>7, <1>8 DEF Coherent, LowerInv, Covered, OneWriter
  <2> QED BY <2>2, <2>3
<1>10. Content(r, w)
  <2>1. ~NoDirty(r)
    BY <1>6, <1>7 DEF NoDirty
  <2> QED BY <1>2, <1>6, <1>7, <1>8, <2>1 DEF Coherent, Content
<1> QED BY <1>1, <1>2, <1>7, <1>8, <1>9, <1>10 DEF Coherent, r

(* The driver's flush of the instruction caches.                           *)
LEMMA InstFlushedCoherent ==
  ASSUME NEW b \in Block, NEW v, Coherent(b, v)
  PROVE  LET r == InstFlushed(b)
         IN  /\ Coherent(r, v)
             /\ r.mem = b.mem
             /\ \A i \in ICore : ~IsValid(r.up[i])
<1> DEFINE r  == InstFlushed(b)
           up == [p \in Port |->
                   IF p \in ICore /\ IsValid(b.up[p]) THEN ToInvalid(b.up[p]) ELSE b.up[p]]
<1>1. b.up \in [Port -> Line] /\ Core \subseteq Port /\ ICore \subseteq Port /\ Core \cap ICore = {}
  BY CacheAssumption DEF Block, Port
<1>2. r = [b EXCEPT !.up = up]
  BY DEF InstFlushed, MetaAfterFlush
<1>3. /\ \A c \in Core : up[c] = b.up[c]
      /\ \A i \in ICore : up[i] = b.up[i] \/ up[i] = ToInvalid(b.up[i])
      /\ \A i \in ICore : up[i] = b.up[i] => ~IsValid(b.up[i])
  <2>1. \A i \in ICore : ToInvalid(b.up[i]).st = "I"
    BY <1>1, InvalidFields
  <2> QED BY <1>1, <2>1 DEF IsValid
<1>4. \A i \in ICore : up[i] \in Line /\ LineInv(up[i]) /\ ~up[i].dirty /\ ~IsValid(up[i])
  <2>1. \A i \in ICore : /\ ToInvalid(b.up[i]) \in Line /\ LineInv(ToInvalid(b.up[i]))
                         /\ ~ToInvalid(b.up[i]).dirty /\ ToInvalid(b.up[i]).st = "I"
    BY <1>1, InvalidFields
  <2> QED BY <1>1, <1>3, <2>1 DEF Coherent, UpperInv, IsValid
<1>5. up \in [Port -> Line]
  <2>1. \A p \in Port : up[p] \in Line
    BY <1>1, <1>3, <1>4 DEF Port
  <2> QED BY <2>1
<1> HIDE DEF up, r
<1>6. r.up = up /\ r.llc = b.llc /\ r.mem = b.mem /\ r.ok = b.ok /\ r \in Block
  BY <1>2, <1>5 DEF Block
<1>7. UpperInv(r) /\ LowerInv(r) /\ Covered(r) /\ OneWriter(r)
  <2>1. UpperInv(r)
    BY <1>3, <1>4, <1>6 DEF Coherent, UpperInv, Port
  <2> QED BY <1>3, <1>6, <2>1 DEF Coherent, LowerInv, Covered, OneWriter
<1>8. Content(r, v)
  <2>1. NoDirty(r) => NoDirty(b)
    BY <1>3, <1>6 DEF NoDirty
  <2>2. \A p \in Port : IsValid(r.up[p]) => r.up[p].data = v
    BY <1>1, <1>3, <1>4, <1>6 DEF Coherent, Content, Port
  <2> QED BY <1>6, <2>1, <2>2 DEF Coherent, Content
<1> QED BY <1>4, <1>6, <1>7, <1>8 DEF Coherent, r

(* flush() and writeback() of an L1.  A data cache's reaches the memory.   *)
LEMMA L1FlushCoherent ==
  ASSUME NEW b \in Block, NEW v, Coherent(b, v), NEW p \in Port, NEW act \in FlushAct
  PROVE  LET r == L1Flush(b, p, act)
         IN  /\ Coherent(r, v)
             /\ Frame(b, r, v, {})
             /\ p \in Core => r.mem = v
             /\ p \in Core /\ act = "evict" =>
                  ~IsValid(r.llc) /\ \A c \in Core : ~IsValid(r.up[c])
<1>1. CASE p \in Core
  <2>1. "evict" \in FlushAct
    BY DEF FlushAct
  <2> QED BY <1>1, <2>1, LLCFlushCoherent DEF L1Flush
<1>2. CASE p \notin Core /\ ~IsValid(b.up[p])
  BY <1>2 DEF L1Flush, Frame
<1>3. CASE p \notin Core /\ IsValid(b.up[p])
  <2>1. ~b.up[p].dirty
    BY <1>3 DEF Coherent, UpperInv, Port
  <2>2. L1Flush(b, p, act) = [b EXCEPT !.up[p] = MetaAfterFlush(act, b.up[p])]
    BY <1>3, <2>1 DEF L1Flush, L1Writeback, IsDirty
  <2>3. CASE act = "evict"
    <3>1. L1Flush(b, p, act) = [b EXCEPT !.up[p] = ToInvalid(b.up[p])]
      BY <2>2, <2>3 DEF MetaAfterFlush
    <3> QED BY <1>3, <2>1, <3>1, DropCoherent
  <2>4. CASE act # "evict"
    <3>1. L1Flush(b, p, act) = b
      BY <2>2, <2>4 DEF MetaAfterFlush, Block
    <3> QED BY <1>3, <2>4, <3>1 DEF Frame
  <2> QED BY <2>3, <2>4
<1> QED BY <1>1, <1>2, <1>3

----------------------------------------------------------------------------
(* The calls. *)

(* The victims of an access to a are other blocks. *)
LEMMA VictimsOther ==
  ASSUME NEW p \in Port, NEW a \in Addr, NEW cmd, NEW victims \in AccessVictims(p, a, cmd)
  PROVE  victims[1] # a /\ victims[2] # a
<1>1. \A set, ways, x : x \in Victims(set, ways) => x = NoBlock \/ x \in set
  BY DEF Victims
<1>2. \A x \in LLCVictims(a) : x # a
  BY <1>1, CacheAssumption DEF LLCVictims
<1>3. ~IsValid(block[a].up[p]) => \A x \in L1Victims(p, a) : x # a
  BY <1>1, CacheAssumption DEF L1Victims
<1>4. NoBlock # a
  BY CacheAssumption
<1> QED BY <1>2, <1>3, <1>4 DEF AccessVictims

(* The victim of the LLC alone is another block, too. *)
LEMMA LLCVictimsOther ==
  ASSUME NEW a \in Addr, NEW victims \in {NoBlock} \X LLCVictims(a)
  PROVE  victims[1] # a /\ victims[2] # a
<1>1. \A set, ways, x : x \in Victims(set, ways) => x = NoBlock \/ x \in set
  BY DEF Victims
<1>2. \A x \in LLCVictims(a) : x # a
  BY <1>1, CacheAssumption DEF LLCVictims
<1> QED BY <1>2, CacheAssumption

(* The evictions of an access keep every block coherent.                   *)
LEMMA EvictedCoherent ==
  ASSUME IInv, NEW p \in Port, NEW a \in Addr, NEW victims
  PROVE  LET r == Evicted(p, victims)[a]
             v == Latest(block[a])
         IN  /\ Coherent(r, v)
             /\ Frame(block[a], r, v, {})
             /\ victims[1] # a /\ victims[2] # a => r = block[a]
<1> DEFINE v == Latest(block[a])
           s == IF a = victims[1] THEN L1Evict(block[a], p) ELSE block[a]
           r == Evicted(p, victims)[a]
<1>1. Coherent(block[a], v) /\ block[a] \in Block
  BY DEF IInv, Coherent
<1> HIDE DEF v
<1>2. Coherent(s, v) /\ Frame(block[a], s, v, {})
  BY <1>1, L1EvictCoherent DEF Frame
<1>3. r = IF a = victims[2] THEN LLCEvict(s) ELSE s
  BY DEF Evicted
<1>4. victims[1] # a /\ victims[2] # a => r = block[a]
  BY <1>3
<1> HIDE DEF s, r
<1>5. Coherent(r, v) /\ Frame(s, r, v, {})
  BY <1>2, <1>3, LLCEvictCoherent DEF Coherent, Frame
<1>6. Frame(block[a], r, v, {})
  BY <1>2, <1>5 DEF Frame
<1> QED BY <1>4, <1>5, <1>6 DEF r, v

(* A step after which f is the content: every block is coherent, and the   *)
(* memory received current contents only.                                  *)
Stepped(f) ==
  /\ block' \in [Addr -> Block]
  /\ \A a \in Addr :
       /\ Coherent(block'[a], f[a])
       /\ block'[a].mem \in {block[a].mem, Latest(block[a])}
       /\ a \notin Inst => \A i \in ICore : ~IsValid(block'[a].up[i])

Store == [a \in Addr |-> Latest(block[a])]

(* Each call is such a step, says what it answers, and moves what it must. *)
LEMMA ReadStep ==
  ASSUME IInv, NEW p \in Port, NEW a \in Addr, Read(p, a)
  PROVE  /\ Stepped(Store)
         /\ resp' = [op |-> "read", port |-> p, addr |-> a, val |-> Store[a]]
<1> DEFINE cmd == Acquire("fetch_read")
<1>1. PICK victims \in AccessVictims(p, a, cmd) :
        block' = [Evicted(p, victims) EXCEPT ![a] = L1Read(@, p)]
  BY DEF Read
<1> DEFINE e == Evicted(p, victims)
           r == L1Access(e[a], p, cmd)
<1>2. \A b \in Addr : Coherent(e[b], Store[b]) /\ Frame(block[b], e[b], Store[b], {})
  BY EvictedCoherent DEF Store
<1>3. /\ DOMAIN e = Addr
      /\ block' = [e EXCEPT ![a] = r]
      /\ block'[a] = r /\ \A b \in Addr \ {a} : block'[b] = e[b]
  BY <1>1 DEF Evicted, L1Read
<1>4. e[a] \in Block
  BY <1>2 DEF Coherent
<1>5. Coherent(r, Store[a]) /\ Frame(e[a], r, Store[a], {p}) /\ IsValid(r.up[p])
  BY <1>2, <1>4, L1AccessCoherent
<1> HIDE DEF r, e
<1>6. ASSUME NEW b \in Addr
      PROVE  /\ Coherent(block'[b], Store[b])
             /\ block'[b].mem \in {block[b].mem, Latest(block[b])}
             /\ b \notin Inst => \A i \in ICore : ~IsValid(block'[b].up[i])
  <2>1. Store[b] = Latest(block[b]) /\ ICore \subseteq Port
    BY DEF Store, Port
  <2>2. CASE b # a
    BY <1>2, <1>3, <2>1, <2>2 DEF Frame, IInv
  <2>3. CASE b = a
    <3>1. a \notin Inst => p \notin ICore
      BY DEF Read
    <3> QED BY <1>2, <1>3, <1>5, <2>1, <2>3, <3>1 DEF Frame, IInv
  <2> QED BY <2>2, <2>3
<1>7. block' \in [Addr -> Block]
  BY <1>3, <1>6 DEF Coherent
<1>8. block'[a].up[p].data = Store[a]
  BY <1>3, <1>5 DEF Coherent, Content
<1> QED BY <1>6, <1>7, <1>8 DEF Stepped, Read

(* A write makes its value the content of its block. *)
LEMMA WriteStep ==
  ASSUME IInv, NEW p \in Core, NEW a \in Addr, NEW v \in Val, Write(p, a, v)
  PROVE  /\ Stepped([Store EXCEPT ![a] = v])
         /\ block'[a].mem = block[a].mem
         /\ resp' = [op |-> "write", port |-> p, addr |-> a, val |-> v]
<1> DEFINE cmd == Acquire("fetch_write")
           f   == [Store EXCEPT ![a] = v]
<1>1. PICK victims \in AccessVictims(p, a, cmd) :
        block' = [Evicted(p, victims) EXCEPT
                    ![a] = L1Write(IF a \in Inst THEN InstFlushed(@) ELSE @, p, v)]
  BY DEF Write
<1> DEFINE e == Evicted(p, victims)
           s == IF a \in Inst THEN InstFlushed(e[a]) ELSE e[a]
           r == L1Write(s, p, v)
<1>2. \A b \in Addr : Coherent(e[b], Store[b]) /\ Frame(block[b], e[b], Store[b], {})
  BY EvictedCoherent DEF Store, Port
<1>3. /\ DOMAIN e = Addr
      /\ block' = [e EXCEPT ![a] = r]
      /\ block'[a] = r /\ \A b \in Addr \ {a} : block'[b] = e[b]
  BY <1>1 DEF Evicted
<1>4. e[a] \in Block /\ e[a] = block[a]
  BY <1>1, <1>2, VictimsOther, EvictedCoherent DEF Coherent, Port
<1>5. Coherent(s, Store[a]) /\ s.mem = block[a].mem /\ \A i \in ICore : ~IsValid(s.up[i])
  BY <1>2, <1>4, InstFlushedCoherent DEF IInv
<1> HIDE DEF s, e
<1>6. Coherent(r, v) /\ r.mem = block[a].mem /\ \A i \in ICore : ~IsValid(r.up[i])
  BY <1>5, L1WriteCoherent DEF Coherent
<1> HIDE DEF r
<1>7. f[a] = v /\ \A b \in Addr \ {a} : f[b] = Store[b]
  BY DEF Store
<1> HIDE DEF f
<1>8. ASSUME NEW b \in Addr
      PROVE  /\ Coherent(block'[b], f[b])
             /\ block'[b].mem \in {block[b].mem, Latest(block[b])}
             /\ b \notin Inst => \A i \in ICore : ~IsValid(block'[b].up[i])
  <2>1. Store[b] = Latest(block[b]) /\ ICore \subseteq Port
    BY DEF Store, Port
  <2>2. CASE b # a
    BY <1>2, <1>3, <1>7, <2>1, <2>2 DEF Frame, IInv
  <2>3. CASE b = a
    BY <1>3, <1>6, <1>7, <2>3
  <2> QED BY <2>2, <2>3
<1>9. block' \in [Addr -> Block]
  BY <1>3, <1>8 DEF Coherent
<1>10. Stepped(f)
  BY <1>8, <1>9 DEF Stepped
<1> QED BY <1>3, <1>6, <1>10 DEF Write, f

(* A flush or write-back changes no content; that of a data port is durable. *)
LEMMA FlushStep ==
  ASSUME IInv, NEW p \in Port, NEW a \in Addr, NEW act \in FlushAct, Flush(p, a, act)
  PROVE  /\ Stepped(Store)
         /\ p \in Core => block'[a].mem = Store[a]
         /\ p \in Core /\ act = "evict" =>
              ~IsValid(block'[a].llc) /\ \A c \in Core : ~IsValid(block'[a].up[c])
         /\ resp' = [op |-> IF act = "evict" THEN "flush" ELSE "writeback", port |-> p, addr |-> a]
<1> DEFINE r == L1Flush(block[a], p, act)
<1>1. \A b \in Addr : Coherent(block[b], Store[b])
  BY DEF IInv, Store
<1>2. /\ DOMAIN block = Addr
      /\ block' = [block EXCEPT ![a] = r]
      /\ block'[a] = r /\ \A b \in Addr \ {a} : block'[b] = block[b]
  BY DEF Flush, IInv, TypeOK
<1>3. /\ Coherent(r, Store[a]) /\ Frame(block[a], r, Store[a], {})
      /\ p \in Core => r.mem = Store[a]
      /\ p \in Core /\ act = "evict" => ~IsValid(r.llc) /\ \A c \in Core : ~IsValid(r.up[c])
  BY <1>1, L1FlushCoherent DEF Coherent
<1> HIDE DEF r
<1>4. ASSUME NEW b \in Addr
      PROVE  /\ Coherent(block'[b], Store[b])
             /\ block'[b].mem \in {block[b].mem, Latest(block[b])}
             /\ b \notin Inst => \A i \in ICore : ~IsValid(block'[b].up[i])
  <2>1. Store[b] = Latest(block[b]) /\ ICore \subseteq Port
    BY DEF Store, Port
  <2>2. CASE b # a
    BY <1>1, <1>2, <2>1, <2>2 DEF IInv
  <2>3. CASE b = a
    BY <1>2, <1>3, <2>1, <2>3 DEF Frame, IInv
  <2> QED BY <2>2, <2>3
<1>5. block' \in [Addr -> Block]
  BY <1>2, <1>4 DEF Coherent
<1> QED BY <1>2, <1>3, <1>4, <1>5 DEF Stepped, Flush

(* A prefetch changes no content. *)
LEMMA PrefetchStep ==
  ASSUME PrefetchSupported, IInv, NEW p \in PrefetchPort, NEW a \in Addr, Prefetch(p, a)
  PROVE  /\ Stepped(Store)
         /\ resp' = [op |-> "prefetch", port |-> p, addr |-> a]
<1>1. p \in Core /\ p \in Port /\ Proto # "MI"
  BY DEF PrefetchSupported, Port
<1>2. PICK victims \in {NoBlock} \X LLCVictims(a) :
        block' = [Evicted(p, victims) EXCEPT ![a] = L1Prefetch(@, p)]
  BY <1>1 DEF Prefetch
<1> DEFINE e == Evicted(p, victims)
           r == LLCPrefetch(e[a])
<1>3. \A b \in Addr : Coherent(e[b], Store[b]) /\ Frame(block[b], e[b], Store[b], {})
  BY <1>1, EvictedCoherent DEF Store
<1>4. /\ DOMAIN e = Addr
      /\ block' = [e EXCEPT ![a] = r]
      /\ block'[a] = r /\ \A b \in Addr \ {a} : block'[b] = e[b]
  BY <1>1, <1>2 DEF Evicted, L1Prefetch
<1>5. Coherent(r, Store[a]) /\ Frame(e[a], r, Store[a], {})
  BY <1>1, <1>3, LLCPrefetchCoherent DEF Coherent
<1> HIDE DEF r, e
<1>6. ASSUME NEW b \in Addr
      PROVE  /\ Coherent(block'[b], Store[b])
             /\ block'[b].mem \in {block[b].mem, Latest(block[b])}
             /\ b \notin Inst => \A i \in ICore : ~IsValid(block'[b].up[i])
  <2>1. Store[b] = Latest(block[b]) /\ ICore \subseteq Port
    BY DEF Store, Port
  <2>2. CASE b # a
    BY <1>3, <1>4, <2>1, <2>2 DEF Frame, IInv
  <2>3. CASE b = a
    BY <1>3, <1>4, <1>5, <2>1, <2>3 DEF Frame, IInv
  <2> QED BY <2>2, <2>3
<1>7. block' \in [Addr -> Block]
  BY <1>4, <1>6 DEF Coherent
<1> QED BY <1>6, <1>7 DEF Stepped, Prefetch

(* Nor does the flush of a whole cache. *)
LEMMA FlushCacheStep ==
  ASSUME IInv, NEW p \in Port, FlushCache(p)
  PROVE  /\ Stepped(Store)
         /\ resp' = [op |-> "flush_cache", port |-> p]
<1>1. ASSUME NEW b \in Addr
      PROVE  /\ Coherent(block'[b], Store[b])
             /\ block'[b].mem \in {block[b].mem, Latest(block[b])}
             /\ b \notin Inst => \A i \in ICore : ~IsValid(block'[b].up[i])
  <2> DEFINE r == L1Flush(block[b], p, "evict")
  <2>1. Store[b] = Latest(block[b]) /\ ICore \subseteq Port
    BY DEF Store, Port
  <2>2. Coherent(block[b], Store[b])
    BY <2>1 DEF IInv
  <2>3. Coherent(r, Store[b]) /\ Frame(block[b], r, Store[b], {})
    BY <2>2, L1FlushCoherent DEF Coherent, FlushAct
  <2> HIDE DEF r
  <2>4. block'[b] = r \/ block'[b] = block[b]
    BY DEF FlushCache, r
  <2> QED BY <2>1, <2>2, <2>3, <2>4 DEF Frame, IInv
<1>2. block' \in [Addr -> Block]
  BY <1>1 DEF FlushCache, Coherent
<1> QED BY <1>1, <1>2 DEF Stepped, FlushCache

(* After a step to f every block is coherent and f is the content.         *)
LEMMA SteppedContent ==
  ASSUME NEW f, Stepped(f), NEW a \in Addr
  PROVE  /\ Latest(block'[a]) = f[a]
         /\ Coherent(block'[a], Latest(block'[a]))
         /\ block'[a].mem \in Val
<1>1. Coherent(block'[a], f[a]) /\ block'[a] \in Block
  BY DEF Stepped, Coherent
<1>2. Latest(block'[a]) = f[a]
  BY <1>1, LatestContent
<1> QED BY <1>1, <1>2 DEF Block

(* After a step the invariant holds again. *)
LEMMA SteppedInv ==
  ASSUME NEW f, Stepped(f),
         resp' \in {[op |-> "none"]}
           \cup [op : {"read", "write"}, port : Port, addr : Addr, val : Val]
           \cup [op : {"flush", "writeback", "prefetch"}, port : Port, addr : Addr]
           \cup [op : {"flush_cache"}, port : Port]
  PROVE  IInv'
<1>1. TypeOK'
  BY DEF Stepped, TypeOK
<1>2. \A a \in Addr : Coherent(block'[a], Latest(block'[a]))
  BY SteppedContent
<1> QED BY <1>1, <1>2 DEF Stepped, IInv

(* The content of a coherent block is a value. *)
LEMMA StoreType ==
  ASSUME IInv
  PROVE  /\ Store \in [Addr -> Val]
         /\ \A a \in Addr : block[a].mem \in Val
<1>1. ASSUME NEW a \in Addr
      PROVE  Latest(block[a]) \in Val /\ block[a].mem \in Val
  <2> DEFINE b == block[a]
  <2>1. Coherent(b, Latest(b)) /\ b \in Block /\ Core \subseteq Port
    BY DEF IInv, Coherent, Port
  <2> HIDE DEF b
  <2>2. b.llc.data \in Val /\ b.mem \in Val /\ \A c \in Core : b.up[c].data \in Val
    BY <2>1 DEF Block, Line
  <2>3. ASSUME NoDirty(b)
        PROVE  Latest(b) \in Val
    BY <2>1, <2>2, <2>3 DEF Coherent, Content
  <2>4. ASSUME ~NoDirty(b)
        PROVE  Latest(b) \in Val
    <3>1. PICK c \in Core : b.up[c].dirty
      BY <2>4 DEF NoDirty
    <3>2. IsValid(b.up[c])
      BY <2>1, <3>1 DEF Coherent, UpperInv, LineInv
    <3>3. b.up[c].data = Latest(b)
      BY <2>1, <3>2 DEF Coherent, Content
    <3> QED BY <2>2, <3>3
  <2> QED BY <2>2, <2>3, <2>4 DEF b
<1> QED BY <1>1 DEF Store

(* Empty caches are coherent. *)
LEMMA InitInv == Init => IInv /\ FlushedEverywhere
<1> SUFFICES ASSUME Init PROVE IInv /\ FlushedEverywhere
  OBVIOUS
<1>1. PICK content \in [Addr -> Val] :
        block = [a \in Addr |->
                  LET none == [st |-> "I", outer |-> "I", dirty |-> FALSE,
                               sharer |-> {}, data |-> content[a]]
                  IN  [up |-> [p \in Port |-> none], llc |-> none,
                       mem |-> content[a], ok |-> TRUE]]
  BY DEF Init
<1>2. ASSUME NEW a \in Addr
      PROVE  /\ Coherent(block[a], content[a])
             /\ \A p \in Port : ~IsValid(block[a].up[p])
  <2> DEFINE b == block[a]
             none == [st |-> "I", outer |-> "I", dirty |-> FALSE,
                      sharer |-> {}, data |-> content[a]]
  <2>1. /\ none \in Line /\ none.st = "I" /\ none.outer = "I" /\ none.dirty = FALSE
        /\ none.data = content[a]
    BY DEF Line, State
  <2>2. b = [up |-> [p \in Port |-> none], llc |-> none, mem |-> content[a], ok |-> TRUE]
    BY <1>1
  <2> HIDE DEF none, b
  <2>3. /\ b \in Block /\ b.ok /\ b.llc = none /\ b.mem = content[a]
        /\ \A p \in Port : b.up[p] = none
    BY <2>1, <2>2 DEF Block
  <2>4. Core \subseteq Port /\ ICore \subseteq Port
    BY DEF Port
  <2>5. UpperInv(b) /\ LowerInv(b) /\ Covered(b) /\ OneWriter(b) /\ Content(b, content[a])
    BY <2>1, <2>3, <2>4
       DEF UpperInv, LineInv, LowerInv, Covered, OneWriter, Content, IsValid
  <2> QED BY <2>1, <2>3, <2>5 DEF Coherent, IsValid, b
<1>3. \A a \in Addr : Coherent(block[a], Latest(block[a]))
  BY <1>2, LatestContent DEF Coherent
<1>4. TypeOK
  <2>1. block \in [Addr -> Block]
    BY <1>1, <1>2 DEF Coherent
  <2> QED BY <2>1 DEF TypeOK, Init
<1> QED BY <1>2, <1>3, <1>4 DEF IInv, Init, FlushedEverywhere, Port

(* Every call preserves the inductive invariant. *)
LEMMA NextInv ==
  ASSUME PrefetchSupported, IInv, Next
  PROVE  IInv' /\ FlushedEverywhere'
<1>1. ASSUME NEW p \in Port, NEW a \in Addr, Read(p, a)
      PROVE  IInv' /\ FlushedEverywhere'
  BY <1>1, ReadStep, SteppedInv, StoreType DEF FlushedEverywhere
<1>2. ASSUME NEW p \in Core, NEW a \in Addr, NEW v \in Val, Write(p, a, v)
      PROVE  IInv' /\ FlushedEverywhere'
  <2>1. p \in Port /\ resp' = [op |-> "write", port |-> p, addr |-> a, val |-> v]
    BY <1>2, WriteStep DEF Port
  <2>2. Stepped([Store EXCEPT ![a] = v])
    BY <1>2, WriteStep
  <2>3. IInv'
    BY <2>1, <2>2, SteppedInv
  <2>4. FlushedEverywhere'
    BY <2>1 DEF FlushedEverywhere
  <2> QED BY <2>3, <2>4
<1>3. ASSUME NEW p \in Port, NEW a \in Addr, NEW act \in FlushAct, Flush(p, a, act)
      PROVE  IInv' /\ FlushedEverywhere'
  <2>1. resp' = [op |-> IF act = "evict" THEN "flush" ELSE "writeback", port |-> p, addr |-> a]
    BY <1>3, FlushStep
  <2>2. IInv'
    BY <1>3, <2>1, FlushStep, SteppedInv
  <2>3. FlushedEverywhere'
    BY <1>3, <2>1, FlushStep DEF FlushedEverywhere
  <2> QED BY <2>2, <2>3
<1>4. ASSUME NEW p \in PrefetchPort, NEW a \in Addr, Prefetch(p, a)
      PROVE  IInv' /\ FlushedEverywhere'
  BY <1>4, PrefetchStep, SteppedInv DEF FlushedEverywhere, PrefetchSupported, Port
<1>5. ASSUME NEW p \in Port, FlushCache(p)
      PROVE  IInv' /\ FlushedEverywhere'
  BY <1>5, FlushCacheStep, SteppedInv DEF FlushedEverywhere
<1> QED BY <1>1, <1>2, <1>3, <1>4, <1>5 DEF Next

(* Every reachable state satisfies the inductive invariant: in particular  *)
(* each block has one content that all valid copies share.                 *)
THEOREM Invariance ==
  ASSUME PrefetchSupported
  PROVE  Spec => [](IInv /\ FlushedEverywhere)
<1>1. Init => IInv /\ FlushedEverywhere
  BY InitInv
<1>2. (IInv /\ FlushedEverywhere) /\ [Next]_vars => (IInv /\ FlushedEverywhere)'
  <2>1. CASE UNCHANGED vars
    BY <2>1 DEF vars, IInv, TypeOK, FlushedEverywhere
  <2>2. CASE Next
    BY <2>2, NextInv
  <2> QED BY <2>1, <2>2
<1> QED BY <1>1, <1>2, PTL DEF Spec

(* The invariants that the runs check follow from the inductive one. *)
LEMMA InvImplies ==
  ASSUME IInv
  PROVE  TypeOK /\ SingleWriter /\ InclusionAndDirectory /\ CopiesAgree /\ AssertionsHold
<1>1. SingleWriter
  BY DEF IInv, Coherent, OneWriter, SingleWriter
<1>2. InclusionAndDirectory
  BY DEF IInv, Coherent, Covered, InclusionAndDirectory
<1>3. CopiesAgree
  BY DEF IInv, Coherent, Content, CopiesAgree, IsDirty
<1>4. AssertionsHold
  BY DEF IInv, Coherent, AssertionsHold
<1> QED BY <1>1, <1>2, <1>3, <1>4 DEF IInv

(* Type correctness, for every configuration of caches and protocol.       *)
THEOREM TypeCorrect ==
  ASSUME PrefetchSupported
  PROVE  Spec => []TypeOK
<1>1. IInv => TypeOK
  BY DEF IInv
<1> QED BY <1>1, Invariance, PTL

(* Single writer or multiple readers holds in MI, MSI and MESI, with a     *)
(* directory or broadcast, for any number of L1 caches.                    *)
THEOREM OneWriterOrReaders ==
  ASSUME PrefetchSupported
  PROVE  Spec => []SingleWriter
<1>1. IInv => SingleWriter
  BY InvImplies
<1> QED BY <1>1, Invariance, PTL

(* The LLC includes every L1D, and its directory never misses a holder.    *)
THEOREM Inclusive ==
  ASSUME PrefetchSupported
  PROVE  Spec => []InclusionAndDirectory
<1>1. IInv => InclusionAndDirectory
  BY InvImplies
<1> QED BY <1>1, Invariance, PTL

(* No valid copy, in an L1D or an L1I, is ever stale.                      *)
THEOREM NoStaleCopy ==
  ASSUME PrefetchSupported
  PROVE  Spec => []CopiesAgree
<1>1. IInv => CopiesAgree
  BY InvImplies
<1> QED BY <1>1, Invariance, PTL

(* The assert()s of the engine and the policies are never violated when    *)
(* prefetches are restricted to the ports and protocols that support them. *)
THEOREM NoAssertionFails ==
  ASSUME PrefetchSupported
  PROVE  Spec => []AssertionsHold
<1>1. IInv => AssertionsHold
  BY InvImplies
<1> QED BY <1>1, Invariance, PTL

(* When flush() of a data port returns, no coherent cache has the block.   *)
THEOREM FlushIsGlobal ==
  ASSUME PrefetchSupported
  PROVE  Spec => []FlushedEverywhere
BY Invariance, PTL

----------------------------------------------------------------------------
(* Refinement: the hierarchy is a memory. *)

Backing == [a \in Addr |-> block[a].mem]

(* The blocks of Must are written back by the step.                        *)
Moves(Must) == \A a \in Addr : a \in Must => block'[a].mem = Store[a]

(* A step to f, seen from the abstract memory.                             *)
LEMMA SteppedMemory ==
  ASSUME NEW f, f = [a \in Addr |-> f[a]], Stepped(f), NEW Must, Moves(Must)
  PROVE  Memory!WriteBack(Must) /\ Store' = f
<1>1. \A a \in Addr : /\ Latest(block'[a]) = f[a]
                      /\ block'[a].mem \in Val
                      /\ block'[a].mem \in {block[a].mem, Latest(block[a])}
  BY SteppedContent DEF Stepped
<1>2. Store' = f
  BY <1>1 DEF Store
<1> QED BY <1>1, <1>2 DEF Memory!WriteBack, Moves, Store


(* Every call is a step of the abstract memory. *)
LEMMA NextMemory ==
  ASSUME PrefetchSupported, IInv, Next
  PROVE  Memory!Next
<1>1. Store = [a \in Addr |-> Store[a]] /\ Moves({})
  BY DEF Store, Moves
<1>2. ASSUME NEW p \in Port, NEW a \in Addr, Read(p, a)
      PROVE  Memory!Next
  <2>1. Memory!WriteBack({}) /\ Store' = Store
    BY <1>1, <1>2, ReadStep, SteppedMemory
  <2>2. Memory!Read(p, a)
    BY <1>2, <2>1, ReadStep DEF Memory!Read, Store
  <2> QED BY <2>2 DEF Memory!Next, Port
<1>3. ASSUME NEW p \in Core, NEW a \in Addr, NEW v \in Val, Write(p, a, v)
      PROVE  Memory!Next
  <2> DEFINE f == [Store EXCEPT ![a] = v]
  <2>1. f = [b \in Addr |-> f[b]]
    BY DEF Store
  <2>2. Stepped(f) /\ resp' = [op |-> "write", port |-> p, addr |-> a, val |-> v]
    BY <1>3, WriteStep
  <2> HIDE DEF f
  <2>3. Memory!WriteBack({}) /\ Store' = f
    BY <1>1, <2>1, <2>2, SteppedMemory
  <2>4. Memory!Write(p, a, v)
    BY <2>2, <2>3 DEF Memory!Write, Store, f
  <2> QED BY <2>4 DEF Memory!Next
<1>4. ASSUME NEW p \in Port, NEW a \in Addr, NEW act \in FlushAct, Flush(p, a, act)
      PROVE  Memory!Next
  <2> DEFINE op == IF act = "evict" THEN "flush" ELSE "writeback"
  <2>1. /\ Stepped(Store) /\ (p \in Core => block'[a].mem = Store[a])
        /\ resp' = [op |-> op, port |-> p, addr |-> a]
        /\ op \in {"flush", "writeback"}
    BY <1>4, FlushStep
  <2> HIDE DEF op
  <2>2. CASE p \in Core
    <3>1. Memory!WriteBack({a}) /\ Store' = Store
      <4>1. Moves({a})
        BY <2>1, <2>2 DEF Moves
      <4> QED BY <1>1, <2>1, <4>1, SteppedMemory
    <3>2. Memory!Persist(op, p, a)
      BY <2>1, <3>1 DEF Memory!Persist, Store
    <3> QED BY <2>1, <2>2, <3>2 DEF Memory!Next
  <2>3. CASE p \notin Core
    <3>1. Memory!WriteBack({}) /\ Store' = Store
      BY <1>1, <2>1, SteppedMemory
    <3>2. Memory!Manage(op, p, a)
      BY <2>1, <3>1 DEF Memory!Manage, Store
    <3> QED BY <2>1, <2>3, <3>2 DEF Memory!Next, Port
  <2> QED BY <2>2, <2>3
<1>5. ASSUME NEW p \in PrefetchPort, NEW a \in Addr, Prefetch(p, a)
      PROVE  Memory!Next
  <2>1. Stepped(Store) /\ resp' = [op |-> "prefetch", port |-> p, addr |-> a] /\ p \in Core
    BY <1>5, PrefetchStep DEF PrefetchSupported
  <2>2. Memory!WriteBack({}) /\ Store' = Store
    BY <1>1, <2>1, SteppedMemory
  <2>3. Memory!Manage("prefetch", p, a)
    BY <2>1, <2>2 DEF Memory!Manage, Store
  <2> QED BY <2>1, <2>3 DEF Memory!Next
<1>6. ASSUME NEW p \in Port, FlushCache(p)
      PROVE  Memory!Next
  <2>1. Stepped(Store) /\ resp' = [op |-> "flush_cache", port |-> p]
    BY <1>6, FlushCacheStep
  <2>2. Memory!WriteBack({}) /\ Store' = Store
    BY <1>1, <2>1, SteppedMemory
  <2>3. Memory!FlushCache(p)
    BY <2>1, <2>2 DEF Memory!FlushCache, Store
  <2> QED BY <2>3 DEF Memory!Next, Port
<1> QED BY <1>2, <1>3, <1>4, <1>5, <1>6 DEF Next

(* The initial states are those of the abstract memory. *)
LEMMA InitMemory == Init => Memory!Init
<1> SUFFICES ASSUME Init PROVE Memory!Init
  OBVIOUS
<1>1. IInv
  BY InitInv
<1>2. Store \in [Addr -> Val] /\ resp = [op |-> "none"]
  BY <1>1, StoreType DEF Init
<1>3. Backing = Store
  <2>1. ASSUME NEW a \in Addr
        PROVE  block[a].mem = Store[a]
    <3>1. Coherent(block[a], Store[a])
      BY <1>1 DEF IInv, Store
    <3>2. ~IsValid(block[a].llc) /\ \A p \in Port : ~block[a].up[p].dirty
      BY DEF Init, IsValid
    <3> QED BY <3>1, <3>2 DEF Coherent, Content, NoDirty, Port
  <2> QED BY <2>1 DEF Backing, Store
<1> QED BY <1>2, <1>3 DEF Memory!Init, Store, Backing

(* The hierarchy, with its private caches, protocols, directory, probes,   *)
(* evictions and flushes, is indistinguishable from one memory: every read *)
(* returns the last value written, flush() and writeback() of a data port  *)
(* are durable, and nothing but current content ever reaches the memory.   *)
THEOREM Refinement ==
  ASSUME PrefetchSupported
  PROVE  Spec => ImplementsMemory
<1>1. Init => Memory!Init
  BY InitMemory
<1>2. IInv /\ [Next]_vars => [Memory!Next]_Memory!vars
  <2>1. CASE UNCHANGED vars
    BY <2>1 DEF vars, Memory!vars
  <2>2. CASE Next
    BY <2>2, NextMemory
  <2> QED BY <2>1, <2>2
<1>3. Spec => []IInv
  BY Invariance, PTL
<1> QED BY <1>1, <1>2, <1>3, PTL DEF Spec, ImplementsMemory, Memory!Spec
============================================================================
