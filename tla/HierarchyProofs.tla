-------------------------- MODULE HierarchyProofs --------------------------
(***************************************************************************)
(* Proofs about Hierarchy: its four programs, with any number of cores,    *)
(* blocks, sets and ways, keep the levels in agreement and implement the   *)
(* memory of CoherentMemory.                                               *)
(*                                                                         *)
(* The inductive invariant is Agree.  For every block there is a content   *)
(* as a program sees it, Store(s)[a], and the lines of the block agree on  *)
(* it (Rest): those of a core's L1D and L2 (CoreOK), those of the L1Is     *)
(* (InstOK) and that of the L3 with what all cores hold, may write and     *)
(* have changed (LastOK).  Within a call this is broken for the block that *)
(* is served or evicted only.  The lemmas are the contracts of the         *)
(* handlers, from the L3 with the memory below it (LastEvict ... LastCall) *)
(* over an L2 (MidEvict ... GrantMid) to an L1 (TopEvict ... TopAccess):   *)
(* those of a level rest on what is proved of the level below as a         *)
(* predicate, and on nothing of how it is done.                            *)
(***************************************************************************)
EXTENDS Hierarchy, FiniteSetTheorems, TLAPS

(* Which program runs, as seen by an L2 and by the L3.                     *)
MidExclusive  == conf = "c4-l3-intel"
LastExclusive == conf \in {"c4-l3-exc", "c4-l3-exc-mesi"}
LastDirectory == conf \in {"c4-l3-exc-mesi", "c4-l3-intel"}

Line == [st : State, outer : State, dirty : BOOLEAN, sharer : SUBSET Core,
         data : Val \cup {NoVal}, way : {"none", "normal", "ext"}, lent : BOOLEAN]
Lines == [Node -> Line]
Sys   == [at : [Addr -> Lines], mem : [Addr -> Val], ok : BOOLEAN]

(* A line without the block, whatever buffer it still has.                 *)
Gone(m) == m = [NoLine EXCEPT !.lent = m.lent]

(* The L1D of a core: nothing, or the content, read-only or writable.      *)
UpperOK(u, v) ==
  \/ Gone(u)
  \/ u.way = "normal" /\ u.data = v /\ u.st = "S" /\ u.outer = "S" /\ ~u.dirty
  \/ u.way = "normal" /\ u.data = v /\ u.st = "M" /\ u.outer = "M"

(* The L2 below it: what is dirty may be written, and without a dirty      *)
(* L1D above the L2 has the content.                                       *)
MidLine(u, m, v) ==
  /\ Normal(m) /\ m.outer # "I"
  /\ m.dirty => AllowWrite(m)
  /\ ~u.dirty => m.data = v

(* The branch of a core.  An exclusive L2 has what its L1D does not have,  *)
(* an inclusive one has at least that and the permission for it.           *)
CoreOK(u, m, v) ==
  /\ UpperOK(u, v)
  /\ Gone(m) \/ MidLine(u, m, v)
  /\ IF MidExclusive THEN IsValid(m) => Gone(u)
     ELSE /\ m.st = "M" => AllowWrite(m)
          /\ m.st # "E"
          /\ IsValid(u) => IsValid(m)
          /\ u.outer = "M" => m.st = "M"

(* An L1I has instructions only and, since it is flushed before a write,   *)
(* their current content.                                                  *)
InstOK(m, a, v) ==
  \/ Gone(m)
  \/ a \in Inst /\ m.st = "S" /\ m.data = v /\ ~m.dirty /\ m.way = "normal"

(* Whether the branch of a core has the block, may write it, has changed   *)
(* it.  f is the column of the block: its lines by cache.                  *)
Held(f, c)   == IsValid(f[L1D(c)]) \/ IsValid(f[L2(c)])
Writer(f, c) == AllowWrite(f[L1D(c)]) \/ AllowWrite(f[L2(c)])
Dirty(f, c)  == f[L1D(c)].dirty \/ f[L2(c)].dirty

(* The L3 with line l, over the memory with content w, below the cores H   *)
(* that have the block, W that may write it and D that have changed it.    *)
(* If none has, the content is in a normal way or else in the memory; an   *)
(* exclusive L3 has no normal way of a block that is above it, the other   *)
(* ones and a directory have a line, and the directory names the holders.  *)
LastOK(l, w, v, H, W, D) ==
  /\ \/ Gone(l)
     \/ Normal(l) /\ (l.dirty => AllowWrite(l)) /\ (~LastExclusive => l.outer = "M")
     \/ LastExclusive /\ LastDirectory /\ IsValid(l) /\ l.way = "ext" /\ l.data = NoVal /\ ~l.dirty
  /\ D = {} => IF Normal(l) THEN l.data = v /\ (l.dirty \/ w = v) ELSE w = v
  /\ LastExclusive /\ Normal(l) => H = {}
  /\ H # {} /\ (~LastExclusive \/ LastDirectory) => IsValid(l)
  /\ LastDirectory => H \subseteq l.sharer
  /\ W # {} => l.st # "S"

Holders(f) == {c \in Core : Held(f, c)}
Writers(f) == {c \in Core : Writer(f, c)}
Dirties(f) == {c \in Core : Dirty(f, c)}

(* All that is above the L3: one writer, whose core alone has the block.   *)
AboveOK(f, a, v) ==
  /\ f \in Lines
  /\ \A c \in Core : CoreOK(f[L1D(c)], f[L2(c)], v)
  /\ \A c \in ICore : InstOK(f[L1I(c)], a, v)
  /\ \A c, d \in Core : Writer(f, c) /\ Held(f, d) => c = d

(* The block agrees on content v between two calls, and within a call as   *)
(* long as it is not the one that is worked on.                            *)
Rest(f, w, a, v) ==
  AboveOK(f, a, v) /\ LastOK(f[L3], w, v, Holders(f), Writers(f), Dirties(f))

----------------------------------------------------------------------------
(* The caches.                                                             *)
LEMMA Nodes ==
  /\ L3 \in Node /\ L3 \notin Data /\ L3 \notin Instr /\ L3 \notin Middle /\ ~IsL1(L3)
  /\ \A c \in Core :
       /\ L1D(c) \in Node /\ L2(c) \in Node /\ L1D(c) \in Data /\ L2(c) \in Middle
       /\ L1D(c) \notin Instr /\ L2(c) \notin Instr /\ L2(c) \notin Data
       /\ L1D(c) \notin Middle
       /\ L2(c) # L3 /\ L1D(c) # L3 /\ L2(c) # L1D(c)
       /\ L1D(c)[2] = c /\ L2(c)[2] = c /\ L1D(c)[1] = "l1d" /\ L2(c)[1] = "l2"
       /\ IsL1(L1D(c)) /\ ~IsL1(L2(c))
       /\ Id(L1D(c)) = 0 /\ Id(L2(c)) = c /\ c \in Nat /\ c # NoId /\ 0 # NoId
       /\ Outer(L1D(c)) = L2(c) /\ Outer(L2(c)) = L3
       /\ Inner(L2(c)) = {L1D(c)} /\ Inner(L3) = Middle
  /\ \A c, d \in Core : c # d => L1D(c) # L1D(d) /\ L2(c) # L2(d) /\ L1D(c) # L2(d)
  /\ \A c \in ICore : /\ c \in Core /\ L1I(c) \in Node /\ L1I(c) \in Instr /\ L1I(c) # L3
                      /\ IsL1(L1I(c)) /\ Id(L1I(c)) = NoId /\ Outer(L1I(c)) = L2(c)
                      /\ L1I(c)[2] = c /\ L1I(c) \notin Data /\ L1I(c) \notin Middle
                      /\ \A d \in Core : L1I(c) # L1D(d) /\ L1I(c) # L2(d)
  /\ \A c, d \in ICore : c # d => L1I(c) # L1I(d)
  /\ \A n \in Node : n = L3 \/ (\E c \in Core : n = L1D(c) \/ n = L2(c)) \/ (\E c \in ICore : n = L1I(c))
<1>1. \A c, d : L1D(c) # L2(d) /\ L1D(c) # L1I(d) /\ L2(c) # L1I(d) /\ L1D(c) # L3 /\ L2(c) # L3 /\ L1I(c) # L3
  BY DEF L1D, L2, L1I, L3
<1>2. \A c, d : c # d => L1D(c) # L1D(d) /\ L2(c) # L2(d) /\ L1I(c) # L1I(d)
  BY DEF L1D, L2, L1I
<1>3. \A c : L1D(c)[2] = c /\ L2(c)[2] = c /\ L1I(c)[2] = c /\ L1D(c)[1] = "l1d" /\ L2(c)[1] = "l2"
  BY DEF L1D, L2, L1I
<1>4. \A c \in Core : c \in Nat /\ c # NoId /\ 0 # NoId
  BY HierarchyAssumption DEF NoId
<1>5. \A c \in Core : /\ L1D(c) \in Data /\ L2(c) \in Middle /\ L1D(c) \notin Instr /\ L2(c) \notin Instr
                      /\ L2(c) \notin Data /\ L1D(c) \notin Middle
  BY <1>1 DEF Data, Middle, Instr
<1>6. \A c \in ICore : c \in Core /\ L1I(c) \in Instr /\ L1I(c) \notin Data /\ L1I(c) \notin Middle
  BY <1>1, HierarchyAssumption DEF Data, Middle, Instr
<1>7. L3 \notin Data /\ L3 \notin Instr /\ L3 \notin Middle
  BY <1>1 DEF Data, Middle, Instr
<1>8. \A n \in Node : n = L3 \/ (\E c \in Core : n = L1D(c) \/ n = L2(c)) \/ (\E c \in ICore : n = L1I(c))
  BY DEF Node, Data, Middle, Instr
<1> HIDE DEF L1D, L1I, L2, L3
<1> QED BY <1>1, <1>2, <1>3, <1>4, <1>5, <1>6, <1>7, <1>8 DEF IsL1, Id, Outer, Inner, Node

LEMMA Programs ==
  /\ Exclusive(L3) <=> LastExclusive
  /\ Directory(L3) <=> LastDirectory
  /\ \A c \in Core : (Exclusive(L2(c)) <=> MidExclusive) /\ ~Directory(L2(c))
  /\ ~(MidExclusive /\ LastExclusive)
  /\ MidExclusive => LastDirectory
<1> HIDE DEF L2, L3
<1>1. \A c \in Core : L2(c) # L3 /\ L2(c) \in Middle /\ L3 \notin Middle
  BY Nodes
<1>2. L3 \notin Middle
  BY Nodes
<1> QED BY <1>1, <1>2 DEF Exclusive, Directory, MidExclusive, LastExclusive, LastDirectory

(* What happens to one block.                                              *)
OnlyAt(s, t, a) ==
  /\ t \in Sys
  /\ t.ok = s.ok
  /\ t.mem = s.mem
  /\ \A b \in Addr : b # a => t.at[b] = s.at[b]

LEMMA PutFacts ==
  ASSUME NEW s \in Sys, NEW n \in Node, NEW a \in Addr, NEW m \in Line
  PROVE  /\ OnlyAt(s, Put(s, n, a, m), a)
         /\ Put(s, n, a, m).at[a][n] = m
         /\ \A k \in Node : k # n => Put(s, n, a, m).at[a][k] = s.at[a][k]
BY DEF Put, Sys, Lines, OnlyAt

Update(s, a, f) == [s EXCEPT !.at[a] = f]

LEMMA UpdateFacts ==
  ASSUME NEW s \in Sys, NEW a \in Addr, NEW f \in Lines
  PROVE  OnlyAt(s, Update(s, a, f), a) /\ Update(s, a, f).at[a] = f
<1> DEFINE t == Update(s, a, f)
<1>1. t = [s EXCEPT !.at[a] = f]
  BY DEF Sys, Update
<1>2. t.at = [s.at EXCEPT ![a] = f] /\ t.mem = s.mem /\ t.ok = s.ok
  BY <1>1 DEF Sys
<1> QED BY <1>1, <1>2 DEF Sys, OnlyAt

LEMMA OnlyAtTrans ==
  ASSUME NEW s, NEW t, NEW r, NEW a, OnlyAt(s, t, a), OnlyAt(t, r, a)
  PROVE  OnlyAt(s, r, a)
BY DEF OnlyAt

----------------------------------------------------------------------------
(* Copy buffers: MSHR is two, and another block has one at most.           *)
Lending(m) == [m EXCEPT !.lent = TRUE]

Lendable(s, n) == \A b, d \in Addr : s.at[b][n].lent /\ s.at[d][n].lent => b = d

LEMMA BorrowFacts ==
  ASSUME NEW s \in Sys, NEW n \in Node, NEW a \in Addr, s.ok, Lendable(s, n)
  PROVE  Borrow(s, n, a) = Put(s, n, a, Lending(s.at[a][n]))
<1> DEFINE S == {b \in Addr : s.at[b][n].lent}
<1>0. \A b, d \in S : b = d
  BY DEF Lendable
<1> HIDE DEF S
<1>1. Cardinality(S) < MSHR
  <2>1. MSHR \in Nat /\ MSHR > 1
    BY HierarchyAssumption
  <2>2. CASE S = {}
    BY <2>1, <2>2, FS_EmptySet
  <2>3. CASE S # {}
    <3>1. PICK b \in S : TRUE
      BY <2>3
    <3>2. S = {b}
      BY <1>0, <3>1
    <3>3. Cardinality({b}) = 1
      BY FS_Singleton
    <3> QED BY <2>1, <3>2, <3>3
  <2> QED BY <2>2, <2>3
<1>2. (s.ok /\ Cardinality(S) < MSHR) = s.ok
  BY <1>1, s.ok = TRUE DEF Sys
<1> HIDE DEF S
<1>3. Borrow(s, n, a) = [s EXCEPT !.at[a][n].lent = TRUE, !.ok = s.ok /\ Cardinality(S) < MSHR]
  BY DEF Borrow, S
<1>4. [s EXCEPT !.at[a][n].lent = TRUE, !.ok = s.ok] = [s EXCEPT !.at[a][n].lent = TRUE]
  BY DEF Sys
<1>5. [s EXCEPT !.at[a][n].lent = TRUE] = Put(s, n, a, [s.at[a][n] EXCEPT !.lent = TRUE])
  BY DEF Put
<1> QED BY <1>2, <1>3, <1>4, <1>5 DEF Lending

----------------------------------------------------------------------------
(* Probes of an L1D.                                                       *)
LineAfter(u, act) ==
  IF act = "evict" \/ ~IsValid(u) THEN NoLine
  ELSE IF act = "writeback" THEN u
  ELSE [u EXCEPT !.st = "S", !.outer = "S", !.dirty = FALSE, !.sharer = {}]

LEMMA NoLineType ==
  /\ NoLine \in Line /\ Gone(NoLine) /\ ~IsValid(NoLine) /\ Returned(NoLine) = NoLine
  /\ ~AllowWrite(NoLine) /\ ~NoLine.dirty /\ ~NoLine.lent /\ NoLine.st = "I"
BY DEF NoLine, Line, State, Gone, IsValid, Returned, AllowWrite

LEMMA GoneFacts ==
  ASSUME NEW m, Gone(m)
  PROVE  /\ m.st = "I" /\ m.outer = "I" /\ m.dirty = FALSE /\ m.sharer = {} /\ m.data = NoVal /\ m.way = "none"
         /\ ~IsValid(m) /\ ~AllowWrite(m) /\ ~Normal(m)
<1>1. /\ m.st = "I" /\ m.outer = "I" /\ m.dirty = FALSE /\ m.sharer = {} /\ m.data = NoVal /\ m.way = "none"
  BY DEF Gone, NoLine
<1> QED BY <1>1 DEF IsValid, AllowWrite, Normal

LEMMA LineAfterFacts ==
  ASSUME NEW m \in Line, NEW act \in ProbeAct
  PROVE  LET w == LineAfter(m, act)
         IN  /\ w \in Line
             /\ w.lent => m.lent
             /\ IsValid(w) <=> act # "evict" /\ IsValid(m)
             /\ act = "evict" \/ ~IsValid(m) => w = NoLine
             /\ act = "writeback" /\ IsValid(m) => w = m
             /\ act = "downgrade" /\ IsValid(m) =>
                  w.st = "S" /\ w.outer = "S" /\ w.dirty = FALSE /\ w.data = m.data /\ w.way = m.way
<1>1. CASE act = "evict" \/ ~IsValid(m)
  <2>1. LineAfter(m, act) = NoLine
    BY <1>1 DEF LineAfter
  <2>2. NoLine.lent = FALSE
    BY DEF NoLine
  <2> QED BY <1>1, <2>1, <2>2, NoLineType DEF ProbeAct
<1>2. CASE act = "writeback" /\ IsValid(m)
  BY <1>2 DEF LineAfter
<1>3. CASE act = "downgrade" /\ IsValid(m)
  BY <1>3 DEF LineAfter, Line, State, IsValid
<1> QED BY <1>1, <1>2, <1>3 DEF ProbeAct

LEMMA UpperAfter ==
  ASSUME NEW u \in Line, NEW v, UpperOK(u, v), NEW act \in ProbeAct
  PROVE  LET w == LineAfter(u, act)
         IN  /\ UpperOK(w, v)
             /\ act # "writeback" => ~AllowWrite(w) /\ w.dirty = FALSE
             /\ act = "writeback" => w.outer = u.outer /\ w.dirty = u.dirty /\ w.st = u.st
<1> DEFINE w == LineAfter(u, act)
<1>1. IsValid(u) => ~Gone(u)
  BY GoneFacts
<1>2. ~IsValid(u) => u.outer = "I" /\ u.dirty = FALSE /\ u.st = "I"
  BY GoneFacts DEF UpperOK, IsValid
<1>3. NoLine.outer = "I" /\ NoLine.dirty = FALSE /\ NoLine.st = "I"
  BY DEF NoLine
<1>4. CASE act = "evict" \/ ~IsValid(u)
  <2>1. w = NoLine
    BY <1>4, LineAfterFacts
  <2>2. act = "writeback" => ~IsValid(u)
    BY <1>4
  <2> HIDE DEF w
  <2> QED BY <1>2, <1>3, <2>1, <2>2, NoLineType DEF UpperOK, AllowWrite, w
<1>5. CASE act # "evict" /\ IsValid(u)
  <2> HIDE DEF w
  <2>1. act = "writeback" => w = u
    BY <1>5, LineAfterFacts DEF w
  <2>2. act = "downgrade" => w.st = "S" /\ w.outer = "S" /\ w.dirty = FALSE /\ w.data = u.data /\ w.way = u.way
    BY <1>5, LineAfterFacts DEF w
  <2>3. act = "downgrade" \/ act = "writeback"
    BY <1>5 DEF ProbeAct
  <2> QED BY <1>1, <1>5, <2>1, <2>2, <2>3 DEF UpperOK, AllowWrite, w
<1> QED BY <1>4, <1>5

(* The line of a cache after a probe.                                      *)
LEMMA AfterProbe ==
  ASSUME NEW m \in Line, NEW act \in ProbeAct
  PROVE  (IF IsValid(m) /\ IsValid(MetaAfterProbe(act, m)) THEN MetaAfterProbe(act, m) ELSE Returned(NoLine))
           = LineAfter(m, act)
<1>1. CASE act = "evict"
  BY <1>1, NoLineType DEF MetaAfterProbe, ToInvalid, IsValid, LineAfter
<1>2. CASE act = "writeback"
  BY <1>2, NoLineType DEF MetaAfterProbe, LineAfter
<1>3. CASE act = "downgrade"
  <2>1. MetaAfterProbe(act, m) = [m EXCEPT !.st = "S", !.outer = "S", !.dirty = FALSE, !.sharer = {}]
    BY <1>3 DEF MetaAfterProbe, ToInvalid, ToClean, ToShared, AddSharer, NoId, Line
  <2>2. IsValid(MetaAfterProbe(act, m))
    BY <2>1 DEF IsValid, Line
  <2> QED BY <1>3, <2>1, <2>2, NoLineType DEF LineAfter
<1> QED BY <1>1, <1>2, <1>3 DEF ProbeAct

LEMMA ProbeUpper ==
  ASSUME NEW s \in Sys, NEW c \in Core, NEW a \in Addr, NEW v, NEW act \in ProbeAct,
         UpperOK(s.at[a][L1D(c)], v)
  PROVE  LET u == s.at[a][L1D(c)]
             p == ProbeL1(s, L1D(c), a, act)
         IN  /\ p.s = Put(s, L1D(c), a, LineAfter(u, act))
             /\ p.hit <=> IsValid(u)
             /\ p.wb <=> u.dirty
             /\ p.copy = u
<1> DEFINE u == s.at[a][L1D(c)]
<1>1. u \in Line /\ L1D(c) \in Node
  BY Nodes DEF Sys, Lines
<1>2. u.dirty => IsValid(u)
  BY GoneFacts DEF UpperOK, IsValid
<1>3. (IF IsValid(u) /\ IsValid(MetaAfterProbe(act, u)) THEN MetaAfterProbe(act, u) ELSE Returned(NoLine)) = LineAfter(u, act)
  BY <1>1, AfterProbe
<1> DEFINE p == ProbeL1(s, L1D(c), a, act)
           h == IsValid(u) \/ FALSE
           w == h /\ u.dirty
<1>4. p = [s |-> Put(s, L1D(c), a, LineAfter(u, act)), hit |-> h, wb |-> w, copy |-> u]
  BY <1>3 DEF ProbeL1, Probed, NotAsked, IsDirty
<1>5. h <=> IsValid(u)
  OBVIOUS
<1>6. w <=> u.dirty
  BY <1>2
<1> HIDE DEF p, h, w
<1>7. p.s = Put(s, L1D(c), a, LineAfter(u, act)) /\ p.copy = u /\ p.hit = h /\ p.wb = w
  BY <1>4
<1> QED BY <1>5, <1>6, <1>7 DEF p

LEMMA AfterWritebackFacts ==
  ASSUME NEW m \in Line, NEW u \in Line
  PROVE  LET w == AfterWriteback(m, u)
         IN  /\ w \in Line /\ IsValid(w)
             /\ w.dirty = TRUE /\ w.data = u.data
             /\ w.lent = m.lent /\ w.way = m.way /\ w.sharer = m.sharer
             /\ IsValid(m) => w.st = m.st /\ w.outer = m.outer
             /\ ~IsValid(m) => w.st = "S" /\ w.outer = u.outer
BY DEF AfterWriteback, ToDirty, Line, IsValid, State

(* The L2 has one coherent cache above it.                                 *)
AskTop(s, c, a, act) == AskL1(s, L2(c), a, act, NoId)

AskedUpper(s, r, c, a, act) ==
  LET u == s.at[a][L1D(c)]
      m == s.at[a][L2(c)]
  IN  /\ OnlyAt(s, r.s, a)
      /\ r.s.at[a][L1D(c)] = LineAfter(u, act)
      /\ r.s.at[a][L2(c)] = IF u.dirty THEN AfterWriteback(m, u) ELSE m
      /\ \A k \in Node \ {L1D(c), L2(c)} : r.s.at[a][k] = s.at[a][k]
      /\ r.hit <=> IsValid(u)
      /\ r.wb <=> u.dirty

LEMMA AskUpper ==
  ASSUME NEW s \in Sys, s.ok, NEW c \in Core, NEW a \in Addr, NEW v, NEW act \in ProbeAct,
         UpperOK(s.at[a][L1D(c)], v)
  PROVE  AskedUpper(s, AskTop(s, c, a, act), c, a, act)
<1> DEFINE u == s.at[a][L1D(c)]
           old == s.at[a][L2(c)]
           n == L2(c)
           top == L1D(c)
           asked == {i \in Inner(n) : NeedProbe(n, s.at[a][n], Id(i), NoId)}
           r     == [i \in asked |-> ProbeL1(s, i, a, act)]
           back  == {i \in asked : r[i].wb}
           last  == CHOOSE i \in back : \A j \in back : Id(j) <= Id(i)
           by(k) == IF n = L3 THEN L2(k[2]) ELSE L1D(k[2])
           line  == IF back = {} THEN s.at[a][n] ELSE AfterWriteback(s.at[a][n], r[last].copy)
           f     == [m \in Node |-> IF m = n THEN line
                                    ELSE IF by(m) \in asked THEN r[by(m)].s.at[a][m]
                                    ELSE s.at[a][m]]
           ok    == s.ok /\ \A i \in asked : r[i].s.ok
           hit   == \E i \in asked : r[i].hit
           wb    == back # {}
           res   == AskTop(s, c, a, act)
           p     == ProbeL1(s, top, a, act)
<1>1. /\ top \in Node /\ n \in Node /\ n # L3 /\ top # n /\ Inner(n) = {top} /\ Id(top) = 0
      /\ u \in Line /\ ~Directory(n)
  BY Nodes, Programs DEF Sys, Lines
<1>2. /\ p.s = Put(s, top, a, LineAfter(u, act)) /\ p.copy = u
      /\ p.hit <=> IsValid(u)
      /\ p.wb <=> u.dirty
  BY ProbeUpper
<1>3. LineAfter(u, act) \in Line
  BY <1>1, LineAfterFacts
<1>4. /\ OnlyAt(s, p.s, a) /\ p.s.at[a][top] = LineAfter(u, act)
      /\ \A k \in Node : k # top => p.s.at[a][k] = s.at[a][k]
  <2> HIDE DEF u, n, top, p
  <2> QED BY <1>1, <1>2, <1>3, PutFacts
<1> HIDE DEF u, old, n, top, p
<1>5. NeedProbe(n, s.at[a][n], 0, NoId)
  BY <1>1 DEF NeedProbe, ProbeNeedProbe, NoId
<1>6. asked = {top} /\ r[top] = p
  BY <1>1, <1>5 DEF p
<1> HIDE DEF asked, r
<1>7. back = IF u.dirty THEN {top} ELSE {}
  BY <1>2, <1>6
<1>8. u.dirty => last = top
  <2>1. Id(top) <= Id(top)
    BY <1>1
  <2> HIDE DEF back
  <2>2. u.dirty => \E j \in back : \A k \in back : Id(k) <= Id(j)
    BY <1>7, <2>1
  <2> QED BY <1>7, <2>2
<1> HIDE DEF back, last
<1>9. line = IF u.dirty THEN AfterWriteback(old, u) ELSE old
  BY <1>2, <1>6, <1>7, <1>8 DEF old, n
<1> HIDE DEF line
<1>10. /\ f \in Lines /\ f[top] = LineAfter(u, act) /\ f[n] = line
       /\ \A k \in Node \ {top, n} : f[k] = s.at[a][k]
  <2>1. \A k \in Node : s.at[a][k] \in Line
    BY DEF Sys, Lines
  <2>2. ASSUME NEW k \in Node, k # n
        PROVE  f[k] = IF k = top THEN LineAfter(u, act) ELSE s.at[a][k]
    <3>1. CASE by(k) = top
      <4>1. f[k] = p.s.at[a][k]
        BY <1>6, <2>2, <3>1
      <4> HIDE DEF by, f
      <4> QED BY <1>4, <2>2, <4>1
    <3>2. CASE by(k) # top
      <4>1. k # top
        BY <1>1, <3>2, Nodes DEF top
      <4> HIDE DEF by
      <4> QED BY <1>6, <2>2, <3>2, <4>1
    <3> QED BY <3>1, <3>2
  <2>3. f[n] = line
    BY <1>1
  <2>4. line \in Line
    BY <1>1, <1>9, <2>1, AfterWritebackFacts DEF old, n
  <2>5. f = [k \in Node |-> f[k]]
    OBVIOUS
  <2> HIDE DEF by, f
  <2> QED BY <1>1, <1>3, <2>1, <2>2, <2>3, <2>4, <2>5 DEF Lines
<1>11. ok = s.ok
  BY <1>4, <1>6, s.ok = TRUE DEF Sys, OnlyAt
<1>12. hit <=> IsValid(u)
  BY <1>2, <1>6
<1>13. wb <=> u.dirty
  BY <1>7
<1>14. res = [s |-> [s EXCEPT !.at[a] = f, !.ok = ok], hit |-> hit, wb |-> wb]
  BY DEF res, AskTop, n, AskL1, Asked, Answered, f, by, line, last, back, r, asked, ok, hit, wb
<1> HIDE DEF f, ok, hit, wb, res
<1>15. res.s = Update(s, a, f) /\ res.hit = hit /\ res.wb = wb
  <2>1. [s EXCEPT !.at[a] = f, !.ok = s.ok] = [s EXCEPT !.at[a] = f]
    BY DEF Sys
  <2> QED BY <1>11, <1>14, <2>1 DEF Update
<1>16. OnlyAt(s, res.s, a) /\ res.s.at[a] = f
  BY <1>10, <1>15, UpdateFacts
<1>17. AskedUpper(s, res, c, a, act)
  BY <1>9, <1>10, <1>12, <1>13, <1>15, <1>16 DEF u, old, n, top, AskedUpper
<1> QED BY <1>17 DEF res

----------------------------------------------------------------------------
(* Probes of an L2, and through it of its L1D.  ProbesCore says what a     *)
(* probe makes of the lines f of a core.                                   *)
ProbesCore(f, g, c, v, act) ==
  /\ CoreOK(g[L1D(c)], g[L2(c)], v)
  /\ Held(g, c) <=> act # "evict" /\ Held(f, c)
  /\ ~Writer(g, c) /\ ~Dirty(g, c)
  /\ g[L1D(c)].lent => f[L1D(c)].lent
  /\ g[L2(c)].lent => f[L2(c)].lent

LEMMA CoreFacts ==
  ASSUME NEW f, NEW c, NEW v, CoreOK(f[L1D(c)], f[L2(c)], v)
  PROVE  /\ Dirty(f, c) => Writer(f, c)
         /\ Writer(f, c) => Held(f, c)
<1> DEFINE u == f[L1D(c)]
           m == f[L2(c)]
<1> HIDE DEF u, m
<1>1. CoreOK(u, m, v)
  BY DEF u, m
<1>2. Gone(u) \/ (IsValid(u) /\ u.st \in {"S", "M"})
  BY <1>1 DEF CoreOK, UpperOK, IsValid
<1>3. u.dirty => AllowWrite(u)
  BY <1>1, GoneFacts DEF CoreOK, UpperOK, AllowWrite
<1>4. m.dirty => AllowWrite(m)
  BY <1>1, GoneFacts DEF CoreOK, MidLine
<1>5. Gone(m) \/ IsValid(m)
  BY <1>1 DEF CoreOK, MidLine, Normal
<1> QED BY <1>2, <1>3, <1>4, <1>5, GoneFacts DEF Dirty, Writer, Held, u, m

LEMMA ProbedFacts ==
  ASSUME NEW above, above.s \in Sys, NEW h \in BOOLEAN, NEW i \in Node, NEW a \in Addr,
         NEW act \in ProbeAct, h => IsValid(above.s.at[a][i])
  PROVE  LET m == above.s.at[a][i]
             p == Probed(above, h, i, a, act)
         IN  /\ p.s = Put(above.s, i, a, IF h THEN LineAfter(m, act) ELSE NoLine)
             /\ p.hit <=> h \/ above.hit
             /\ p.wb <=> (h \/ above.wb) /\ m.dirty
             /\ p.copy = m
<1> DEFINE m == above.s.at[a][i]
           p == Probed(above, h, i, a, act)
           hit == h \/ above.hit
           wb == (h \/ above.wb) /\ m.dirty
           l == IF h /\ IsValid(MetaAfterProbe(act, m)) THEN MetaAfterProbe(act, m) ELSE Returned(NoLine)
<1>1. m \in Line
  BY DEF Sys, Lines
<1>2. p = [s |-> Put(above.s, i, a, l), hit |-> hit, wb |-> wb, copy |-> m]
  BY DEF Probed, IsDirty
<1>3. l = IF h THEN LineAfter(m, act) ELSE NoLine
  BY <1>1, AfterProbe, NoLineType
<1>4. (hit <=> h \/ above.hit) /\ (wb <=> (h \/ above.wb) /\ m.dirty)
  OBVIOUS
<1> HIDE DEF p, hit, wb, l, m
<1>5. p.s = Put(above.s, i, a, l) /\ p.hit = hit /\ p.wb = wb /\ p.copy = m
  BY <1>2
<1> QED BY <1>3, <1>4, <1>5 DEF p, m

(* What the L2 puts together of its own line and of what its L1D wrote     *)
(* back, if it asked.                                                      *)
ProbedMid(u, m, sync) == IF sync # "none" /\ u.dirty THEN AfterWriteback(m, u) ELSE m

LEMMA ProbeLines ==
  ASSUME NEW s \in Sys, NEW c \in Core, NEW a \in Addr, NEW act \in ProbeAct,
         NEW above, NEW sync, NEW u1 \in Line, NEW m1 \in Line,
         OnlyAt(s, above.s, a), above.s.at[a][L1D(c)] = u1, above.s.at[a][L2(c)] = m1,
         \A k \in Node \ {L1D(c), L2(c)} : above.s.at[a][k] = s.at[a][k],
         NEW h \in BOOLEAN, h => IsValid(m1)
  PROVE  LET p == Probed(above, h, L2(c), a, act)
             w == IF h THEN LineAfter(m1, act) ELSE NoLine
         IN  /\ OnlyAt(s, p.s, a)
             /\ p.s.at[a][L1D(c)] = u1 /\ p.s.at[a][L2(c)] = w
             /\ \A k \in Node \ {L1D(c), L2(c)} : p.s.at[a][k] = s.at[a][k]
             /\ p.hit <=> h \/ above.hit
             /\ p.wb <=> (h \/ above.wb) /\ m1.dirty
             /\ p.copy = m1
<1> DEFINE n == L2(c)
           i == L1D(c)
           p == Probed(above, h, n, a, act)
           w == IF h THEN LineAfter(m1, act) ELSE NoLine
<1>1. i \in Node /\ n \in Node /\ i # n
  BY Nodes
<1>2. above.s \in Sys
  BY DEF OnlyAt
<1>3. /\ p.s = Put(above.s, n, a, w)
      /\ p.hit <=> h \/ above.hit
      /\ p.wb <=> (h \/ above.wb) /\ m1.dirty
      /\ p.copy = m1
  BY <1>1, <1>2, ProbedFacts
<1>4. w \in Line
  BY LineAfterFacts, NoLineType
<1> HIDE DEF p, w, n, i
<1>5. OnlyAt(above.s, p.s, a) /\ p.s.at[a][n] = w /\ \A k \in Node : k # n => p.s.at[a][k] = above.s.at[a][k]
  BY <1>1, <1>2, <1>3, <1>4, PutFacts
<1>6. OnlyAt(s, p.s, a)
  BY <1>5, OnlyAtTrans
<1> QED BY <1>1, <1>3, <1>5, <1>6 DEF p, w, n, i

(* An L2 that has the block, or an inclusive one that does not.            *)
LEMMA ProbeInclusive ==
  ASSUME NEW s \in Sys, s.ok, NEW c \in Core, NEW a \in Addr, NEW v, NEW act \in ProbeAct,
         ~MidExclusive,
         CoreOK(s.at[a][L1D(c)], s.at[a][L2(c)], v),
         act = "writeback" => ~Writer(s.at[a], c)
  PROVE  LET p == ProbeL2(s, L2(c), a, act)
         IN  /\ OnlyAt(s, p.s, a)
             /\ \A k \in Node \ {L1D(c), L2(c)} : p.s.at[a][k] = s.at[a][k]
             /\ ProbesCore(s.at[a], p.s.at[a], c, v, act)
             /\ p.hit <=> Held(s.at[a], c)
             /\ p.wb <=> Dirty(s.at[a], c)
             /\ p.wb => p.copy \in Line /\ p.copy.data = v /\ AllowWrite(p.copy)
<1> DEFINE f == s.at[a]
           u == f[L1D(c)]
           m == f[L2(c)]
           n == L2(c)
           i == L1D(c)
           sync == ProbeSync(s, n, a, act)
           above == ProbeAbove(s, n, a, sync)
           h == IsValid(m)
           p == ProbeL2(s, n, a, act)
           m1 == ProbedMid(u, m, sync)
           u1 == IF sync = "none" THEN u ELSE LineAfter(u, sync)
           w == IF h THEN LineAfter(m1, act) ELSE NoLine
<1>1. /\ i \in Node /\ n \in Node /\ i # n /\ u \in Line /\ m \in Line /\ ~Exclusive(n)
  BY Nodes, Programs DEF Sys, Lines
<1>2. p = Probed(above, h, n, a, act)
  BY DEF ProbeL2
<1>3. sync = IF h THEN ProbeNeedSync(act, m) ELSE "none"
  BY <1>1 DEF ProbeSync
<1>4. CoreOK(u, m, v) /\ UpperOK(u, v)
  BY DEF CoreOK
<1>5. sync = IF h /\ (act = "evict" \/ m.st # "S") THEN act ELSE "none"
  BY <1>3 DEF ProbeNeedSync, IsShared
<1>6. /\ OnlyAt(s, above.s, a) /\ above.s.at[a][i] = u1 /\ above.s.at[a][n] = m1
      /\ \A k \in Node \ {i, n} : above.s.at[a][k] = f[k]
      /\ above.hit => IsValid(u)
      /\ m1 \in Line /\ u1 \in Line
  <2> HIDE DEF f, u, m, n, i, sync, p, h
  <2>1. CASE sync = "none"
    <3>1. above = NotAsked(s)
      BY <2>1 DEF ProbeAbove
    <3>2. above.s = s /\ above.hit = FALSE
      BY <3>1 DEF NotAsked
    <3> QED BY <1>1, <2>1, <3>2 DEF OnlyAt, ProbedMid, f, u, m, n, i
  <2>2. CASE sync # "none"
    <3>1. sync = act /\ h
      BY <1>5, <2>2
    <3>2. above = AskTop(s, c, a, act)
      BY <3>1, <2>2 DEF ProbeAbove, AskTop, h, m, f, n
    <3>3. /\ OnlyAt(s, above.s, a) /\ above.s.at[a][i] = LineAfter(u, act)
          /\ above.s.at[a][n] = IF u.dirty THEN AfterWriteback(m, u) ELSE m
          /\ \A k \in Node \ {i, n} : above.s.at[a][k] = f[k]
          /\ above.hit <=> IsValid(u)
      <4>1. AskedUpper(s, AskTop(s, c, a, act), c, a, act)
        BY <1>4, AskUpper DEF u, f
      <4> HIDE DEF above
      <4> QED BY <3>2, <4>1 DEF f, u, m, n, i, AskedUpper
    <3>4. LineAfter(u, act) \in Line /\ AfterWriteback(m, u) \in Line
      BY <1>1, LineAfterFacts, AfterWritebackFacts
    <3> HIDE DEF above
    <3> QED BY <1>1, <2>2, <3>1, <3>3, <3>4 DEF ProbedMid
  <2> QED BY <2>1, <2>2
<1>7. h => IsValid(m1)
  BY <1>1, AfterWritebackFacts DEF ProbedMid
<1>8. /\ OnlyAt(s, p.s, a)
      /\ p.s.at[a][i] = u1 /\ p.s.at[a][n] = w
      /\ \A k \in Node \ {i, n} : p.s.at[a][k] = f[k]
      /\ p.hit <=> h \/ above.hit
      /\ p.wb <=> (h \/ above.wb) /\ m1.dirty
      /\ p.copy = m1
  <2>1. h \in BOOLEAN
    BY DEF IsValid
  <2> HIDE DEF u, m, sync, p, h, above, u1, m1, w
  <2> QED BY <1>1, <1>2, <1>6, <1>7, <2>1, ProbeLines DEF f, w, n, i
<1>9. ~h => sync = "none" /\ above.hit = FALSE /\ above.wb = FALSE /\ Gone(m) /\ Gone(u)
  <2>1. ~h => Gone(m) /\ Gone(u)
    <3> HIDE DEF f, u, m
    <3> QED BY <1>1, <1>4, GoneFacts DEF h, CoreOK, MidLine, Normal, UpperOK, IsValid
  <2>2. ~h => above = NotAsked(s)
    BY <1>5 DEF ProbeAbove
  <2>3. NotAsked(s).hit = FALSE /\ NotAsked(s).wb = FALSE
    BY DEF NotAsked
  <2> HIDE DEF above, h
  <2> QED BY <1>5, <2>1, <2>2, <2>3
<1>x. ~Writer(f, c) => ~AllowWrite(m)
  BY DEF Writer
<1> HIDE DEF f, u, m, n, i, sync, p, above, h, u1, m1, w
<1>10. CASE ~h
  <2>1. u1 = u /\ w = NoLine /\ m1 = m
    BY <1>9, <1>10 DEF u1, w, m1, ProbedMid
  <2>2. ~Held(f, c) /\ ~Dirty(f, c)
    BY <1>9, <1>10, GoneFacts DEF Held, Dirty, u, m
  <2>3. ProbesCore(f, p.s.at[a], c, v, act)
    <3>1. CoreOK(u, NoLine, v)
      BY <1>9, <1>10, NoLineType, GoneFacts DEF CoreOK, UpperOK, NoLine
    <3>2. ~IsValid(u) /\ ~AllowWrite(u) /\ ~u.dirty /\ u.lent => u.lent
      BY <1>9, <1>10, GoneFacts
    <3> QED BY <1>8, <2>1, <2>2, <3>1, <1>9, <1>10, GoneFacts, NoLineType DEF ProbesCore, Held, Writer, Dirty, u, m, i, n
  <2> QED BY <1>8, <1>9, <1>10, <2>2, <2>3 DEF f, n, i, p
<1>11. CASE h
  <2>1. MidLine(u, m, v) /\ IsValid(m)
    BY <1>4, <1>11, GoneFacts DEF CoreOK, h
  <2>2. sync = "none" => u.dirty = FALSE /\ act # "evict" /\ m.st = "S" /\ ~AllowWrite(u)
    <3>1. sync = "none" => act # "evict" /\ m.st = "S"
      BY <1>5, <1>11 DEF ProbeAct
    <3>2. m.st = "S" => u.outer # "M"
      BY <1>4 DEF CoreOK
    <3>3. u.outer # "M" => u.dirty = FALSE /\ ~AllowWrite(u)
      BY <1>1, <1>4, GoneFacts DEF UpperOK, AllowWrite, Line
    <3> QED BY <3>1, <3>2, <3>3
  <2>3. /\ m1.data = v /\ m1.st = m.st /\ m1.outer = m.outer /\ m1.way = m.way /\ m1.lent = m.lent
        /\ m1.dirty <=> u.dirty \/ m.dirty
    <3>1. u.dirty => u.data = v
      BY <1>4, GoneFacts DEF UpperOK
    <3>2. u.dirty \in BOOLEAN /\ m.dirty \in BOOLEAN
      BY <1>1 DEF Line
    <3>3. CASE u.dirty
      <4>1. m1 = AfterWriteback(m, u)
        BY <2>2, <3>3 DEF m1, ProbedMid
      <4> QED BY <1>1, <2>1, <3>1, <3>3, <4>1, AfterWritebackFacts
    <3>4. CASE ~u.dirty
      BY <2>1, <3>4 DEF m1, ProbedMid, MidLine
    <3> QED BY <3>3, <3>4
  <2>4. Held(f, c) /\ (Dirty(f, c) <=> m1.dirty)
    BY <1>11, <2>3 DEF Held, Dirty, h, u, m
  <2>5. m1.dirty => AllowWrite(m1)
    <3>1. u.dirty => u.outer = "M"
      BY <1>4, GoneFacts DEF UpperOK
    <3>2. u.outer = "M" => AllowWrite(m)
      BY <1>4 DEF CoreOK
    <3> QED BY <2>1, <2>3, <3>1, <3>2 DEF MidLine, AllowWrite
  <2>6. ProbesCore(f, p.s.at[a], c, v, act)
    <3>1. w = LineAfter(m1, act) /\ m1 \in Line /\ IsValid(m1)
      BY <1>6, <1>7, <1>11 DEF w
    <3>2. UpperOK(u1, v) /\ ~AllowWrite(u1) /\ u1.dirty = FALSE /\ u1.outer # "M"
      <4>1. CASE sync = "none"
        BY <1>4, <2>2, <4>1 DEF u1, AllowWrite
      <4>2. CASE sync # "none" /\ act # "writeback"
        BY <1>1, <1>4, <1>5, <4>2, UpperAfter DEF u1, AllowWrite
      <4>3. CASE sync # "none" /\ act = "writeback"
        <5>1. u1 = LineAfter(u, act) /\ UpperOK(u1, v) /\ u1.outer = u.outer /\ u1.dirty = u.dirty
          BY <1>1, <1>4, <1>5, <4>3, UpperAfter DEF u1
        <5>2. ~AllowWrite(u)
          BY <4>3 DEF Writer, u, f
        <5>3. u.dirty => AllowWrite(u)
          BY <1>4, GoneFacts DEF UpperOK, AllowWrite
        <5> QED BY <1>1, <5>1, <5>2, <5>3 DEF AllowWrite, Line
      <4> QED BY <4>1, <4>2, <4>3
    <3>3. IsValid(u1) => act # "evict"
      BY <1>1, <1>5, <1>11, LineAfterFacts DEF u1, ProbeAct
    <3>4. u1.lent => u.lent
      BY <1>1, <1>5, LineAfterFacts DEF u1
    <3>5. /\ IsValid(w) <=> act # "evict"
          /\ w.lent => m.lent
      BY <2>3, <3>1, LineAfterFacts
    <3>6. ~AllowWrite(w) /\ ~w.dirty
      <4>1. CASE act = "evict"
        <5>1. w = NoLine
          BY <3>1, <4>1, LineAfterFacts
        <5> QED BY <5>1, NoLineType
      <4>2. CASE act = "downgrade"
        BY <3>1, <4>2, LineAfterFacts DEF AllowWrite
      <4>3. CASE act = "writeback"
        BY <1>x, <2>3, <2>5, <3>1, <4>3, LineAfterFacts DEF AllowWrite, f
      <4> QED BY <4>1, <4>2, <4>3 DEF ProbeAct
    <3>7. CoreOK(u1, w, v)
      <4>1. CASE act = "evict"
        <5>1. w = NoLine /\ NoLine.st = "I"
          BY <3>1, <4>1, LineAfterFacts DEF NoLine
        <5>2. ~IsValid(u1) /\ u1.outer # "M"
          BY <3>2, <3>3, <4>1
        <5> QED BY <3>2, <5>1, <5>2, NoLineType DEF CoreOK
      <4>2. CASE act = "downgrade"
        <5>1. w.st = "S" /\ w.outer = "S" /\ w.dirty = FALSE /\ w.data = m1.data /\ w.way = m1.way
          BY <3>1, <4>2, LineAfterFacts
        <5>2. MidLine(u1, w, v)
          BY <2>1, <2>3, <5>1, <3>6 DEF MidLine, Normal, IsValid
        <5> QED BY <3>2, <5>1, <5>2 DEF CoreOK, MidLine, Normal
      <4>3. CASE act = "writeback"
        <5>1. w = m1
          BY <3>1, <4>3, LineAfterFacts
        <5>2. MidLine(u1, w, v)
          BY <2>1, <2>3, <5>1, <3>6 DEF MidLine, Normal, IsValid
        <5>3. w.st # "E" /\ (w.st = "M" => AllowWrite(w))
          BY <1>4, <2>3, <5>1 DEF CoreOK, AllowWrite
        <5> QED BY <3>2, <5>2, <5>3 DEF CoreOK, MidLine, Normal
      <4> QED BY <4>1, <4>2, <4>3 DEF ProbeAct
    <3> QED BY <1>8, <2>4, <3>2, <3>3, <3>4, <3>5, <3>6, <3>7 DEF ProbesCore, Held, Writer, Dirty, u, m, i, n
  <2> QED BY <1>6, <1>8, <1>11, <2>3, <2>4, <2>5, <2>6 DEF f, n, i, p
<1> QED BY <1>10, <1>11 DEF f, n, i, p

(* An exclusive L2 asks its L1D for a block that it does not have.         *)
LEMMA LendingFacts ==
  ASSUME NEW m \in Line
  PROVE  /\ Lending(m) \in Line /\ Lending(m).lent = TRUE
         /\ Lending(m).st = m.st /\ Lending(m).outer = m.outer /\ Lending(m).dirty = m.dirty
         /\ Lending(m).data = m.data /\ Lending(m).way = m.way /\ Lending(m).sharer = m.sharer
         /\ Gone(m) => Gone(Lending(m))
<1>1. /\ Lending(m) \in Line /\ Lending(m).lent = TRUE
      /\ Lending(m).st = m.st /\ Lending(m).outer = m.outer /\ Lending(m).dirty = m.dirty
      /\ Lending(m).data = m.data /\ Lending(m).way = m.way /\ Lending(m).sharer = m.sharer
  BY DEF Lending, Line
<1>2. Gone(m) => Gone(Lending(m))
  <2>1. Gone(m) => m = [NoLine EXCEPT !.lent = m.lent]
    BY DEF Gone
  <2>2. Gone(m) => Lending(m) = [NoLine EXCEPT !.lent = TRUE]
    BY <2>1 DEF Lending, NoLine
  <2> HIDE DEF NoLine
  <2> QED BY <1>1, <2>2 DEF Gone
<1> QED BY <1>1, <1>2

LEMMA ProbeExclusive ==
  ASSUME NEW s \in Sys, s.ok, NEW c \in Core, NEW a \in Addr, NEW v, NEW act \in ProbeAct,
         MidExclusive, Lendable(s, L2(c)),
         CoreOK(s.at[a][L1D(c)], s.at[a][L2(c)], v),
         act = "writeback" => ~Writer(s.at[a], c)
  PROVE  LET p == ProbeL2(s, L2(c), a, act)
         IN  /\ OnlyAt(s, p.s, a)
             /\ \A k \in Node \ {L1D(c), L2(c)} : p.s.at[a][k] = s.at[a][k]
             /\ ProbesCore(s.at[a], p.s.at[a], c, v, act)
             /\ p.hit <=> Held(s.at[a], c)
             /\ p.wb <=> Dirty(s.at[a], c)
             /\ p.wb => p.copy \in Line /\ p.copy.data = v /\ AllowWrite(p.copy)
<1> DEFINE f == s.at[a]
           u == f[L1D(c)]
           m == f[L2(c)]
           n == L2(c)
           i == L1D(c)
           sync == ProbeSync(s, n, a, act)
           above == ProbeAbove(s, n, a, sync)
           h == IsValid(m)
           p == ProbeL2(s, n, a, act)
<1>1. /\ i \in Node /\ n \in Node /\ i # n /\ u \in Line /\ m \in Line /\ Exclusive(n)
  BY Nodes, Programs DEF Sys, Lines
<1>2. p = Probed(above, h, n, a, act)
  BY DEF ProbeL2
<1>3. sync = IF h THEN "none" ELSE act
  BY <1>1 DEF ProbeSync
<1>4. CoreOK(u, m, v) /\ UpperOK(u, v)
  BY DEF CoreOK
<1>5. h \in BOOLEAN
  BY DEF IsValid
<1>6. act # "none"
  BY DEF ProbeAct
<1>7. /\ ~Writer(f, c) => ~AllowWrite(m) /\ ~AllowWrite(u)
      /\ act = "writeback" => ~AllowWrite(m) /\ ~AllowWrite(u)
  BY DEF Writer
<1>8. Gone(u) \/ (Gone(m) /\ ~h)
  <2> HIDE DEF u, m
  <2> QED BY <1>4, GoneFacts DEF CoreOK, MidLine, Normal, h
<1> HIDE DEF f, u, m, n, i, sync, p, above, h
<1>9. CASE h
  <2>1. above = NotAsked(s)
    BY <1>3, <1>9 DEF ProbeAbove, above
  <2>2. above.s = s /\ above.hit = FALSE /\ above.wb = FALSE
    BY <2>1 DEF NotAsked
  <2>3. OnlyAt(s, above.s, a) /\ above.s.at[a][i] = u /\ above.s.at[a][n] = m
        /\ \A k \in Node \ {i, n} : above.s.at[a][k] = f[k]
    BY <2>2 DEF OnlyAt, u, m, i, n, f
  <2>4. h => IsValid(m)
    BY DEF h
  <2>5. /\ OnlyAt(s, p.s, a)
        /\ p.s.at[a][i] = u /\ p.s.at[a][n] = LineAfter(m, act)
        /\ \A k \in Node \ {i, n} : p.s.at[a][k] = f[k]
        /\ p.hit <=> h \/ above.hit
        /\ p.wb <=> (h \/ above.wb) /\ m.dirty
        /\ p.copy = m
    <3> DEFINE w == IF h THEN LineAfter(m, act) ELSE NoLine
    <3> HIDE DEF w
    <3>1. /\ OnlyAt(s, p.s, a)
          /\ p.s.at[a][i] = u /\ p.s.at[a][n] = w
          /\ \A k \in Node \ {i, n} : p.s.at[a][k] = f[k]
          /\ p.hit <=> h \/ above.hit
          /\ p.wb <=> (h \/ above.wb) /\ m.dirty
          /\ p.copy = m
      BY <1>1, <1>2, <1>5, <2>3, <2>4, ProbeLines DEF f, n, i, w
    <3> QED BY <1>9, <3>1 DEF w
  <2>6. Gone(u) /\ MidLine(u, m, v) /\ IsValid(m) /\ m.data = v /\ ~u.dirty /\ ~AllowWrite(u) /\ ~IsValid(u)
    BY <1>4, <1>8, <1>9, GoneFacts DEF CoreOK, MidLine, h
  <2>7. Held(f, c) /\ (Dirty(f, c) <=> m.dirty)
    BY <2>6 DEF Held, Dirty, u, m
  <2> DEFINE w == LineAfter(m, act)
  <2>8. /\ IsValid(w) <=> act # "evict"
        /\ w.lent => m.lent
        /\ ~AllowWrite(w) /\ ~w.dirty /\ CoreOK(u, w, v)
    <3>1. (IsValid(w) <=> act # "evict") /\ (w.lent => m.lent)
      BY <1>1, <2>6, LineAfterFacts
    <3>2. CASE act = "evict"
      <4>1. w = NoLine
        BY <1>1, <3>2, LineAfterFacts
      <4> HIDE DEF w
      <4> QED BY <1>4, <2>6, <3>1, <4>1, NoLineType DEF CoreOK
    <3>3. CASE act = "downgrade"
      <4>1. w.st = "S" /\ w.outer = "S" /\ w.dirty = FALSE /\ w.data = m.data /\ w.way = m.way
        BY <1>1, <2>6, <3>3, LineAfterFacts
      <4> HIDE DEF w
      <4> QED BY <1>4, <2>6, <3>1, <4>1 DEF CoreOK, MidLine, Normal, IsValid, AllowWrite
    <3>4. CASE act = "writeback"
      <4>1. w = m
        BY <1>1, <2>6, <3>4, LineAfterFacts
      <4> HIDE DEF w
      <4> QED BY <1>4, <1>7, <2>6, <3>1, <3>4, <4>1 DEF MidLine
    <3> QED BY <3>1, <3>2, <3>3, <3>4 DEF ProbeAct
  <2>9. ProbesCore(f, p.s.at[a], c, v, act)
    <3> HIDE DEF w
    <3> QED BY <2>5, <2>6, <2>7, <2>8 DEF w, ProbesCore, Held, Writer, Dirty, u, m, i, n
  <2> QED BY <1>1, <1>9, <2>2, <2>5, <2>6, <2>7, <2>9 DEF f, n, i, p, MidLine
<1>10. CASE ~h
  <2> DEFINE s0 == Put(s, n, a, Lending(m))
             m1 == IF u.dirty THEN AfterWriteback(Lending(m), u) ELSE Lending(m)
             u1 == LineAfter(u, act)
  <2>0. Lendable(s, n)
    BY DEF n
  <2>1. Borrow(s, n, a) = s0
    BY <1>1, <2>0, BorrowFacts DEF m, f, n
  <2>2. sync = act /\ above = AskTop(s0, c, a, act)
    <3>1. sync = act /\ ~IsValid(s.at[a][n])
      BY <1>3, <1>10 DEF h, m, f, n
    <3>2. above = AskL1(Borrow(s, n, a), n, a, sync, NoId)
      BY <1>6, <3>1 DEF above, ProbeAbove
    <3> HIDE DEF s0
    <3> QED BY <2>1, <3>1, <3>2 DEF AskTop, n
  <2>3. Gone(m) /\ Lending(m) \in Line /\ Gone(Lending(m))
    BY <1>1, <1>4, <1>10, LendingFacts DEF CoreOK, MidLine, Normal, h
  <2>4. OnlyAt(s, s0, a) /\ s0.at[a][n] = Lending(m) /\ \A k \in Node : k # n => s0.at[a][k] = f[k]
    <3> HIDE DEF s0
    <3> QED BY <1>1, <2>3, PutFacts DEF s0, f
  <2> HIDE DEF s0
  <2>5. s0 \in Sys /\ s0.ok /\ s0.at[a][i] = u
    BY <1>1, <2>4 DEF OnlyAt, u, i, f
  <2>6. /\ OnlyAt(s0, above.s, a)
        /\ above.s.at[a][i] = u1 /\ above.s.at[a][n] = m1
        /\ \A k \in Node \ {i, n} : above.s.at[a][k] = s0.at[a][k]
        /\ above.hit <=> IsValid(u)
        /\ above.wb <=> u.dirty
    <3> HIDE DEF u1, m1
    <3>1. UpperOK(s0.at[a][L1D(c)], v) /\ s0 \in Sys /\ s0.ok /\ s0.at[a][L1D(c)] = u /\ s0.at[a][L2(c)] = Lending(m)
      BY <1>4, <2>4, <2>5 DEF i, n
    <3>2. AskedUpper(s0, AskTop(s0, c, a, act), c, a, act)
      BY <3>1, AskUpper
    <3>3. AskedUpper(s0, above, c, a, act)
      BY <2>2, <3>2
    <3> QED BY <3>1, <3>3 DEF i, n, u1, m1, AskedUpper
  <2>7. u1 \in Line /\ m1 \in Line
    BY <1>1, <2>3, LineAfterFacts, AfterWritebackFacts
  <2>8. OnlyAt(s, above.s, a) /\ \A k \in Node \ {i, n} : above.s.at[a][k] = f[k]
    BY <2>4, <2>6, OnlyAtTrans
  <2> HIDE DEF u1, m1
  <2>9. /\ OnlyAt(s, p.s, a)
        /\ p.s.at[a][i] = u1 /\ p.s.at[a][n] = NoLine
        /\ \A k \in Node \ {i, n} : p.s.at[a][k] = f[k]
        /\ p.hit <=> h \/ above.hit
        /\ p.wb <=> (h \/ above.wb) /\ m1.dirty
        /\ p.copy = m1
    BY <1>1, <1>2, <1>5, <1>10, <2>6, <2>7, <2>8, ProbeLines DEF f, n, i
  <2>10. m1.dirty <=> u.dirty
    <3>1. ~Lending(m).dirty /\ u.dirty \in BOOLEAN
      BY <1>1, <2>3, GoneFacts DEF Line
    <3> QED BY <1>1, <2>3, <3>1, AfterWritebackFacts DEF m1
  <2>11. (Held(f, c) <=> IsValid(u)) /\ (Dirty(f, c) <=> u.dirty)
    BY <2>3, GoneFacts DEF Held, Dirty, u, m
  <2>12. u.dirty => m1.data = v /\ AllowWrite(m1)
    <3>1. u.dirty => u.outer = "M" /\ u.data = v
      BY <1>4, GoneFacts DEF UpperOK
    <3>2. ~IsValid(Lending(m))
      BY <2>3, GoneFacts
    <3> QED BY <1>1, <2>3, <3>1, <3>2, AfterWritebackFacts DEF m1, AllowWrite
  <2>13. ProbesCore(f, p.s.at[a], c, v, act)
    <3>1. UpperOK(u1, v)
      BY <1>1, <1>4, UpperAfter DEF u1
    <3>2. ~AllowWrite(u1) /\ ~u1.dirty
      <4>1. CASE act # "writeback"
        BY <1>1, <1>4, <4>1, UpperAfter DEF u1
      <4>2. CASE act = "writeback"
        <5>1. u1.outer = u.outer /\ u1.dirty = u.dirty
          BY <1>1, <1>4, <4>2, UpperAfter DEF u1
        <5>2. u.dirty => AllowWrite(u)
          BY <1>4, GoneFacts DEF UpperOK, AllowWrite
        <5> QED BY <1>7, <4>2, <5>1, <5>2 DEF AllowWrite
      <4> QED BY <4>1, <4>2
    <3>3. (IsValid(u1) <=> act # "evict" /\ IsValid(u)) /\ (u1.lent => u.lent)
      BY <1>1, LineAfterFacts DEF u1
    <3>4. CoreOK(u1, NoLine, v)
      BY <3>1, NoLineType DEF CoreOK
    <3> QED BY <2>9, <2>11, <3>2, <3>3, <3>4, NoLineType DEF ProbesCore, Held, Writer, Dirty, u, m, i, n
  <2> QED BY <1>10, <2>6, <2>7, <2>9, <2>10, <2>11, <2>12, <2>13 DEF f, n, i, p
<1> QED BY <1>9, <1>10 DEF f, n, i, p

LEMMA ProbeMid ==
  ASSUME NEW s \in Sys, s.ok, NEW c \in Core, NEW a \in Addr, NEW v, NEW act \in ProbeAct,
         Lendable(s, L2(c)),
         CoreOK(s.at[a][L1D(c)], s.at[a][L2(c)], v),
         act = "writeback" => ~Writer(s.at[a], c)
  PROVE  LET p == ProbeL2(s, L2(c), a, act)
         IN  /\ OnlyAt(s, p.s, a)
             /\ \A k \in Node \ {L1D(c), L2(c)} : p.s.at[a][k] = s.at[a][k]
             /\ ProbesCore(s.at[a], p.s.at[a], c, v, act)
             /\ p.hit <=> Held(s.at[a], c)
             /\ p.wb <=> Dirty(s.at[a], c)
             /\ p.wb => p.copy \in Line /\ p.copy.data = v /\ AllowWrite(p.copy)
BY ProbeInclusive, ProbeExclusive

----------------------------------------------------------------------------
(* Probes of the L3: what all cores but the one of id make of them.        *)
AskLast(s, a, act, id) == AskL2(s, a, act, id)

Others(id) == Core \ {id}

(* What is known of the cores that are asked.                              *)
Askable(s, a, v, act, id) ==
  /\ \A c \in Core : Lendable(s, L2(c))
  /\ \A c \in Others(id) : CoreOK(s.at[a][L1D(c)], s.at[a][L2(c)], v)
  /\ \A c, d \in Others(id) : Writer(s.at[a], c) /\ Held(s.at[a], d) => c = d
  /\ LastDirectory => \A c \in Others(id) : Held(s.at[a], c) => c \in s.at[a][L3].sharer
  /\ act = "writeback" => \A c \in Others(id) : ~Writer(s.at[a], c)

AskedOthers(s, r, a, v, act, id) ==
  LET f == s.at[a]
      g == r.s.at[a]
  IN  /\ OnlyAt(s, r.s, a)
      /\ \A c \in ICore : g[L1I(c)] = f[L1I(c)]
      /\ \A c \in Core : c = id => g[L1D(c)] = f[L1D(c)] /\ g[L2(c)] = f[L2(c)]
      /\ \A c \in Others(id) : ProbesCore(f, g, c, v, act)
      /\ r.hit <=> \E c \in Others(id) : Held(f, c)
      /\ r.wb <=> \E c \in Others(id) : Dirty(f, c)
      /\ ~r.wb => g[L3] = f[L3]
      /\ r.wb => \E copy \in Line : /\ copy.data = v /\ AllowWrite(copy)
                                    /\ g[L3] = AfterWriteback(f[L3], copy)

LEMMA AskOthers ==
  ASSUME NEW s \in Sys, s.ok, NEW a \in Addr, NEW v, NEW act \in ProbeAct, NEW id,
         Askable(s, a, v, act, id)
  PROVE  AskedOthers(s, AskLast(s, a, act, id), a, v, act, id)
<1> DEFINE l == s.at[a][L3]
           n == L3
           P(c) == ProbeL2(s, L2(c), a, act)
           NP(c) == c # id /\ (LastDirectory => c \in l.sharer)
           asked == {i \in Inner(n) : NeedProbe(n, s.at[a][n], Id(i), id)}
           r     == [i \in asked |-> ProbeL2(s, i, a, act)]
           back  == {i \in asked : r[i].wb}
           last  == CHOOSE i \in back : \A j \in back : Id(j) <= Id(i)
           by(k) == IF n = L3 THEN L2(k[2]) ELSE L1D(k[2])
           line  == IF back = {} THEN s.at[a][n] ELSE AfterWriteback(s.at[a][n], r[last].copy)
           f     == [m \in Node |-> IF m = n THEN line
                                    ELSE IF by(m) \in asked THEN r[by(m)].s.at[a][m]
                                    ELSE s.at[a][m]]
           ok    == s.ok /\ \A i \in asked : r[i].s.ok
           hit   == \E i \in asked : r[i].hit
           wb    == back # {}
           res   == AskLast(s, a, act, id)
<1>1. /\ n \in Node /\ l \in Line /\ Inner(n) = Middle /\ n = L3
      /\ \A c \in Core : Id(L2(c)) = c /\ L2(c)[2] = c /\ L1D(c)[2] = c /\ L2(c) \in Node /\ L1D(c) \in Node
                          /\ L2(c) # n /\ L1D(c) # n /\ L2(c) \in Middle /\ L1D(c) # L2(c)
      /\ \A c, d \in Core : c # d => L2(c) # L2(d)
      /\ \A k \in Node : s.at[a][k] \in Line
  <2>1. L3 \in Node /\ \A k \in Node : s.at[a][k] \in Line
    BY Nodes DEF Sys, Lines
  <2>2. Inner(L3) = Middle
    BY DEF Inner
  <2> QED BY <2>1, <2>2, Nodes
<1>2. \A c \in Core : NeedProbe(n, l, c, id) <=> NP(c)
  BY Programs DEF NeedProbe, ProbeNeedProbe, Dir!ProbeNeedProbe
<1>3. \A c \in Others(id) :
        /\ OnlyAt(s, P(c).s, a)
        /\ \A k \in Node \ {L1D(c), L2(c)} : P(c).s.at[a][k] = s.at[a][k]
        /\ ProbesCore(s.at[a], P(c).s.at[a], c, v, act)
        /\ P(c).hit <=> Held(s.at[a], c)
        /\ P(c).wb <=> Dirty(s.at[a], c)
        /\ P(c).wb => P(c).copy \in Line /\ P(c).copy.data = v /\ AllowWrite(P(c).copy)
  <2> TAKE c \in Others(id)
  <2>1. /\ c \in Core /\ Lendable(s, L2(c))
        /\ CoreOK(s.at[a][L1D(c)], s.at[a][L2(c)], v)
        /\ act = "writeback" => ~Writer(s.at[a], c)
    BY DEF Askable, Others
  <2> QED BY <2>1, ProbeMid
<1>4. \A c \in Others(id) : ~NP(c) => /\ Gone(s.at[a][L1D(c)]) /\ Gone(s.at[a][L2(c)])
                                      /\ ~Held(s.at[a], c) /\ ~Dirty(s.at[a], c) /\ ~Writer(s.at[a], c)
  <2> SUFFICES ASSUME NEW c \in Others(id), ~NP(c)
               PROVE  /\ Gone(s.at[a][L1D(c)]) /\ Gone(s.at[a][L2(c)])
                      /\ ~Held(s.at[a], c) /\ ~Dirty(s.at[a], c) /\ ~Writer(s.at[a], c)
    OBVIOUS
  <2>1. ~Held(s.at[a], c)
    BY DEF Askable, Others
  <2>2. CoreOK(s.at[a][L1D(c)], s.at[a][L2(c)], v)
    BY DEF Askable
  <2>3. Gone(s.at[a][L1D(c)]) /\ Gone(s.at[a][L2(c)])
    BY <2>1, <2>2 DEF Held, CoreOK, UpperOK, MidLine, Normal, IsValid
  <2> QED BY <2>1, <2>3, GoneFacts DEF Dirty, Writer
<1> HIDE DEF n, P, NP, l
<1>5. asked = {L2(c) : c \in {d \in Core : NP(d)}}
  <2>1. \A i \in Middle : \E c \in Core : i = L2(c)
    BY DEF Middle
  <2>2. \A c \in Core : L2(c) \in asked <=> NP(c)
    BY <1>1, <1>2 DEF l, n
  <2>3. \A i \in asked : i \in Middle
    BY <1>1
  <2> HIDE DEF asked
  <2> QED BY <1>1, <2>1, <2>2, <2>3
<1>6. \A c \in Core : (L2(c) \in asked <=> NP(c)) /\ (NP(c) => r[L2(c)] = P(c) /\ c \in Others(id))
  <2>1. \A c \in Core : L2(c) \in asked <=> NP(c)
    BY <1>1, <1>2 DEF l, n
  <2>2. \A c \in Core : NP(c) => r[L2(c)] = P(c)
    BY <2>1 DEF P
  <2>3. \A c \in Core : NP(c) => c \in Others(id)
    BY DEF NP, Others
  <2> QED BY <2>1, <2>2, <2>3
<1> HIDE DEF asked, r
<1>7. \A c \in Core : L2(c) \in back <=> c \in Others(id) /\ Dirty(s.at[a], c)
  BY <1>3, <1>4, <1>6 DEF Others
<1>8. \A i \in back : \E c \in Core : i = L2(c)
  BY <1>5
<1> HIDE DEF back
<1>9. ASSUME back # {}
      PROVE  \E c \in Others(id) : NP(c) /\ last = L2(c) /\ L2(c) \in back
  <2>1. PICK c \in Core : L2(c) \in back
    BY <1>8, <1>9
  <2>2. \A j \in back : j = L2(c)
    <3> TAKE j \in back
    <3>1. PICK d \in Core : j = L2(d)
      BY <1>8
    <3>2. d \in Others(id) /\ c \in Others(id) /\ Dirty(s.at[a], d) /\ Dirty(s.at[a], c)
      BY <1>7, <2>1, <3>1
    <3>3. \A e \in Others(id) : CoreOK(s.at[a][L1D(e)], s.at[a][L2(e)], v)
      BY DEF Askable
    <3>4. Writer(s.at[a], d) /\ Held(s.at[a], c)
      BY <3>2, <3>3, CoreFacts
    <3>5. d = c
      BY <3>2, <3>4 DEF Askable
    <3> QED BY <3>1, <3>5
  <2>3. \A j \in back : Id(j) <= Id(L2(c))
    <3>1. Id(L2(c)) <= Id(L2(c))
      BY <1>1, HierarchyAssumption
    <3> QED BY <2>2, <3>1
  <2>4. last \in back
    BY <2>1, <2>3
  <2>5. last = L2(c)
    BY <2>2, <2>4
  <2>6. c \in Others(id) /\ NP(c)
    BY <1>4, <1>7, <2>1
  <2> QED BY <2>1, <2>5, <2>6
<1> HIDE DEF last
<1>10. /\ back = {} => line = l
       /\ back # {} => \E copy \in Line : copy.data = v /\ AllowWrite(copy) /\ line = AfterWriteback(l, copy)
       /\ line \in Line
  <2>1. CASE back = {}
    BY <1>1, <2>1 DEF l, n
  <2>2. CASE back # {}
    <3>1. PICK c \in Others(id) : NP(c) /\ last = L2(c) /\ L2(c) \in back
      BY <1>9, <2>2
    <3>2. c \in Core
      BY DEF Others
    <3>3. r[last] = P(c) /\ P(c).wb
      BY <1>3, <1>6, <1>7, <3>1, <3>2
    <3>4. P(c).copy \in Line /\ P(c).copy.data = v /\ AllowWrite(P(c).copy)
      BY <1>3, <3>3
    <3>5. line = AfterWriteback(l, P(c).copy)
      BY <2>2, <3>3 DEF l, n
    <3> HIDE DEF line
    <3> QED BY <1>1, <2>2, <3>4, <3>5, AfterWritebackFacts
  <2> QED BY <2>1, <2>2
<1> HIDE DEF line
<1>11. /\ f[L3] = line
       /\ \A c \in ICore : f[L1I(c)] = s.at[a][L1I(c)]
       /\ \A c \in Core : c = id => f[L1D(c)] = s.at[a][L1D(c)] /\ f[L2(c)] = s.at[a][L2(c)]
       /\ \A c \in Core : NP(c) => f[L1D(c)] = P(c).s.at[a][L1D(c)] /\ f[L2(c)] = P(c).s.at[a][L2(c)]
       /\ \A c \in Others(id) : ~NP(c) => f[L1D(c)] = s.at[a][L1D(c)] /\ f[L2(c)] = s.at[a][L2(c)]
  <2>1. f[L3] = line
    BY <1>1
  <2>2. ASSUME NEW c \in Core, NEW k \in Node, k # n, k[2] = c
        PROVE  /\ NP(c) => f[k] = P(c).s.at[a][k]
               /\ ~NP(c) => f[k] = s.at[a][k]
    <3>1. by(k) = L2(c)
      BY <1>1, <2>2
    <3>2. f[k] = IF by(k) \in asked THEN r[by(k)].s.at[a][k] ELSE s.at[a][k]
      BY <2>2
    <3> HIDE DEF f, by
    <3> QED BY <1>6, <3>1, <3>2
  <2> HIDE DEF f
  <2>3. ASSUME NEW c \in ICore PROVE f[L1I(c)] = s.at[a][L1I(c)]
    <3>1. c \in Core /\ L1I(c) \in Node /\ L1I(c) # n /\ L1I(c)[2] = c /\ L1I(c) # L1D(c) /\ L1I(c) # L2(c)
      BY <1>1, Nodes
    <3>2. NP(c) => P(c).s.at[a][L1I(c)] = s.at[a][L1I(c)]
      BY <1>3, <1>6, <3>1
    <3> QED BY <2>2, <3>1, <3>2
  <2>4. \A c \in Core : c = id => ~NP(c)
    BY DEF NP
  <2> QED BY <1>1, <2>1, <2>2, <2>3, <2>4 DEF Others
<1>12. f \in Lines
  <2>1. \A k \in Node : f[k] \in Line
    <3> TAKE k \in Node
    <3>1. CASE k = n
      BY <1>1, <1>10, <1>11, <3>1
    <3>2. CASE k # n
      <4>1. PICK c \in Core : k[2] = c
        BY <1>1, <3>2, Nodes
      <4>2. by(k) = L2(c)
        BY <1>1, <4>1
      <4>3. f[k] = IF by(k) \in asked THEN r[by(k)].s.at[a][k] ELSE s.at[a][k]
        BY <3>2
      <4> HIDE DEF f, by
      <4>4. NP(c) => P(c).s \in Sys
        BY <1>3, <1>6 DEF OnlyAt
      <4>5. NP(c) => P(c).s.at[a][k] \in Line
        BY <4>4 DEF Sys, Lines
      <4> QED BY <1>1, <1>6, <4>2, <4>3, <4>5
    <3> QED BY <3>1, <3>2
  <2>2. f = [k \in Node |-> f[k]]
    OBVIOUS
  <2> HIDE DEF f
  <2> QED BY <2>1, <2>2 DEF Lines
<1>13. ok = s.ok
  <2>1. \A i \in asked : r[i].s.ok
    <3> TAKE i \in asked
    <3>1. PICK c \in Core : i = L2(c) /\ NP(c)
      BY <1>5
    <3> QED BY <1>3, <1>6, <3>1 DEF OnlyAt
  <2> QED BY <2>1, s.ok = TRUE DEF Sys
<1>14. hit <=> \E c \in Others(id) : Held(s.at[a], c)
  <2>1. \A i \in asked : \E c \in Core : i = L2(c) /\ NP(c)
    BY <1>5
  <2>2. \A c \in Others(id) : c \in Core
    BY DEF Others
  <2> QED BY <1>3, <1>4, <1>6, <2>1, <2>2
<1>15. wb <=> \E c \in Others(id) : Dirty(s.at[a], c)
  <2>1. \A c \in Others(id) : c \in Core
    BY DEF Others
  <2> QED BY <1>7, <1>8, <2>1
<1>16. res = [s |-> [s EXCEPT !.at[a] = f, !.ok = ok], hit |-> hit, wb |-> wb]
  BY DEF res, AskLast, n, AskL2, Asked, Answered, f, by, line, last, back, r, asked, ok, hit, wb
<1>w. wb <=> back # {}
  OBVIOUS
<1> HIDE DEF f, ok, hit, wb, res
<1>17. res.s = Update(s, a, f) /\ res.hit = hit /\ res.wb = wb
  <2>1. [s EXCEPT !.at[a] = f, !.ok = s.ok] = [s EXCEPT !.at[a] = f]
    BY DEF Sys
  <2> QED BY <1>13, <1>16, <2>1 DEF Update
<1>18. OnlyAt(s, res.s, a) /\ res.s.at[a] = f
  BY <1>12, <1>17, UpdateFacts
<1>19. \A c \in Others(id) : ProbesCore(s.at[a], f, c, v, act)
  <2> TAKE c \in Others(id)
  <2>0. c \in Core
    BY DEF Others
  <2>1. CASE NP(c)
    <3>1. f[L1D(c)] = P(c).s.at[a][L1D(c)] /\ f[L2(c)] = P(c).s.at[a][L2(c)]
      BY <1>11, <2>0, <2>1
    <3>2. ProbesCore(s.at[a], P(c).s.at[a], c, v, act)
      BY <1>3
    <3> QED BY <3>1, <3>2 DEF ProbesCore, Held, Writer, Dirty
  <2>2. CASE ~NP(c)
    <3>1. f[L1D(c)] = s.at[a][L1D(c)] /\ f[L2(c)] = s.at[a][L2(c)]
      BY <1>11, <2>2
    <3>2. CoreOK(s.at[a][L1D(c)], s.at[a][L2(c)], v)
      BY DEF Askable
    <3>3. ~Held(s.at[a], c) /\ ~Dirty(s.at[a], c) /\ ~Writer(s.at[a], c)
      BY <1>4, <2>2
    <3> QED BY <3>1, <3>2, <3>3 DEF ProbesCore, Held, Writer, Dirty
  <2> QED BY <2>1, <2>2
<1>20. /\ ~res.wb => f[L3] = l
       /\ res.wb => \E copy \in Line : copy.data = v /\ AllowWrite(copy) /\ f[L3] = AfterWriteback(l, copy)
  BY <1>10, <1>11, <1>17, <1>w
<1>21. /\ OnlyAt(s, res.s, a) /\ res.s.at[a] = f
       /\ \A c \in ICore : f[L1I(c)] = s.at[a][L1I(c)]
       /\ \A c \in Core : c = id => f[L1D(c)] = s.at[a][L1D(c)] /\ f[L2(c)] = s.at[a][L2(c)]
       /\ \A c \in Others(id) : ProbesCore(s.at[a], f, c, v, act)
       /\ res.hit <=> \E c \in Others(id) : Held(s.at[a], c)
       /\ res.wb <=> \E c \in Others(id) : Dirty(s.at[a], c)
       /\ ~res.wb => f[L3] = l
       /\ res.wb => \E copy \in Line : copy.data = v /\ AllowWrite(copy) /\ f[L3] = AfterWriteback(l, copy)
  BY <1>11, <1>14, <1>15, <1>17, <1>18, <1>19, <1>20
<1>22. AskedOthers(s, res, a, v, act, id)
  BY <1>21 DEF l, AskedOthers
<1> QED BY <1>22 DEF res

----------------------------------------------------------------------------
(* What happens to one block and its place in memory: only the lines of    *)
(* the caches in K change.                                                 *)
Only(s, t, a, K) ==
  /\ t \in Sys
  /\ t.ok = s.ok
  /\ \A b \in Addr : b # a => t.at[b] = s.at[b] /\ t.mem[b] = s.mem[b]
  /\ \A k \in Node \ K : t.at[a][k] = s.at[a][k]

NoNewLent(s, t) == \A b \in Addr, k \in Node : t.at[b][k].lent => s.at[b][k].lent

Calm(s)           == \A b \in Addr, k \in Node : ~s.at[b][k].lent
QuietBut(s, a, n) == \A b \in Addr, k \in Node : s.at[b][k].lent => b = a /\ k = n

LEMMA QuietFacts ==
  ASSUME NEW s, NEW a, NEW n
  PROVE  /\ Calm(s) => QuietBut(s, a, n)
         /\ QuietBut(s, a, n) => \A k \in Node : Lendable(s, k)
BY DEF Calm, QuietBut, Lendable

LEMMA OnlyTrans ==
  ASSUME NEW s, NEW t, NEW r, NEW a, NEW K, NEW L, NEW M,
         Only(s, t, a, K), Only(t, r, a, L), K \subseteq M, L \subseteq M
  PROVE  Only(s, r, a, M)
BY DEF Only

LEMMA OnlyPut ==
  ASSUME NEW s \in Sys, NEW n \in Node, NEW a \in Addr, NEW m \in Line
  PROVE  Only(s, Put(s, n, a, m), a, {n}) /\ Put(s, n, a, m).at[a][n] = m /\ Put(s, n, a, m).mem = s.mem
BY PutFacts DEF Only, OnlyAt

LEMMA OnlyAssign ==
  ASSUME NEW s \in Sys, NEW n \in Node, NEW a \in Addr, NEW m \in Line, NEW t, t = Put(s, n, a, m)
  PROVE  Only(s, t, a, {n}) /\ t.at[a][n] = m /\ t.mem = s.mem
BY OnlyPut

(* The memory.                                                             *)
FetchedLine(l, act, w) ==
  [l EXCEPT !.st = IF act = "fetch_read" THEN "S" ELSE "M", !.outer = "M", !.data = w]

ReadLine(l, x, act, w) ==
  /\ x \in Line
  /\ x.st = (IF act = "fetch_read" THEN "S" ELSE "M") /\ x.outer = "M" /\ x.data = w
  /\ x.dirty = l.dirty /\ x.sharer = l.sharer /\ x.way = l.way /\ x.lent = l.lent

LEMMA MemoryRead ==
  ASSUME NEW s \in Sys, s.ok, NEW a \in Addr, NEW act \in {"fetch_read", "fetch_write"},
         NEW t \in AcquireReq(AtMemory, s, L3, a, act)
  PROVE  Only(s, t, a, {L3}) /\ t.mem = s.mem /\ ReadLine(s.at[a][L3], t.at[a][L3], act, s.mem[a])
<1> DEFINE l == s.at[a][L3]
           n == L3
           r == [s EXCEPT !.at[a][n].data = s.mem[a], !.at[a][n].outer = "M"]
           x == FetchedLine(l, act, s.mem[a])
           y == [l EXCEPT !.data = s.mem[a], !.outer = "M"]
<1>1. n \in Node /\ l \in Line /\ s.mem[a] \in Val
  BY Nodes DEF Sys, Lines
<1>2. AtMemory(s, <<n, a, act>>) = {r}
  BY DEF AtMemory, MemoryResp
<1> HIDE DEF l, n
<1>3. r = Put(s, n, a, y)
  BY <1>1 DEF Put, l, n, Sys, Lines
<1>4. y \in Line /\ y.outer = "M"
  BY <1>1 DEF Line, State
<1>5. x \in Line /\ MetaAfterFetch(act, y) = x /\ FetchAssertion(act, y)
  BY <1>1 DEF Line, State, FetchedLine, MetaAfterFetch, FetchAssertion, ToShared, ToModified, AddSharer, AllowWrite
<1>6. r.at[a][n] = y /\ r \in Sys /\ r.ok = s.ok
  <2> HIDE DEF r, y
  <2>1. OnlyAt(s, Put(s, n, a, y), a) /\ Put(s, n, a, y).at[a][n] = y
    BY <1>1, <1>4, PutFacts
  <2> QED BY <1>3, <2>1 DEF OnlyAt
<1> HIDE DEF r
<1>7. t = [r EXCEPT !.at[a][n] = MetaAfterFetch(act, @), !.ok = @ /\ FetchAssertion(act, r.at[a][n])]
  BY <1>2 DEF AcquireReq, n
<1>8. t = Put(r, n, a, x)
  <2>1. (r.ok /\ FetchAssertion(act, r.at[a][n])) = r.ok
    BY <1>5, <1>6, s.ok = TRUE DEF Sys
  <2>2. t = [r EXCEPT !.at[a][n] = x, !.ok = r.ok]
    BY <1>5, <1>6, <1>7, <2>1
  <2> HIDE DEF x
  <2> QED BY <2>2, <1>6 DEF Put, Sys
<1>9. Only(s, r, a, {n}) /\ r.mem = s.mem
  <2> HIDE DEF y
  <2> QED BY <1>1, <1>3, <1>4, OnlyPut
<1>10. Only(r, t, a, {n}) /\ t.mem = r.mem /\ t.at[a][n] = x
  <2> HIDE DEF x
  <2> QED BY <1>1, <1>5, <1>6, <1>8, OnlyPut
<1>11. Only(s, t, a, {n})
  BY <1>9, <1>10, OnlyTrans
<1>12. /\ x.st = (IF act = "fetch_read" THEN "S" ELSE "M") /\ x.outer = "M" /\ x.data = s.mem[a]
       /\ x.dirty = l.dirty /\ x.sharer = l.sharer /\ x.way = l.way /\ x.lent = l.lent
  BY <1>1 DEF FetchedLine, Line
<1> HIDE DEF x
<1> QED BY <1>5, <1>9, <1>10, <1>11, <1>12 DEF l, n, ReadLine

LEMMA ToCleanFacts ==
  ASSUME NEW m \in Line
  PROVE  LET x == ToClean(m)
         IN  /\ x \in Line /\ ~x.dirty /\ x.dirty = FALSE
             /\ x.st = m.st /\ x.outer = m.outer /\ x.sharer = m.sharer /\ x.data = m.data
             /\ x.way = m.way /\ x.lent = m.lent
BY DEF ToClean, Line

LEMMA MemoryWrite ==
  ASSUME NEW s \in Sys, NEW a \in Addr, NEW act \in {"evict", "writeback"},
         NEW t \in WritebackReq(AtMemory, s, L3, a, act), s.at[a][L3].data \in Val
  PROVE  /\ Only(s, t, a, {L3})
         /\ t.mem[a] = s.at[a][L3].data
         /\ t.at[a][L3] = ToClean(s.at[a][L3])
<1> DEFINE n == L3
           l == s.at[a][n]
           r == [s EXCEPT !.mem[a] = l.data]
<1>1. n \in Node /\ l \in Line /\ l.data \in Val
  BY Nodes DEF Sys, Lines
<1>2. AtMemory(s, <<n, a, act>>) = {r}
  BY DEF AtMemory, MemoryResp
<1>3. r \in Sys /\ r.at = s.at /\ r.ok = s.ok /\ r.mem[a] = l.data
      /\ \A b \in Addr : b # a => r.mem[b] = s.mem[b]
  BY <1>1 DEF Sys
<1>4. Only(s, r, a, {n})
  BY <1>3 DEF Only
<1> HIDE DEF r
<1>5. t = Put(r, n, a, ToClean(l))
  BY <1>2, <1>3 DEF WritebackReq
<1>6. ToClean(l) \in Line
  BY <1>1, ToCleanFacts
<1> HIDE DEF n, l
<1>7. Only(r, t, a, {n}) /\ t.mem = r.mem /\ t.at[a][n] = ToClean(l)
  BY <1>1, <1>3, <1>5, <1>6, OnlyPut
<1> QED BY <1>3, <1>4, <1>7, OnlyTrans DEF n, l

(* A block whose lines agree: what a call finds, and leaves.  The memory   *)
(* has the content from before the call or the current one.                *)
Settled(s, old, now, b) ==
  Rest(s.at[b], s.mem[b], b, now[b]) /\ s.mem[b] \in {old[b], now[b]}

LEMMA LastWriteback ==
  ASSUME NEW s \in Sys, NEW a \in Addr, NEW act \in {"evict", "writeback"},
         s.at[a][L3].dirty => s.at[a][L3].data \in Val,
         NEW t \in Writeback(AtMemory, s, L3, a, act, FALSE)
  PROVE  /\ Only(s, t, a, {L3})
         /\ t.mem[a] = IF s.at[a][L3].dirty THEN s.at[a][L3].data ELSE s.mem[a]
         /\ t.at[a][L3] = ToClean(s.at[a][L3])
<1>1. L3 \in Node /\ s.at[a][L3] \in Line
  BY Nodes DEF Sys, Lines
<1>2. CASE s.at[a][L3].dirty
  <2>1. t \in WritebackReq(AtMemory, s, L3, a, act)
    BY <1>2 DEF Writeback, IsDirty
  <2> QED BY <1>2, <2>1, MemoryWrite
<1>3. CASE ~s.at[a][L3].dirty
  <2>1. t = s
    BY <1>3 DEF Writeback, IsDirty
  <2>2. ToClean(s.at[a][L3]) = s.at[a][L3]
    BY <1>1, <1>3 DEF ToClean, Line
  <2> QED BY <1>3, <2>1, <2>2 DEF Only
<1> QED BY <1>2, <1>3

(* Probes of the L3 when the caches above it agree.                        *)
AskedAbove(s, r, a, v, act, id) ==
  LET f == s.at[a]
      g == r.s.at[a]
  IN  /\ OnlyAt(s, r.s, a)
      /\ AboveOK(g, a, v)
      /\ Holders(g) = IF act = "evict" THEN Holders(f) \cap {id} ELSE Holders(f)
      /\ Writers(g) = Writers(f) \cap {id}
      /\ Dirties(g) = Dirties(f) \cap {id}
      /\ \A c \in ICore : g[L1I(c)] = f[L1I(c)]
      /\ \A c \in Core : c = id => g[L1D(c)] = f[L1D(c)] /\ g[L2(c)] = f[L2(c)]
      /\ \A k \in Node \ {L3} : g[k].lent => f[k].lent
      /\ r.hit <=> Holders(f) \ {id} # {}
      /\ r.wb <=> Dirties(f) \ {id} # {}
      /\ ~r.wb => g[L3] = f[L3]
      /\ r.wb => \E copy \in Line : /\ copy.data = v /\ AllowWrite(copy)
                                    /\ g[L3] = AfterWriteback(f[L3], copy)

LEMMA AskAbove ==
  ASSUME NEW s \in Sys, s.ok, NEW a \in Addr, NEW v, NEW act \in ProbeAct, NEW id,
         AboveOK(s.at[a], a, v),
         \A c \in Core : Lendable(s, L2(c)),
         LastDirectory => Holders(s.at[a]) \ {id} \subseteq s.at[a][L3].sharer,
         act = "writeback" => Writers(s.at[a]) \subseteq {id}
  PROVE  AskedAbove(s, AskLast(s, a, act, id), a, v, act, id)
<1> DEFINE f == s.at[a]
           r == AskLast(s, a, act, id)
           g == r.s.at[a]
<1>1. Askable(s, a, v, act, id)
  <2>1. \A c \in Others(id) : c \in Core /\ c # id
    BY DEF Others
  <2> QED BY <2>1 DEF Askable, AboveOK, Holders, Writers
<1>2. /\ OnlyAt(s, r.s, a)
      /\ \A c \in ICore : g[L1I(c)] = f[L1I(c)]
      /\ \A c \in Core : c = id => g[L1D(c)] = f[L1D(c)] /\ g[L2(c)] = f[L2(c)]
      /\ \A c \in Others(id) : ProbesCore(f, g, c, v, act)
      /\ r.hit <=> \E c \in Others(id) : Held(f, c)
      /\ r.wb <=> \E c \in Others(id) : Dirty(f, c)
      /\ ~r.wb => g[L3] = f[L3]
      /\ r.wb => \E copy \in Line : copy.data = v /\ AllowWrite(copy) /\ g[L3] = AfterWriteback(f[L3], copy)
  <2>1. AskedOthers(s, r, a, v, act, id)
    BY <1>1, AskOthers
  <2> HIDE DEF r
  <2> QED BY <2>1 DEF AskedOthers
<1>3. g \in Lines
  BY <1>2 DEF OnlyAt, Sys
<1>4. AboveOK(f, a, v)
  OBVIOUS
<1> HIDE DEF f, r, g
<1>5. \A c \in Core : c = id => /\ Held(g, c) <=> Held(f, c)
                                /\ Writer(g, c) <=> Writer(f, c)
                                /\ Dirty(g, c) <=> Dirty(f, c)
  BY <1>2 DEF Held, Writer, Dirty
<1>6. \A c \in Core : c # id => /\ Held(g, c) <=> act # "evict" /\ Held(f, c)
                                /\ ~Writer(g, c) /\ ~Dirty(g, c)
                                /\ CoreOK(g[L1D(c)], g[L2(c)], v)
  BY <1>2 DEF ProbesCore, Others
<1>7. Holders(g) = IF act = "evict" THEN Holders(f) \cap {id} ELSE Holders(f)
  BY <1>5, <1>6 DEF Holders
<1>8. Writers(g) = Writers(f) \cap {id} /\ Dirties(g) = Dirties(f) \cap {id}
  BY <1>5, <1>6 DEF Writers, Dirties
<1>9. AboveOK(g, a, v)
  <2>1. \A c \in Core : CoreOK(g[L1D(c)], g[L2(c)], v)
    BY <1>2, <1>4, <1>6 DEF AboveOK
  <2>2. \A c \in ICore : InstOK(g[L1I(c)], a, v)
    BY <1>2, <1>4 DEF AboveOK
  <2>3. \A c, d \in Core : Writer(g, c) /\ Held(g, d) => c = d
    BY <1>4, <1>5, <1>6 DEF AboveOK
  <2> QED BY <1>3, <2>1, <2>2, <2>3 DEF AboveOK
<1>10. ASSUME NEW k \in Node \ {L3} PROVE g[k].lent => f[k].lent
  <2>1. CASE \E c \in ICore : k = L1I(c)
    BY <1>2, <2>1
  <2>2. CASE \E c \in Core : k = L1D(c) \/ k = L2(c)
    <3>1. PICK c \in Core : k = L1D(c) \/ k = L2(c)
      BY <2>2
    <3>2. CASE c = id
      BY <1>2, <3>1, <3>2
    <3>3. CASE c # id
      BY <1>2, <3>1, <3>3 DEF ProbesCore, Others
    <3> QED BY <3>2, <3>3
  <2> QED BY <2>1, <2>2, Nodes
<1>11. /\ r.hit <=> Holders(f) \ {id} # {}
       /\ r.wb <=> Dirties(f) \ {id} # {}
  BY <1>2 DEF Holders, Dirties, Others
<1>12. AskedAbove(s, r, a, v, act, id)
  BY <1>2, <1>7, <1>8, <1>9, <1>10, <1>11 DEF f, g, AskedAbove
<1> QED BY <1>12 DEF r

(* All cores are asked to give up a block of the L3, which may have a copy *)
(* buffer for it.                                                          *)
AskedToEvict(s, r, a, w, v) ==
  LET f == s.at[a]
      g == r.at[a]
  IN  /\ OnlyAt(s, r, a)
      /\ AboveOK(g, a, v) /\ Holders(g) = {} /\ Writers(g) = {} /\ Dirties(g) = {}
      /\ \A k \in Node \ {L3} : g[k].lent => f[k].lent
      /\ g[L3] \in Line
      /\ g[L3].dirty => g[L3].data = v
      /\ ~g[L3].dirty => w = v

LEMMA AskToEvict ==
  ASSUME NEW s \in Sys, s.ok, NEW a \in Addr, NEW w, NEW v, Rest(s.at[a], w, a, v), \A k \in Node : Lendable(s, k),
         NEW buffered \in BOOLEAN
  PROVE  AskedToEvict(s, ProbeReq(IF buffered THEN Borrow(s, L3, a) ELSE s, L3, a, "evict", NoId).s, a, w, v)
<1> DEFINE f == s.at[a]
           l == f[L3]
           r == ProbeReq(IF buffered THEN Borrow(s, L3, a) ELSE s, L3, a, "evict", NoId).s
           g == r.at[a]
<1>1. L3 \in Node /\ l \in Line /\ ~IsL1(L3) /\ f \in Lines /\ (Exclusive(L3) <=> LastExclusive)
  BY Nodes, Programs DEF Sys, Lines
<1>2. AboveOK(f, a, v) /\ LastOK(l, w, v, Holders(f), Writers(f), Dirties(f))
  BY DEF Rest
<1> DEFINE s0 == IF buffered THEN Put(s, L3, a, Lending(l)) ELSE s
           l0 == IF buffered THEN Lending(l) ELSE l
           q == AskLast(s0, a, "evict", NoId)
<1>3. Borrow(s, L3, a) = Put(s, L3, a, Lending(l))
  BY <1>1, BorrowFacts
<1>4. r = q.s
  <2> HIDE DEF l
  <2> QED BY <1>3 DEF ProbeReq, AskLast
<1> HIDE DEF r, f, l
<1>5. l0 \in Line /\ Lending(l) \in Line
  BY <1>1, LendingFacts
<1>6. OnlyAt(s, s0, a) /\ s0.at[a][L3] = l0 /\ \A k \in Node : k # L3 => s0.at[a][k] = f[k]
  <2>1. CASE buffered
    BY <1>1, <1>5, <2>1, PutFacts DEF f
  <2>2. CASE ~buffered
    BY <2>2 DEF OnlyAt, f, l
  <2> QED BY <2>1, <2>2
<1> HIDE DEF s0
<1>7. s0 \in Sys /\ s0.ok /\ s0.at[a] \in Lines
  BY <1>6 DEF OnlyAt, Sys
<1> DEFINE f0 == s0.at[a]
<1>8. \A c \in Core : (Held(f0, c) <=> Held(f, c)) /\ (Writer(f0, c) <=> Writer(f, c)) /\ (Dirty(f0, c) <=> Dirty(f, c))
                       /\ f0[L1D(c)] = f[L1D(c)] /\ f0[L2(c)] = f[L2(c)]
  BY <1>6, Nodes DEF Held, Writer, Dirty
<1>9. \A c \in ICore : f0[L1I(c)] = f[L1I(c)]
  BY <1>6, Nodes
<1> HIDE DEF f0
<1>10. Holders(f0) = Holders(f) /\ Writers(f0) = Writers(f) /\ Dirties(f0) = Dirties(f)
  BY <1>8 DEF Holders, Writers, Dirties
<1>11. AboveOK(f0, a, v)
  BY <1>2, <1>7, <1>8, <1>9 DEF AboveOK, f0
<1>12. \A c \in Core : Lendable(s0, L2(c))
  <2> TAKE c \in Core
  <2>1. \A b \in Addr : s0.at[b][L2(c)] = s.at[b][L2(c)]
    BY <1>6, Nodes DEF OnlyAt, f
  <2>2. Lendable(s, L2(c))
    BY Nodes
  <2> QED BY <2>1, <2>2 DEF Lendable
<1>13. LastDirectory => Holders(f0) \ {NoId} \subseteq s0.at[a][L3].sharer
  <2>1. l0.sharer = l.sharer
    BY <1>1, LendingFacts
  <2> QED BY <1>2, <1>6, <1>10, <2>1 DEF LastOK
<1>14. NoId \notin Core
  BY HierarchyAssumption DEF NoId
<1>15. \A c \in Core : c # NoId
  BY <1>14
<1> DEFINE g0 == q.s.at[a]
<1>16. /\ OnlyAt(s0, q.s, a)
       /\ AboveOK(g0, a, v)
       /\ Holders(g0) = Holders(f0) \cap {NoId}
       /\ Writers(g0) = Writers(f0) \cap {NoId}
       /\ Dirties(g0) = Dirties(f0) \cap {NoId}
       /\ \A k \in Node \ {L3} : g0[k].lent => f0[k].lent
       /\ q.wb <=> Dirties(f0) \ {NoId} # {}
       /\ ~q.wb => g0[L3] = f0[L3]
       /\ q.wb => \E copy \in Line : copy.data = v /\ AllowWrite(copy) /\ g0[L3] = AfterWriteback(f0[L3], copy)
  <2>1. "evict" \in ProbeAct
    BY DEF ProbeAct
  <2>2. "evict" = "writeback" => Writers(s0.at[a]) \subseteq {NoId}
    OBVIOUS
  <2>3. AskedAbove(s0, q, a, v, "evict", NoId)
    BY <1>7, <1>11, <1>12, <1>13, <2>1, <2>2, AskAbove DEF f0
  <2> HIDE DEF q
  <2> QED BY <2>3 DEF AskedAbove, f0
<1> HIDE DEF q, g0
<1>17. Holders(g0) = {} /\ Writers(g0) = {} /\ Dirties(g0) = {} /\ (q.wb <=> Dirties(f) # {})
  <2>1. Holders(f) \subseteq Core /\ Writers(f) \subseteq Core /\ Dirties(f) \subseteq Core
    BY DEF Holders, Writers, Dirties
  <2> QED BY <1>10, <1>14, <1>16, <2>1
<1>18. /\ g0[L3] \in Line
       /\ g0[L3].dirty => g0[L3].data = v
       /\ ~g0[L3].dirty => w = v
  <2>1. f0[L3] = l0 /\ l0.dirty = l.dirty /\ l0.data = l.data
    BY <1>1, <1>6, LendingFacts DEF f0
  <2>2. CASE q.wb
    <3>1. PICK copy \in Line : copy.data = v /\ g0[L3] = AfterWriteback(l0, copy)
      BY <1>16, <2>1, <2>2
    <3>2. l0 \in Line
      BY <1>5
    <3> HIDE DEF l0
    <3>3. AfterWriteback(l0, copy) \in Line /\ AfterWriteback(l0, copy).dirty = TRUE /\ AfterWriteback(l0, copy).data = copy.data
      BY <3>2, AfterWritebackFacts
    <3> QED BY <3>1, <3>3
  <2>3. CASE ~q.wb
    <3>1. Dirties(f) = {} /\ g0[L3] = l0
      BY <1>16, <1>17, <2>1, <2>3
    <3>2. IF Normal(l) THEN l.data = v /\ (l.dirty \/ w = v) ELSE w = v
      BY <1>2, <3>1 DEF LastOK
    <3>3. ~Normal(l) => ~l.dirty
      BY <1>2, GoneFacts DEF LastOK
    <3> QED BY <1>5, <2>1, <3>1, <3>2, <3>3
  <2> QED BY <2>2, <2>3
<1>19. OnlyAt(s, q.s, a)
  BY <1>6, <1>16, OnlyAtTrans
<1>20. \A k \in Node \ {L3} : g0[k].lent => f[k].lent
  BY <1>6, <1>16 DEF f0
<1> QED BY <1>4, <1>16, <1>17, <1>18, <1>19, <1>20 DEF g0, r, f, l, AskedToEvict

(* The eviction of a block from the L3, which asks the cores unless it is  *)
(* exclusive and has the block in a normal way.                            *)
LEMMA EvictProbesLast ==
  ASSUME NEW s \in Sys, s.ok, NEW a \in Addr, NEW w, NEW v,
         Rest(s.at[a], w, a, v), IsValid(s.at[a][L3]), \A k \in Node : Lendable(s, k)
  PROVE  LET r == EvictProbes(s, L3, a)
             f == s.at[a]
             g == r.at[a]
         IN  /\ OnlyAt(s, r, a)
             /\ AboveOK(g, a, v) /\ Holders(g) = {} /\ Writers(g) = {} /\ Dirties(g) = {}
             /\ \A k \in Node \ {L3} : g[k].lent => f[k].lent
             /\ LastExclusive /\ Normal(f[L3]) => \A k \in Node \ {L3} : g[k] = f[k]
             /\ g[L3] \in Line
             /\ g[L3].dirty => g[L3].data = v
             /\ ~g[L3].dirty => w = v
<1> DEFINE f == s.at[a]
           l == f[L3]
           r == EvictProbes(s, L3, a)
           g == r.at[a]
<1>1. L3 \in Node /\ l \in Line /\ ~IsL1(L3) /\ f \in Lines /\ (Exclusive(L3) <=> LastExclusive)
  BY Nodes, Programs DEF Sys, Lines
<1>2. AboveOK(f, a, v) /\ LastOK(l, w, v, Holders(f), Writers(f), Dirties(f)) /\ IsValid(l)
  BY DEF Rest
<1>3. \A c \in Core : Dirty(f, c) => Held(f, c) /\ Writer(f, c)
  BY <1>2, CoreFacts DEF AboveOK
<1>4. \A c \in Core : Writer(f, c) => Held(f, c)
  BY <1>2, CoreFacts DEF AboveOK
<1>5. CASE LastExclusive /\ Normal(l)
  <2>1. r = s
    BY <1>1, <1>5 DEF EvictProbes
  <2>2. Holders(f) = {}
    BY <1>2, <1>5 DEF LastOK
  <2>3. Writers(f) = {} /\ Dirties(f) = {}
    BY <1>3, <1>4, <2>2 DEF Holders, Writers, Dirties
  <2>4. l.data = v /\ (l.dirty \/ w = v)
    BY <1>2, <1>5, <2>3 DEF LastOK
  <2> HIDE DEF r
  <2> QED BY <1>1, <1>2, <2>1, <2>2, <2>3, <2>4 DEF OnlyAt, r
<1>6. CASE ~(LastExclusive /\ Normal(l))
  <2> DEFINE buffered == l.way = "ext"
             q == ProbeReq(IF buffered THEN Borrow(s, L3, a) ELSE s, L3, a, "evict", NoId)
  <2>1. r = q.s
    BY <1>1, <1>6 DEF EvictProbes
  <2> HIDE DEF r
  <2>2. AskedToEvict(s, q.s, a, w, v)
    <3>1. buffered \in BOOLEAN
      OBVIOUS
    <3> HIDE DEF buffered
    <3> QED BY <3>1, AskToEvict
  <2> QED BY <1>6, <2>1, <2>2 DEF AskedToEvict, r, f, l
<1> QED BY <1>5, <1>6

Steady(s, old, now, B) ==
  s \in Sys /\ s.ok /\ B \subseteq Addr /\ \A b \in B : Settled(s, old, now, b)

LastEvicted(s, t, a, old, now) ==
  /\ Only(s, t, a, Node)
  /\ Settled(t, old, now, a)
  /\ \A k \in Node : t.at[a][k].lent => s.at[a][k].lent
  /\ LastExclusive /\ Normal(s.at[a][L3]) => Only(s, t, a, {L3})

LEMMA NoneOK ==
  ASSUME NEW l, NEW w, l = NoLine
  PROVE  LastOK(l, w, w, {}, {}, {})
BY NoLineType DEF LastOK, Normal

LEMMA LastEvict ==
  ASSUME NEW s \in Sys, s.ok, NEW a \in Addr, NEW old, NEW now \in [Addr -> Val],
         Settled(s, old, now, a), IsValid(s.at[a][L3]), \A k \in Node : Lendable(s, k),
         NEW t \in Evict(AtMemory, s, L3, a)
  PROVE  LastEvicted(s, t, a, old, now)
<1> DEFINE r == EvictProbes(s, L3, a)
           f == s.at[a]
           g == r.at[a]
           n == L3
           v == now[a]
<1>1. /\ OnlyAt(s, r, a)
      /\ AboveOK(g, a, v) /\ Holders(g) = {} /\ Writers(g) = {} /\ Dirties(g) = {}
      /\ \A k \in Node \ {L3} : g[k].lent => f[k].lent
      /\ LastExclusive /\ Normal(f[L3]) => \A k \in Node \ {L3} : g[k] = f[k]
      /\ g[L3] \in Line
      /\ g[L3].dirty => g[L3].data = v
      /\ ~g[L3].dirty => s.mem[a] = v
  BY EvictProbesLast DEF Settled
<1>2. n \in Node /\ v \in Val /\ ~ReleasesClean(n) /\ n = L3
  BY Nodes DEF ReleasesClean
<1> HIDE DEF r, f, g, v, n
<1>3. PICK x \in Writeback(AtMemory, r, n, a, "evict", ReleasesClean(n)) :
        t = [x EXCEPT !.at[a][n] = NoLine, !.ok = @ /\ ~IsDirty(x.at[a][n])]
  BY DEF Evict, r, n
<1>4. x \in Writeback(AtMemory, r, L3, a, "evict", FALSE)
  BY <1>2, <1>3 DEF Writeback
<1>5. r \in Sys /\ r.ok = s.ok /\ r.mem = s.mem
  BY <1>1 DEF OnlyAt
<1>6. /\ Only(r, x, a, {L3})
      /\ x.mem[a] = IF g[L3].dirty THEN g[L3].data ELSE s.mem[a]
      /\ x.at[a][L3] = ToClean(g[L3])
  <2>1. r.at[a][L3].dirty => r.at[a][L3].data \in Val
    BY <1>1, <1>2 DEF g
  <2>2. /\ Only(r, x, a, {L3})
        /\ x.mem[a] = IF r.at[a][L3].dirty THEN r.at[a][L3].data ELSE r.mem[a]
        /\ x.at[a][L3] = ToClean(r.at[a][L3])
    BY <1>4, <1>5, <2>1, LastWriteback
  <2> QED BY <1>5, <2>2 DEF g
<1>7. x.mem[a] = v /\ ~IsDirty(x.at[a][L3])
  <2>1. ~ToClean(g[L3]).dirty
    BY <1>1, ToCleanFacts
  <2> QED BY <1>1, <1>6, <2>1 DEF IsDirty
<1>8. t = Put(x, n, a, NoLine)
  <2>1. (x.ok /\ ~IsDirty(x.at[a][n])) = x.ok
    BY <1>2, <1>5, <1>6, <1>7, s.ok = TRUE DEF Only, Sys
  <2>2. t = [x EXCEPT !.at[a][n] = NoLine, !.ok = x.ok]
    BY <1>3, <2>1
  <2> HIDE DEF NoLine
  <2> QED BY <2>2, <1>6 DEF Put, Sys, Only
<1>9. Only(x, t, a, {L3}) /\ t.at[a][L3] = NoLine /\ t.mem = x.mem
  <2>1. x \in Sys
    BY <1>6 DEF Only
  <2> QED BY <1>2, <1>8, <2>1, OnlyPut, NoLineType
<1>10. Only(s, r, a, Node) /\ (LastExclusive /\ Normal(f[L3]) => Only(s, r, a, {L3}))
  BY <1>1 DEF Only, OnlyAt, f, g
<1>11. Only(r, t, a, {L3})
  BY <1>6, <1>9, OnlyTrans
<1>12. Only(s, t, a, Node) /\ (LastExclusive /\ Normal(f[L3]) => Only(s, t, a, {L3}))
  BY <1>2, <1>10, <1>11, OnlyTrans
<1>13. \A k \in Node : k # L3 => t.at[a][k] = g[k]
  BY <1>11 DEF Only, g
<1> DEFINE h == t.at[a]
<1>14. h \in Lines
  BY <1>12 DEF Only, Sys
<1> HIDE DEF h
<1>15. \A c \in Core : /\ (Held(h, c) <=> Held(g, c)) /\ (Writer(h, c) <=> Writer(g, c)) /\ (Dirty(h, c) <=> Dirty(g, c))
                       /\ h[L1D(c)] = g[L1D(c)] /\ h[L2(c)] = g[L2(c)]
  BY <1>13, Nodes DEF Held, Writer, Dirty, h
<1>16. \A c \in ICore : h[L1I(c)] = g[L1I(c)]
  BY <1>13, Nodes DEF h
<1>17. AboveOK(h, a, v)
  BY <1>1, <1>14, <1>15, <1>16 DEF AboveOK
<1>18. Holders(h) = {} /\ Writers(h) = {} /\ Dirties(h) = {}
  BY <1>1, <1>15 DEF Holders, Writers, Dirties
<1>19. t.mem[a] = v
  BY <1>7, <1>9
<1>20. Settled(t, old, now, a)
  <2>1. h[L3] = NoLine
    BY <1>9 DEF h
  <2>2. LastOK(h[L3], v, v, {}, {}, {})
    BY <2>1, NoneOK
  <2> QED BY <1>17, <1>18, <1>19, <2>2 DEF Settled, Rest, h, v
<1>21. \A k \in Node : t.at[a][k].lent => f[k].lent
  BY <1>1, <1>9, <1>13, NoLineType
<1> QED BY <1>12, <1>20, <1>21 DEF LastEvicted, f

RoomAtLast(s, t, a, old, now, B, way) ==
  /\ Steady(t, old, now, B)
  /\ t.at[a] = s.at[a] /\ t.mem[a] = s.mem[a]
  /\ NoNewLent(s, t)
  /\ LastExclusive /\ way = "normal" => \A b \in Addr, k \in Node : k # L3 => t.at[b][k] = s.at[b][k]

LEMMA LastMakeRoom ==
  ASSUME NEW s, NEW a \in Addr, NEW old, NEW now \in [Addr -> Val], NEW B, NEW way,
         Steady(s, old, now, B), Addr \ {a} \subseteq B, \A k \in Node : Lendable(s, k),
         NEW t \in MakeRoom(AtMemory, s, L3, a, way)
  PROVE  RoomAtLast(s, t, a, old, now, B, way)
<1> DEFINE n == L3
           there == {b \in Addr \ {a} : /\ Set[n[1]][b] = Set[n[1]][a]
                                        /\ IsValid(s.at[b][n])
                                        /\ s.at[b][n].way = way}
<1> HIDE DEF n
<1>1. t = s \/ \E d \in there : t \in Evict(AtMemory, s, n, d)
  BY DEF MakeRoom, n
<1>2. CASE t = s
  BY <1>2 DEF RoomAtLast, NoNewLent, Steady
<1>3. CASE \E d \in there : t \in Evict(AtMemory, s, n, d)
  <2>1. PICK d \in there : t \in Evict(AtMemory, s, n, d)
    BY <1>3
  <2>2. d \in Addr /\ d # a /\ d \in B /\ IsValid(s.at[d][L3]) /\ s.at[d][L3].way = way
    BY DEF n
  <2>3. LastEvicted(s, t, d, old, now)
    BY <2>1, <2>2, LastEvict DEF Steady, n
  <2> HIDE DEF there
  <2>4. t \in Sys /\ t.ok = s.ok /\ \A b \in Addr : b # d => t.at[b] = s.at[b] /\ t.mem[b] = s.mem[b]
    BY <2>3 DEF LastEvicted, Only
  <2>5. Steady(t, old, now, B)
    <3>1. ASSUME NEW b \in B PROVE Settled(t, old, now, b)
      <4>1. b \in Addr
        BY DEF Steady
      <4>2. b # d => t.at[b] = s.at[b] /\ t.mem[b] = s.mem[b]
        BY <2>4, <4>1
      <4> QED BY <2>3, <4>2 DEF Steady, Settled, LastEvicted
    <3> QED BY <2>4, <3>1 DEF Steady
  <2>6. NoNewLent(s, t)
    BY <2>3, <2>4 DEF NoNewLent, LastEvicted
  <2>7. ASSUME LastExclusive, way = "normal", NEW b \in Addr, NEW k \in Node, k # L3
        PROVE  t.at[b][k] = s.at[b][k]
    <3>1. Only(s, t, d, {L3})
      BY <2>2, <2>3, <2>7 DEF LastEvicted, Normal
    <3> QED BY <2>4, <2>7, <3>1 DEF Only
  <2> QED BY <2>2, <2>4, <2>5, <2>6, <2>7 DEF RoomAtLast
<1> QED BY <1>1, <1>2, <1>3

----------------------------------------------------------------------------
(* A block is acquired from the L3.                                        *)
(* What becomes of the caches above the L3 when it serves core c.          *)
ServedAbove(s, t, a, c, act, v) ==
  LET f == s.at[a]
      g == t.at[a]
  IN  /\ AboveOK(g, a, v)
      /\ Holders(g) = (IF act = "fetch_write" THEN Holders(f) \cap {c} ELSE Holders(f))
      /\ Writers(g) = {} /\ Dirties(g) = {}
      /\ g[L1D(c)] = f[L1D(c)] /\ g[L2(c)] = f[L2(c)]
      /\ \A i \in ICore : g[L1I(i)] = f[L1I(i)]
      /\ \A k \in Node \ {L3} : g[k].lent => f[k].lent

(* The lines above the L3 are the same.                                    *)
SameAbove(f, g) == \A k \in Node \ {L3} : g[k] = f[k]

LEMMA SameAboveFacts ==
  ASSUME NEW f, NEW g \in Lines, SameAbove(f, g)
  PROVE  /\ \A a, v : AboveOK(f, a, v) => AboveOK(g, a, v)
         /\ Holders(g) = Holders(f) /\ Writers(g) = Writers(f) /\ Dirties(g) = Dirties(f)
<1>1. \A c \in Core : /\ (Held(g, c) <=> Held(f, c)) /\ (Writer(g, c) <=> Writer(f, c)) /\ (Dirty(g, c) <=> Dirty(f, c))
                      /\ g[L1D(c)] = f[L1D(c)] /\ g[L2(c)] = f[L2(c)]
  BY Nodes DEF Held, Writer, Dirty, SameAbove
<1>2. \A c \in ICore : g[L1I(c)] = f[L1I(c)]
  BY Nodes DEF SameAbove
<1>3. Holders(g) = Holders(f) /\ Writers(g) = Writers(f) /\ Dirties(g) = Dirties(f)
  BY <1>1 DEF Holders, Writers, Dirties
<1>4. ASSUME NEW a, NEW v, AboveOK(f, a, v) PROVE AboveOK(g, a, v)
  BY <1>1, <1>2, <1>4 DEF AboveOK
<1> QED BY <1>3, <1>4

LEMMA HolderFacts ==
  ASSUME NEW f, NEW a, NEW v, AboveOK(f, a, v)
  PROVE  Dirties(f) \subseteq Writers(f) /\ Writers(f) \subseteq Holders(f) /\ Holders(f) \subseteq Core
BY CoreFacts DEF AboveOK, Holders, Writers, Dirties

(* ... those of the cores that are asked, and those of all cores when      *)
(* nobody needs to be asked.                                               *)
LEMMA ServedAsked ==
  ASSUME NEW s \in Sys, NEW s0 \in Sys, s0.ok, NEW a \in Addr, NEW v, NEW c \in Core,
         NEW act \in {"fetch_read", "fetch_write"},
         SameAbove(s.at[a], s0.at[a]), AboveOK(s.at[a], a, v), c \notin Writers(s.at[a]),
         \A k \in Node : Lendable(s0, k),
         LastDirectory => Holders(s.at[a]) \subseteq s0.at[a][L3].sharer
  PROVE  LET sync == IF act = "fetch_write" THEN "evict" ELSE "downgrade"
             r    == AskLast(s0, a, sync, c)
         IN  AskedAbove(s0, r, a, v, sync, c) /\ ServedAbove(s, r.s, a, c, act, v)
<1> DEFINE sync == IF act = "fetch_write" THEN "evict" ELSE "downgrade"
           r    == AskLast(s0, a, sync, c)
           f == s.at[a]
           f0 == s0.at[a]
           g == r.s.at[a]
<1>1. f0 \in Lines
  BY DEF Sys
<1> HIDE DEF f, f0, g
<1>2. AboveOK(f0, a, v) /\ Holders(f0) = Holders(f) /\ Writers(f0) = Writers(f) /\ Dirties(f0) = Dirties(f)
  BY <1>1, SameAboveFacts DEF f, f0
<1>3. sync \in ProbeAct /\ (sync = "evict" <=> act = "fetch_write")
  BY DEF ProbeAct
<1>4. sync = "writeback" => Writers(s0.at[a]) \subseteq {c}
  OBVIOUS
<1> HIDE DEF sync
<1>5. AskedAbove(s0, r, a, v, sync, c)
  <2>1. \A d \in Core : Lendable(s0, L2(d))
    BY Nodes
  <2>2. LastDirectory => Holders(s0.at[a]) \ {c} \subseteq s0.at[a][L3].sharer
    BY <1>2 DEF f, f0
  <2>3. AboveOK(s0.at[a], a, v)
    BY <1>2 DEF f0
  <2> QED BY <1>3, <1>4, <2>1, <2>2, <2>3, AskAbove
<1> HIDE DEF r
<1>6. /\ AboveOK(g, a, v)
      /\ Holders(g) = IF sync = "evict" THEN Holders(f0) \cap {c} ELSE Holders(f0)
      /\ Writers(g) = Writers(f0) \cap {c}
      /\ Dirties(g) = Dirties(f0) \cap {c}
      /\ \A d \in ICore : g[L1I(d)] = f0[L1I(d)]
      /\ g[L1D(c)] = f0[L1D(c)] /\ g[L2(c)] = f0[L2(c)]
      /\ \A k \in Node \ {L3} : g[k].lent => f0[k].lent
  BY <1>5 DEF AskedAbove, f0, g
<1>7. Writers(g) = {} /\ Dirties(g) = {}
  <2>1. Dirties(f) \subseteq Writers(f)
    BY HolderFacts DEF f
  <2> QED BY <1>2, <1>6, <2>1 DEF f
<1>8. \A k \in Node \ {L3} : f0[k] = f[k]
  BY DEF SameAbove, f, f0
<1>9. ServedAbove(s, r.s, a, c, act, v)
  BY <1>2, <1>3, <1>6, <1>7, <1>8, Nodes DEF ServedAbove, f, g
<1> QED BY <1>5, <1>9 DEF r, sync

LEMMA ServedSame ==
  ASSUME NEW s \in Sys, NEW t \in Sys, NEW a \in Addr, NEW v, NEW c \in Core,
         NEW act \in {"fetch_read", "fetch_write"},
         SameAbove(s.at[a], t.at[a]), AboveOK(s.at[a], a, v), Writers(s.at[a]) = {},
         act = "fetch_write" => Holders(s.at[a]) \subseteq {c}
  PROVE  ServedAbove(s, t, a, c, act, v)
<1> DEFINE f == s.at[a]
           g == t.at[a]
<1>1. g \in Lines
  BY DEF Sys
<1> HIDE DEF f, g
<1>2. AboveOK(g, a, v) /\ Holders(g) = Holders(f) /\ Writers(g) = Writers(f) /\ Dirties(g) = Dirties(f)
  BY <1>1, SameAboveFacts DEF f, g
<1>3. Dirties(f) \subseteq Writers(f)
  BY HolderFacts DEF f
<1>4. \A k \in Node \ {L3} : g[k] = f[k]
  BY DEF SameAbove, f, g
<1>5. Writers(f) = {} /\ (act = "fetch_write" => Holders(f) = Holders(f) \cap {c}) /\ AboveOK(f, a, v)
  BY DEF f
<1>6. Dirties(f) = {}
  BY <1>3, <1>5
<1>7. g[L1D(c)] = f[L1D(c)] /\ g[L2(c)] = f[L2(c)] /\ \A i \in ICore : g[L1I(i)] = f[L1I(i)]
  BY <1>4, Nodes
<1>8. Holders(g) = IF act = "fetch_write" THEN Holders(f) \cap {c} ELSE Holders(f)
  BY <1>2, <1>5
<1>9. AboveOK(g, a, v) /\ Writers(g) = {} /\ Dirties(g) = {}
  BY <1>2, <1>5, <1>6
<1> QED BY <1>4, <1>7, <1>8, <1>9 DEF ServedAbove, f, g

LEMMA ServedThen ==
  ASSUME NEW s, NEW r, NEW t \in Sys, NEW a \in Addr, NEW v, NEW c \in Core, NEW act,
         ServedAbove(s, r, a, c, act, v), SameAbove(r.at[a], t.at[a])
  PROVE  ServedAbove(s, t, a, c, act, v)
<1> DEFINE f == s.at[a]
           g == r.at[a]
           h == t.at[a]
<1>1. h \in Lines
  BY DEF Sys
<1> HIDE DEF f, g, h
<1>2. (AboveOK(g, a, v) => AboveOK(h, a, v)) /\ Holders(h) = Holders(g) /\ Writers(h) = Writers(g) /\ Dirties(h) = Dirties(g)
  BY <1>1, SameAboveFacts DEF g, h
<1>4. \A k \in Node \ {L3} : h[k] = g[k]
  BY DEF SameAbove, g, h
<1> QED BY <1>2, <1>4, Nodes DEF ServedAbove, f, g, h

(* A write to a line of the L3 without permission asks the memory for it.  *)
PromotedLine(l, x, w) ==
  /\ x \in Line /\ IsValid(x)
  /\ x.dirty = l.dirty /\ x.sharer = l.sharer /\ x.way = l.way /\ x.lent = l.lent
  /\ x.data = l.data
  /\ AllowWrite(l) => x.outer = l.outer

LEMMA PromoteLast ==
  ASSUME NEW s \in Sys, s.ok, NEW a \in Addr, NEW act \in {"fetch_read", "fetch_write"},
         IsValid(s.at[a][L3]), AllowWrite(s.at[a][L3]) \/ s.mem[a] = s.at[a][L3].data,
         NEW t \in Promote(AtMemory, s, L3, a, Acquire(act))
  PROVE  /\ Only(s, t, a, {L3}) /\ t.mem = s.mem
         /\ PromotedLine(s.at[a][L3], t.at[a][L3], s.mem[a])
<1> DEFINE l == s.at[a][L3]
           cmd == Acquire(act)
<1>1. L3 \in Node /\ l \in Line
  BY Nodes DEF Sys, Lines
<1> HIDE DEF l
<1>2. CASE NeedPromote(cmd, l)
  <2>1. t \in AcquireReq(AtMemory, s, L3, a, "fetch_write") /\ ~AllowWrite(l)
    BY <1>2 DEF Promote, NeedPromote, l
  <2>2. /\ Only(s, t, a, {L3}) /\ t.mem = s.mem
        /\ ReadLine(l, t.at[a][L3], "fetch_write", s.mem[a])
    BY <2>1, MemoryRead DEF l
  <2> QED BY <2>1, <2>2 DEF PromotedLine, ReadLine, IsValid, l
<1>3. CASE ~NeedPromote(cmd, l) /\ NeedPromoteLocal(cmd, l)
  <2>1. t = Put(s, L3, a, ToModified(l, NoId))
    BY <1>3 DEF Promote, l
  <2>2. /\ ToModified(l, NoId) \in Line /\ PromotedLine(l, ToModified(l, NoId), s.mem[a])
    BY <1>1 DEF ToModified, AddSharer, Line, State, PromotedLine, IsValid
  <2> QED BY <1>1, <2>1, <2>2, OnlyPut DEF l
<1>4. CASE ~NeedPromote(cmd, l) /\ ~NeedPromoteLocal(cmd, l)
  <2>1. t = s
    BY <1>4 DEF Promote, l
  <2> QED BY <1>1, <2>1 DEF Only, PromotedLine, l
<1> QED BY <1>2, <1>3, <1>4

(* A call of core c for a finds the blocks settled, and a copy buffer lent *)
(* at most to the L2 that calls.                                           *)
LastCall(s, a, c, old, now) ==
  Steady(s, old, now, Addr) /\ QuietBut(s, a, L2(c)) /\ c \notin Writers(s.at[a])

ServedLine(l, w, v, H) ==
  /\ l \in Line /\ IsValid(l) /\ l.data = v
  /\ l.dirty => AllowWrite(l)
  /\ LastDirectory => H \subseteq l.sharer
  /\ IF LastExclusive THEN ~l.dirty /\ w = v /\ (LastDirectory => l.way = "ext")
     ELSE l.way = "normal" /\ l.outer = "M" /\ ~l.lent /\ (l.dirty \/ w = v)

LastServed(s, t, a, c, act, old, now) ==
  /\ Steady(t, old, now, Addr \ {a})
  /\ t.mem[a] \in {old[a], now[a]}
  /\ ServedAbove(s, t, a, c, act, now[a])
  /\ \A b \in Addr \ {a}, k \in Node : t.at[b][k].lent => s.at[b][k].lent
  /\ ServedLine(t.at[a][L3], t.mem[a], now[a], Holders(t.at[a]))

LEMMA LastCallFacts ==
  ASSUME NEW s, NEW a \in Addr, NEW c \in Core, NEW old, NEW now \in [Addr -> Val], LastCall(s, a, c, old, now)
  PROVE  /\ s \in Sys /\ s.ok /\ L3 \in Node /\ s.at[a][L3] \in Line
         /\ AboveOK(s.at[a], a, now[a])
         /\ LastOK(s.at[a][L3], s.mem[a], now[a], Holders(s.at[a]), Writers(s.at[a]), Dirties(s.at[a]))
         /\ s.mem[a] \in {old[a], now[a]}
         /\ c \notin Writers(s.at[a])
         /\ \A k \in Node : Lendable(s, k)
         /\ \A b \in Addr : ~s.at[b][L3].lent
<1>1. s \in Sys /\ s.ok /\ Settled(s, old, now, a)
  BY DEF LastCall, Steady
<1>2. L3 \in Node /\ L3 # L2(c)
  BY Nodes
<1>3. s.at[a][L3] \in Line
  BY <1>1, <1>2 DEF Sys, Lines
<1>4. \A k \in Node : Lendable(s, k)
  BY QuietFacts DEF LastCall
<1>5. \A b \in Addr : ~s.at[b][L3].lent
  BY <1>2 DEF LastCall, QuietBut
<1>6. c \notin Writers(s.at[a])
  BY DEF LastCall
<1> QED BY <1>1, <1>2, <1>3, <1>4, <1>5, <1>6 DEF Settled, Rest

(* What Only leaves of the other blocks.                                   *)
LEMMA OnlySteady ==
  ASSUME NEW s, NEW t, NEW a \in Addr, NEW old, NEW now, NEW B, Steady(s, old, now, B), NEW K, Only(s, t, a, K)
  PROVE  /\ Steady(t, old, now, B \ {a})
         /\ \A b \in Addr \ {a}, k \in Node : t.at[b][k].lent => s.at[b][k].lent
<1>1. t \in Sys /\ t.ok = s.ok /\ \A b \in Addr : b # a => t.at[b] = s.at[b] /\ t.mem[b] = s.mem[b]
  BY DEF Only
<1>2. \A b \in B \ {a} : Settled(t, old, now, b)
  BY <1>1 DEF Steady, Settled
<1> QED BY <1>1, <1>2 DEF Steady

LEMMA LastInclusive ==
  ASSUME NEW s, NEW a \in Addr, NEW c \in Core, NEW old, NEW now \in [Addr -> Val],
         LastCall(s, a, c, old, now), ~LastExclusive, NEW act \in {"fetch_read", "fetch_write"},
         NEW t \in InclusiveAccess(AtMemory, s, L3, a, Acquire(act), c)
  PROVE  LastServed(s, t, a, c, act, old, now)
<1> DEFINE f == s.at[a]
           l == f[L3]
           v == now[a]
           cmd == Acquire(act)
           ask == IF act = "fetch_write" THEN "evict" ELSE "downgrade"
           sync == IF IsL1(L3) THEN "none" ELSE AccessNeedSync(cmd, l)
           q == AskLast(s, a, ask, c)
           r == IF sync = "none" THEN s ELSE q.s
<1>1. /\ s \in Sys /\ s.ok /\ L3 \in Node /\ l \in Line
      /\ AboveOK(f, a, v) /\ LastOK(l, s.mem[a], v, Holders(f), Writers(f), Dirties(f))
      /\ s.mem[a] \in {old[a], v} /\ c \notin Writers(f)
      /\ \A k \in Node : Lendable(s, k)
      /\ ~l.lent
  BY LastCallFacts
<1>2. ~IsL1(L3) /\ ~Exclusive(L3) /\ v \in Val
  BY Nodes, Programs
<1>3. Dirties(f) \subseteq Writers(f) /\ Writers(f) \subseteq Holders(f) /\ Holders(f) \subseteq Core
  BY <1>1, HolderFacts
<1>4. sync = IF act = "fetch_read" /\ l.st = "S" THEN "none" ELSE ask
  BY <1>2 DEF AccessNeedSync, IsShared, IsRelease, Acquire
<1>5. LastDirectory => Holders(f) \subseteq l.sharer
  BY <1>1 DEF LastOK
<1>6. Steady(s, old, now, Addr)
  BY DEF LastCall
<1> HIDE DEF f, l, v
<1>7. CASE IsValid(l)
  <2>1. t \in Promote(AtMemory, r, L3, a, cmd)
    <3>1. t \in Promote(AtMemory, IF sync = "none" THEN s ELSE ProbeReq(s, L3, a, sync, c).s, L3, a, cmd)
      BY <1>7 DEF InclusiveAccess, l, f
    <3>2. sync # "none" => ProbeReq(s, L3, a, sync, c) = q
      BY <1>4 DEF ProbeReq, AskLast
    <3> HIDE DEF sync, q, cmd
    <3> QED BY <3>1, <3>2
  <2>2. Normal(l) /\ l.outer = "M" /\ AllowWrite(l)
    BY <1>1, <1>7, GoneFacts DEF LastOK, AllowWrite
  <2>3. Dirties(f) = {} => l.data = v /\ (l.dirty \/ s.mem[a] = v)
    BY <1>1, <2>2 DEF LastOK
  <2>4. /\ OnlyAt(s, r, a)
        /\ ServedAbove(s, r, a, c, act, v)
        /\ r.at[a][L3] \in Line /\ Normal(r.at[a][L3]) /\ r.at[a][L3].outer = "M"
        /\ r.at[a][L3].data = v /\ (r.at[a][L3].dirty \/ s.mem[a] = v)
        /\ r.at[a][L3].sharer = l.sharer /\ ~r.at[a][L3].lent
    <3>1. CASE sync = "none"
      <4>1. r = s /\ act = "fetch_read" /\ l.st = "S"
        BY <1>4, <3>1
      <4>2. Writers(f) = {}
        BY <1>1, <4>1 DEF LastOK
      <4>3. SameAbove(s.at[a], s.at[a]) /\ (act = "fetch_write" => Holders(s.at[a]) \subseteq {c})
        BY <4>1 DEF SameAbove
      <4> HIDE DEF r
      <4>4. ServedAbove(s, r, a, c, act, v)
        BY <1>1, <4>1, <4>2, <4>3, ServedSame DEF f
      <4> QED BY <1>1, <1>3, <2>2, <2>3, <4>1, <4>2, <4>4 DEF OnlyAt, l, f
    <3>2. CASE sync # "none"
      <4>1. r = q.s
        BY <3>2
      <4>2. AskedAbove(s, q, a, v, ask, c) /\ ServedAbove(s, q.s, a, c, act, v)
        <5>1. SameAbove(s.at[a], s.at[a])
          BY DEF SameAbove
        <5> QED BY <1>1, <1>5, <5>1, ServedAsked DEF f, l
      <4> HIDE DEF q, r, ask
      <4>3. /\ OnlyAt(s, q.s, a)
            /\ q.wb <=> Dirties(f) \ {c} # {}
            /\ ~q.wb => q.s.at[a][L3] = l
            /\ q.wb => \E copy \in Line : copy.data = v /\ AllowWrite(copy) /\ q.s.at[a][L3] = AfterWriteback(l, copy)
        BY <4>2 DEF AskedAbove, f, l
      <4>4. q.wb <=> Dirties(f) # {}
        BY <1>1, <1>3, <4>3
      <4>5. CASE q.wb
        <5>1. PICK copy \in Line : copy.data = v /\ q.s.at[a][L3] = AfterWriteback(l, copy)
          BY <4>3, <4>5
        <5>2. LET x == AfterWriteback(l, copy)
              IN  /\ x \in Line /\ x.dirty /\ x.data = v /\ x.lent = l.lent /\ x.way = l.way /\ x.sharer = l.sharer
                  /\ IsValid(x) /\ x.outer = l.outer
          BY <1>1, <1>7, <5>1, AfterWritebackFacts
        <5> QED BY <1>1, <2>2, <4>1, <4>2, <4>3, <5>1, <5>2 DEF Normal
      <4>6. CASE ~q.wb
        BY <1>1, <2>2, <2>3, <4>1, <4>2, <4>3, <4>4, <4>6
      <4> QED BY <4>5, <4>6
    <3> QED BY <3>1, <3>2
  <2> HIDE DEF r
  <2>5. r \in Sys /\ r.ok = s.ok /\ r.mem = s.mem
    BY <2>4 DEF OnlyAt
  <2>6. IsValid(r.at[a][L3]) /\ AllowWrite(r.at[a][L3])
    BY <2>4 DEF Normal, AllowWrite
  <2>7. /\ Only(r, t, a, {L3}) /\ t.mem = r.mem
        /\ PromotedLine(r.at[a][L3], t.at[a][L3], r.mem[a])
    BY <1>1, <2>1, <2>5, <2>6, PromoteLast
  <2>8. SameAbove(r.at[a], t.at[a]) /\ t \in Sys
    BY <2>7 DEF SameAbove, Only
  <2>9. ServedAbove(s, t, a, c, act, v)
    BY <2>4, <2>8, ServedThen
  <2>10. Only(s, t, a, Node)
    <3>1. Only(s, r, a, Node)
      BY <2>4 DEF OnlyAt, Only
    <3>2. {L3} \subseteq Node
      BY <1>1
    <3> QED BY <2>7, <3>1, <3>2, OnlyTrans
  <2>11. ServedLine(t.at[a][L3], t.mem[a], v, Holders(t.at[a]))
    <3>1. Holders(t.at[a]) \subseteq Holders(f)
      BY <2>9 DEF ServedAbove, f
    <3> QED BY <1>5, <2>4, <2>5, <2>6, <2>7, <3>1 DEF PromotedLine, ServedLine, Normal, AllowWrite
  <2>12. t.mem[a] \in {old[a], v}
    BY <1>1, <2>5, <2>7
  <2> QED BY <1>6, <2>9, <2>10, <2>11, <2>12, OnlySteady DEF LastServed, v
<1>8. CASE ~IsValid(l)
  <2>1. t \in Fetch(AtMemory, s, L3, a, cmd)
    BY <1>8 DEF InclusiveAccess, l, f
  <2>2. PICK r1 \in MakeRoom(AtMemory, s, L3, a, "normal") :
          \E t1 \in AcquireReq(AtMemory, r1, L3, a, CmdForOuterAcquire(cmd)) :
            t = Put(t1, L3, a, [t1.at[a][L3] EXCEPT !.way = "normal"])
    BY <2>1 DEF Fetch
  <2>3. PICK t1 \in AcquireReq(AtMemory, r1, L3, a, CmdForOuterAcquire(cmd)) :
            t = Put(t1, L3, a, [t1.at[a][L3] EXCEPT !.way = "normal"])
    BY <2>2
  <2>4. CmdForOuterAcquire(cmd) = act
    BY DEF CmdForOuterAcquire, IsWrite, Acquire
  <2>5. RoomAtLast(s, r1, a, old, now, Addr, "normal")
    BY <1>1, <1>6, <2>2, LastMakeRoom
  <2>6. Steady(r1, old, now, Addr) /\ r1.at[a] = f /\ r1.mem[a] = s.mem[a] /\ NoNewLent(s, r1)
    BY <2>5 DEF RoomAtLast, f
  <2>7. Gone(l) /\ Holders(f) = {} /\ Writers(f) = {} /\ Dirties(f) = {}
    BY <1>1, <1>2, <1>3, <1>8, Programs DEF LastOK, Normal
  <2>8. s.mem[a] = v
    BY <1>1, <2>7, GoneFacts DEF LastOK
  <2>9. /\ Only(r1, t1, a, {L3}) /\ t1.mem = r1.mem /\ ReadLine(l, t1.at[a][L3], act, v)
    BY <2>3, <2>4, <2>6, <2>8, MemoryRead DEF Steady, l
  <2> DEFINE x == t1.at[a][L3]
             y == [x EXCEPT !.way = "normal"]
  <2>10. /\ y \in Line /\ IsValid(y) /\ y.way = "normal" /\ y.outer = "M" /\ ~y.lent /\ y.data = v /\ y.dirty = FALSE
    <3>1. x \in Line /\ x.st # "I" /\ x.outer = "M" /\ x.data = v /\ ~x.lent /\ x.dirty = FALSE
      BY <1>1, <2>7, <2>9, GoneFacts DEF ReadLine
    <3> HIDE DEF x
    <3> QED BY <3>1 DEF Line, IsValid
  <2> HIDE DEF y
  <2>11. Only(t1, t, a, {L3}) /\ t.at[a][L3] = y /\ t.mem = t1.mem
    <3>1. t1 \in Sys
      BY <2>9 DEF Only
    <3> QED BY <1>1, <2>3, <2>10, <3>1, OnlyPut DEF y
  <2>12. Only(r1, t, a, {L3})
    BY <2>9, <2>11, OnlyTrans
  <2>13. t \in Sys /\ SameAbove(f, t.at[a])
    BY <2>6, <2>12 DEF Only, SameAbove
  <2>14. ServedAbove(s, t, a, c, act, v)
    BY <1>1, <2>7, <2>13, ServedSame DEF f
  <2>15. Holders(t.at[a]) = {}
    BY <2>7, <2>14 DEF ServedAbove, f
  <2>16. ServedLine(t.at[a][L3], t.mem[a], v, Holders(t.at[a]))
    BY <2>6, <2>8, <2>9, <2>10, <2>11, <2>15 DEF ServedLine
  <2>17. t.mem[a] \in {old[a], v}
    BY <1>1, <2>6, <2>9, <2>11
  <2>18. Steady(t, old, now, Addr \ {a}) /\ \A b \in Addr \ {a}, k \in Node : t.at[b][k].lent => r1.at[b][k].lent
    BY <2>6, <2>12, OnlySteady
  <2>19. \A b \in Addr \ {a}, k \in Node : t.at[b][k].lent => s.at[b][k].lent
    BY <2>6, <2>18 DEF NoNewLent
  <2> QED BY <2>14, <2>16, <2>17, <2>18, <2>19 DEF LastServed, v
<1> QED BY <1>7, <1>8

(* An exclusive L3 asks the other cores for a block that it does not have  *)
(* in a normal way, and gets the content from them by way of the memory,   *)
(* or from the memory.                                                     *)
FetchedLast(s, t, a, c, act, old, now) ==
  /\ Only(s, t, a, Node)
  /\ ServedAbove(s, t, a, c, act, now[a])
  /\ t.mem[a] = now[a]
  /\ LET l == s.at[a][L3]
         x == t.at[a][L3]
     IN  x \in Line /\ IsValid(x) /\ x.data = now[a] /\ ~x.dirty /\ x.way = l.way /\ x.sharer = l.sharer

AskFor(act) == IF act = "fetch_write" THEN "evict" ELSE "downgrade"

LEMMA FetchLast ==
  ASSUME NEW s, NEW a \in Addr, NEW c \in Core, NEW old, NEW now \in [Addr -> Val],
         LastCall(s, a, c, old, now), LastExclusive, ~Normal(s.at[a][L3]),
         LastDirectory => Holders(s.at[a]) \subseteq s.at[a][L3].sharer,
         NEW act \in {"fetch_read", "fetch_write"},
         NEW t \in FetchLine(AtMemory, s, L3, a, Acquire(act), c).out
  PROVE  FetchedLast(s, t, a, c, act, old, now)
<1> DEFINE f == s.at[a]
           l == f[L3]
           v == now[a]
           cmd == Acquire(act)
           s0 == Put(s, L3, a, Lending(l))
           q == AskLast(s0, a, AskFor(act), c)
<1>1. /\ s \in Sys /\ s.ok /\ L3 \in Node /\ l \in Line
      /\ AboveOK(f, a, v) /\ LastOK(l, s.mem[a], v, Holders(f), Writers(f), Dirties(f))
      /\ c \notin Writers(f)
      /\ \A k \in Node : Lendable(s, k)
  BY LastCallFacts
<1>2. v \in Val /\ \A b \in Addr : ~s.at[b][L3].lent
  BY LastCallFacts
<1>3. Dirties(f) \subseteq Writers(f)
  BY <1>1, HolderFacts
<1>4. ~l.dirty
  BY <1>1, GoneFacts DEF LastOK
<1>5. Borrow(s, L3, a) = s0
  BY <1>1, BorrowFacts
<1>6. SyncAct(cmd) = AskFor(act) /\ CmdForOuterAcquire(cmd) = act
  BY DEF SyncAct, AskFor, CmdForOuterAcquire, IsWrite, Acquire
<1>7. t \in IF q.wb THEN WritebackReq(AtMemory, q.s, L3, a, "writeback")
            ELSE AcquireReq(AtMemory, q.s, L3, a, act)
  <2>1. ProbeReq(s0, L3, a, AskFor(act), c) = q
    BY DEF ProbeReq, AskLast
  <2> HIDE DEF q, s0, cmd
  <2>2. t \in Fetched(AtMemory, q, L3, a, cmd).out
    BY <1>5, <1>6, <2>1 DEF FetchLine, cmd
  <2> QED BY <1>6, <2>2 DEF Fetched
<1>8. Lending(l) \in Line /\ Lending(l).dirty = l.dirty /\ Lending(l).way = l.way /\ Lending(l).sharer = l.sharer
  BY <1>1, LendingFacts
<1> HIDE DEF f, l, v, s0
<1>9. OnlyAt(s, s0, a) /\ s0.at[a][L3] = Lending(l) /\ \A k \in Node : k # L3 => s0.at[a][k] = f[k]
  BY <1>1, <1>8, PutFacts DEF s0, f
<1>10. s0 \in Sys /\ s0.ok /\ s0.mem = s.mem /\ SameAbove(s.at[a], s0.at[a])
  BY <1>1, <1>9 DEF OnlyAt, SameAbove, f
<1>11. \A k \in Node : Lendable(s0, k)
  <2> TAKE k \in Node
  <2>1. CASE k = L3
    BY <1>2, <1>9, <2>1 DEF Lendable, OnlyAt
  <2>2. CASE k # L3
    <3>1. \A b \in Addr : s0.at[b][k] = s.at[b][k]
      BY <1>9, <2>2 DEF OnlyAt, f
    <3> QED BY <1>1, <3>1 DEF Lendable
  <2> QED BY <2>1, <2>2
<1>12. AskedAbove(s0, q, a, v, AskFor(act), c) /\ ServedAbove(s, q.s, a, c, act, v)
  <2>1. LastDirectory => Holders(s.at[a]) \subseteq s0.at[a][L3].sharer
    BY <1>8, <1>9 DEF l, f
  <2> QED BY <1>1, <1>10, <1>11, <2>1, ServedAsked DEF f, AskFor
<1> HIDE DEF q
<1>13. /\ OnlyAt(s0, q.s, a)
       /\ q.wb <=> Dirties(s0.at[a]) \ {c} # {}
       /\ ~q.wb => q.s.at[a][L3] = Lending(l)
       /\ q.wb => \E copy \in Line : copy.data = v /\ AllowWrite(copy) /\ q.s.at[a][L3] = AfterWriteback(Lending(l), copy)
  BY <1>9, <1>12 DEF AskedAbove
<1>14. q.s \in Sys /\ q.s.ok = s.ok /\ q.s.mem = s.mem /\ Only(s, q.s, a, Node)
  BY <1>9, <1>10, <1>13 DEF OnlyAt, Only
<1>15. ~q.wb => s.mem[a] = v
  <2>1. Dirties(s0.at[a]) = Dirties(f)
    <3>1. s0.at[a] \in Lines
      BY <1>10 DEF Sys
    <3> QED BY <1>10, <3>1, SameAboveFacts DEF f
  <2>2. ~q.wb => Dirties(f) = {}
    BY <1>1, <1>3, <1>13, <2>1
  <2> QED BY <1>1, <2>2 DEF LastOK, l, f
<1> DEFINE y == q.s.at[a][L3]
           x == t.at[a][L3]
<1>16. /\ Only(q.s, t, a, {L3}) /\ t.mem[a] = v
       /\ x \in Line /\ IsValid(x) /\ x.data = v /\ ~x.dirty /\ x.way = l.way /\ x.sharer = l.sharer
  <2>1. CASE q.wb
    <3>1. y \in Line /\ y.data = v /\ y.way = l.way /\ y.sharer = l.sharer /\ IsValid(y)
      <4>1. PICK copy \in Line : copy.data = v /\ y = AfterWriteback(Lending(l), copy)
        BY <1>13, <2>1
      <4>2. LET z == AfterWriteback(Lending(l), copy)
            IN  z \in Line /\ z.data = copy.data /\ z.way = Lending(l).way /\ z.sharer = Lending(l).sharer /\ IsValid(z)
        BY <1>8, AfterWritebackFacts
      <4> QED BY <1>8, <4>1, <4>2
    <3>2. Only(q.s, t, a, {L3}) /\ t.mem[a] = y.data /\ x = ToClean(y)
      <4>1. t \in WritebackReq(AtMemory, q.s, L3, a, "writeback")
        BY <1>7, <2>1
      <4>2. q.s.at[a][L3].data \in Val
        BY <1>2, <3>1
      <4> QED BY <1>14, <4>1, <4>2, MemoryWrite
    <3>3. /\ ToClean(y) \in Line /\ ~ToClean(y).dirty /\ ToClean(y).st = y.st
          /\ ToClean(y).data = y.data /\ ToClean(y).way = y.way /\ ToClean(y).sharer = y.sharer
      BY <3>1, ToCleanFacts
    <3> HIDE DEF x, y
    <3> QED BY <3>1, <3>2, <3>3 DEF IsValid
  <2>2. CASE ~q.wb
    <3>1. t \in AcquireReq(AtMemory, q.s, L3, a, act)
      BY <1>7, <2>2
    <3>2. Only(q.s, t, a, {L3}) /\ t.mem = q.s.mem /\ ReadLine(q.s.at[a][L3], x, act, q.s.mem[a])
      BY <1>1, <1>14, <3>1, MemoryRead
    <3> HIDE DEF x
    <3> QED BY <1>4, <1>8, <1>13, <1>14, <1>15, <2>2, <3>2 DEF ReadLine, IsValid
  <2> QED BY <2>1, <2>2
<1>17. t \in Sys /\ SameAbove(q.s.at[a], t.at[a])
  BY <1>16 DEF Only, SameAbove
<1>18. ServedAbove(s, t, a, c, act, v)
  BY <1>12, <1>17, ServedThen
<1>19. Only(s, t, a, Node)
  <2>1. {L3} \subseteq Node
    BY <1>1
  <2> QED BY <1>14, <1>16, <2>1, OnlyTrans
<1> QED BY <1>16, <1>18, <1>19 DEF FetchedLast, l, f, v

(* A hit on a normal way of an exclusive L3, above which there is nothing. *)
MovedLast(s, t, a, c, act, old, now) ==
  /\ Only(s, t, a, {L3})
  /\ ServedAbove(s, t, a, c, act, now[a])
  /\ Holders(s.at[a]) = {}
  /\ t.mem[a] = now[a]
  /\ LET x == t.at[a][L3]
     IN  x \in Line /\ IsValid(x) /\ x.data = now[a] /\ ~x.dirty

LEMMA MoveUpLast ==
  ASSUME NEW s, NEW a \in Addr, NEW c \in Core, NEW old, NEW now \in [Addr -> Val],
         LastCall(s, a, c, old, now), LastExclusive, Normal(s.at[a][L3]),
         NEW act \in {"fetch_read", "fetch_write"},
         NEW t \in MoveUp(AtMemory, s, L3, a, Acquire(act))
  PROVE  MovedLast(s, t, a, c, act, old, now)
<1> DEFINE f == s.at[a]
           l == f[L3]
           v == now[a]
           cmd == Acquire(act)
<1>1. /\ s \in Sys /\ s.ok /\ L3 \in Node /\ l \in Line
      /\ AboveOK(f, a, v) /\ LastOK(l, s.mem[a], v, Holders(f), Writers(f), Dirties(f))
  BY LastCallFacts
<1>2. v \in Val
  OBVIOUS
<1>3. Dirties(f) \subseteq Writers(f) /\ Writers(f) \subseteq Holders(f)
  BY <1>1, HolderFacts
<1> HIDE DEF f, l, v
<1>4. Holders(f) = {} /\ Writers(f) = {} /\ Dirties(f) = {}
  BY <1>1, <1>3 DEF LastOK, l, f
<1>5. l.data = v /\ (l.dirty \/ s.mem[a] = v) /\ (l.dirty => AllowWrite(l)) /\ IsValid(l)
  BY <1>1, <1>4, GoneFacts DEF LastOK, l, f, Normal
<1>6. PICK u \in Promote(AtMemory, s, L3, a, cmd) : t \in Writeback(AtMemory, u, L3, a, "writeback", FALSE)
  BY DEF MoveUp
<1>7. Only(s, u, a, {L3}) /\ u.mem = s.mem /\ PromotedLine(l, u.at[a][L3], s.mem[a])
  BY <1>1, <1>5, <1>6, PromoteLast DEF l, f
<1> DEFINE y == u.at[a][L3]
<1>8. y \in Line /\ y.data = v /\ y.dirty = l.dirty /\ IsValid(y)
  BY <1>5, <1>7 DEF PromotedLine
<1>9. u \in Sys
  BY <1>7 DEF Only
<1>10. /\ Only(u, t, a, {L3})
       /\ t.mem[a] = IF y.dirty THEN y.data ELSE u.mem[a]
       /\ t.at[a][L3] = ToClean(y)
  BY <1>2, <1>6, <1>8, <1>9, LastWriteback
<1> HIDE DEF y
<1>11. Only(s, t, a, {L3})
  BY <1>7, <1>10, OnlyTrans
<1>12. t.mem[a] = v
  BY <1>5, <1>7, <1>8, <1>10
<1>13. t \in Sys /\ SameAbove(s.at[a], t.at[a])
  BY <1>11 DEF Only, SameAbove
<1>14. ServedAbove(s, t, a, c, act, v)
  BY <1>1, <1>4, <1>13, ServedSame DEF f
<1>15. /\ ToClean(y) \in Line /\ IsValid(ToClean(y)) /\ ToClean(y).data = v /\ ~ToClean(y).dirty
  <2>1. y \in Line /\ y.data = v /\ y.st # "I"
    BY <1>8 DEF IsValid
  <2>2. /\ ToClean(y) \in Line /\ ~ToClean(y).dirty /\ ToClean(y).st = y.st /\ ToClean(y).data = y.data
    BY <2>1, ToCleanFacts
  <2> QED BY <2>1, <2>2 DEF IsValid
<1> QED BY <1>4, <1>10, <1>11, <1>12, <1>14, <1>15 DEF MovedLast, f, v

LEMMA LastBroadcast ==
  ASSUME NEW s, NEW a \in Addr, NEW c \in Core, NEW old, NEW now \in [Addr -> Val],
         LastCall(s, a, c, old, now), LastExclusive, ~LastDirectory,
         NEW act \in {"fetch_read", "fetch_write"},
         NEW t \in BroadcastAccess(AtMemory, s, L3, a, Acquire(act), c)
  PROVE  LastServed(s, t, a, c, act, old, now)
<1>1. Steady(s, old, now, Addr) /\ c # NoId
  BY Nodes DEF LastCall
<1>2. LastOK(s.at[a][L3], s.mem[a], now[a], Holders(s.at[a]), Writers(s.at[a]), Dirties(s.at[a]))
  BY LastCallFacts
<1>3. CASE IsValid(s.at[a][L3])
  <2>1. Normal(s.at[a][L3])
    BY <1>2, <1>3, GoneFacts DEF LastOK
  <2>2. t \in MoveUp(AtMemory, s, L3, a, Acquire(act))
    BY <1>1, <1>3 DEF BroadcastAccess
  <2>3. MovedLast(s, t, a, c, act, old, now)
    BY <2>1, <2>2, MoveUpLast
  <2>4. /\ Steady(t, old, now, Addr \ {a})
        /\ \A b \in Addr \ {a}, k \in Node : t.at[b][k].lent => s.at[b][k].lent
    BY <1>1, <2>3, OnlySteady DEF MovedLast
  <2> QED BY <2>3, <2>4 DEF LastServed, MovedLast, ServedLine
<1>4. CASE ~IsValid(s.at[a][L3])
  <2>1. ~Normal(s.at[a][L3])
    BY <1>4 DEF Normal
  <2>2. t \in FetchLine(AtMemory, s, L3, a, Acquire(act), c).out
    BY <1>1, <1>4 DEF BroadcastAccess, Keep
  <2>3. FetchedLast(s, t, a, c, act, old, now)
    BY <2>1, <2>2, FetchLast
  <2>4. /\ Steady(t, old, now, Addr \ {a})
        /\ \A b \in Addr \ {a}, k \in Node : t.at[b][k].lent => s.at[b][k].lent
    BY <1>1, <2>3, OnlySteady DEF FetchedLast
  <2> QED BY <2>3, <2>4 DEF LastServed, FetchedLast, ServedLine
<1> QED BY <1>3, <1>4

(* A block gets an extended way of an L3 with a directory.                 *)
PlacedLast(s, t, a, old, now, B) ==
  /\ Steady(t, old, now, B \ {a})
  /\ t.mem[a] = s.mem[a]
  /\ SameAbove(s.at[a], t.at[a])
  /\ \A b \in Addr, k \in Node : t.at[b][k].lent => s.at[b][k].lent
  /\ LET l == s.at[a][L3]
         x == t.at[a][L3]
     IN  /\ x \in Line /\ x.st = l.st /\ x.outer = l.outer /\ x.dirty = l.dirty /\ x.sharer = l.sharer
         /\ x.data = l.data /\ x.way = "ext"

LEMMA PlaceLast ==
  ASSUME NEW s, NEW a \in Addr, NEW old, NEW now \in [Addr -> Val], NEW B,
         Steady(s, old, now, B), Addr \ {a} \subseteq B, \A k \in Node : Lendable(s, k),
         NEW t \in Place(AtMemory, s, L3, a, "ext")
  PROVE  PlacedLast(s, t, a, old, now, B)
<1> DEFINE l == s.at[a][L3]
           y == [l EXCEPT !.way = "ext", !.lent = @ /\ "ext" # "normal"]
<1>1. s \in Sys /\ L3 \in Node /\ l \in Line
  BY Nodes DEF Steady, Sys, Lines
<1>2. PICK r \in MakeRoom(AtMemory, s, L3, a, "ext") :
         t = Put(r, L3, a, [r.at[a][L3] EXCEPT !.way = "ext", !.lent = @ /\ "ext" # "normal"])
  BY DEF Place
<1>3. RoomAtLast(s, r, a, old, now, B, "ext")
  BY <1>2, LastMakeRoom
<1>4. Steady(r, old, now, B) /\ r.at[a] = s.at[a] /\ r.mem[a] = s.mem[a] /\ NoNewLent(s, r)
  BY <1>3 DEF RoomAtLast
<1>5. t = Put(r, L3, a, y)
  BY <1>2, <1>4
<1>6. /\ y \in Line /\ y.st = l.st /\ y.outer = l.outer /\ y.dirty = l.dirty /\ y.sharer = l.sharer
      /\ y.data = l.data /\ y.way = "ext" /\ (y.lent => l.lent)
  BY <1>1 DEF Line
<1> HIDE DEF y, l
<1>7. Only(r, t, a, {L3}) /\ t.at[a][L3] = y /\ t.mem = r.mem
  BY <1>1, <1>4, <1>5, <1>6, OnlyPut DEF Steady
<1>8. Steady(t, old, now, B \ {a}) /\ \A b \in Addr \ {a}, k \in Node : t.at[b][k].lent => r.at[b][k].lent
  BY <1>4, <1>7, OnlySteady
<1>9. SameAbove(s.at[a], t.at[a])
  BY <1>4, <1>7 DEF SameAbove, Only
<1>10. \A b \in Addr, k \in Node : t.at[b][k].lent => s.at[b][k].lent
  <2>1. \A k \in Node : t.at[a][k].lent => s.at[a][k].lent
    <3> TAKE k \in Node
    <3>1. CASE k = L3
      BY <1>6, <1>7, <3>1 DEF l
    <3>2. CASE k # L3
      BY <1>9, <3>2 DEF SameAbove
    <3> QED BY <3>1, <3>2
  <2> QED BY <1>4, <1>8, <2>1 DEF NoNewLent
<1> QED BY <1>4, <1>6, <1>7, <1>8, <1>9, <1>10 DEF PlacedLast, l

LEMMA LastWithDirectory ==
  ASSUME NEW s, NEW a \in Addr, NEW c \in Core, NEW old, NEW now \in [Addr -> Val],
         LastCall(s, a, c, old, now), LastExclusive, LastDirectory,
         NEW act \in {"fetch_read", "fetch_write"},
         NEW t \in DirectoryAccess(AtMemory, s, L3, a, Acquire(act), c)
  PROVE  LastServed(s, t, a, c, act, old, now)
<1> DEFINE f == s.at[a]
           l == f[L3]
           v == now[a]
           cmd == Acquire(act)
<1>1. /\ s \in Sys /\ s.ok /\ L3 \in Node /\ l \in Line
      /\ AboveOK(f, a, v) /\ LastOK(l, s.mem[a], v, Holders(f), Writers(f), Dirties(f))
      /\ \A k \in Node : Lendable(s, k)
      /\ \A b \in Addr : ~s.at[b][L3].lent
  BY LastCallFacts
<1>2. Steady(s, old, now, Addr) /\ Addr \ {a} \subseteq Addr \ {a} /\ (Addr \ {a}) \ {a} = Addr \ {a}
  BY DEF LastCall
<1>3. Dirties(f) \subseteq Writers(f) /\ Writers(f) \subseteq Holders(f)
  BY <1>1, HolderFacts
<1>4. CmdForOuterAcquire(cmd) = act
  BY DEF CmdForOuterAcquire, IsWrite, Acquire
<1> HIDE DEF f, l, v, cmd
<1>5. CASE Normal(l)
  <2>1. PICK u \in MoveUp(AtMemory, s, L3, a, cmd) : t \in Place(AtMemory, u, L3, a, "ext")
    <3>1. l.way # "ext"
      BY <1>5 DEF Normal
    <3>2. t \in UNION {Place(AtMemory, u, L3, a, "ext") : u \in MoveUp(AtMemory, s, L3, a, cmd)}
      BY <1>5, <3>1 DEF DirectoryAccess, l, f, cmd
    <3> QED BY <3>2
  <2>2. MovedLast(s, u, a, c, act, old, now)
    BY <1>5, <2>1, MoveUpLast DEF l, f, cmd
  <2>3. /\ Steady(u, old, now, Addr \ {a})
        /\ \A b \in Addr \ {a}, k \in Node : u.at[b][k].lent => s.at[b][k].lent
    BY <1>2, <2>2, OnlySteady DEF MovedLast
  <2>4. \A b \in Addr, k \in Node : k # L3 => u.at[b][k] = s.at[b][k]
    BY <2>2 DEF MovedLast, Only
  <2>5. \A k \in Node : Lendable(u, k)
    <3> TAKE k \in Node
    <3>1. CASE k = L3
      <4>1. \A b \in Addr \ {a} : ~u.at[b][L3].lent
        BY <1>1, <2>3
      <4> QED BY <3>1, <4>1 DEF Lendable
    <3>2. CASE k # L3
      BY <1>1, <2>4, <3>2 DEF Lendable
    <3> QED BY <3>1, <3>2
  <2>6. PlacedLast(u, t, a, old, now, Addr \ {a})
    BY <1>2, <2>1, <2>3, <2>5, PlaceLast
  <2>7. Steady(t, old, now, Addr \ {a}) /\ t \in Sys
    BY <1>2, <2>6 DEF PlacedLast, Steady
  <2>8. ServedAbove(s, t, a, c, act, v)
    BY <2>2, <2>6, <2>7, ServedThen DEF MovedLast, PlacedLast, v
  <2>9. Holders(t.at[a]) = {}
    BY <2>2, <2>8 DEF ServedAbove, MovedLast
  <2>10. ServedLine(t.at[a][L3], t.mem[a], v, Holders(t.at[a]))
    BY <2>2, <2>6, <2>9 DEF MovedLast, PlacedLast, ServedLine, IsValid, v
  <2>11. t.mem[a] = v
    BY <2>2, <2>6 DEF MovedLast, PlacedLast, v
  <2>12. \A b \in Addr \ {a}, k \in Node : t.at[b][k].lent => s.at[b][k].lent
    BY <2>3, <2>6 DEF PlacedLast
  <2> QED BY <2>7, <2>8, <2>10, <2>11, <2>12 DEF LastServed, v
<1>6. CASE ~Normal(l) /\ l.way = "ext"
  <2>1. IsValid(l)
    BY <1>1, <1>6, GoneFacts DEF LastOK
  <2>2. PICK u \in FetchLine(AtMemory, s, L3, a, cmd, c).out :
          t = u \/ t \in Promote(AtMemory, u, L3, a, cmd)
    <3>1. t \in Serve(AtMemory, FetchLine(AtMemory, s, L3, a, cmd, c), L3, a, cmd)
      BY <1>6 DEF DirectoryAccess, l, f, cmd
    <3>2. CASE FetchLine(AtMemory, s, L3, a, cmd, c).wb
      BY <3>1, <3>2 DEF Serve
    <3>3. CASE ~FetchLine(AtMemory, s, L3, a, cmd, c).wb
      BY <3>1, <3>3 DEF Serve
    <3> QED BY <3>2, <3>3
  <2>3. FetchedLast(s, u, a, c, act, old, now)
    <3>1. Holders(f) \subseteq l.sharer
      BY <1>1 DEF LastOK
    <3> QED BY <1>6, <2>2, <3>1, FetchLast DEF l, f, cmd
  <2> DEFINE y == u.at[a][L3]
             x == t.at[a][L3]
  <2>4. y \in Line /\ IsValid(y) /\ y.data = v /\ ~y.dirty /\ y.way = l.way /\ y.sharer = l.sharer
        /\ u.mem[a] = v /\ u \in Sys /\ u.ok = s.ok /\ Only(s, u, a, Node)
    BY <2>3 DEF FetchedLast, l, f, v, Only
  <2>5. /\ Only(u, t, a, {L3}) /\ t.mem = u.mem
        /\ x \in Line /\ IsValid(x) /\ x.data = v /\ ~x.dirty /\ x.way = l.way /\ x.sharer = l.sharer
    <3>1. CASE t = u
      BY <2>4, <3>1 DEF Only
    <3>2. CASE t \in Promote(AtMemory, u, L3, a, cmd)
      <4>1. Only(u, t, a, {L3}) /\ t.mem = u.mem /\ PromotedLine(y, x, u.mem[a])
        BY <1>1, <2>4, <3>2, PromoteLast DEF cmd
      <4> HIDE DEF x, y
      <4> QED BY <2>4, <4>1 DEF PromotedLine
    <3> QED BY <2>2, <3>1, <3>2
  <2>6. t \in Sys /\ SameAbove(u.at[a], t.at[a])
    BY <2>5 DEF Only, SameAbove
  <2>7. ServedAbove(s, t, a, c, act, v)
    BY <2>3, <2>6, ServedThen DEF FetchedLast, v
  <2>8. Only(s, t, a, Node)
    <3>1. {L3} \subseteq Node
      BY <1>1
    <3> QED BY <2>4, <2>5, <3>1, OnlyTrans
  <2>9. /\ Steady(t, old, now, Addr \ {a})
        /\ \A b \in Addr \ {a}, k \in Node : t.at[b][k].lent => s.at[b][k].lent
    BY <1>2, <2>8, OnlySteady
  <2>10. Holders(t.at[a]) \subseteq l.sharer
    <3>1. Holders(t.at[a]) \subseteq Holders(f)
      BY <2>7 DEF ServedAbove, f
    <3> QED BY <1>1, <3>1 DEF LastOK
  <2>11. ServedLine(x, t.mem[a], v, Holders(t.at[a]))
    BY <1>6, <2>4, <2>5, <2>10 DEF ServedLine
  <2> QED BY <2>4, <2>5, <2>7, <2>9, <2>11 DEF LastServed, v
<1>7. CASE ~Normal(l) /\ l.way # "ext"
  <2>1. PICK u \in Place(AtMemory, s, L3, a, "ext") : t \in AcquireReq(AtMemory, Borrow(u, L3, a), L3, a, act)
    <3>1. t \in UNION {AcquireReq(AtMemory, Borrow(u, L3, a), L3, a, CmdForOuterAcquire(cmd))
                         : u \in Place(AtMemory, s, L3, a, "ext")}
      BY <1>7 DEF DirectoryAccess, l, f, cmd
    <3> QED BY <1>4, <3>1
  <2>2. Gone(l) /\ Holders(f) = {} /\ Writers(f) = {} /\ Dirties(f) = {}
    BY <1>1, <1>3, <1>7, GoneFacts DEF LastOK
  <2>3. s.mem[a] = v
    BY <1>1, <2>2, GoneFacts DEF LastOK
  <2>4. PlacedLast(s, u, a, old, now, Addr)
    BY <1>1, <1>2, <2>1, PlaceLast
  <2> DEFINE y == u.at[a][L3]
             w == Put(u, L3, a, Lending(y))
             x == t.at[a][L3]
  <2>5. /\ Steady(u, old, now, Addr \ {a}) /\ u.mem[a] = v /\ SameAbove(f, u.at[a])
        /\ \A b \in Addr, k \in Node : u.at[b][k].lent => s.at[b][k].lent
        /\ y \in Line /\ y.dirty = FALSE /\ y.way = "ext"
    BY <2>2, <2>3, <2>4, GoneFacts DEF PlacedLast, l, f
  <2>6. Lendable(u, L3) /\ u \in Sys /\ u.ok
    BY <1>1, <2>5 DEF Lendable, Steady
  <2>7. Borrow(u, L3, a) = w
    BY <1>1, <2>6, BorrowFacts
  <2>8. Lending(y) \in Line /\ Lending(y).dirty = FALSE /\ Lending(y).way = "ext"
    BY <2>5, LendingFacts
  <2> HIDE DEF y
  <2>9. Only(u, w, a, {L3}) /\ w.at[a][L3] = Lending(y) /\ w.mem = u.mem
    <3>1. u \in Sys /\ L3 \in Node /\ Lending(y) \in Line
      BY <2>6, <2>8, Nodes
    <3> QED BY <3>1, OnlyAssign
  <2> HIDE DEF w
  <2>10. w \in Sys /\ w.ok
    BY <2>6, <2>9 DEF Only
  <2>11. Only(w, t, a, {L3}) /\ t.mem = w.mem /\ ReadLine(Lending(y), x, act, v)
    <3>1. t \in AcquireReq(AtMemory, w, L3, a, act)
      BY <2>1, <2>7
    <3>2. Only(w, t, a, {L3}) /\ t.mem = w.mem /\ ReadLine(w.at[a][L3], t.at[a][L3], act, w.mem[a])
      BY <2>10, <3>1, MemoryRead
    <3> QED BY <2>5, <2>9, <3>2
  <2> HIDE DEF x
  <2>12. x \in Line /\ IsValid(x) /\ x.data = v /\ ~x.dirty /\ x.way = "ext"
    BY <2>8, <2>11 DEF ReadLine, IsValid
  <2>13. Only(u, t, a, {L3})
    BY <2>9, <2>11, OnlyTrans
  <2>14. t \in Sys /\ SameAbove(s.at[a], t.at[a])
    BY <2>5, <2>13 DEF Only, SameAbove, f
  <2>15. ServedAbove(s, t, a, c, act, v)
    BY <1>1, <2>2, <2>14, ServedSame DEF f
  <2>16. /\ Steady(t, old, now, Addr \ {a})
         /\ \A b \in Addr \ {a}, k \in Node : t.at[b][k].lent => u.at[b][k].lent
    BY <1>2, <2>5, <2>13, OnlySteady
  <2>17. \A b \in Addr \ {a}, k \in Node : t.at[b][k].lent => s.at[b][k].lent
    BY <2>5, <2>16
  <2>18. Holders(t.at[a]) = {}
    BY <2>2, <2>15 DEF ServedAbove, f
  <2>19. t.mem[a] = v
    BY <2>5, <2>9, <2>11
  <2>20. ServedLine(x, t.mem[a], v, Holders(t.at[a]))
    BY <2>12, <2>18, <2>19 DEF ServedLine
  <2> QED BY <2>15, <2>16, <2>17, <2>19, <2>20 DEF LastServed, v, x
<1> QED BY <1>5, <1>6, <1>7

LEMMA LastAccess ==
  ASSUME NEW s, NEW a \in Addr, NEW c \in Core, NEW old, NEW now \in [Addr -> Val],
         LastCall(s, a, c, old, now), NEW act \in {"fetch_read", "fetch_write"},
         NEW t \in AccessLine(AtMemory, s, L3, a, Acquire(act), c)
  PROVE  LastServed(s, t, a, c, act, old, now)
<1>1. CASE ~LastExclusive
  BY <1>1, LastInclusive, Programs DEF AccessLine
<1>2. CASE LastExclusive /\ LastDirectory
  BY <1>2, LastWithDirectory, Programs DEF AccessLine
<1>3. CASE LastExclusive /\ ~LastDirectory
  BY <1>3, LastBroadcast, Programs DEF AccessLine
<1> QED BY <1>1, <1>2, <1>3

----------------------------------------------------------------------------
(* What a core holds while it is served: the others agree and do not       *)
(* write.                                                                  *)
Clear(f, c) == \A d \in Core : d # c => ~Held(f, d)

Around(f, a, c, v) ==
  /\ f \in Lines
  /\ \A d \in Core : d # c => CoreOK(f[L1D(d)], f[L2(d)], v) /\ ~Writer(f, d)
  /\ \A i \in ICore : InstOK(f[L1I(i)], a, v)

With(f, c) == Holders(f) \cup {c}

LEMMA LastMono ==
  ASSUME NEW l, NEW w, NEW v, NEW H, NEW W, NEW D, LastOK(l, w, v, H, W, D),
         NEW G, G \subseteq H, NEW X, X \subseteq W, NEW E, D \subseteq E
  PROVE  LastOK(l, w, v, G, X, E)
BY DEF LastOK

LEMMA RestAround ==
  ASSUME NEW f, NEW w, NEW a, NEW v, Rest(f, w, a, v), NEW c \in Core, Held(f, c)
  PROVE  /\ Around(f, a, c, v) /\ CoreOK(f[L1D(c)], f[L2(c)], v)
         /\ Writer(f, c) => Clear(f, c)
         /\ LastOK(f[L3], w, v, With(f, c), Writers(f), Dirties(f))
         /\ Writers(f) = (IF Writer(f, c) THEN {c} ELSE {})
         /\ Dirties(f) = (IF Dirty(f, c) THEN {c} ELSE {})
<1>1. AboveOK(f, a, v) /\ LastOK(f[L3], w, v, Holders(f), Writers(f), Dirties(f))
  BY DEF Rest
<1>2. \A d \in Core : Writer(f, d) => d = c
  BY <1>1 DEF AboveOK
<1>3. Writers(f) = (IF Writer(f, c) THEN {c} ELSE {})
  BY <1>2 DEF Writers
<1>4. \A d \in Core : Dirty(f, d) => Writer(f, d)
  BY <1>1, CoreFacts DEF AboveOK
<1>5. Dirties(f) = (IF Dirty(f, c) THEN {c} ELSE {})
  BY <1>2, <1>4 DEF Dirties
<1>6. With(f, c) = Holders(f)
  BY DEF With, Holders
<1>7. Writer(f, c) => Clear(f, c)
  BY <1>1 DEF AboveOK, Clear
<1>8. Around(f, a, c, v) /\ CoreOK(f[L1D(c)], f[L2(c)], v)
  BY <1>1, <1>2 DEF AboveOK, Around
<1> QED BY <1>1, <1>3, <1>5, <1>6, <1>7, <1>8

LEMMA AroundRest ==
  ASSUME NEW f, NEW w, NEW a, NEW v, NEW c \in Core, Around(f, a, c, v),
         CoreOK(f[L1D(c)], f[L2(c)], v), Writer(f, c) => Clear(f, c),
         NEW H, NEW W, NEW D, LastOK(f[L3], w, v, H, W, D), Holders(f) \subseteq H,
         Writer(f, c) => c \in W, D \subseteq Dirties(f)
  PROVE  Rest(f, w, a, v)
<1>1. \A d \in Core : CoreOK(f[L1D(d)], f[L2(d)], v)
  BY DEF Around
<1>2. \A d \in Core : Writer(f, d) => d = c
  BY DEF Around
<1>3. AboveOK(f, a, v)
  BY <1>1, <1>2 DEF AboveOK, Around, Clear
<1>4. Writers(f) \subseteq W
  BY <1>2 DEF Writers
<1>5. LastOK(f[L3], w, v, Holders(f), Writers(f), Dirties(f))
  BY <1>4, LastMono
<1> QED BY <1>3, <1>5 DEF Rest

(* A change of the lines of c and of the L3.                               *)
LEMMA AroundSame ==
  ASSUME NEW f, NEW a, NEW v, NEW c \in Core, NEW g \in Lines,
         \A k \in Node \ {L1D(c), L2(c), L3} : g[k] = f[k]
  PROVE  /\ Around(f, a, c, v) => Around(g, a, c, v)
         /\ Clear(g, c) <=> Clear(f, c)
         /\ With(g, c) = With(f, c)
<1>1. \A d \in Core : d # c => g[L1D(d)] = f[L1D(d)] /\ g[L2(d)] = f[L2(d)]
  BY Nodes
<1>2. \A i \in ICore : g[L1I(i)] = f[L1I(i)]
  BY Nodes
<1>3. \A d \in Core : d # c => (Held(g, d) <=> Held(f, d)) /\ (Writer(g, d) <=> Writer(f, d))
  BY <1>1 DEF Held, Writer
<1>4. With(g, c) = With(f, c)
  BY <1>3 DEF With, Holders
<1>5. Clear(g, c) <=> Clear(f, c)
  BY <1>3 DEF Clear
<1>6. Around(f, a, c, v) => Around(g, a, c, v)
  BY <1>1, <1>2, <1>3 DEF Around
<1> QED BY <1>4, <1>5, <1>6

----------------------------------------------------------------------------
(* An L2 acquires a block from the L3.                                     *)
LastGrant(l, act, c) == Returned(LineGranted(L3, act, l, c))
LastGranted(l, act, c) == IF Directory(L3) THEN Dir!Granted(act, l, c) ELSE Granted(act, l, c)

LastGrantOK(l, w, v, H, c, act) ==
  LET y == LastGrant(l, act, c)
      o == LastGranted(l, act, c)
  IN  /\ y \in Line /\ ~y.lent
      /\ o \in State /\ o # "I"
      /\ act = "fetch_write" => o = "M"
      /\ o \in {"E", "M"} => H \subseteq {c}
      /\ act = "fetch_read" => o # "M"
      /\ LastOK(y, w, v, H \cup {c}, IF o \in {"E", "M"} THEN {c} ELSE {}, {})

LEMMA GrantInclusive ==
  ASSUME ~LastExclusive, ~LastDirectory,
         NEW l, NEW w, NEW v \in Val, NEW H \in SUBSET Core, NEW c \in Core, NEW act \in {"fetch_read", "fetch_write"},
         ServedLine(l, w, v, H), act = "fetch_write" => H \subseteq {c}
  PROVE  LastGrantOK(l, w, v, H, c, act)
<1>1. ~Directory(L3) /\ ~Exclusive(L3)
  BY Programs
<1>2. LastGranted(l, act, c) = IF act = "fetch_read" THEN "S" ELSE "M"
  BY <1>1 DEF LastGranted, Granted
<1> DEFINE y == LastGrant(l, act, c)
<1>3. y = Returned(MetaAfterGrant(act, l, c))
  BY <1>1 DEF LastGrant, LineGranted
<1>4. l \in Line /\ IsValid(l) /\ l.data = v /\ l.way = "normal" /\ l.outer = "M" /\ ~l.lent /\ (l.dirty \/ w = v)
  BY DEF ServedLine
<1> HIDE DEF y
<1>5. /\ y \in Line /\ y.st = (IF act = "fetch_read" THEN "S" ELSE "M") /\ y.data = v /\ y.way = "normal"
      /\ y.outer = "M" /\ ~y.lent /\ y.dirty = l.dirty
  BY <1>3, <1>4 DEF MetaAfterGrant, ToShared, ToModified, AddSharer, Returned, Line, State
<1>6. LastOK(y, w, v, H \cup {c}, IF act = "fetch_read" THEN {} ELSE {c}, {})
  BY <1>4, <1>5 DEF LastOK, Normal, IsValid, AllowWrite
<1> QED BY <1>2, <1>5, <1>6 DEF LastGrantOK, State, y

LEMMA GrantDirectory ==
  ASSUME LastDirectory,
         NEW l, NEW w, NEW v \in Val, NEW H \in SUBSET Core, NEW c \in Core, NEW act \in {"fetch_read", "fetch_write"},
         ServedLine(l, w, v, H), act = "fetch_write" => H \subseteq {c}
  PROVE  LastGrantOK(l, w, v, H, c, act)
<1>1. Directory(L3)
  BY Programs
<1> DEFINE y == LastGrant(l, act, c)
           S == l.sharer \cup {c}
           one == S = {c}
           o == IF act = "fetch_read" THEN IF one THEN "E" ELSE "S" ELSE "M"
           z == [l EXCEPT !.st = o, !.sharer = S]
<1>2. l \in Line /\ IsValid(l) /\ l.data = v /\ (l.dirty => AllowWrite(l)) /\ H \subseteq l.sharer
      /\ IF LastExclusive THEN ~l.dirty /\ w = v /\ l.way = "ext"
         ELSE l.way = "normal" /\ l.outer = "M" /\ ~l.lent /\ (l.dirty \/ w = v)
  BY DEF ServedLine
<1>3. c # NoId
  BY Nodes
<1>4. LastGranted(l, act, c) = o
  <2>1. Dir!ToShared(l, c) = [l EXCEPT !.st = "S", !.sharer = S]
    BY <1>2, <1>3 DEF Dir!ToShared, Dir!AddSharer, NoId, Dir!NoId, Line
  <2>2. Dir!IsExclusiveSharer(Dir!ToShared(l, c), c) <=> one
    BY <1>2, <2>1 DEF Dir!IsExclusiveSharer, Line
  <2> HIDE DEF one
  <2> QED BY <1>1, <2>2 DEF LastGranted, Dir!Granted
<1>5. Dir!MetaAfterGrant(act, l, c) = z
  <2>1. Dir!ToShared(l, c) = [l EXCEPT !.st = "S", !.sharer = S]
    BY <1>2, <1>3 DEF Dir!ToShared, Dir!AddSharer, NoId, Dir!NoId, Line
  <2>2. Dir!IsExclusiveSharer(Dir!ToShared(l, c), c) <=> one
    BY <1>2, <2>1 DEF Dir!IsExclusiveSharer, Line
  <2>3. Dir!ToModified(l, c) = [l EXCEPT !.st = "M", !.sharer = S]
    BY <1>2, <1>3 DEF Dir!ToModified, Dir!AddSharer, NoId, Dir!NoId, Line
  <2>4. Dir!ToExclusive(Dir!ToShared(l, c), c) = [l EXCEPT !.st = "E", !.sharer = S]
    BY <1>2, <1>3, <2>1 DEF Dir!ToExclusive, Dir!AddSharer, NoId, Dir!NoId, Line
  <2>5. CASE act = "fetch_read" /\ one
    <3>1. Dir!MetaAfterGrant(act, l, c) = Dir!ToExclusive(Dir!ToShared(l, c), c)
      BY <2>2, <2>5 DEF Dir!MetaAfterGrant
    <3> QED BY <2>4, <2>5, <3>1
  <2>6. CASE act = "fetch_read" /\ ~one
    <3>1. Dir!MetaAfterGrant(act, l, c) = Dir!ToShared(l, c)
      BY <2>2, <2>6 DEF Dir!MetaAfterGrant
    <3> QED BY <2>1, <2>6, <3>1
  <2>7. CASE act = "fetch_write"
    <3>1. Dir!MetaAfterGrant(act, l, c) = Dir!ToModified(l, c)
      BY <2>7 DEF Dir!MetaAfterGrant
    <3> QED BY <2>3, <2>7, <3>1
  <2> QED BY <2>5, <2>6, <2>7
<1>6. y = Returned(z)
  BY <1>1, <1>5 DEF LastGrant, LineGranted
<1>7. o \in State /\ o # "I" /\ (act = "fetch_write" => o = "M") /\ (act = "fetch_read" => o # "M")
      /\ (o \in {"E", "M"} => H \subseteq {c})
  BY <1>2 DEF State
<1> HIDE DEF o
<1>8. /\ z \in Line /\ z.st = o /\ z.outer = l.outer /\ z.dirty = l.dirty /\ z.data = v /\ z.way = l.way /\ z.lent = l.lent
      /\ z.sharer = S
  BY <1>2, <1>7 DEF Line
<1> HIDE DEF z, S, y
<1>9. CASE LastExclusive
  <2>1. y = [z EXCEPT !.data = NoVal, !.lent = FALSE]
    BY <1>2, <1>6, <1>8, <1>9 DEF Returned
  <2>2. /\ y \in Line /\ ~y.lent /\ y.st = o /\ y.dirty = FALSE /\ y.data = NoVal /\ y.way = "ext" /\ y.sharer = S
    BY <1>2, <1>8, <1>9, <2>1 DEF Line
  <2>3. LastOK(y, w, v, H \cup {c}, IF o \in {"E", "M"} THEN {c} ELSE {}, {})
    BY <1>2, <1>7, <1>9, <2>2 DEF LastOK, Normal, IsValid, S
  <2> QED BY <1>4, <1>7, <2>2, <2>3 DEF LastGrantOK, y
<1>10. CASE ~LastExclusive
  <2>1. y = z
    BY <1>2, <1>6, <1>8, <1>10 DEF Returned
  <2>2. LastOK(y, w, v, H \cup {c}, IF o \in {"E", "M"} THEN {c} ELSE {}, {})
    BY <1>2, <1>7, <1>8, <1>10, <2>1 DEF LastOK, Normal, IsValid, AllowWrite, S
  <2> QED BY <1>2, <1>4, <1>7, <1>8, <1>10, <2>1, <2>2 DEF LastGrantOK, y
<1> QED BY <1>9, <1>10

LEMMA GrantExclusive ==
  ASSUME LastExclusive, ~LastDirectory,
         NEW l, NEW w, NEW v \in Val, NEW H \in SUBSET Core, NEW c \in Core, NEW act \in {"fetch_read", "fetch_write"},
         ServedLine(l, w, v, H), act = "fetch_write" => H \subseteq {c}
  PROVE  LastGrantOK(l, w, v, H, c, act)
<1>1. ~Directory(L3) /\ Exclusive(L3) /\ c # NoId
  BY Programs, Nodes
<1>2. LastGranted(l, act, c) = IF act = "fetch_read" THEN "S" ELSE "M"
  BY <1>1 DEF LastGranted, Granted
<1>3. LastGrant(l, act, c) = NoLine
  BY <1>1, NoLineType DEF LastGrant, LineGranted
<1>4. w = v
  BY DEF ServedLine
<1>5. LastOK(NoLine, w, v, H \cup {c}, IF act = "fetch_read" THEN {} ELSE {c}, {})
  BY <1>4, NoLineType DEF LastOK, Normal
<1> QED BY <1>2, <1>3, <1>5, NoLineType DEF LastGrantOK, State

LEMMA LastGrants ==
  ASSUME NEW l, NEW w, NEW v \in Val, NEW H \in SUBSET Core, NEW c \in Core, NEW act \in {"fetch_read", "fetch_write"},
         ServedLine(l, w, v, H), act = "fetch_write" => H \subseteq {c}
  PROVE  LastGrantOK(l, w, v, H, c, act)
BY GrantInclusive, GrantDirectory, GrantExclusive

(* What the L2 of core c has then.                                         *)
MidGrant(m, x, act, v) ==
  /\ x \in Line /\ x.data = v
  /\ x.st = (IF act = "fetch_read" THEN "S" ELSE "M")
  /\ x.outer # "I" /\ (act = "fetch_write" => x.outer = "M")
  /\ x.dirty = m.dirty /\ x.sharer = m.sharer /\ x.way = m.way /\ x.lent = m.lent

GrantedLast(s, t, a, c, act, old, now) ==
  LET f == s.at[a]
      g == t.at[a]
      x == g[L2(c)]
  IN  /\ Steady(t, old, now, Addr \ {a})
      /\ t.mem[a] \in {old[a], now[a]}
      /\ Around(g, a, c, now[a])
      /\ g[L1D(c)] = f[L1D(c)] /\ \A i \in ICore : g[L1I(i)] = f[L1I(i)]
      /\ MidGrant(f[L2(c)], x, act, now[a])
      /\ AllowWrite(x) => Clear(g, c)
      /\ LastOK(g[L3], t.mem[a], now[a], With(g, c), IF AllowWrite(x) THEN {c} ELSE {}, {})
      /\ NoNewLent(s, t)

(* The state and the content that the L3 hands out.                        *)
LEMMA GrantUpdate ==
  ASSUME NEW s, NEW a \in Addr, NEW c \in Core, NEW act \in {"fetch_read", "fetch_write"},
         NEW t \in AcquireReq(AtL3, s, L2(c), a, act)
  PROVE  \E t0 \in AccessLine(AtMemory, s, L3, a, Acquire(act), c) :
           t0 \in Sys /\ t0.ok =>
             LET l == t0.at[a][L3]
                 m == t0.at[a][L2(c)]
                 y == LastGrant(l, act, c)
                 o == LastGranted(l, act, c)
                 z == [m EXCEPT !.data = l.data, !.outer = o]
                 x == MetaAfterFetch(act, z)
             IN  z \in Line /\ y \in Line /\ x \in Line /\ FetchAssertion(act, z) =>
                   t = Put(Put(Put(t0, L3, a, y), L2(c), a, z), L2(c), a, x)
<1> DEFINE i == L2(c)
           n == L3
<1>1. i \in Node /\ n \in Node /\ i # n /\ Outer(i) = n /\ Id(i) = c
  BY Nodes
<1> HIDE DEF i, n
<1>2. AtL3(s, <<i, a, act>>) = AcquireResp(AtMemory, s, i, a, act)
  BY DEF AtL3, OuterResp
<1>3. PICK r \in AcquireResp(AtMemory, s, i, a, act) :
        t = [r EXCEPT !.at[a][i] = MetaAfterFetch(act, @), !.ok = @ /\ FetchAssertion(act, r.at[a][i])]
  BY <1>2 DEF AcquireReq, i
<1>4. PICK t0 \in AccessLine(AtMemory, s, n, a, Acquire(act), c) :
        r = [t0 EXCEPT !.at[a][n] = LastGrant(t0.at[a][n], act, c),
                       !.at[a][i] = [t0.at[a][i] EXCEPT !.data = t0.at[a][n].data,
                                                        !.outer = LastGranted(t0.at[a][n], act, c)],
                       !.ok = t0.ok /\ GrantAssertion(act)]
  <2>1. n = L3 /\ Outer(i) = n /\ Id(i) = c
    BY <1>1 DEF n
  <2>2. PICK t0 \in AccessLine(AtMemory, s, Outer(i), a, Acquire(act), Id(i)) :
          r = [t0 EXCEPT !.at[a][Outer(i)] = Returned(LineGranted(Outer(i), act, @, Id(i))),
                         !.at[a][i] = [@ EXCEPT !.data = t0.at[a][Outer(i)].data,
                                                !.outer = IF Directory(Outer(i)) THEN Dir!Granted(act, t0.at[a][Outer(i)], Id(i))
                                                          ELSE Granted(act, t0.at[a][Outer(i)], Id(i))],
                         !.ok = @ /\ GrantAssertion(act)]
    BY DEF AcquireResp
  <2>3. t0 \in AccessLine(AtMemory, s, n, a, Acquire(act), c)
    BY <2>1, <2>2
  <2>4. LastGrant(t0.at[a][n], act, c) = Returned(LineGranted(Outer(i), act, t0.at[a][Outer(i)], Id(i)))
    BY <2>1 DEF LastGrant
  <2>5. LastGranted(t0.at[a][n], act, c) = IF Directory(Outer(i)) THEN Dir!Granted(act, t0.at[a][Outer(i)], Id(i))
                                           ELSE Granted(act, t0.at[a][Outer(i)], Id(i))
    BY <2>1 DEF LastGranted
  <2> QED BY <2>1, <2>2, <2>3, <2>4, <2>5
<1> SUFFICES ASSUME t0 \in Sys, t0.ok
             PROVE  LET l == t0.at[a][L3]
                        m == t0.at[a][L2(c)]
                        y == LastGrant(l, act, c)
                        o == LastGranted(l, act, c)
                        z == [m EXCEPT !.data = l.data, !.outer = o]
                        x == MetaAfterFetch(act, z)
                    IN  z \in Line /\ y \in Line /\ x \in Line /\ FetchAssertion(act, z) =>
                          t = Put(Put(Put(t0, L3, a, y), L2(c), a, z), L2(c), a, x)
  BY <1>4 DEF n
<1> DEFINE l == t0.at[a][n]
           m == t0.at[a][i]
           y == LastGrant(l, act, c)
           o == LastGranted(l, act, c)
           z == [m EXCEPT !.data = l.data, !.outer = o]
           x == MetaAfterFetch(act, z)
<1>5. SUFFICES ASSUME z \in Line, y \in Line, x \in Line, FetchAssertion(act, z)
               PROVE  t = Put(Put(Put(t0, n, a, y), i, a, z), i, a, x)
  BY DEF n, i
<1> HIDE DEF y, o, x
<1>6. t0.at[a] \in Lines /\ t0.ok = TRUE /\ GrantAssertion(act)
  BY DEF Sys, GrantAssertion
<1>7. r = Put(Put(t0, n, a, y), i, a, z)
  <2>1. r = [t0 EXCEPT !.at[a][n] = y, !.at[a][i] = z, !.ok = t0.ok]
    BY <1>4, <1>6 DEF y, o
  <2> HIDE DEF z
  <2>2. [t0 EXCEPT !.at[a][n] = y, !.at[a][i] = z, !.ok = t0.ok]
          = [[t0 EXCEPT !.at[a][n] = y] EXCEPT !.at[a][i] = z]
    BY DEF Sys
  <2> QED BY <2>1, <2>2 DEF Put
<1> HIDE DEF z
<1>8. r \in Sys /\ r.ok = TRUE /\ r.at[a][i] = z
  <2>1. OnlyAt(t0, Put(t0, n, a, y), a)
    BY <1>1, <1>5, PutFacts
  <2>2. Put(t0, n, a, y) \in Sys /\ Put(t0, n, a, y).ok = TRUE
    BY <1>6, <2>1 DEF OnlyAt
  <2>3. OnlyAt(Put(t0, n, a, y), r, a) /\ r.at[a][i] = z
    BY <1>1, <1>5, <1>7, <2>2, PutFacts
  <2> QED BY <2>2, <2>3 DEF OnlyAt
<1>9. t = Put(r, i, a, x)
  <2>1. t = [r EXCEPT !.at[a][i] = x, !.ok = r.ok]
    BY <1>3, <1>5, <1>8 DEF x
  <2> QED BY <1>8, <2>1 DEF Put, Sys
<1> QED BY <1>7, <1>9

Acquired(m, d, o, act) ==
  LET z == [m EXCEPT !.data = d, !.outer = o]
      x == MetaAfterFetch(act, z)
  IN  z \in Line /\ x \in Line /\ FetchAssertion(act, z) /\ MidGrant(m, x, act, d) /\ x.outer = o

LEMMA MidGrantFacts ==
  ASSUME NEW m \in Line, NEW d \in Val, NEW o \in State, o # "I", NEW act \in {"fetch_read", "fetch_write"},
         act = "fetch_write" => o = "M"
  PROVE  Acquired(m, d, o, act)
<1> DEFINE z == [m EXCEPT !.data = d, !.outer = o]
           x == MetaAfterFetch(act, z)
<1>1. /\ z \in Line /\ z.data = d /\ z.outer = o /\ z.st = m.st /\ z.dirty = m.dirty
      /\ z.sharer = m.sharer /\ z.way = m.way /\ z.lent = m.lent
  BY DEF Line
<1> HIDE DEF z
<1>2. x = [z EXCEPT !.st = IF act = "fetch_read" THEN "S" ELSE "M"]
  BY <1>1 DEF MetaAfterFetch, ToShared, ToModified, AddSharer, Line
<1>3. FetchAssertion(act, z)
  BY <1>1 DEF FetchAssertion, AllowWrite
<1>4. /\ x \in Line /\ x.st = (IF act = "fetch_read" THEN "S" ELSE "M") /\ x.outer = z.outer /\ x.data = z.data
      /\ x.dirty = z.dirty /\ x.sharer = z.sharer /\ x.way = z.way /\ x.lent = z.lent
  BY <1>1, <1>2 DEF Line, State
<1> HIDE DEF x
<1> QED BY <1>1, <1>3, <1>4 DEF MidGrant, x, z, Acquired

LEMMA GrantLast ==
  ASSUME NEW s, NEW a \in Addr, NEW c \in Core, NEW old, NEW now \in [Addr -> Val],
         LastCall(s, a, c, old, now), NEW act \in {"fetch_read", "fetch_write"},
         NEW t \in AcquireReq(AtL3, s, L2(c), a, act)
  PROVE  GrantedLast(s, t, a, c, act, old, now)
<1> DEFINE i == L2(c)
           v == now[a]
<1>0. i \in Node /\ L3 \in Node /\ i # L3 /\ v \in Val /\ L1D(c) \in Node /\ L1D(c) # i /\ L1D(c) # L3
  BY Nodes
<1>1. PICK t0 \in AccessLine(AtMemory, s, L3, a, Acquire(act), c) :
           t0 \in Sys /\ t0.ok =>
             LET l == t0.at[a][L3]
                 m == t0.at[a][L2(c)]
                 y == LastGrant(l, act, c)
                 o == LastGranted(l, act, c)
                 z == [m EXCEPT !.data = l.data, !.outer = o]
                 x == MetaAfterFetch(act, z)
             IN  z \in Line /\ y \in Line /\ x \in Line /\ FetchAssertion(act, z) =>
                   t = Put(Put(Put(t0, L3, a, y), L2(c), a, z), L2(c), a, x)
  BY GrantUpdate, Zenon
<1>2. LastServed(s, t0, a, c, act, old, now)
  BY LastAccess
<1> DEFINE f == s.at[a]
           h == t0.at[a]
           l == h[L3]
           m == h[i]
           y == LastGrant(l, act, c)
           o == LastGranted(l, act, c)
           z == [m EXCEPT !.data = l.data, !.outer = o]
           x == MetaAfterFetch(act, z)
           H == Holders(h)
<1>3. /\ Steady(t0, old, now, Addr \ {a}) /\ t0.mem[a] \in {old[a], v}
      /\ ServedLine(l, t0.mem[a], v, H)
      /\ AboveOK(h, a, v) /\ Writers(h) = {} /\ H = (IF act = "fetch_write" THEN Holders(f) \cap {c} ELSE Holders(f))
      /\ h[L1D(c)] = f[L1D(c)] /\ h[i] = f[i]
      /\ \A k \in ICore : h[L1I(k)] = f[L1I(k)]
      /\ \A k \in Node \ {L3} : h[k].lent => f[k].lent
      /\ \A b \in Addr \ {a}, k \in Node : t0.at[b][k].lent => s.at[b][k].lent
  BY <1>2 DEF LastServed, ServedAbove
<1>4. t0 \in Sys /\ t0.ok /\ m \in Line /\ l.data = v
  BY <1>0, <1>3 DEF Steady, Sys, Lines, ServedLine
<1>5. LastGrantOK(l, t0.mem[a], v, H, c, act)
  <2>1. H \in SUBSET Core /\ (act = "fetch_write" => H \subseteq {c})
    BY <1>3 DEF Holders
  <2> HIDE DEF H, l, v
  <2> QED BY <1>0, <1>3, <2>1, LastGrants
<1>6. /\ y \in Line /\ ~y.lent /\ o \in State /\ o # "I" /\ (act = "fetch_write" => o = "M")
      /\ (o \in {"E", "M"} => H \subseteq {c})
      /\ LastOK(y, t0.mem[a], v, H \cup {c}, IF o \in {"E", "M"} THEN {c} ELSE {}, {})
  BY <1>5 DEF LastGrantOK
<1>7. z \in Line /\ x \in Line /\ FetchAssertion(act, z) /\ MidGrant(m, x, act, v) /\ x.outer = o
  <2> DEFINE zz == [m EXCEPT !.data = v, !.outer = o]
  <2> HIDE DEF m, o, v, l
  <2>1. Acquired(m, v, o, act)
    BY <1>0, <1>4, <1>6, MidGrantFacts
  <2>2. z = zz
    BY <1>4
  <2> QED BY <2>1, <2>2 DEF Acquired
<1>8. t = Put(Put(Put(t0, L3, a, y), i, a, z), i, a, x)
  BY <1>1, <1>4, <1>6, <1>7
<1> HIDE DEF f, h, l, m, y, o, z, x, H, i, v
<1> DEFINE t1 == Put(t0, L3, a, y)
           t2 == Put(t1, i, a, z)
<1>9. Only(t0, t1, a, {L3}) /\ t1.at[a][L3] = y /\ t1.mem = t0.mem
  BY <1>0, <1>4, <1>6, OnlyPut
<1> HIDE DEF t1
<1>10. t1 \in Sys
  BY <1>9 DEF Only
<1>11. Only(t1, t2, a, {i}) /\ t2.mem = t1.mem
  BY <1>0, <1>7, <1>10, OnlyPut
<1> HIDE DEF t2
<1>12. t2 \in Sys
  BY <1>11 DEF Only
<1>13. Only(t2, t, a, {i}) /\ t.at[a][i] = x /\ t.mem = t2.mem
  BY <1>0, <1>7, <1>8, <1>12, OnlyPut DEF t1, t2
<1>14. Only(t0, t, a, {i, L3}) /\ t.mem = t0.mem /\ t.at[a][L3] = y
  <2>1. Only(t1, t, a, {i})
    BY <1>11, <1>13, OnlyTrans
  <2>2. Only(t0, t, a, {i, L3})
    BY <1>9, <2>1, OnlyTrans
  <2>3. t.at[a][L3] = y
    BY <1>0, <1>9, <2>1 DEF Only
  <2> QED BY <1>9, <1>11, <1>13, <2>2, <2>3
<1> DEFINE g == t.at[a]
<1>15. g \in Lines /\ t \in Sys
  BY <1>14 DEF Only, Sys
<1>16. \A k \in Node \ {i, L3} : g[k] = h[k]
  BY <1>14 DEF Only, h
<1>17. Around(h, a, c, v)
  <2>1. \A d \in Core : ~Writer(h, d)
    BY <1>3 DEF Writers
  <2> QED BY <1>3, <2>1 DEF AboveOK, Around
<1> HIDE DEF g
<1>18. Around(g, a, c, v) /\ (Clear(g, c) <=> Clear(h, c)) /\ With(g, c) = With(h, c)
  BY <1>15, <1>16, <1>17, AroundSame DEF i
<1>19. /\ Steady(t, old, now, Addr \ {a})
       /\ \A b \in Addr \ {a}, k \in Node : t.at[b][k].lent => t0.at[b][k].lent
  <2>1. Steady(t, old, now, (Addr \ {a}) \ {a}) /\ \A b \in Addr \ {a}, k \in Node : t.at[b][k].lent => t0.at[b][k].lent
    BY <1>3, <1>14, OnlySteady
  <2>2. (Addr \ {a}) \ {a} = Addr \ {a}
    OBVIOUS
  <2> QED BY <2>1, <2>2
<1>20. NoNewLent(s, t)
  <2>1. \A k \in Node : g[k].lent => f[k].lent
    <3> TAKE k \in Node
    <3>1. CASE k = L3
      BY <1>6, <1>14, <3>1 DEF g
    <3>2. CASE k = i
      BY <1>3, <1>7, <1>13, <3>2 DEF MidGrant, g, m, i
    <3>3. CASE k \in Node \ {i, L3}
      BY <1>3, <1>16, <3>3
    <3> QED BY <3>1, <3>2, <3>3
  <2> QED BY <1>3, <1>19, <2>1 DEF NoNewLent, g, f
<1>21. AllowWrite(x) => Clear(g, c)
  <2>1. o \in {"E", "M"} => Clear(h, c)
    BY <1>6 DEF H, Holders, Clear
  <2> QED BY <1>7, <1>18, <2>1 DEF AllowWrite
<1>22. LastOK(g[L3], t.mem[a], v, With(g, c), IF AllowWrite(x) THEN {c} ELSE {}, {})
  <2>1. AllowWrite(x) <=> o \in {"E", "M"}
    BY <1>7 DEF AllowWrite
  <2>2. With(g, c) = H \cup {c}
    BY <1>18 DEF With, H
  <2> QED BY <1>6, <1>14, <2>1, <2>2 DEF g
<1>23. g[L1D(c)] = f[L1D(c)] /\ \A k \in ICore : g[L1I(k)] = f[L1I(k)]
  <2>1. \A k \in ICore : L1I(k) \in Node \ {i, L3}
    BY Nodes DEF i
  <2> QED BY <1>0, <1>3, <1>16, <2>1
<1>24. MidGrant(f[i], g[i], act, v) /\ g[i] = x
  BY <1>3, <1>7, <1>13 DEF g, m
<1>25. t.mem[a] \in {old[a], now[a]}
  BY <1>3, <1>14 DEF v
<1> QED BY <1>18, <1>19, <1>20, <1>21, <1>22, <1>23, <1>24, <1>25 DEF GrantedLast, g, f, i, v

----------------------------------------------------------------------------
(* A line is released to the inclusive cache below.                        *)
GivenLine(m, act) == IF act = "evict" THEN [m EXCEPT !.outer = "I"] ELSE m

TakenBelow(t0, r, n, i, a, act, d, hit) ==
  r = [t0 EXCEPT !.at[a][n] = ToDirty([@ EXCEPT !.data = d]),
                 !.at[a][i] = IF act = "evict" THEN [@ EXCEPT !.outer = "I"] ELSE @,
                 !.ok       = @ /\ hit]

Taken(t0, t, n, i, a, act, d) ==
  LET l == t0.at[a][n]
      x == t.at[a][n]
  IN  /\ Only(t0, t, a, {n, i}) /\ t.mem = t0.mem
      /\ x \in Line /\ x.st = l.st /\ x.outer = l.outer /\ x.dirty = TRUE /\ x.sharer = l.sharer
      /\ x.data = d /\ x.way = l.way /\ x.lent = l.lent
      /\ t.at[a][i] = ToClean(GivenLine(t0.at[a][i], act))

LEMMA TakenFacts ==
  ASSUME NEW t0 \in Sys, t0.ok, NEW n \in Node, NEW i \in Node, n # i, NEW a \in Addr, NEW act,
         NEW d \in Val, NEW hit, hit = TRUE, NEW r, TakenBelow(t0, r, n, i, a, act, d, hit)
  PROVE  Taken(t0, Put(r, i, a, ToClean(r.at[a][i])), n, i, a, act, d)
<1> DEFINE t == Put(r, i, a, ToClean(r.at[a][i]))
           l == t0.at[a][n]
           m == t0.at[a][i]
           x == ToDirty([l EXCEPT !.data = d])
           y == GivenLine(m, act)
<1>1. l \in Line /\ m \in Line /\ t0.ok = TRUE
  BY DEF Sys, Lines
<1>2. /\ x \in Line /\ x.st = l.st /\ x.outer = l.outer /\ x.dirty = TRUE /\ x.sharer = l.sharer
      /\ x.data = d /\ x.way = l.way /\ x.lent = l.lent
  BY <1>1 DEF ToDirty, Line
<1>3. y \in Line
  BY <1>1 DEF GivenLine, Line, State
<1>4. r = Put(Put(t0, n, a, x), i, a, y)
  <2>1. r = [t0 EXCEPT !.at[a][n] = x, !.at[a][i] = y, !.ok = t0.ok]
    BY <1>1 DEF TakenBelow, GivenLine
  <2> HIDE DEF x, y
  <2>2. [t0 EXCEPT !.at[a][n] = x, !.at[a][i] = y, !.ok = t0.ok] = [[t0 EXCEPT !.at[a][n] = x] EXCEPT !.at[a][i] = y]
    BY DEF Sys
  <2> QED BY <2>1, <2>2 DEF Put
<1> HIDE DEF x, y
<1> DEFINE t1 == Put(t0, n, a, x)
<1>5. Only(t0, t1, a, {n}) /\ t1.at[a][n] = x /\ t1.mem = t0.mem
  BY <1>2, OnlyPut
<1> HIDE DEF t1
<1>6. t1 \in Sys
  BY <1>5 DEF Only
<1>7. Only(t1, r, a, {i}) /\ r.at[a][i] = y /\ r.mem = t1.mem
  BY <1>3, <1>4, <1>6, OnlyPut DEF t1
<1>8. r \in Sys /\ ToClean(y) \in Line
  BY <1>3, <1>7, ToCleanFacts DEF Only
<1> HIDE DEF t
<1>9. Only(r, t, a, {i}) /\ t.at[a][i] = ToClean(y) /\ t.mem = r.mem
  BY <1>7, <1>8, OnlyPut DEF t
<1>10. Only(t1, t, a, {i})
  BY <1>7, <1>9, OnlyTrans
<1>11. Only(t0, t, a, {n, i}) /\ t.at[a][n] = x
  BY <1>5, <1>10, OnlyTrans DEF Only
<1> QED BY <1>2, <1>5, <1>7, <1>9, <1>11 DEF t, l, m, y, Taken

ReleasedLast(s, t, a, c, act) ==
  LET l == s.at[a][L3]
      m == s.at[a][L2(c)]
      x == t.at[a][L3]
  IN  /\ Only(s, t, a, {L2(c), L3}) /\ t.mem = s.mem
      /\ x \in Line /\ x.st = "M" /\ x.outer = "M" /\ x.dirty = TRUE /\ x.data = m.data /\ x.sharer = l.sharer
      /\ x.way = "normal" /\ x.lent = l.lent
      /\ t.at[a][L2(c)] = ToClean(GivenLine(m, act))

LEMMA ReleaseLast ==
  ASSUME NEW s \in Sys, s.ok, ~LastExclusive, NEW a \in Addr, NEW c \in Core, NEW act \in {"evict", "writeback"},
         Normal(s.at[a][L3]), s.at[a][L3].outer = "M", s.at[a][L2(c)].data \in Val,
         NEW t \in WritebackReq(AtL3, s, L2(c), a, act)
  PROVE  ReleasedLast(s, t, a, c, act)
<1> DEFINE i == L2(c)
           n == L3
           l == s.at[a][n]
           m == s.at[a][i]
           hit == IsValid(l) /\ ~NeedPromote(Release, l)
<1>1. i \in Node /\ n \in Node /\ n # i /\ Outer(i) = n /\ Id(i) = c /\ ~Exclusive(n) /\ ~IsL1(n) /\ l \in Line /\ m \in Line
  BY Nodes, Programs DEF Sys, Lines
<1>2. l.st # "I" /\ l.way = "normal" /\ l.outer = "M" /\ m.data \in Val /\ IsValid(l)
  BY DEF Normal, IsValid
<1> HIDE DEF i, n, l, m, hit
<1>3. AtL3(s, <<i, a, act>>) = InclusiveWrite(AtMemory, s, i, a, act)
  BY <1>1 DEF AtL3, OuterResp
<1>4. PICK r \in InclusiveWrite(AtMemory, s, i, a, act) : t = Put(r, i, a, ToClean(r.at[a][i]))
  BY <1>3 DEF WritebackReq, i
<1>5. PICK t0 \in AccessLine(AtMemory, s, n, a, Release, c) : TakenBelow(t0, r, n, i, a, act, m.data, hit)
  <2>1. PICK t0 \in AccessLine(AtMemory, s, Outer(i), a, Release, Id(i)) :
          r = [t0 EXCEPT !.at[a][Outer(i)] = ToDirty([@ EXCEPT !.data = m.data]),
                         !.at[a][i] = IF act = "evict" THEN [@ EXCEPT !.outer = "I"] ELSE @,
                         !.ok       = @ /\ (IsValid(s.at[a][Outer(i)]) /\ ~NeedPromote(Release, s.at[a][Outer(i)]))]
    BY DEF InclusiveWrite, m
  <2> QED BY <1>1, <2>1 DEF TakenBelow, hit, l
<1>6. hit = TRUE
  BY <1>2 DEF hit, NeedPromote, AllowWrite
<1>7. t0 \in InclusiveAccess(AtMemory, s, n, a, Release, c)
  BY <1>1, <1>5 DEF AccessLine
<1>8. t0 \in Promote(AtMemory, s, n, a, Release)
  <2>1. AccessNeedSync(Release, l) = "none"
    BY DEF AccessNeedSync, Release, IsRelease
  <2> QED BY <1>1, <1>2, <1>7, <2>1 DEF InclusiveAccess, l
<1>9. /\ Only(s, t0, a, {n}) /\ t0.mem = s.mem
      /\ t0.at[a][n] = [l EXCEPT !.st = "M"]
  <2>1. ~NeedPromote(Release, l)
    BY <1>2 DEF NeedPromote, AllowWrite
  <2>2. NeedPromoteLocal(Release, l) <=> l.st # "M"
    BY <1>2 DEF NeedPromoteLocal, AllowWrite, IsWrite, Release, IsModified
  <2>3. CASE l.st = "M"
    <3>1. t0 = s
      BY <1>8, <2>1, <2>2, <2>3 DEF Promote, l
    <3>2. [l EXCEPT !.st = "M"] = l
      BY <1>1, <2>3 DEF Line
    <3> QED BY <3>1, <3>2 DEF Only, l
  <2>4. CASE l.st # "M"
    <3>1. t0 = Put(s, n, a, ToModified(l, NoId))
      BY <1>8, <2>1, <2>2, <2>4 DEF Promote, l
    <3>2. ToModified(l, NoId) = [l EXCEPT !.st = "M"] /\ [l EXCEPT !.st = "M"] \in Line
      BY <1>1 DEF ToModified, AddSharer, Line, State
    <3> DEFINE q == [l EXCEPT !.st = "M"]
    <3> HIDE DEF q
    <3>3. t0 = Put(s, n, a, q) /\ q \in Line
      BY <3>1, <3>2 DEF q
    <3>4. Only(s, t0, a, {n}) /\ t0.at[a][n] = q /\ t0.mem = s.mem
      BY <1>1, <3>3, OnlyAssign
    <3> QED BY <3>4 DEF q
  <2> QED BY <2>3, <2>4
<1> DEFINE l1 == [l EXCEPT !.st = "M"]
<1>10. l1.st = "M" /\ l1.outer = "M" /\ l1.sharer = l.sharer /\ l1.way = "normal" /\ l1.lent = l.lent
  BY <1>1, <1>2 DEF Line
<1> HIDE DEF l1
<1>11. t0 \in Sys /\ t0.ok /\ t0.at[a][i] = m
  BY <1>1, <1>9 DEF Only, m
<1> DEFINE x == t.at[a][n]
<1>12. /\ Only(t0, t, a, {n, i}) /\ t.mem = t0.mem
       /\ x \in Line /\ x.st = "M" /\ x.outer = "M" /\ x.dirty = TRUE /\ x.sharer = l.sharer
       /\ x.data = m.data /\ x.way = "normal" /\ x.lent = l.lent
       /\ t.at[a][i] = ToClean(GivenLine(m, act))
  <2>1. t0.at[a][n] = l1
    BY <1>9 DEF l1
  <2> HIDE DEF x
  <2>2. Taken(t0, Put(r, i, a, ToClean(r.at[a][i])), n, i, a, act, m.data)
    BY <1>1, <1>2, <1>5, <1>6, <1>11, TakenFacts
  <2>3. Taken(t0, t, n, i, a, act, m.data)
    BY <1>4, <2>2
  <2> QED BY <1>10, <1>11, <2>1, <2>3 DEF x, Taken
<1>13. Only(s, t, a, {i, n})
  BY <1>9, <1>12, OnlyTrans
<1> QED BY <1>9, <1>12, <1>13 DEF ReleasedLast, i, n, l, m

----------------------------------------------------------------------------
(* The eviction of a block from the L2 of core c.                          *)
MidProbedOK(s, r, a, c, w, v) ==
  LET f == s.at[a]
      g == r.at[a]
  IN  /\ OnlyAt(s, r, a)
      /\ \A k \in Node \ {L1D(c), L2(c)} : g[k] = f[k]
      /\ Rest(g, w, a, v) /\ Gone(g[L1D(c)]) /\ Normal(g[L2(c)])
      /\ \A k \in Node : g[k].lent => f[k].lent
      /\ MidExclusive => r = s

LEMMA MidProbes ==
  ASSUME NEW s \in Sys, s.ok, NEW a \in Addr, NEW c \in Core, NEW w, NEW v,
         Rest(s.at[a], w, a, v), IsValid(s.at[a][L2(c)])
  PROVE  MidProbedOK(s, EvictProbes(s, L2(c), a), a, c, w, v)
<1> DEFINE f == s.at[a]
           i == L1D(c)
           n == L2(c)
           u == f[i]
           m == f[n]
           r == EvictProbes(s, n, a)
           g == r.at[a]
<1>1. /\ i \in Node /\ n \in Node /\ i # n /\ i # L3 /\ n # L3 /\ ~IsL1(n) /\ u \in Line /\ m \in Line
      /\ (Exclusive(n) <=> MidExclusive) /\ f \in Lines
  BY Nodes, Programs DEF Sys, Lines
<1>2. Held(f, c)
  BY DEF Held
<1>3. /\ Around(f, a, c, v) /\ CoreOK(u, m, v)
      /\ Writer(f, c) => Clear(f, c)
      /\ LastOK(f[L3], w, v, With(f, c), Writers(f), Dirties(f))
      /\ Writers(f) = (IF Writer(f, c) THEN {c} ELSE {})
      /\ Dirties(f) = (IF Dirty(f, c) THEN {c} ELSE {})
  BY <1>2, RestAround
<1>4. MidLine(u, m, v) /\ Normal(m) /\ UpperOK(u, v)
  BY <1>3, GoneFacts DEF CoreOK, MidLine
<1> HIDE DEF f, i, n, u, m, r, g
<1>5. CASE MidExclusive
  <2>1. r = s
    BY <1>1, <1>4, <1>5 DEF EvictProbes, r, m, f
  <2>2. Gone(u)
    BY <1>3, <1>4, <1>5 DEF CoreOK, Normal
  <2> QED BY <1>4, <2>1, <2>2 DEF MidProbedOK, OnlyAt, f, i, n, u, m, r, g
<1>6. CASE ~MidExclusive
  <2>1. r = AskTop(s, c, a, "evict").s
    <3>1. s.at[a][n].way # "ext"
      BY <1>4 DEF Normal, m, f
    <3>2. r = ProbeReq(s, n, a, "evict", NoId).s
      BY <1>1, <1>6, <3>1 DEF EvictProbes, r
    <3> QED BY <1>1, <3>2 DEF ProbeReq, AskTop, n
  <2> DEFINE u1 == LineAfter(u, "evict")
             m1 == IF u.dirty THEN AfterWriteback(m, u) ELSE m
  <2>2. /\ OnlyAt(s, r, a)
        /\ g[i] = u1 /\ g[n] = m1
        /\ \A k \in Node \ {i, n} : g[k] = f[k]
    <3>1. "evict" \in ProbeAct /\ UpperOK(s.at[a][L1D(c)], v)
      BY <1>4 DEF ProbeAct, u, f, i
    <3>2. AskedUpper(s, AskTop(s, c, a, "evict"), c, a, "evict")
      BY <3>1, AskUpper
    <3> QED BY <2>1, <3>2 DEF g, u1, m1, u, m, f, i, n, AskedUpper
  <2>3. u1 = NoLine
    BY DEF LineAfter
  <2>4. /\ m1 \in Line /\ m1.st = m.st /\ m1.outer = m.outer /\ m1.way = m.way /\ m1.lent = m.lent
        /\ m1.data = v /\ (m1.dirty <=> u.dirty \/ m.dirty)
    <3>1. u.dirty => u.data = v
      BY <1>4, GoneFacts DEF UpperOK
    <3>2. u.dirty \in BOOLEAN /\ m.dirty \in BOOLEAN
      BY <1>1 DEF Line
    <3>3. CASE u.dirty
      <4>1. m1 = AfterWriteback(m, u) /\ IsValid(m)
        BY <1>4, <3>3 DEF Normal
      <4> HIDE DEF m1
      <4> QED BY <1>1, <3>1, <3>3, <4>1, AfterWritebackFacts
    <3>4. CASE ~u.dirty
      BY <1>1, <1>4, <3>4 DEF MidLine
    <3> QED BY <3>3, <3>4
  <2> HIDE DEF u1, m1
  <2>5. m1.dirty => AllowWrite(m1)
    <3>1. u.dirty => u.outer = "M"
      BY <1>4, GoneFacts DEF UpperOK
    <3>2. u.outer = "M" => AllowWrite(m)
      BY <1>3, <1>6 DEF CoreOK
    <3> QED BY <1>4, <2>4, <3>1, <3>2 DEF MidLine, AllowWrite
  <2>6. CoreOK(u1, m1, v) /\ Normal(m1)
    <3>1. MidLine(u1, m1, v)
      BY <1>4, <2>3, <2>4, <2>5 DEF MidLine, Normal, IsValid
    <3>2. (m1.st = "M" => AllowWrite(m1)) /\ m1.st # "E"
      BY <1>3, <1>6, <2>4 DEF CoreOK, AllowWrite
    <3>3. u1.outer # "M"
      BY <2>3 DEF NoLine
    <3> QED BY <1>6, <2>3, <3>1, <3>2, <3>3, NoLineType DEF CoreOK, UpperOK, MidLine
  <2>7. g \in Lines
    BY <2>2 DEF OnlyAt, Sys, g
  <2>8. Around(g, a, c, v) /\ (Clear(g, c) <=> Clear(f, c)) /\ With(g, c) = With(f, c) /\ g[L3] = f[L3]
    <3>1. \A k \in Node \ {i, n, L3} : g[k] = f[k]
      BY <2>2
    <3> QED BY <1>1, <1>3, <2>2, <2>7, <3>1, AroundSame, Nodes DEF i, n
  <2>9. Writer(g, c) => Writer(f, c)
    BY <2>2, <2>3, <2>4, NoLineType DEF Writer, AllowWrite, i, n, m
  <2>10. Dirty(f, c) => Dirty(g, c)
    BY <2>2, <2>4 DEF Dirty, i, n, m, u
  <2>11. Rest(g, w, a, v)
    <3>1. Dirties(f) \subseteq Dirties(g)
      BY <1>3, <2>10 DEF Dirties
    <3>2. Holders(g) \subseteq With(f, c)
      BY <2>8 DEF With
    <3>3. CoreOK(g[L1D(c)], g[L2(c)], v)
      BY <2>2, <2>6 DEF i, n
    <3>4. LastOK(g[L3], w, v, With(f, c), Writers(f), Dirties(f))
      BY <1>3, <2>8
    <3> QED BY <1>3, <2>8, <2>9, <3>1, <3>2, <3>3, <3>4, AroundRest
  <2>12. \A k \in Node : g[k].lent => f[k].lent
    BY <2>2, <2>3, <2>4, NoLineType DEF m
  <2> QED BY <1>6, <2>2, <2>3, <2>6, <2>11, <2>12, NoLineType DEF MidProbedOK, f, i, n, r, g
<1> QED BY <1>5, <1>6 DEF r, n

(* An L1D that asks the L2 is not asked itself.                            *)
AskOwn(s, c, a, act) == AskL1(s, L2(c), a, act, 0)

NobodyAsked(s, r) == r.s = s /\ r.hit = FALSE /\ r.wb = FALSE

LEMMA AskNobody ==
  ASSUME NEW s \in Sys, s.ok, NEW c \in Core, NEW a \in Addr, NEW act
  PROVE  NobodyAsked(s, AskOwn(s, c, a, act))
<1> DEFINE n == L2(c)
           asked == {i \in Inner(n) : NeedProbe(n, s.at[a][n], Id(i), 0)}
           r     == [i \in asked |-> ProbeL1(s, i, a, act)]
           back  == {i \in asked : r[i].wb}
           last  == CHOOSE i \in back : \A j \in back : Id(j) <= Id(i)
           by(k) == IF n = L3 THEN L2(k[2]) ELSE L1D(k[2])
           line  == IF back = {} THEN s.at[a][n] ELSE AfterWriteback(s.at[a][n], r[last].copy)
           f     == [m \in Node |-> IF m = n THEN line
                                    ELSE IF by(m) \in asked THEN r[by(m)].s.at[a][m]
                                    ELSE s.at[a][m]]
           ok    == s.ok /\ \A i \in asked : r[i].s.ok
           hit   == \E i \in asked : r[i].hit
           wb    == back # {}
           res   == AskOwn(s, c, a, act)
<1>1. n \in Node /\ Inner(n) = {L1D(c)} /\ Id(L1D(c)) = 0 /\ ~Directory(n) /\ s.at[a] \in Lines
  BY Nodes, Programs DEF Sys
<1> HIDE DEF n
<1>2. asked = {}
  BY <1>1 DEF NeedProbe, ProbeNeedProbe
<1>3. res = [s |-> [s EXCEPT !.at[a] = f, !.ok = ok], hit |-> hit, wb |-> wb]
  <2>1. res = Answered(s, n, a, r) /\ DOMAIN r = asked
    BY DEF AskOwn, AskL1, Asked, n
  <2> HIDE DEF res, asked, r
  <2> QED BY <2>1 DEF Answered
<1> HIDE DEF asked
<1>4. back = {} /\ hit = FALSE /\ wb = FALSE
  BY <1>2
<1> HIDE DEF back
<1>5. line = s.at[a][n]
  BY <1>4
<1> HIDE DEF line
<1>6. f = s.at[a]
  <2>1. \A m \in Node : f[m] = s.at[a][m]
    BY <1>2, <1>5
  <2>2. f = [m \in Node |-> f[m]]
    OBVIOUS
  <2>3. s.at[a] = [m \in Node |-> s.at[a][m]]
    BY <1>1 DEF Lines
  <2> HIDE DEF f
  <2> QED BY <2>1, <2>2, <2>3
<1>7. ok = s.ok
  BY <1>2, s.ok = TRUE DEF Sys
<1>8. [s EXCEPT !.at[a] = s.at[a], !.ok = s.ok] = s
  BY DEF Sys
<1> HIDE DEF f, ok, hit, wb, res
<1>9. res.s = s /\ res.hit = FALSE /\ res.wb = FALSE
  BY <1>3, <1>4, <1>6, <1>7, <1>8
<1> QED BY <1>9 DEF res, NobodyAsked

(* A core whose last line is gone.                                         *)
LEMMA DropRest ==
  ASSUME NEW f, NEW a, NEW v, NEW c \in Core, NEW w, NEW W, NEW H,
         Around(f, a, c, v), Gone(f[L1D(c)]), Gone(f[L2(c)]),
         LastOK(f[L3], w, v, H, W, {}), Holders(f) \subseteq H
  PROVE  Rest(f, w, a, v)
<1>1. CoreOK(f[L1D(c)], f[L2(c)], v) /\ ~Writer(f, c)
  <2> DEFINE u == f[L1D(c)]
             m == f[L2(c)]
  <2>1. Gone(u) /\ Gone(m)
    OBVIOUS
  <2> HIDE DEF u, m
  <2>2. /\ m.st # "M" /\ m.st # "E" /\ ~IsValid(m) /\ ~IsValid(u) /\ u.outer # "M" /\ ~AllowWrite(u) /\ ~AllowWrite(m)
    BY <2>1, GoneFacts
  <2> QED BY <2>1, <2>2 DEF CoreOK, UpperOK, Writer, u, m
<1> QED BY <1>1, AroundRest

----------------------------------------------------------------------------
(* An L2 releases a block to an exclusive L3, which asks whether another   *)
(* core has it.                                                            *)
ReleaseAsked(s, p, a, c, v) ==
  LET f == s.at[a]
      g == p.s.at[a]
  IN  /\ OnlyAt(s, p.s, a)
      /\ AboveOK(g, a, v)
      /\ Holders(g) = Holders(f)
      /\ g[L1D(c)] = f[L1D(c)] /\ g[L2(c)] = f[L2(c)]
      /\ \A k \in ICore : g[L1I(k)] = f[L1I(k)]
      /\ \A k \in Node \ {L3} : g[k].lent => f[k].lent
      /\ p.hit <=> Holders(f) \ {c} # {}
      /\ ~p.wb
      /\ Returned(g[L3]) = IF LastDirectory THEN f[L3] ELSE NoLine

LEMMA ReturnedLent ==
  ASSUME NEW m \in Line, m.data = NoVal, ~m.lent, m.way = "ext"
  PROVE  Returned(Lending(m)) = m
<1>1. m.lent = FALSE
  BY DEF Line
<1>2. Lending(m).way = "ext"
  BY LendingFacts
<1>3. Returned(Lending(m)) = [Lending(m) EXCEPT !.data = NoVal, !.lent = FALSE]
  BY <1>2 DEF Returned
<1>4. [Lending(m) EXCEPT !.data = NoVal, !.lent = FALSE] = [m EXCEPT !.data = NoVal, !.lent = FALSE]
  BY DEF Lending, Line
<1>5. [m EXCEPT !.data = NoVal, !.lent = FALSE] = m
  BY <1>1 DEF Line
<1> QED BY <1>3, <1>4, <1>5

LEMMA AskToRelease ==
  ASSUME NEW s \in Sys, s.ok, NEW a \in Addr, NEW c \in Core, NEW w, NEW v, LastExclusive,
         Rest(s.at[a], w, a, v), IsValid(s.at[a][L2(c)]), Gone(s.at[a][L1D(c)]),
         \A k \in Node : Lendable(s, k), ~s.at[a][L3].lent
  PROVE  ReleaseAsked(s, ReleaseProbes(s, L3, a, L2(c)), a, c, v)
<1> DEFINE f == s.at[a]
           n == L3
           l == f[n]
           m == f[L2(c)]
           H == Holders(f)
           p == ReleaseProbes(s, n, a, L2(c))
           s0 == Put(s, n, a, Lending(l))
           act == IF LastDirectory THEN "downgrade" ELSE "writeback"
           q == AskLast(s0, a, act, c)
<1>1. /\ n \in Node /\ l \in Line /\ Id(L2(c)) = c /\ (Directory(n) <=> LastDirectory) /\ f \in Lines /\ n = L3
  BY Nodes, Programs DEF Sys, Lines
<1>2. AboveOK(f, a, v) /\ LastOK(l, w, v, H, Writers(f), Dirties(f)) /\ c \in H
  BY DEF Rest, Holders, Held
<1>3. Writers(f) \subseteq {c} /\ Dirties(f) \subseteq {c} /\ (Writer(f, c) => Holders(f) = {c})
  <2>1. \A d \in Writers(f) : d = c
    BY <1>2 DEF AboveOK, Writers, Holders
  <2>2. Dirties(f) \subseteq Writers(f) /\ Holders(f) \subseteq Core
    BY <1>2, HolderFacts
  <2>3. \A d \in Holders(f) : Writer(f, c) => d = c
    BY <1>2 DEF AboveOK, Holders
  <2> QED BY <1>2, <2>1, <2>2, <2>3
<1>4. IF LastDirectory THEN l.way = "ext" /\ l.data = NoVal /\ H \subseteq l.sharer ELSE Gone(l)
  BY <1>2, GoneFacts DEF LastOK
<1>5. Writer(f, c) <=> AllowWrite(m)
  BY GoneFacts DEF Writer
<1> HIDE DEF f, n, l, m, H, p
<1>6. CASE LastDirectory \/ ~AllowWrite(m)
  <2>1. Borrow(s, n, a) = s0
    BY <1>1, BorrowFacts DEF l, f
  <2>2. Lending(l) \in Line /\ Lending(l).sharer = l.sharer
    BY <1>1, LendingFacts
  <2>3. OnlyAt(s, s0, a) /\ s0.at[a][n] = Lending(l) /\ \A k \in Node : k # n => s0.at[a][k] = f[k]
    <3> HIDE DEF s0
    <3> QED BY <1>1, <2>2, PutFacts DEF s0, f
  <2> HIDE DEF s0
  <2>4. s0 \in Sys /\ s0.ok /\ s0.at[a] \in Lines /\ SameAbove(f, s0.at[a])
    BY <1>1, <2>3 DEF OnlyAt, Sys, SameAbove
  <2>5. p = q
    <3>1. p = ProbeReq(s0, n, a, act, c)
      BY <1>1, <1>6, <2>1 DEF p, ReleaseProbes, m, f
    <3> QED BY <1>1, <3>1 DEF ProbeReq, AskLast
  <2> DEFINE f0 == s0.at[a]
             g == q.s.at[a]
  <2>6. AboveOK(f0, a, v) /\ Holders(f0) = H /\ Writers(f0) = Writers(f) /\ Dirties(f0) = Dirties(f)
    <3> HIDE DEF f0
    <3> QED BY <1>2, <2>4, SameAboveFacts DEF f0, H
  <2>7. \A d \in Core : Lendable(s0, L2(d))
    <3> TAKE d \in Core
    <3>1. \A b \in Addr : s0.at[b][L2(d)] = s.at[b][L2(d)]
      BY <1>1, <2>3, Nodes DEF OnlyAt, f
    <3>2. Lendable(s, L2(d))
      BY Nodes
    <3> QED BY <3>1, <3>2 DEF Lendable
  <2>8. AskedAbove(s0, q, a, v, act, c)
    <3>1. act \in ProbeAct
      BY DEF ProbeAct
    <3>2. LastDirectory => Holders(s0.at[a]) \ {c} \subseteq s0.at[a][L3].sharer
      BY <1>1, <1>4, <2>2, <2>3, <2>6
    <3>3. act = "writeback" => Writers(s0.at[a]) \subseteq {c}
      BY <1>3, <2>6
    <3>4. AboveOK(s0.at[a], a, v)
      BY <2>6
    <3> HIDE DEF act
    <3> QED BY <2>4, <2>7, <3>1, <3>2, <3>3, <3>4, AskAbove
  <2> HIDE DEF q
  <2>9. /\ OnlyAt(s0, q.s, a)
        /\ AboveOK(g, a, v)
        /\ Holders(g) = Holders(f0)
        /\ \A k \in ICore : g[L1I(k)] = f0[L1I(k)]
        /\ g[L1D(c)] = f0[L1D(c)] /\ g[L2(c)] = f0[L2(c)]
        /\ \A k \in Node \ {L3} : g[k].lent => f0[k].lent
        /\ q.hit <=> Holders(f0) \ {c} # {}
        /\ q.wb <=> Dirties(f0) \ {c} # {}
        /\ ~q.wb => g[L3] = f0[L3]
    BY <2>8 DEF AskedAbove
  <2>10. ~q.wb
    BY <1>3, <2>6, <2>9
  <2>11. Returned(g[n]) = IF LastDirectory THEN l ELSE NoLine
    <3>1. g[n] = Lending(l)
      BY <1>1, <2>3, <2>9, <2>10
    <3>2. CASE LastDirectory
      BY <1>1, <1>4, <3>1, <3>2, ReturnedLent DEF l, f, n
    <3>3. CASE ~LastDirectory
      <4>1. Gone(Lending(l))
        BY <1>1, <1>4, <3>3, LendingFacts
      <4>2. Lending(l).way = "none"
        BY <4>1, GoneFacts
      <4> QED BY <3>1, <3>3, <4>2 DEF Returned
    <3> QED BY <3>2, <3>3
  <2>12. OnlyAt(s, q.s, a)
    BY <2>3, <2>9, OnlyAtTrans
  <2>13. g[L1D(c)] = f[L1D(c)] /\ g[L2(c)] = f[L2(c)] /\ \A k \in ICore : g[L1I(k)] = f[L1I(k)]
    BY <1>1, <2>3, <2>9, Nodes
  <2>14. \A k \in Node \ {L3} : g[k].lent => f[k].lent
    BY <1>1, <2>3, <2>9
  <2> QED BY <1>1, <2>5, <2>6, <2>9, <2>10, <2>11, <2>12, <2>13, <2>14 DEF ReleaseAsked, f, p, H, l, n
<1>7. CASE ~(LastDirectory \/ ~AllowWrite(m))
  <2>1. p = NotAsked(s)
    BY <1>1, <1>7 DEF p, ReleaseProbes, m, f
  <2>2. p.s = s /\ p.hit = FALSE /\ p.wb = FALSE
    BY <2>1 DEF NotAsked
  <2>3. H \ {c} = {}
    BY <1>3, <1>5, <1>7 DEF H
  <2>4. Returned(l) = NoLine
    BY <1>4, <1>7, GoneFacts DEF Returned
  <2> QED BY <1>1, <1>2, <1>7, <2>2, <2>3, <2>4 DEF ReleaseAsked, f, p, H, l, n, OnlyAt
<1> QED BY <1>6, <1>7 DEF p, n

GivenUp(s, t, a, c, old, now) ==
  LET f == s.at[a]
      g == t.at[a]
  IN  /\ Steady(t, old, now, Addr \ {a})
      /\ t.mem[a] = s.mem[a]
      /\ Around(g, a, c, now[a])
      /\ Gone(g[L1D(c)]) /\ ~g[L2(c)].dirty
      /\ LastOK(g[L3], t.mem[a], now[a], Holders(g) \ {c}, {}, {})
      /\ \A k \in ICore : g[L1I(k)] = f[L1I(k)]
      /\ NoNewLent(s, t)
      /\ \A b \in Addr \ {a}, k \in Node : k # L3 => t.at[b][k] = s.at[b][k]

(* The line of the L3 that takes over that of the L2.                      *)
TakenLine(l, m) ==
  [l EXCEPT !.st = IF LastDirectory THEN @ ELSE "S", !.outer = m.outer,
            !.dirty = m.dirty, !.data = m.data, !.way = "normal"]

LEMMA TakenLineOK ==
  ASSUME NEW l \in Line, NEW m \in Line, NEW w, NEW v \in Val, NEW H, NEW W, NEW D,
         LastExclusive, LastOK(l, w, v, H, W, D), ~l.lent, ~Normal(l),
         m.data = v, m.outer # "I", m.dirty => AllowWrite(m), ~m.dirty => D = {},
         LastDirectory => IsValid(l)
  PROVE  TakenLine(l, m) \in Line /\ ~TakenLine(l, m).lent /\ LastOK(TakenLine(l, m), w, v, {}, {}, {})
<1> DEFINE x == TakenLine(l, m)
<1>1. /\ x \in Line /\ x.st = (IF LastDirectory THEN l.st ELSE "S") /\ x.outer = m.outer /\ x.dirty = m.dirty
      /\ x.data = v /\ x.way = "normal" /\ x.lent = l.lent
  BY DEF TakenLine, Line, State
<1> HIDE DEF x
<1>2. IsValid(x) /\ Normal(x) /\ (x.dirty => AllowWrite(x))
  BY <1>1 DEF IsValid, Normal, AllowWrite
<1>3. ~m.dirty => w = v
  BY DEF LastOK
<1>4. x.dirty \/ w = v
  BY <1>1, <1>3
<1>5. LastOK(x, w, v, {}, {}, {})
  BY <1>1, <1>2, <1>4 DEF LastOK
<1> QED BY <1>1, <1>5 DEF x

(* An exclusive cache takes over the line of the cache i above it.         *)
LeftLine(m) == [m EXCEPT !.outer = "I", !.dirty = FALSE]

TookLine(t1, r, n, i, a, x) ==
  r = [t1 EXCEPT !.at[a][n] = x, !.at[a][i] = [@ EXCEPT !.outer = "I", !.dirty = FALSE]]

Took(t1, t, n, i, a, x) ==
  /\ Only(t1, t, a, {n, i}) /\ t.mem = t1.mem
  /\ t.at[a][n] = x
  /\ t.at[a][i] = LeftLine(t1.at[a][i])

LEMMA TookFacts ==
  ASSUME NEW t1 \in Sys, NEW n \in Node, NEW i \in Node, n # i, NEW a \in Addr,
         NEW x \in Line, NEW r, TookLine(t1, r, n, i, a, x)
  PROVE  Took(t1, Put(r, i, a, ToClean(r.at[a][i])), n, i, a, x)
<1> DEFINE t == Put(r, i, a, ToClean(r.at[a][i]))
           m == t1.at[a][i]
           y == LeftLine(m)
<1>1. m \in Line
  BY DEF Sys, Lines
<1>2. y \in Line /\ ToClean(y) = y
  BY <1>1 DEF LeftLine, Line, State, ToClean
<1>3. r = Put(Put(t1, n, a, x), i, a, y)
  <2>1. r = [t1 EXCEPT !.at[a][n] = x, !.at[a][i] = y]
    BY DEF TookLine, LeftLine
  <2> HIDE DEF y
  <2>2. [t1 EXCEPT !.at[a][n] = x, !.at[a][i] = y] = [[t1 EXCEPT !.at[a][n] = x] EXCEPT !.at[a][i] = y]
    BY DEF Sys
  <2> QED BY <2>1, <2>2 DEF Put
<1> HIDE DEF y
<1> DEFINE t2 == Put(t1, n, a, x)
<1>4. Only(t1, t2, a, {n}) /\ t2.at[a][n] = x /\ t2.mem = t1.mem
  BY OnlyPut
<1> HIDE DEF t2
<1>5. t2 \in Sys
  BY <1>4 DEF Only
<1>6. Only(t2, r, a, {i}) /\ r.at[a][i] = y /\ r.mem = t2.mem
  BY <1>2, <1>3, <1>5, OnlyPut DEF t2
<1>7. r \in Sys /\ t = Put(r, i, a, y)
  BY <1>2, <1>6 DEF Only
<1> HIDE DEF t
<1>8. Only(r, t, a, {i}) /\ t.at[a][i] = y /\ t.mem = r.mem
  BY <1>2, <1>7, OnlyPut
<1>9. Only(t2, t, a, {i})
  BY <1>6, <1>8, OnlyTrans
<1>10. Only(t1, t, a, {n, i}) /\ t.at[a][n] = x
  BY <1>4, <1>9, OnlyTrans DEF Only
<1> QED BY <1>4, <1>6, <1>8, <1>10 DEF t, m, y, Took

(* Around, when the lines of c and of the L3 change.                       *)
AroundKept(f, g, a, c, v) ==
  /\ Around(g, a, c, v)
  /\ Clear(g, c) <=> Clear(f, c)
  /\ With(g, c) = With(f, c)
  /\ g[L1D(c)] = f[L1D(c)]
  /\ \A k \in ICore : g[L1I(k)] = f[L1I(k)]

LEMMA OnlyAround ==
  ASSUME NEW s, NEW t, NEW a \in Addr, NEW v, NEW c \in Core, Only(s, t, a, {L2(c), L3}), Around(s.at[a], a, c, v)
  PROVE  AroundKept(s.at[a], t.at[a], a, c, v)
<1>1. t.at[a] \in Lines /\ \A k \in Node \ {L2(c), L3} : t.at[a][k] = s.at[a][k]
  BY DEF Only, Sys
<1>2. t.at[a][L1D(c)] = s.at[a][L1D(c)] /\ \A k \in ICore : t.at[a][L1I(k)] = s.at[a][L1I(k)]
  BY <1>1, Nodes
<1>3. \A k \in Node \ {L1D(c), L2(c), L3} : t.at[a][k] = s.at[a][k]
  BY <1>1
<1> QED BY <1>1, <1>2, <1>3, AroundSame DEF AroundKept

LEMMA GiveUp ==
  ASSUME NEW s, NEW a \in Addr, NEW c \in Core, NEW old, NEW now \in [Addr -> Val], LastExclusive,
         Steady(s, old, now, Addr), Calm(s),
         Gone(s.at[a][L1D(c)]), Normal(s.at[a][L2(c)]),
         NEW t \in WritebackReq(AtL3, s, L2(c), a, "evict")
  PROVE  GivenUp(s, t, a, c, old, now)
<1> DEFINE i == L2(c)
           n == Outer(i)
           f == s.at[a]
           l == f[n]
           m == f[i]
           w == s.mem[a]
           v == now[a]
           p == ReleaseProbes(s, n, a, i)
           line == Returned(p.s.at[a][n])
           fits == ~p.wb /\ s.at[a][n].way = (IF Directory(n) THEN "ext" ELSE "none")
           asked == [p.s EXCEPT !.at[a][n] = line, !.ok = @ /\ fits]
           taken == [line EXCEPT !.st = IF Directory(n) THEN @ ELSE "S", !.outer = m.outer,
                                 !.dirty = m.dirty, !.data = m.data, !.way = "normal"]
<1>1. /\ i \in Node /\ n \in Node /\ n # i /\ Outer(i) = n /\ Exclusive(n) /\ n = L3 /\ i = L2(c)
      /\ (Directory(n) <=> LastDirectory) /\ l \in Line /\ m \in Line /\ v \in Val
  BY Nodes, Programs DEF Steady, Sys, Lines
<1>2. /\ s \in Sys /\ s.ok /\ Rest(f, w, a, v) /\ ~l.lent
      /\ \A k \in Node : Lendable(s, k)
  BY <1>1, QuietFacts DEF Steady, Settled, Calm
<1>3. IsValid(m) /\ Gone(f[L1D(c)]) /\ Held(f, c) /\ ~MidExclusive
  BY Programs DEF Normal, Held
<1>4. /\ Around(f, a, c, v) /\ CoreOK(f[L1D(c)], m, v)
      /\ Writer(f, c) => Clear(f, c)
      /\ LastOK(l, w, v, With(f, c), Writers(f), Dirties(f))
      /\ Dirties(f) = (IF Dirty(f, c) THEN {c} ELSE {})
  BY <1>1, <1>2, <1>3, RestAround
<1>5. MidLine(f[L1D(c)], m, v) /\ ~f[L1D(c)].dirty /\ (Dirty(f, c) <=> m.dirty)
  BY <1>3, <1>4, GoneFacts DEF CoreOK, Dirty
<1>6. ReleaseAsked(s, p, a, c, v)
  BY <1>1, <1>2, <1>3, AskToRelease
<1> HIDE DEF i, n, f, l, m, w, v, p
<1>7. AtL3(s, <<i, a, "evict">>) = ExclusiveWrite(AtMemory, s, i, a)
  BY <1>1 DEF AtL3, OuterResp
<1>8. PICK r \in ExclusiveWrite(AtMemory, s, i, a) : t = Put(r, i, a, ToClean(r.at[a][i]))
  BY <1>7 DEF WritebackReq, i
<1>9. IF p.hit THEN r = asked
      ELSE \E t1 \in MakeRoom(AtMemory, asked, n, a, "normal") : TookLine(t1, r, n, i, a, taken)
  <2>1. r \in (IF p.hit THEN {asked}
               ELSE {[t1 EXCEPT !.at[a][n] = taken, !.at[a][i] = [@ EXCEPT !.outer = "I", !.dirty = FALSE]]
                       : t1 \in MakeRoom(AtMemory, asked, n, a, "normal")})
    BY DEF ExclusiveWrite, p, m, f, n
  <2> HIDE DEF asked, taken
  <2> QED BY <2>1 DEF TookLine
<1>10. line = (IF LastDirectory THEN l ELSE NoLine) /\ ~p.wb
  BY <1>1, <1>6 DEF ReleaseAsked, l, f
<1>11. ~Normal(l) /\ (LastDirectory => l.way = "ext" /\ IsValid(l)) /\ (~LastDirectory => Gone(l))
  <2>1. c \in With(f, c)
    BY DEF With
  <2> HIDE DEF line, fits, asked, taken
  <2>2. IsValid(l) => ~Gone(l)
    BY GoneFacts
  <2>3. Normal(l) => IsValid(l)
    BY DEF Normal
  <2> QED BY <1>4, <2>1, <2>2, <2>3 DEF LastOK
<1>12. fits = TRUE
  BY <1>1, <1>10, <1>11, GoneFacts DEF l, f
<1>13. line \in Line /\ ~line.lent /\ ~Normal(line) /\ (LastDirectory => IsValid(line))
  BY <1>1, <1>2, <1>10, <1>11, NoLineType DEF Normal
<1> HIDE DEF line, fits
<1>14. /\ p.s \in Sys /\ p.s.ok = TRUE /\ p.s.mem = s.mem /\ p.s.ok = s.ok
       /\ \A b \in Addr : b # a => p.s.at[b] = s.at[b]
  BY <1>2, <1>6 DEF ReleaseAsked, OnlyAt, Sys
<1>15. asked = Put(p.s, n, a, line)
  BY <1>12, <1>14 DEF Put, Sys
<1>16. LastOK(line, w, v, With(f, c), Writers(f), Dirties(f))
  <2>1. CASE LastDirectory
    BY <1>4, <1>10, <2>1
  <2>2. CASE ~LastDirectory
    <3>1. Dirties(f) = {} => w = v
      BY <1>4, <1>11, <2>2, GoneFacts DEF LastOK
    <3> QED BY <1>10, <2>2, <3>1, NoLineType DEF LastOK, Normal
  <2> QED BY <2>1, <2>2
<1> HIDE DEF asked
<1>17. Only(p.s, asked, a, {n}) /\ asked.at[a][n] = line /\ asked.mem = p.s.mem
  <2> HIDE DEF taken
  <2>0. p.s \in Sys /\ n \in Node /\ line \in Line
    BY <1>1, <1>13, <1>14
  <2> DEFINE ps == p.s
  <2>1. Only(ps, Put(ps, n, a, line), a, {n}) /\ Put(ps, n, a, line).at[a][n] = line /\ Put(ps, n, a, line).mem = ps.mem
    <3> HIDE DEF ps
    <3>1. ps \in Sys
      BY <2>0 DEF ps
    <3> QED BY <2>0, <3>1, OnlyPut
  <2> QED BY <1>15, <2>1
<1> DEFINE g == p.s.at[a]
           h == asked.at[a]
<1>18. /\ AboveOK(g, a, v) /\ Holders(g) = Holders(f) /\ g[L1D(c)] = f[L1D(c)] /\ g[i] = f[i]
       /\ \A k \in ICore : g[L1I(k)] = f[L1I(k)]
       /\ \A k \in Node \ {L3} : g[k].lent => f[k].lent
       /\ p.hit <=> Holders(f) \ {c} # {}
  BY <1>6 DEF ReleaseAsked, f, i
<1>19. /\ asked \in Sys /\ asked.ok /\ asked.mem = s.mem /\ h \in Lines
       /\ \A b \in Addr : b # a => asked.at[b] = s.at[b]
  BY <1>14, <1>17 DEF Only, Sys
<1>20. SameAbove(g, h)
  BY <1>1, <1>17 DEF Only, SameAbove
<1> HIDE DEF g, h
<1>21. /\ AboveOK(h, a, v) /\ Holders(h) = Holders(f) /\ h[L1D(c)] = f[L1D(c)] /\ h[i] = f[i]
       /\ \A k \in ICore : h[L1I(k)] = f[L1I(k)]
       /\ \A k \in Node \ {L3} : h[k].lent => f[k].lent
       /\ h[L3] = line
  <2>1. AboveOK(h, a, v) /\ Holders(h) = Holders(g)
    BY <1>18, <1>19, <1>20, SameAboveFacts
  <2>2. \A k \in Node \ {L3} : h[k] = g[k]
    BY <1>20 DEF SameAbove
  <2>3. L1D(c) \in Node \ {L3} /\ i \in Node \ {L3} /\ \A k \in ICore : L1I(k) \in Node \ {L3}
    BY <1>1, Nodes
  <2>4. h[L1D(c)] = g[L1D(c)] /\ h[i] = g[i] /\ \A k \in ICore : h[L1I(k)] = g[L1I(k)]
    BY <2>2, <2>3
  <2> QED BY <1>1, <1>17, <1>18, <2>1, <2>2, <2>4 DEF h
<1>22. Around(h, a, c, v)
  <2>1. \A d \in Core : d # c => ~Writer(h, d)
    BY <1>3, <1>18, <1>21 DEF AboveOK, Held, i
  <2> QED BY <1>21, <2>1 DEF AboveOK, Around
<1>23. \A b \in Addr, k \in Node : asked.at[b][k].lent => s.at[b][k].lent
  BY <1>13, <1>19, <1>21 DEF h, f
<1>24. Steady(asked, old, now, Addr \ {a})
  BY <1>19 DEF Steady, Settled
<1>25. CASE p.hit
  <2>1. t = Put(asked, i, a, ToClean(h[i]))
    BY <1>8, <1>9, <1>25 DEF h
  <2>2. ~m.dirty /\ Dirties(f) = {}
    <3>1. \E d \in Core : d # c /\ Held(f, d)
      BY <1>18, <1>25 DEF Holders
    <3>2. ~Writer(f, c)
      BY <1>4, <3>1 DEF Clear
    <3> QED BY <1>3, <1>4, <1>5, <3>2, CoreFacts DEF i, m
  <2>3. ToClean(h[i]) = m /\ m \in Line /\ h[i] = m
    BY <1>1, <1>21, <2>2 DEF ToClean, Line, m
  <2>4. Only(asked, t, a, {i}) /\ t.at[a][i] = m /\ t.mem = asked.mem
    BY <1>1, <1>19, <2>1, <2>3, OnlyPut
  <2>5. t.at[a] = h
    <3>1. t.at[a] \in Lines /\ \A k \in Node : t.at[a][k] = h[k]
      BY <2>3, <2>4 DEF Only, Sys, h
    <3> QED BY <1>19, <3>1 DEF Lines
  <2>6. LastOK(line, w, v, Holders(h) \ {c}, {}, {})
    <3>1. Holders(h) \ {c} \subseteq With(f, c)
      BY <1>21 DEF With
    <3> QED BY <1>16, <2>2, <3>1, LastMono
  <2>7. Steady(t, old, now, Addr \ {a})
    <3>1. Steady(t, old, now, (Addr \ {a}) \ {a})
      BY <1>24, <2>4, OnlySteady
    <3>2. (Addr \ {a}) \ {a} = Addr \ {a}
      OBVIOUS
    <3> QED BY <3>1, <3>2
  <2>8. \A b \in Addr : b # a => t.at[b] = asked.at[b]
    BY <2>4 DEF Only
  <2>9. NoNewLent(s, t)
    BY <1>23, <2>5, <2>8 DEF NoNewLent, h
  <2>10. t.mem[a] = w
    BY <1>19, <2>4 DEF w
  <2> QED BY <1>3, <1>19, <1>21, <1>22, <2>2, <2>3, <2>5, <2>6, <2>7, <2>8, <2>9, <2>10 DEF GivenUp, f, i, v, w
<1>26. CASE ~p.hit
  <2>1. PICK t1 \in MakeRoom(AtMemory, asked, n, a, "normal") : TookLine(t1, r, n, i, a, taken)
    BY <1>9, <1>26
  <2>2. RoomAtLast(asked, t1, a, old, now, Addr \ {a}, "normal")
    <3>1. \A k \in Node : Lendable(asked, k)
      <4>1. Calm(asked)
        BY <1>23 DEF Calm
      <4> QED BY <4>1, QuietFacts
    <3> QED BY <1>1, <1>24, <2>1, <3>1, LastMakeRoom
  <2>3. /\ Steady(t1, old, now, Addr \ {a}) /\ t1.at[a] = h /\ t1.mem[a] = w /\ NoNewLent(asked, t1)
        /\ \A b \in Addr, k \in Node : k # L3 => t1.at[b][k] = asked.at[b][k]
    BY <1>19, <2>2 DEF RoomAtLast, h, w
  <2>4. taken = TakenLine(line, m)
    BY <1>1 DEF TakenLine
  <2>5. taken \in Line /\ ~taken.lent /\ LastOK(taken, w, v, {}, {}, {})
    <3>1. m.data = v /\ m.outer # "I" /\ (m.dirty => AllowWrite(m)) /\ (~m.dirty => Dirties(f) = {})
      BY <1>4, <1>5 DEF MidLine
    <3> QED BY <1>1, <1>13, <1>16, <2>4, <3>1, TakenLineOK
  <2> HIDE DEF taken
  <2>6. t1 \in Sys
    BY <2>3 DEF Steady
  <2>7. Took(t1, t, n, i, a, taken)
    <3>1. Took(t1, Put(r, i, a, ToClean(r.at[a][i])), n, i, a, taken)
      BY <1>1, <2>1, <2>5, <2>6, TookFacts
    <3> QED BY <1>8, <3>1
  <2>8. Only(t1, t, a, {n, i}) /\ t.mem = t1.mem /\ t.at[a][n] = taken /\ t.at[a][i] = LeftLine(h[i])
    BY <2>3, <2>7 DEF Took
  <2>9. /\ Around(t.at[a], a, c, v) /\ With(t.at[a], c) = With(h, c)
        /\ t.at[a][L1D(c)] = h[L1D(c)] /\ \A k \in ICore : t.at[a][L1I(k)] = h[L1I(k)]
    <3>1. Only(t1, t, a, {L2(c), L3}) /\ Around(t1.at[a], a, c, v)
      BY <1>1, <1>22, <2>3, <2>8 DEF Only
    <3>2. /\ Around(t.at[a], a, c, v) /\ With(t.at[a], c) = With(t1.at[a], c)
          /\ t.at[a][L1D(c)] = t1.at[a][L1D(c)] /\ \A k \in ICore : t.at[a][L1I(k)] = t1.at[a][L1I(k)]
      <4>1. Only(t1, t, a, {L2(c), L3})
        BY <3>1
      <4>2. Around(t1.at[a], a, c, v)
        BY <3>1
      <4>3. AroundKept(t1.at[a], t.at[a], a, c, v)
        BY <4>1, <4>2, OnlyAround
      <4> QED BY <4>3 DEF AroundKept
    <3> QED BY <2>3, <3>2
  <2>10. Steady(t, old, now, Addr \ {a})
    <3>1. Steady(t, old, now, (Addr \ {a}) \ {a})
      BY <2>3, <2>8, OnlySteady
    <3>2. (Addr \ {a}) \ {a} = Addr \ {a}
      OBVIOUS
    <3> QED BY <3>1, <3>2
  <2>11. Holders(t.at[a]) \ {c} = {}
    <3>1. Holders(f) \ {c} = {}
      BY <1>18, <1>26
    <3> QED BY <1>21, <2>9, <3>1 DEF With
  <2>12. LastOK(t.at[a][L3], t.mem[a], v, Holders(t.at[a]) \ {c}, {}, {})
    BY <1>1, <2>3, <2>5, <2>8, <2>11
  <2>13. ~t.at[a][i].dirty /\ t.at[a][i].lent = h[i].lent
    <3>1. h[i] \in Line
      BY <1>1, <1>21 DEF m
    <3> QED BY <2>8, <3>1 DEF LeftLine, Line
  <2>14. \A b \in Addr : b # a => t.at[b] = t1.at[b]
    BY <2>8 DEF Only
  <2>15. NoNewLent(s, t)
    <3>1. \A k \in Node : t.at[a][k].lent => h[k].lent
      <4>1. \A k \in Node \ {n, i} : t.at[a][k] = h[k]
        BY <2>3, <2>8 DEF Only
      <4> QED BY <2>5, <2>8, <2>13, <4>1
    <3>2. \A k \in Node : t.at[a][k].lent => asked.at[a][k].lent
      BY <3>1 DEF h
    <3>3. \A b \in Addr : b # a => \A k \in Node : t.at[b][k].lent => asked.at[b][k].lent
      BY <2>3, <2>14 DEF NoNewLent
    <3> QED BY <1>23, <3>2, <3>3 DEF NoNewLent
  <2>16. \A b \in Addr \ {a}, k \in Node : k # L3 => t.at[b][k] = s.at[b][k]
    BY <1>19, <2>3, <2>14
  <2> QED BY <1>3, <1>21, <2>3, <2>8, <2>9, <2>10, <2>12, <2>13, <2>15, <2>16 DEF GivenUp, f, i, v, w
<1> QED BY <1>25, <1>26

----------------------------------------------------------------------------
(* The eviction of a block from the L2 of core c.                          *)
MidLeft(r, x, a, c, old, now, B) ==
  LET f == r.at[a]
      g == x.at[a]
  IN  /\ Steady(x, old, now, B \ {a})
      /\ x.mem[a] \in {old[a], now[a]}
      /\ Around(g, a, c, now[a])
      /\ Gone(g[L1D(c)]) /\ ~g[L2(c)].dirty
      /\ LastOK(g[L3], x.mem[a], now[a], Holders(g) \ {c}, {}, {})
      /\ \A k \in ICore : g[L1I(k)] = f[L1I(k)]
      /\ NoNewLent(r, x)
      /\ \A b \in Addr \ {a}, k \in Node : k # L3 => x.at[b][k] = r.at[b][k]
      /\ ~LastExclusive => \A b \in Addr \ {a} : x.at[b] = r.at[b] /\ x.mem[b] = r.mem[b]
      /\ MidExclusive => \A d \in Core : g[L1D(d)] = f[L1D(d)]

LEMMA MidRelease ==
  ASSUME NEW r, NEW a \in Addr, NEW c \in Core, NEW old, NEW now \in [Addr -> Val], NEW B,
         Steady(r, old, now, B), a \in B, Gone(r.at[a][L1D(c)]), Normal(r.at[a][L2(c)]),
         LastExclusive => B = Addr /\ Calm(r),
         NEW x \in Writeback(AtL3, r, L2(c), a, "evict", LastExclusive)
  PROVE  MidLeft(r, x, a, c, old, now, B)
<1> DEFINE n == L2(c)
           f == r.at[a]
           l == f[L3]
           m == f[n]
           v == now[a]
           w == r.mem[a]
<1>1. /\ n \in Node /\ L3 \in Node /\ n # L3 /\ l \in Line /\ m \in Line /\ v \in Val /\ r \in Sys /\ r.ok
      /\ Rest(f, w, a, v) /\ w \in {old[a], v} /\ B \subseteq Addr
  BY Nodes DEF Steady, Settled, Sys, Lines
<1>2. Held(f, c) /\ IsValid(m) /\ ~Gone(m)
  BY GoneFacts DEF Held, Normal
<1>3. /\ Around(f, a, c, v) /\ CoreOK(f[L1D(c)], m, v)
      /\ Writer(f, c) => Clear(f, c)
      /\ LastOK(l, w, v, With(f, c), Writers(f), Dirties(f))
      /\ Dirties(f) = (IF Dirty(f, c) THEN {c} ELSE {})
  BY <1>1, <1>2, RestAround
<1>4. MidLine(f[L1D(c)], m, v) /\ ~f[L1D(c)].dirty /\ (Dirty(f, c) <=> m.dirty) /\ m.data = v
  BY <1>2, <1>3, GoneFacts DEF CoreOK, Dirty, MidLine
<1> HIDE DEF n, f, l, m, v, w
<1>5. CASE LastExclusive
  <2>1. x \in WritebackReq(AtL3, r, L2(c), a, "evict")
    BY <1>5 DEF Writeback
  <2>2. GivenUp(r, x, a, c, old, now)
    BY <1>5, <2>1, GiveUp
  <2>3. x.mem[a] \in {old[a], now[a]}
    BY <1>1, <2>2 DEF GivenUp, v, w
  <2> QED BY <1>5, <2>2, <2>3, Programs DEF MidLeft, GivenUp
<1>6. CASE ~LastExclusive
  <2>1. /\ Steady(x, old, now, B \ {a}) /\ x.mem = r.mem /\ NoNewLent(r, x)
        /\ Only(r, x, a, {L2(c), L3}) /\ ~x.at[a][n].dirty
        /\ LastOK(x.at[a][L3], w, v, With(f, c), {}, {})
    <3>1. CASE IsDirty(m)
      <4>1. x \in WritebackReq(AtL3, r, L2(c), a, "evict")
        BY <3>1 DEF Writeback, m, n, f
      <4>2. Normal(l) /\ l.outer = "M"
        <5>1. c \in With(f, c)
          BY DEF With
        <5>2. IsValid(l) => ~Gone(l)
          BY GoneFacts
        <5> QED BY <1>3, <1>6, <5>1, <5>2 DEF LastOK
      <4>3. ReleasedLast(r, x, a, c, "evict")
        BY <1>1, <1>4, <1>6, <4>1, <4>2, ReleaseLast DEF l, f, m, n
      <4>4. /\ Only(r, x, a, {L2(c), L3}) /\ x.mem = r.mem
            /\ LET y == x.at[a][L3]
               IN  /\ y \in Line /\ y.st = "M" /\ y.outer = "M" /\ y.dirty = TRUE /\ y.data = v /\ y.sharer = l.sharer
                   /\ y.way = "normal" /\ y.lent = l.lent
            /\ x.at[a][n] = ToClean(GivenLine(m, "evict"))
        BY <1>4, <4>3 DEF ReleasedLast, l, f, m, n
      <4>5. ~x.at[a][n].dirty /\ x.at[a][n].lent = m.lent
        BY <1>1, <4>4 DEF GivenLine, ToClean, Line, State
      <4>6. LastOK(x.at[a][L3], w, v, With(f, c), {}, {})
        BY <1>3, <1>6, <4>4 DEF LastOK, Normal, IsValid, AllowWrite
      <4>7. NoNewLent(r, x)
        <5>1. \A k \in Node : x.at[a][k].lent => f[k].lent
          BY <4>4, <4>5 DEF Only, l, m, f, n
        <5> QED BY <4>4, <5>1 DEF Only, NoNewLent, f
      <4> QED BY <4>4, <4>5, <4>6, <4>7, OnlySteady
    <3>2. CASE ~IsDirty(m)
      <4>1. x = r
        BY <1>6, <3>2 DEF Writeback, m, n, f
      <4>2. Dirties(f) = {} /\ ~m.dirty
        BY <1>3, <1>4, <3>2 DEF IsDirty
      <4>3. LastOK(l, w, v, With(f, c), {}, {})
        BY <1>3, <4>2, LastMono
      <4>4. Steady(r, old, now, B \ {a})
        BY DEF Steady
      <4> QED BY <1>1, <4>1, <4>2, <4>3, <4>4 DEF NoNewLent, Only, l, m, f, n
    <3> QED BY <3>1, <3>2
  <2>2. AroundKept(f, x.at[a], a, c, v)
    BY <1>3, <2>1, OnlyAround DEF f
  <2>3. LastOK(x.at[a][L3], w, v, Holders(x.at[a]) \ {c}, {}, {})
    <3>1. Holders(x.at[a]) \ {c} \subseteq With(f, c)
      BY <2>2 DEF AroundKept, With
    <3> QED BY <2>1, <3>1, LastMono
  <2>4. Gone(f[L1D(c)])
    BY DEF f
  <2>5. \A b \in Addr \ {a} : x.at[b] = r.at[b] /\ x.mem[b] = r.mem[b]
    BY <2>1 DEF Only
  <2>6. \A d \in Core : x.at[a][L1D(d)] = f[L1D(d)]
    <3>1. \A d \in Core : L1D(d) \in Node \ {L2(c), L3}
      BY Nodes
    <3> QED BY <2>1, <3>1 DEF Only, f
  <2> QED BY <1>1, <1>6, <2>1, <2>2, <2>3, <2>4, <2>5, <2>6 DEF MidLeft, AroundKept, f, v, w, n
<1> QED BY <1>5, <1>6

MidEvicted(s, t, a, c, old, now, B) ==
  /\ Steady(t, old, now, B)
  /\ NoNewLent(s, t)
  /\ \A b \in Addr \ {a}, k \in Node : k # L3 => t.at[b][k] = s.at[b][k]
  /\ ~LastExclusive => \A b \in Addr \ {a} : t.at[b] = s.at[b] /\ t.mem[b] = s.mem[b]
  /\ \A k \in ICore : t.at[a][L1I(k)] = s.at[a][L1I(k)]
  /\ MidExclusive => \A d \in Core : t.at[a][L1D(d)] = s.at[a][L1D(d)]

LEMMA MidEvict ==
  ASSUME NEW s, NEW a \in Addr, NEW c \in Core, NEW old, NEW now \in [Addr -> Val], NEW B,
         Steady(s, old, now, B), a \in B, IsValid(s.at[a][L2(c)]),
         LastExclusive => B = Addr /\ Calm(s),
         NEW t \in Evict(AtL3, s, L2(c), a)
  PROVE  MidEvicted(s, t, a, c, old, now, B)
<1> DEFINE n == L2(c)
           r == EvictProbes(s, n, a)
           f == s.at[a]
           g == r.at[a]
           v == now[a]
<1>1. /\ n \in Node /\ L3 \in Node /\ n # L3 /\ v \in Val /\ s \in Sys /\ s.ok
      /\ Rest(f, s.mem[a], a, v) /\ s.mem[a] \in {old[a], v} /\ B \subseteq Addr
      /\ (ReleasesClean(n) <=> LastExclusive)
  <2>1. n # L3 /\ n \notin Instr /\ Outer(n) = L3
    BY Nodes
  <2> HIDE DEF n
  <2> QED BY <2>1, Nodes, Programs DEF Steady, Settled, ReleasesClean, n
<1>2. MidProbedOK(s, r, a, c, s.mem[a], v)
  BY <1>1, MidProbes
<1> HIDE DEF n, r, f, g, v
<1>3. /\ OnlyAt(s, r, a)
      /\ \A k \in Node \ {L1D(c), n} : g[k] = f[k]
      /\ Rest(g, s.mem[a], a, v) /\ Gone(g[L1D(c)]) /\ Normal(g[n])
      /\ \A k \in Node : g[k].lent => f[k].lent
      /\ MidExclusive => r = s
  BY <1>2 DEF MidProbedOK, f, g, n
<1>4. r \in Sys /\ r.ok /\ r.mem = s.mem /\ \A b \in Addr : b # a => r.at[b] = s.at[b]
  BY <1>1, <1>3 DEF OnlyAt
<1>5. Steady(r, old, now, B)
  <2>1. \A b \in B : Settled(r, old, now, b)
    BY <1>1, <1>3, <1>4 DEF Steady, Settled, g, v
  <2> QED BY <1>1, <1>4, <2>1 DEF Steady
<1>6. NoNewLent(s, r)
  BY <1>3, <1>4 DEF NoNewLent, f, g
<1>7. PICK x \in Writeback(AtL3, r, n, a, "evict", ReleasesClean(n)) :
        t = [x EXCEPT !.at[a][n] = NoLine, !.ok = @ /\ ~IsDirty(x.at[a][n])]
  BY DEF Evict, r, n
<1>8. MidLeft(r, x, a, c, old, now, B)
  <2>1. x \in Writeback(AtL3, r, n, a, "evict", LastExclusive)
    BY <1>1, <1>7 DEF Writeback
  <2>2. LastExclusive => Calm(r)
    BY <1>6 DEF NoNewLent, Calm
  <2> QED BY <1>3, <1>5, <2>1, <2>2, MidRelease DEF n, g
<1> DEFINE h == x.at[a]
           k == t.at[a]
<1>9. /\ Steady(x, old, now, B \ {a})
      /\ x.mem[a] \in {old[a], v}
      /\ Around(h, a, c, v)
      /\ Gone(h[L1D(c)]) /\ ~h[n].dirty
      /\ LastOK(h[L3], x.mem[a], v, Holders(h) \ {c}, {}, {})
      /\ \A i \in ICore : h[L1I(i)] = g[L1I(i)]
      /\ NoNewLent(r, x)
      /\ \A b \in Addr \ {a}, i \in Node : i # L3 => x.at[b][i] = r.at[b][i]
      /\ ~LastExclusive => \A b \in Addr \ {a} : x.at[b] = r.at[b] /\ x.mem[b] = r.mem[b]
      /\ MidExclusive => \A d \in Core : h[L1D(d)] = g[L1D(d)]
  BY <1>8 DEF MidLeft, n, g, v
<1> HIDE DEF h, k
<1>10. x \in Sys /\ x.ok = TRUE
  BY <1>9 DEF Steady, Sys
<1>11. t = Put(x, n, a, NoLine)
  <2>1. (x.ok /\ ~IsDirty(x.at[a][n])) = x.ok
    BY <1>9, <1>10 DEF IsDirty, h
  <2>2. t = [x EXCEPT !.at[a][n] = NoLine, !.ok = x.ok]
    BY <1>7, <2>1
  <2> HIDE DEF NoLine
  <2> QED BY <2>2, <1>10 DEF Put, Sys
<1>12. Only(x, t, a, {n}) /\ k[n] = NoLine /\ t.mem = x.mem
  BY <1>1, <1>10, <1>11, OnlyPut, NoLineType DEF k
<1>13. AroundKept(h, k, a, c, v)
  <2>1. Only(x, t, a, {L2(c), L3})
    BY <1>12 DEF Only, n
  <2> QED BY <1>9, <2>1, OnlyAround DEF h, k
<1>14. Rest(k, t.mem[a], a, v)
  <2>1. k[L3] = h[L3]
    BY <1>1, <1>12 DEF Only, k, h
  <2>2. Gone(k[L1D(c)]) /\ Gone(k[L2(c)])
    BY <1>9, <1>12, <1>13, NoLineType DEF AroundKept, n
  <2>3. Holders(k) \subseteq Holders(h) \ {c}
    <3>1. ~Held(k, c)
      BY <2>2, GoneFacts DEF Held
    <3> QED BY <1>13, <3>1 DEF AroundKept, With, Holders
  <2>4. LastOK(k[L3], t.mem[a], v, Holders(h) \ {c}, {}, {})
    BY <1>9, <1>12, <2>1
  <2>5. Around(k, a, c, v)
    BY <1>13 DEF AroundKept
  <2> QED BY <2>2, <2>3, <2>4, <2>5, DropRest
<1>15. Steady(t, old, now, B)
  <2>1. Settled(t, old, now, a)
    BY <1>9, <1>12, <1>14 DEF Settled, k, v
  <2>2. t \in Sys /\ t.ok = x.ok /\ \A b \in Addr : b # a => t.at[b] = x.at[b] /\ t.mem[b] = x.mem[b]
    BY <1>12 DEF Only
  <2>3. \A b \in B : b # a => Settled(t, old, now, b)
    BY <1>1, <1>9, <2>2 DEF Steady, Settled
  <2> QED BY <1>1, <1>10, <2>1, <2>2, <2>3 DEF Steady
<1>16. \A b \in Addr : b # a => t.at[b] = x.at[b] /\ t.mem[b] = x.mem[b]
  BY <1>12 DEF Only
<1>17. NoNewLent(s, t)
  <2>1. \A i \in Node : k[i].lent => h[i].lent
    BY <1>12, NoLineType DEF Only, k, h
  <2>2. NoNewLent(x, t)
    BY <1>16, <2>1 DEF NoNewLent, k, h
  <2> QED BY <1>6, <1>9, <2>2 DEF NoNewLent
<1>18. \A i \in ICore : k[L1I(i)] = f[L1I(i)]
  <2>1. \A i \in ICore : L1I(i) \in Node \ {L1D(c), n}
    BY Nodes DEF n
  <2> QED BY <1>3, <1>9, <1>13, <2>1 DEF AroundKept
<1>19. MidExclusive => \A d \in Core : k[L1D(d)] = f[L1D(d)]
  <2>1. \A d \in Core : L1D(d) \in Node \ {n}
    BY Nodes DEF n
  <2>2. \A d \in Core : k[L1D(d)] = h[L1D(d)]
    BY <1>12, <2>1 DEF Only, k, h
  <2> QED BY <1>3, <1>9, <2>2 DEF f, g
<1> QED BY <1>4, <1>9, <1>15, <1>16, <1>17, <1>18, <1>19 DEF MidEvicted, k, f

RoomAtMid(s, t, a, c, old, now, B) ==
  /\ Steady(t, old, now, B)
  /\ NoNewLent(s, t)
  /\ \A k \in Node \ {L3} : t.at[a][k] = s.at[a][k]
  /\ ~LastExclusive => t.at[a] = s.at[a] /\ t.mem[a] = s.mem[a]
  /\ \A b \in Addr, k \in ICore : t.at[b][L1I(k)] = s.at[b][L1I(k)]
  /\ MidExclusive => \A b \in Addr, d \in Core : t.at[b][L1D(d)] = s.at[b][L1D(d)]

LEMMA MidMakeRoom ==
  ASSUME NEW s, NEW a \in Addr, NEW c \in Core, NEW old, NEW now \in [Addr -> Val], NEW B,
         Steady(s, old, now, B), Addr \ {a} \subseteq B, LastExclusive => B = Addr /\ Calm(s), NEW way,
         NEW t \in MakeRoom(AtL3, s, L2(c), a, way)
  PROVE  RoomAtMid(s, t, a, c, old, now, B)
<1> DEFINE n == L2(c)
           there == {b \in Addr \ {a} : /\ Set[n[1]][b] = Set[n[1]][a]
                                        /\ IsValid(s.at[b][n])
                                        /\ s.at[b][n].way = way}
<1> HIDE DEF n
<1>1. t = s \/ \E d \in there : t \in Evict(AtL3, s, n, d)
  BY DEF MakeRoom, n
<1>2. CASE t = s
  BY <1>2 DEF RoomAtMid, NoNewLent, Steady
<1>3. CASE \E d \in there : t \in Evict(AtL3, s, n, d)
  <2>1. PICK d \in there : t \in Evict(AtL3, s, n, d)
    BY <1>3
  <2>2. d \in Addr /\ d # a /\ d \in B /\ IsValid(s.at[d][L2(c)])
    BY DEF n
  <2>3. MidEvicted(s, t, d, c, old, now, B)
    BY <2>1, <2>2, MidEvict DEF n
  <2> HIDE DEF there
  <2>4. \A k \in ICore : L1I(k) \in Node /\ L1I(k) # L3
    BY Nodes
  <2>5. \A k \in Core : L1D(k) \in Node /\ L1D(k) # L3
    BY Nodes
  <2>6. \A b \in Addr, k \in ICore : t.at[b][L1I(k)] = s.at[b][L1I(k)]
    BY <2>3, <2>4 DEF MidEvicted
  <2>7. MidExclusive => \A b \in Addr, k \in Core : t.at[b][L1D(k)] = s.at[b][L1D(k)]
    BY <2>3, <2>5 DEF MidEvicted
  <2> QED BY <2>2, <2>3, <2>6, <2>7 DEF MidEvicted, RoomAtMid
<1> QED BY <1>1, <1>2, <1>3

----------------------------------------------------------------------------
(* A cache of core c acquires a block from its L2.                         *)
MidServedLine(x, act, id, v, u) ==
  /\ x \in Line /\ IsValid(x) /\ x.data = v /\ x.outer # "I"
  /\ x.dirty => AllowWrite(x)
  /\ act = "fetch_write" => AllowWrite(x)
  /\ IF MidExclusive
     THEN /\ x.way \in {"normal", "none"}
          /\ id = 0 \/ x.way = "none" => ~x.dirty
          /\ id # 0 /\ x.way = "normal" => Gone(u)
     ELSE x.way = "normal"
  /\ x.way = "normal" => ~x.lent

MidServed(s, t, a, c, act, id, old, now) ==
  LET f == s.at[a]
      g == t.at[a]
      u == g[L1D(c)]
      x == g[L2(c)]
  IN  /\ Steady(t, old, now, Addr \ {a})
      /\ t.mem[a] \in {old[a], now[a]}
      /\ Around(g, a, c, now[a])
      /\ \A k \in ICore : g[L1I(k)] = f[L1I(k)]
      /\ id = 0 => u = f[L1D(c)]
      /\ UpperOK(u, now[a]) /\ ~AllowWrite(u) /\ ~u.dirty
      /\ MidServedLine(x, act, id, now[a], u)
      /\ AllowWrite(x) => Clear(g, c)
      /\ LastOK(g[L3], t.mem[a], now[a], With(g, c), IF AllowWrite(x) THEN {c} ELSE {}, IF x.dirty THEN {c} ELSE {})
      /\ \A b \in Addr, k \in Node : t.at[b][k].lent => b = a /\ k = L2(c)

(* A call of the L1D of core c, or of its L1I.                             *)
MidCall(s, a, c, act, id, old, now) ==
  /\ Steady(s, old, now, Addr) /\ Calm(s)
  /\ \/ id = 0 /\ act \in {"fetch_read", "fetch_write"} /\ ~AllowWrite(s.at[a][L1D(c)])
     \/ id = NoId /\ act = "fetch_read"

(* The L2 has the block, with the permission that is asked for.            *)
MidReady(s, t, a, c, act, old, now) ==
  LET f == s.at[a]
      g == t.at[a]
      x == g[L2(c)]
  IN  /\ Steady(t, old, now, Addr \ {a})
      /\ t.mem[a] \in {old[a], now[a]}
      /\ Around(g, a, c, now[a])
      /\ g[L1D(c)] = f[L1D(c)] /\ \A k \in ICore : g[L1I(k)] = f[L1I(k)]
      /\ x \in Line /\ IsValid(x) /\ x.data = now[a] /\ x.outer # "I"
      /\ x.dirty => AllowWrite(x)
      /\ act = "fetch_write" => AllowWrite(x)
      /\ AllowWrite(x) => Clear(g, c)
      /\ LastOK(g[L3], t.mem[a], now[a], With(g, c), IF AllowWrite(x) THEN {c} ELSE {}, IF x.dirty THEN {c} ELSE {})
      /\ NoNewLent(s, t)

LEMMA GrantedReady ==
  ASSUME NEW s, NEW t, NEW a \in Addr, NEW c \in Core, NEW act \in {"fetch_read", "fetch_write"}, NEW old, NEW now,
         GrantedLast(s, t, a, c, act, old, now), s.at[a][L2(c)].dirty = FALSE
  PROVE  MidReady(s, t, a, c, act, old, now) /\ t.at[a][L2(c)].way = s.at[a][L2(c)].way
<1> DEFINE m == s.at[a][L2(c)]
           x == t.at[a][L2(c)]
           g == t.at[a]
<1>1. /\ Steady(t, old, now, Addr \ {a})
      /\ t.mem[a] \in {old[a], now[a]}
      /\ Around(g, a, c, now[a])
      /\ g[L1D(c)] = s.at[a][L1D(c)] /\ \A i \in ICore : g[L1I(i)] = s.at[a][L1I(i)]
      /\ MidGrant(m, x, act, now[a])
      /\ AllowWrite(x) => Clear(g, c)
      /\ LastOK(g[L3], t.mem[a], now[a], With(g, c), IF AllowWrite(x) THEN {c} ELSE {}, {})
      /\ NoNewLent(s, t)
  BY DEF GrantedLast
<1>2. m.dirty = FALSE
  OBVIOUS
<1> HIDE DEF m, x, g
<1>3. /\ x \in Line /\ IsValid(x) /\ x.data = now[a] /\ x.outer # "I" /\ x.dirty = FALSE
      /\ act = "fetch_write" => AllowWrite(x)
      /\ x.way = m.way
  BY <1>1, <1>2 DEF MidGrant, IsValid, AllowWrite
<1>4. (IF x.dirty THEN {c} ELSE {}) = {}
  BY <1>3
<1> QED BY <1>1, <1>3, <1>4 DEF MidReady, m, x, g

(* The line of the L2 moves to another way.                                *)
SameContent(x, y) ==
  y \in Line /\ y.st = x.st /\ y.outer = x.outer /\ y.dirty = x.dirty /\ y.data = x.data

LEMMA ReadyPut ==
  ASSUME NEW s, NEW t, NEW a \in Addr, NEW c \in Core, NEW act, NEW old, NEW now,
         MidReady(s, t, a, c, act, old, now), NEW y, SameContent(t.at[a][L2(c)], y), y.lent => t.at[a][L2(c)].lent
  PROVE  MidReady(s, Put(t, L2(c), a, y), a, c, act, old, now) /\ Put(t, L2(c), a, y).at[a][L2(c)] = y
<1> DEFINE n == L2(c)
           x == t.at[a][n]
           r == Put(t, n, a, y)
           g == t.at[a]
           h == r.at[a]
<1>1. n \in Node /\ L3 \in Node /\ n # L3
  BY Nodes
<1> HIDE DEF n, x, r, g, h
<1>2. t \in Sys /\ y \in Line
  BY DEF MidReady, Steady, SameContent
<1>3. Only(t, r, a, {n}) /\ h[n] = y /\ r.mem = t.mem
  BY <1>1, <1>2, OnlyPut DEF r, h
<1>4. /\ Steady(t, old, now, Addr \ {a})
      /\ t.mem[a] \in {old[a], now[a]}
      /\ Around(g, a, c, now[a])
      /\ g[L1D(c)] = s.at[a][L1D(c)] /\ \A i \in ICore : g[L1I(i)] = s.at[a][L1I(i)]
      /\ IsValid(x) /\ x.data = now[a] /\ x.outer # "I"
      /\ x.dirty => AllowWrite(x)
      /\ act = "fetch_write" => AllowWrite(x)
      /\ AllowWrite(x) => Clear(g, c)
      /\ LastOK(g[L3], t.mem[a], now[a], With(g, c), IF AllowWrite(x) THEN {c} ELSE {}, IF x.dirty THEN {c} ELSE {})
      /\ NoNewLent(s, t)
  BY DEF MidReady, g, x, n
<1>5. y \in Line /\ (IsValid(y) <=> IsValid(x)) /\ y.outer = x.outer /\ y.dirty = x.dirty /\ y.data = x.data /\ (AllowWrite(y) <=> AllowWrite(x))
  BY DEF SameContent, IsValid, AllowWrite, x, n
<1>6. AroundKept(g, h, a, c, now[a])
  <2>1. Only(t, r, a, {L2(c), L3})
    BY <1>3 DEF Only, n
  <2> QED BY <1>4, <2>1, OnlyAround DEF g, h
<1>7. h[L3] = g[L3]
  BY <1>1, <1>3 DEF Only, g, h
<1>8. Steady(r, old, now, Addr \ {a})
  <2>1. Steady(r, old, now, (Addr \ {a}) \ {a})
    BY <1>3, <1>4, OnlySteady
  <2>2. (Addr \ {a}) \ {a} = Addr \ {a}
    OBVIOUS
  <2> QED BY <2>1, <2>2
<1>9. NoNewLent(s, r)
  <2>1. NoNewLent(t, r)
    <3>1. y.lent => x.lent
      BY DEF x, n
    <3>2. \A k \in Node : h[k].lent => g[k].lent
      BY <1>3, <3>1 DEF Only, g, h, x
    <3> QED BY <1>3, <3>2 DEF Only, NoNewLent, g, h
  <2> QED BY <1>4, <2>1 DEF NoNewLent
<1>10. (IF AllowWrite(y) THEN {c} ELSE {}) = (IF AllowWrite(x) THEN {c} ELSE {}) /\ (IF y.dirty THEN {c} ELSE {}) = (IF x.dirty THEN {c} ELSE {})
  BY <1>5
<1>11. LastOK(h[L3], r.mem[a], now[a], With(h, c), IF AllowWrite(y) THEN {c} ELSE {}, IF y.dirty THEN {c} ELSE {})
  BY <1>3, <1>4, <1>6, <1>7, <1>10 DEF AroundKept
<1>12. /\ Around(h, a, c, now[a]) /\ (AllowWrite(y) => Clear(h, c)) /\ r.mem[a] \in {old[a], now[a]}
       /\ h[L1D(c)] = s.at[a][L1D(c)] /\ \A i \in ICore : h[L1I(i)] = s.at[a][L1I(i)]
       /\ IsValid(y) /\ y.data = now[a] /\ y.outer # "I" /\ (y.dirty => AllowWrite(y)) /\ (act = "fetch_write" => AllowWrite(y))
  BY <1>3, <1>4, <1>5, <1>6 DEF AroundKept
<1> QED BY <1>2, <1>3, <1>8, <1>9, <1>11, <1>12 DEF MidReady, r, h, n

(* A hit of the L2: a write may need the permission of the L3.             *)
LEMMA MidPromote ==
  ASSUME NEW s, NEW a \in Addr, NEW c \in Core, NEW old, NEW now \in [Addr -> Val],
         Steady(s, old, now, Addr), Calm(s), Normal(s.at[a][L2(c)]), ~AllowWrite(s.at[a][L1D(c)]),
         NEW act \in {"fetch_read", "fetch_write"},
         NEW t \in Promote(AtL3, s, L2(c), a, Acquire(act))
  PROVE  MidReady(s, t, a, c, act, old, now) /\ t.at[a][L2(c)].way = "normal"
<1> DEFINE n == L2(c)
           f == s.at[a]
           l == f[L3]
           m == f[n]
           u == f[L1D(c)]
           v == now[a]
           w == s.mem[a]
           cmd == Acquire(act)
<1>1. /\ n \in Node /\ L3 \in Node /\ n # L3 /\ l \in Line /\ m \in Line /\ v \in Val /\ s \in Sys /\ s.ok
      /\ Rest(f, w, a, v) /\ w \in {old[a], v}
  BY Nodes DEF Steady, Settled, Sys, Lines
<1>2. Held(f, c) /\ IsValid(m) /\ ~Gone(m)
  BY GoneFacts DEF Held, Normal
<1>3. /\ Around(f, a, c, v) /\ CoreOK(u, m, v)
      /\ Writer(f, c) => Clear(f, c)
      /\ LastOK(l, w, v, With(f, c), Writers(f), Dirties(f))
      /\ Writers(f) = (IF Writer(f, c) THEN {c} ELSE {})
      /\ Dirties(f) = (IF Dirty(f, c) THEN {c} ELSE {})
  BY <1>1, <1>2, RestAround
<1>4. ~u.dirty
  <2>1. ~AllowWrite(u)
    OBVIOUS
  <2> HIDE DEF u
  <2> QED BY <1>3, <2>1, GoneFacts DEF CoreOK, UpperOK, AllowWrite
<1>5. MidLine(u, m, v) /\ m.data = v /\ m.outer # "I" /\ m.way = "normal" /\ (m.dirty => AllowWrite(m))
  BY <1>2, <1>3, <1>4 DEF CoreOK, MidLine, Normal
<1>6. (Writer(f, c) <=> AllowWrite(m)) /\ (Dirty(f, c) <=> m.dirty)
  BY <1>4 DEF Writer, Dirty
<1>7. Steady(s, old, now, Addr \ {a})
  BY DEF Steady
<1>8. MidReady(s, s, a, c, "fetch_read", old, now) /\ (AllowWrite(m) => MidReady(s, s, a, c, "fetch_write", old, now))
  <2>1. LastOK(l, w, v, With(f, c), IF AllowWrite(m) THEN {c} ELSE {}, IF m.dirty THEN {c} ELSE {})
    BY <1>3, <1>6
  <2>2. NoNewLent(s, s)
    BY DEF NoNewLent
  <2> HIDE DEF n, f, l, m, u, v, w
  <2>3. "fetch_read" # "fetch_write"
    OBVIOUS
  <2> QED BY <1>1, <1>2, <1>3, <1>5, <1>6, <1>7, <2>1, <2>2, <2>3 DEF MidReady, n, f, l, m, v, w
<1>9. CASE NeedPromote(cmd, m)
  <2>1. act = "fetch_write" /\ ~AllowWrite(m)
    BY <1>9 DEF NeedPromote, IsWrite, Acquire
  <2>2. t \in AcquireReq(AtL3, s, L2(c), a, "fetch_write")
    BY <1>9 DEF Promote, m, n, f
  <2>3. LastCall(s, a, c, old, now)
    <3>1. c \notin Writers(f)
      BY <1>6, <2>1 DEF Writers
    <3> QED BY <3>1, QuietFacts DEF LastCall, f
  <2>4. GrantedLast(s, t, a, c, "fetch_write", old, now)
    BY <2>2, <2>3, GrantLast
  <2>5. s.at[a][L2(c)].dirty = FALSE
    BY <1>1, <1>5, <2>1 DEF Line, m, f, n
  <2> QED BY <1>5, <2>1, <2>4, <2>5, GrantedReady DEF m, f, n
<1>10. CASE ~NeedPromote(cmd, m) /\ NeedPromoteLocal(cmd, m)
  <2>1. act = "fetch_write" /\ AllowWrite(m)
    BY <1>10 DEF NeedPromoteLocal, IsWrite, Acquire
  <2>2. t = Put(s, n, a, ToModified(m, NoId))
    BY <1>10 DEF Promote, m, n, f
  <2>3. ToModified(m, NoId) = [m EXCEPT !.st = "M"]
    BY DEF ToModified, AddSharer
  <2> DEFINE y == ToModified(m, NoId)
  <2>4. y \in Line /\ y.st = "M" /\ y.outer = m.outer /\ y.dirty = m.dirty /\ y.data = m.data /\ y.way = m.way /\ y.lent = m.lent
    BY <1>1, <2>3 DEF Line, State
  <2> HIDE DEF y
  <2>5. Only(s, t, a, {n}) /\ t.at[a][n] = y /\ t.mem = s.mem
    BY <1>1, <2>2, <2>4, OnlyPut DEF y
  <2> DEFINE g == t.at[a]
  <2>6. AroundKept(f, g, a, c, v)
    <3>1. Only(s, t, a, {L2(c), L3})
      BY <2>5 DEF Only
    <3> QED BY <1>3, <3>1, OnlyAround
  <2>7. g[L3] = l
    BY <1>1, <2>5 DEF Only
  <2>8. NoNewLent(s, t)
    <3>1. \A k \in Node : g[k].lent => f[k].lent
      BY <2>4, <2>5 DEF Only
    <3> QED BY <2>5, <3>1 DEF Only, NoNewLent
  <2>9. Steady(t, old, now, Addr \ {a})
    BY <2>5, OnlySteady
  <2>10. IsValid(y) /\ (AllowWrite(y) <=> AllowWrite(m))
    BY <2>4 DEF IsValid, AllowWrite
  <2>11. LastOK(g[L3], t.mem[a], v, With(g, c), IF AllowWrite(y) THEN {c} ELSE {}, IF y.dirty THEN {c} ELSE {})
    BY <1>3, <1>6, <2>4, <2>5, <2>6, <2>7, <2>10 DEF AroundKept
  <2> HIDE DEF n, f, l, m, u, v, w, g
  <2> QED BY <1>1, <1>3, <1>5, <1>6, <2>1, <2>4, <2>5, <2>6, <2>8, <2>9, <2>10, <2>11 DEF MidReady, AroundKept, n, f, v, g, w
<1>11. CASE ~NeedPromote(cmd, m) /\ ~NeedPromoteLocal(cmd, m)
  <2>1. t = s
    BY <1>11 DEF Promote, m, n, f
  <2>2. act = "fetch_write" => AllowWrite(m)
    BY <1>11 DEF NeedPromote, IsWrite, Acquire
  <2> QED BY <1>5, <1>8, <2>1, <2>2 DEF m, n, f
<1> QED BY <1>9, <1>10, <1>11

(* An uncached read of a block that the L1D may have modified.             *)
MidAsked(s, r, a, c, old, now) ==
  /\ Steady(r, old, now, Addr) /\ Calm(r)
  /\ Normal(r.at[a][L2(c)]) /\ ~AllowWrite(r.at[a][L1D(c)])
  /\ \A k \in ICore : r.at[a][L1I(k)] = s.at[a][L1I(k)]

LEMMA MidDowngrade ==
  ASSUME NEW s, NEW a \in Addr, NEW c \in Core, NEW old, NEW now \in [Addr -> Val], ~MidExclusive,
         Steady(s, old, now, Addr), Calm(s), IsValid(s.at[a][L2(c)]), ~IsShared(s.at[a][L2(c)])
  PROVE  MidAsked(s, AskTop(s, c, a, "downgrade").s, a, c, old, now)
<1> DEFINE n == L2(c)
           f == s.at[a]
           l == f[L3]
           m == f[n]
           u == f[L1D(c)]
           v == now[a]
           w == s.mem[a]
           q == AskTop(s, c, a, "downgrade")
           r == q.s
           g == r.at[a]
           x == g[n]
           y == g[L1D(c)]
<1>1. /\ n \in Node /\ L3 \in Node /\ n # L3 /\ l \in Line /\ m \in Line /\ u \in Line /\ v \in Val /\ s \in Sys /\ s.ok
      /\ Rest(f, w, a, v) /\ w \in {old[a], v} /\ L1D(c) \in Node /\ L1D(c) # n /\ L1D(c) # L3
  BY Nodes DEF Steady, Settled, Sys, Lines
<1>2. Held(f, c) /\ IsValid(m) /\ ~Gone(m)
  BY GoneFacts DEF Held
<1>3. /\ Around(f, a, c, v) /\ CoreOK(u, m, v)
      /\ Writer(f, c) => Clear(f, c)
      /\ LastOK(l, w, v, With(f, c), Writers(f), Dirties(f))
      /\ Writers(f) = (IF Writer(f, c) THEN {c} ELSE {})
      /\ Dirties(f) = (IF Dirty(f, c) THEN {c} ELSE {})
  BY <1>1, <1>2, RestAround
<1> HIDE DEF q
<1>4. AskedUpper(s, q, c, a, "downgrade")
  <2>1. UpperOK(s.at[a][L1D(c)], v) /\ "downgrade" \in ProbeAct
    BY <1>3 DEF CoreOK, ProbeAct
  <2> QED BY <1>1, <2>1, AskUpper DEF q
<1>5. /\ OnlyAt(s, r, a)
      /\ y = LineAfter(u, "downgrade")
      /\ x = IF u.dirty THEN AfterWriteback(m, u) ELSE m
      /\ \A k \in Node \ {L1D(c), n} : g[k] = f[k]
  BY <1>4 DEF AskedUpper
<1>6. m.st = "M" /\ AllowWrite(m) /\ MidLine(u, m, v) /\ UpperOK(u, v)
  BY <1>1, <1>2, <1>3, ~IsShared(m) DEF CoreOK, IsShared, IsValid, Line, State
<1> HIDE DEF r, g, x, y, f, m, u, l, v, w
<1>7. UpperOK(y, v) /\ ~AllowWrite(y) /\ ~y.dirty /\ y.outer # "M" /\ y \in Line /\ (y.lent => u.lent)
  <2>1. "downgrade" \in ProbeAct /\ "downgrade" # "writeback"
    BY DEF ProbeAct
  <2>2. UpperOK(y, v) /\ ~AllowWrite(y) /\ y.dirty = FALSE
    BY <1>1, <1>5, <1>6, <2>1, UpperAfter
  <2>3. y \in Line /\ (y.lent => u.lent)
    BY <1>1, <1>5, <2>1, LineAfterFacts
  <2> QED BY <2>2, <2>3 DEF AllowWrite
<1>8. /\ x \in Line /\ IsValid(x) /\ x.st = m.st /\ x.outer = m.outer /\ x.way = m.way /\ x.lent = m.lent
      /\ u.dirty => x.dirty /\ x.data = v
      /\ ~u.dirty => x = m
  <2>1. CASE u.dirty
    <3>1. u.data = v
      BY <1>6, <2>1, GoneFacts DEF UpperOK
    <3> QED BY <1>1, <1>2, <1>5, <2>1, <3>1, AfterWritebackFacts
  <2>2. CASE ~u.dirty
    BY <1>1, <1>2, <1>5, <2>2
  <2> QED BY <2>1, <2>2
<1>9. x.data = v /\ Normal(x) /\ x.outer # "I" /\ AllowWrite(x) /\ x.st = "M"
  BY <1>6, <1>8 DEF MidLine, Normal, AllowWrite
<1>10. CoreOK(y, x, v)
  BY <1>7, <1>8, <1>9 DEF CoreOK, MidLine
<1>11. r \in Sys /\ r.ok = s.ok /\ r.mem = s.mem /\ (\A b \in Addr : b # a => r.at[b] = s.at[b]) /\ g \in Lines /\ g[L3] = l
  BY <1>1, <1>5 DEF OnlyAt, Sys, g, f, l, r
<1>12. Around(g, a, c, v) /\ (Clear(g, c) <=> Clear(f, c)) /\ With(g, c) = With(f, c)
  <2>1. \A k \in Node \ {L1D(c), L2(c), L3} : g[k] = f[k]
    BY <1>5 DEF n
  <2> QED BY <1>3, <1>11, <2>1, AroundSame
<1>13. Rest(g, w, a, v)
  <2>1. Writer(f, c)
    BY <1>6 DEF Writer, m, n
  <2>2. Dirties(f) \subseteq Dirties(g)
    <3>1. Dirty(f, c) => Dirty(g, c)
      BY <1>8 DEF Dirty, u, m, n, f, g, x, y
    <3> QED BY <1>3, <3>1 DEF Dirties
  <2>3. c \in Writers(f) /\ Clear(g, c) /\ Holders(g) \subseteq With(f, c)
    BY <1>3, <1>12, <2>1 DEF With
  <2>4. CoreOK(g[L1D(c)], g[L2(c)], v) /\ LastOK(g[L3], w, v, With(f, c), Writers(f), Dirties(f))
    BY <1>3, <1>10, <1>11 DEF x, y, n
  <2> QED BY <1>12, <2>2, <2>3, <2>4, AroundRest
<1>14. Steady(r, old, now, Addr)
  <2>1. \A b \in Addr : b # a => Settled(r, old, now, b)
    BY <1>11 DEF Steady, Settled
  <2>2. Settled(r, old, now, a)
    BY <1>1, <1>11, <1>13 DEF Settled, g, v, w
  <2> QED BY <1>1, <1>11, <2>1, <2>2 DEF Steady
<1>15. Calm(r)
  <2>1. \A k \in Node : ~g[k].lent
    <3>1. \A k \in Node : ~f[k].lent
      BY DEF Calm, f
    <3> QED BY <1>1, <1>5, <1>7, <1>8, <3>1 DEF u, m, x, y
  <2> QED BY <1>11, <2>1 DEF Calm, g
<1>16. \A k \in ICore : g[L1I(k)] = f[L1I(k)]
  <2>1. \A k \in ICore : L1I(k) \in Node \ {L1D(c), n}
    BY Nodes DEF n
  <2> QED BY <1>5, <2>1
<1> QED BY <1>7, <1>9, <1>14, <1>15, <1>16 DEF MidAsked, f, g, x, y, n, r, q

(* A call that finds the block in no way of the L2 and in no L1D.          *)
LEMMA MidFetch ==
  ASSUME NEW s, NEW a \in Addr, NEW c \in Core, NEW old, NEW now \in [Addr -> Val],
         Steady(s, old, now, Addr), Calm(s), Gone(s.at[a][L1D(c)]), Gone(s.at[a][L2(c)]),
         NEW act \in {"fetch_read", "fetch_write"},
         NEW t \in Fetch(AtL3, s, L2(c), a, Acquire(act))
  PROVE  MidReady(s, t, a, c, act, old, now) /\ t.at[a][L2(c)].way = "normal" /\ ~t.at[a][L2(c)].dirty
<1> DEFINE n == L2(c)
           cmd == Acquire(act)
<1>1. n \in Node /\ L3 \in Node /\ n # L3 /\ L1D(c) \in Node /\ L1D(c) # L3
  BY Nodes
<1>2. PICK r \in MakeRoom(AtL3, s, n, a, "normal") :
        \E t1 \in AcquireReq(AtL3, r, n, a, CmdForOuterAcquire(cmd)) :
          t = Put(t1, n, a, [t1.at[a][n] EXCEPT !.way = "normal"])
  BY DEF Fetch
<1>3. PICK t1 \in AcquireReq(AtL3, r, n, a, CmdForOuterAcquire(cmd)) :
          t = Put(t1, n, a, [t1.at[a][n] EXCEPT !.way = "normal"])
  BY <1>2
<1>4. CmdForOuterAcquire(cmd) = act
  BY DEF CmdForOuterAcquire, IsWrite, Acquire
<1> HIDE DEF cmd
<1>5. RoomAtMid(s, r, a, c, old, now, Addr)
  BY <1>2, MidMakeRoom
<1>6. /\ Steady(r, old, now, Addr) /\ NoNewLent(s, r)
      /\ \A k \in Node \ {L3} : r.at[a][k] = s.at[a][k]
  BY <1>5 DEF RoomAtMid
<1>7. r.at[a][L1D(c)] = s.at[a][L1D(c)] /\ r.at[a][n] = s.at[a][n] /\ \A k \in ICore : r.at[a][L1I(k)] = s.at[a][L1I(k)]
  <2>1. \A k \in ICore : L1I(k) \in Node \ {L3}
    BY Nodes
  <2> QED BY <1>1, <1>6, <2>1
<1>8. Calm(r)
  BY <1>6 DEF Calm, NoNewLent
<1>9. LastCall(r, a, c, old, now)
  <2>1. c \notin Writers(r.at[a])
    BY <1>7, GoneFacts DEF Writers, Writer
  <2> QED BY <1>6, <1>8, <2>1, QuietFacts DEF LastCall
<1>10. GrantedLast(r, t1, a, c, act, old, now)
  BY <1>3, <1>4, <1>9, GrantLast
<1>11. r.at[a][n].dirty = FALSE
  BY <1>7, GoneFacts
<1>12. MidReady(r, t1, a, c, act, old, now)
  BY <1>10, <1>11, GrantedReady
<1>13. MidReady(s, t1, a, c, act, old, now)
  <2>1. NoNewLent(r, t1) => NoNewLent(s, t1)
    BY <1>6 DEF NoNewLent
  <2> QED BY <1>7, <1>12, <2>1 DEF MidReady
<1> DEFINE x == t1.at[a][n]
           y == [x EXCEPT !.way = "normal"]
<1>14. x \in Line /\ x.dirty = FALSE
  BY <1>10, <1>11 DEF GrantedLast, MidGrant
<1> HIDE DEF x
<1>15. SameContent(x, y) /\ y.lent = x.lent /\ y.way = "normal" /\ y.dirty = FALSE
  BY <1>14 DEF SameContent, Line
<1> HIDE DEF y
<1>16. MidReady(s, Put(t1, n, a, y), a, c, act, old, now) /\ Put(t1, n, a, y).at[a][n] = y
  BY <1>13, <1>15, ReadyPut DEF x
<1>17. t = Put(t1, n, a, y)
  BY <1>3 DEF x, y
<1> QED BY <1>15, <1>16, <1>17

LEMMA MidInclusive ==
  ASSUME NEW s, NEW a \in Addr, NEW c \in Core, NEW old, NEW now \in [Addr -> Val], NEW act, NEW id,
         MidCall(s, a, c, act, id, old, now), ~MidExclusive,
         NEW t \in InclusiveAccess(AtL3, s, L2(c), a, Acquire(act), id)
  PROVE  MidServed(s, t, a, c, act, id, old, now)
<1> DEFINE n == L2(c)
           cmd == Acquire(act)
           f == s.at[a]
           m == f[n]
           u == f[L1D(c)]
           v == now[a]
           sync == IF IsL1(n) THEN "none" ELSE AccessNeedSync(cmd, m)
           r == IF sync = "none" THEN s ELSE ProbeReq(s, n, a, sync, id).s
<1>1. /\ n \in Node /\ n # L3 /\ ~IsL1(n) /\ u \in Line /\ m \in Line /\ s \in Sys /\ s.ok
      /\ Steady(s, old, now, Addr) /\ Calm(s) /\ CoreOK(u, m, v)
  BY Nodes DEF MidCall, Steady, Settled, Rest, AboveOK, Sys, Lines
<1>2. act \in {"fetch_read", "fetch_write"} /\ (id = 0 \/ (id = NoId /\ act = "fetch_read"))
  BY DEF MidCall
<1>3. id = 0 => ~AllowWrite(u)
  BY Nodes DEF MidCall, NoId
<1>4. sync = IF act = "fetch_write" THEN "evict" ELSE IF IsShared(m) THEN "none" ELSE "downgrade"
  BY <1>1, <1>2 DEF AccessNeedSync, IsRelease, Acquire
<1> HIDE DEF n, cmd, f, m, u, v
<1>5. CASE IsValid(m)
  <2>1. t \in Promote(AtL3, r, n, a, cmd)
    BY <1>5 DEF InclusiveAccess, m, f, n, cmd
  <2>2. MidAsked(s, r, a, c, old, now) /\ (id = 0 => r = s)
    <3>0. ASSUME r = s, ~AllowWrite(u)
          PROVE  MidAsked(s, r, a, c, old, now)
      <4>1. Normal(m)
        BY <1>1, <1>5, GoneFacts DEF CoreOK, MidLine
      <4> HIDE DEF r
      <4> QED BY <1>1, <3>0, <4>1 DEF MidAsked, u, m, f, n
    <3>1. CASE id = 0
      <4>1. ProbeReq(s, n, a, sync, id) = AskOwn(s, c, a, sync)
        BY <1>1, <3>1 DEF ProbeReq, AskOwn, n
      <4>2. AskOwn(s, c, a, sync).s = s
        <5> HIDE DEF sync
        <5>1. NobodyAsked(s, AskOwn(s, c, a, sync))
          BY <1>1, AskNobody
        <5> QED BY <5>1 DEF NobodyAsked
      <4>3. r = s
        BY <4>1, <4>2
      <4> QED BY <1>3, <3>0, <3>1, <4>3
    <3>2. CASE id # 0 /\ IsShared(m)
      <4>1. r = s
        BY <1>2, <1>4, <3>2
      <4>2. ~AllowWrite(u)
        BY <1>1, <3>2, GoneFacts DEF CoreOK, UpperOK, AllowWrite, IsShared
      <4> QED BY <3>0, <3>2, <4>1, <4>2
    <3>3. CASE id # 0 /\ ~IsShared(m)
      <4>1. sync = "downgrade" /\ id = NoId
        BY <1>2, <1>4, <3>3
      <4>2. r = AskTop(s, c, a, "downgrade").s
        BY <1>1, <4>1 DEF ProbeReq, AskTop, n
      <4> HIDE DEF r
      <4> QED BY <1>1, <1>5, <3>3, <4>2, MidDowngrade DEF m, f, n
    <3> QED BY <3>1, <3>2, <3>3
  <2> HIDE DEF r, sync
  <2>3. /\ Steady(r, old, now, Addr) /\ Calm(r)
        /\ Normal(r.at[a][n]) /\ ~AllowWrite(r.at[a][L1D(c)])
        /\ \A k \in ICore : r.at[a][L1I(k)] = f[L1I(k)]
    BY <2>2 DEF MidAsked, n, f
  <2>4. MidReady(r, t, a, c, act, old, now) /\ t.at[a][n].way = "normal"
    BY <1>2, <2>1, <2>3, MidPromote DEF n, cmd
  <2> DEFINE g == t.at[a]
             x == g[n]
             y == r.at[a][L1D(c)]
  <2>5. UpperOK(y, v) /\ ~AllowWrite(y) /\ ~y.dirty
    <3>1. UpperOK(y, v) /\ ~AllowWrite(y)
      BY <2>3 DEF Steady, Settled, Rest, AboveOK, CoreOK, v
    <3> QED BY <3>1, GoneFacts DEF UpperOK, AllowWrite
  <2>6. /\ Steady(t, old, now, Addr \ {a})
        /\ t.mem[a] \in {old[a], v}
        /\ Around(g, a, c, v)
        /\ g[L1D(c)] = y /\ \A k \in ICore : g[L1I(k)] = f[L1I(k)]
        /\ x \in Line /\ IsValid(x) /\ x.data = v /\ x.outer # "I"
        /\ x.dirty => AllowWrite(x)
        /\ act = "fetch_write" => AllowWrite(x)
        /\ AllowWrite(x) => Clear(g, c)
        /\ LastOK(g[L3], t.mem[a], v, With(g, c), IF AllowWrite(x) THEN {c} ELSE {}, IF x.dirty THEN {c} ELSE {})
        /\ \A b \in Addr, k \in Node : ~t.at[b][k].lent
    BY <2>3, <2>4 DEF MidReady, NoNewLent, Calm, f, n, v
  <2>7. MidServedLine(x, act, id, v, y)
    BY <1>1, <2>4, <2>6 DEF MidServedLine
  <2>8. id = 0 => y = f[L1D(c)]
    BY <2>2 DEF f
  <2> HIDE DEF g, x, y
  <2> QED BY <2>5, <2>6, <2>7, <2>8 DEF MidServed, g, x, f, v, n
<1>6. CASE ~IsValid(m)
  <2>1. t \in Fetch(AtL3, s, n, a, cmd)
    BY <1>6 DEF InclusiveAccess, m, f, n, cmd
  <2>2. Gone(m) /\ Gone(u)
    <3>1. ~Normal(m)
      BY <1>6 DEF Normal
    <3>2. ~IsValid(u)
      BY <1>1, <1>6 DEF CoreOK
    <3> QED BY <1>1, <3>1, <3>2 DEF CoreOK, MidLine, UpperOK, IsValid
  <2>3. MidReady(s, t, a, c, act, old, now) /\ t.at[a][n].way = "normal"
    BY <1>1, <1>2, <2>1, <2>2, MidFetch DEF m, u, f, n, cmd
  <2> DEFINE g == t.at[a]
             x == g[n]
  <2>4. UpperOK(u, v) /\ ~AllowWrite(u) /\ ~u.dirty
    BY <2>2, GoneFacts DEF UpperOK
  <2>5. /\ Steady(t, old, now, Addr \ {a})
        /\ t.mem[a] \in {old[a], v}
        /\ Around(g, a, c, v)
        /\ g[L1D(c)] = u /\ \A k \in ICore : g[L1I(k)] = f[L1I(k)]
        /\ x \in Line /\ IsValid(x) /\ x.data = v /\ x.outer # "I"
        /\ x.dirty => AllowWrite(x)
        /\ act = "fetch_write" => AllowWrite(x)
        /\ AllowWrite(x) => Clear(g, c)
        /\ LastOK(g[L3], t.mem[a], v, With(g, c), IF AllowWrite(x) THEN {c} ELSE {}, IF x.dirty THEN {c} ELSE {})
        /\ \A b \in Addr, k \in Node : ~t.at[b][k].lent
    BY <1>1, <2>3 DEF MidReady, NoNewLent, Calm, f, n, v, u
  <2>6. MidServedLine(x, act, id, v, u)
    BY <1>1, <2>3, <2>5 DEF MidServedLine
  <2> HIDE DEF g, x
  <2> QED BY <2>4, <2>5, <2>6 DEF MidServed, g, x, f, v, n, u
<1> QED BY <1>5, <1>6

(* The lines of one core change, but it has and may do no more than        *)
(* before.                                                                 *)
LEMMA CoreRest ==
  ASSUME NEW f, NEW w, NEW a, NEW v, NEW c \in Core, NEW g \in Lines, Rest(f, w, a, v),
         \A k \in Node \ {L1D(c), L2(c)} : g[k] = f[k],
         CoreOK(g[L1D(c)], g[L2(c)], v),
         Held(g, c) => Held(f, c), Writer(g, c) => Writer(f, c), Dirty(f, c) => Dirty(g, c)
  PROVE  Rest(g, w, a, v)
<1>1. \A d \in Core : d # c => g[L1D(d)] = f[L1D(d)] /\ g[L2(d)] = f[L2(d)]
  <2>1. \A d \in Core : d # c => L1D(d) \in Node \ {L1D(c), L2(c)} /\ L2(d) \in Node \ {L1D(c), L2(c)}
    BY Nodes
  <2> QED BY <2>1
<1>2. g[L3] = f[L3] /\ \A k \in ICore : g[L1I(k)] = f[L1I(k)]
  <2>1. L3 \in Node \ {L1D(c), L2(c)} /\ \A k \in ICore : L1I(k) \in Node \ {L1D(c), L2(c)}
    BY Nodes
  <2> QED BY <2>1
<1>3. /\ \A d \in Core : CoreOK(f[L1D(d)], f[L2(d)], v)
      /\ \A k \in ICore : InstOK(f[L1I(k)], a, v)
      /\ \A d, e \in Core : Writer(f, d) /\ Held(f, e) => d = e
      /\ LastOK(f[L3], w, v, Holders(f), Writers(f), Dirties(f))
  BY DEF Rest, AboveOK
<1>4. \A d \in Core : (Held(g, d) => Held(f, d)) /\ (Writer(g, d) => Writer(f, d)) /\ (Dirty(f, d) => Dirty(g, d))
  BY <1>1 DEF Held, Writer, Dirty
<1>5. AboveOK(g, a, v)
  <2>1. \A d \in Core : CoreOK(g[L1D(d)], g[L2(d)], v)
    BY <1>1, <1>3
  <2> QED BY <1>2, <1>3, <1>4, <2>1 DEF AboveOK
<1>6. Holders(g) \subseteq Holders(f) /\ Writers(g) \subseteq Writers(f) /\ Dirties(f) \subseteq Dirties(g)
  BY <1>4 DEF Holders, Writers, Dirties
<1>7. LastOK(g[L3], w, v, Holders(g), Writers(g), Dirties(g))
  BY <1>2, <1>3, <1>6, LastMono
<1> QED BY <1>5, <1>7 DEF Rest

(* A dirty block of the L2 goes down, and the L2 keeps it.                 *)
MidCleaned(s, r, t, a, c, act, old, now) ==
  /\ MidReady(s, t, a, c, act, old, now)
  /\ ~t.at[a][L2(c)].dirty /\ t.at[a][L2(c)].way = r.at[a][L2(c)].way

LEMMA MidClean ==
  ASSUME NEW s, NEW r, NEW a \in Addr, NEW c \in Core, NEW act, NEW old, NEW now \in [Addr -> Val],
         MidReady(s, r, a, c, act, old, now), ~LastExclusive,
         NEW t \in WritebackReq(AtL3, r, L2(c), a, "writeback")
  PROVE  MidCleaned(s, r, t, a, c, act, old, now)
<1> DEFINE n == L2(c)
           f == r.at[a]
           l == f[L3]
           m == f[n]
           v == now[a]
           w == r.mem[a]
           g == t.at[a]
           x == g[n]
           y == g[L3]
<1>1. n \in Node /\ L3 \in Node /\ n # L3 /\ v \in Val
  BY Nodes
<1> HIDE DEF n, f, l, m, v, w, g, x, y
<1>2. /\ Steady(r, old, now, Addr \ {a})
      /\ w \in {old[a], v}
      /\ Around(f, a, c, v)
      /\ f[L1D(c)] = s.at[a][L1D(c)] /\ \A k \in ICore : f[L1I(k)] = s.at[a][L1I(k)]
      /\ m \in Line /\ IsValid(m) /\ m.data = v /\ m.outer # "I"
      /\ m.dirty => AllowWrite(m)
      /\ act = "fetch_write" => AllowWrite(m)
      /\ AllowWrite(m) => Clear(f, c)
      /\ LastOK(l, w, v, With(f, c), IF AllowWrite(m) THEN {c} ELSE {}, IF m.dirty THEN {c} ELSE {})
      /\ NoNewLent(s, r)
  BY DEF MidReady, n, f, l, m, v, w
<1>3. r \in Sys /\ r.ok
  BY <1>2 DEF Steady
<1>4. Normal(l) /\ l.outer = "M"
  <2>1. c \in With(f, c)
    BY DEF With
  <2>2. IsValid(l) => ~Gone(l)
    BY GoneFacts
  <2> QED BY <1>2, <2>1, <2>2 DEF LastOK
<1>5. ReleasedLast(r, t, a, c, "writeback")
  <2>1. "writeback" \in {"evict", "writeback"}
    OBVIOUS
  <2>2. r.at[a][L2(c)].data \in Val /\ Normal(r.at[a][L3]) /\ r.at[a][L3].outer = "M"
    BY <1>1, <1>2, <1>4 DEF m, l, f, n
  <2> QED BY <1>3, <2>1, <2>2, ReleaseLast
<1>6. /\ Only(r, t, a, {n, L3}) /\ t.mem = r.mem
      /\ y \in Line /\ y.st = "M" /\ y.outer = "M" /\ y.dirty = TRUE /\ y.data = v /\ y.sharer = l.sharer
      /\ y.way = "normal" /\ y.lent = l.lent
      /\ x = ToClean(m)
  BY <1>2, <1>5 DEF ReleasedLast, GivenLine, n, f, l, m, g, x, y
<1>7. /\ x \in Line /\ x.dirty = FALSE /\ x.st = m.st /\ x.outer = m.outer /\ x.data = m.data
      /\ x.way = m.way /\ x.lent = m.lent
  BY <1>2, <1>6, ToCleanFacts
<1>8. AroundKept(f, g, a, c, v)
  <2>1. Only(r, t, a, {L2(c), L3})
    BY <1>6 DEF n
  <2> QED BY <1>2, <2>1, OnlyAround DEF f, g
<1>9. Steady(t, old, now, Addr \ {a})
  <2>1. Steady(t, old, now, (Addr \ {a}) \ {a})
    BY <1>2, <1>6, OnlySteady
  <2>2. (Addr \ {a}) \ {a} = Addr \ {a}
    OBVIOUS
  <2> QED BY <2>1, <2>2
<1>10. NoNewLent(s, t)
  <2>1. \A k \in Node : g[k].lent => f[k].lent
    BY <1>6, <1>7 DEF Only, f, g, x, y, m, l
  <2>2. NoNewLent(r, t)
    BY <1>6, <2>1 DEF Only, NoNewLent, f, g
  <2> QED BY <1>2, <2>2 DEF NoNewLent
<1>11. IsValid(x) /\ (AllowWrite(x) <=> AllowWrite(m))
  BY <1>2, <1>7 DEF IsValid, AllowWrite
<1>12. LastOK(y, w, v, With(g, c), IF AllowWrite(x) THEN {c} ELSE {}, IF x.dirty THEN {c} ELSE {})
  <2>1. LastDirectory => With(g, c) \subseteq y.sharer
    BY <1>2, <1>6, <1>8 DEF LastOK, AroundKept
  <2>2. IsValid(y) /\ Normal(y) /\ AllowWrite(y)
    BY <1>6 DEF IsValid, Normal, AllowWrite
  <2> QED BY <1>6, <2>1, <2>2 DEF LastOK
<1>13. t.mem[a] = w
  BY <1>6 DEF w
<1>14. MidReady(s, t, a, c, act, old, now)
  BY <1>2, <1>7, <1>8, <1>9, <1>10, <1>11, <1>12, <1>13 DEF MidReady, AroundKept, n, f, m, v, g, x, y
<1> QED BY <1>7, <1>14 DEF MidCleaned, x, m, n, g, f

(* An exclusive L2 borrows a buffer for a block that it does not have.     *)
MidLent(s, r, a, c, old, now) ==
  /\ r \in Sys /\ Steady(r, old, now, Addr) /\ QuietBut(r, a, L2(c))
  /\ OnlyAt(s, r, a)
  /\ Gone(r.at[a][L2(c)])
  /\ \A k \in Node \ {L2(c)} : r.at[a][k] = s.at[a][k]

LEMMA MidBorrow ==
  ASSUME NEW s, NEW a \in Addr, NEW c \in Core, NEW old, NEW now,
         Steady(s, old, now, Addr), Calm(s), Gone(s.at[a][L2(c)])
  PROVE  MidLent(s, Borrow(s, L2(c), a), a, c, old, now)
<1> DEFINE n == L2(c)
           r == Borrow(s, n, a)
           f == s.at[a]
           g == r.at[a]
           m == f[n]
<1>1. /\ n \in Node /\ m \in Line /\ s \in Sys /\ s.ok /\ L1D(c) # n /\ L1D(c) \in Node
      /\ Rest(f, s.mem[a], a, now[a]) /\ s.mem[a] \in {old[a], now[a]} /\ \A k \in Node : Lendable(s, k)
  <2>1. QuietBut(s, a, n)
    BY QuietFacts
  <2>2. \A k \in Node : Lendable(s, k)
    BY <2>1, QuietFacts
  <2> QED BY <2>2, Nodes DEF Steady, Settled, Sys, Lines
<1>2. r = Put(s, n, a, Lending(m))
  BY <1>1, BorrowFacts
<1>3. Lending(m) \in Line /\ Gone(Lending(m)) /\ Gone(m)
  BY <1>1, LendingFacts
<1> HIDE DEF n, f, g, m, r
<1>4. OnlyAt(s, r, a) /\ g[n] = Lending(m) /\ \A k \in Node : k # n => g[k] = f[k]
  <2> DEFINE y == Lending(m)
  <2>1. r = Put(s, n, a, y) /\ y \in Line
    BY <1>2, <1>3
  <2> HIDE DEF y
  <2>2. OnlyAt(s, r, a) /\ r.at[a][n] = y /\ \A k \in Node : k # n => r.at[a][k] = s.at[a][k]
    BY <1>1, <2>1, PutFacts
  <2> QED BY <2>2 DEF y, g, f
<1>5. g[L1D(c)] = f[L1D(c)] /\ Gone(g[n]) /\ g \in Lines /\ r \in Sys
  BY <1>1, <1>3, <1>4 DEF OnlyAt, Sys, g
<1>6. Rest(g, s.mem[a], a, now[a])
  <2>1. /\ m.st # "M" /\ ~IsValid(m) /\ ~AllowWrite(m) /\ m.dirty = FALSE
        /\ g[n].st # "M" /\ g[n].st # "E" /\ ~IsValid(g[n]) /\ ~AllowWrite(g[n])
    BY <1>3, <1>5, GoneFacts
  <2>2. CoreOK(f[L1D(c)], m, now[a])
    BY <1>1 DEF Rest, AboveOK, m, n
  <2>3. CoreOK(g[L1D(c)], g[n], now[a])
    BY <1>5, <2>1, <2>2 DEF CoreOK
  <2>4. (Held(g, c) => Held(f, c)) /\ (Writer(g, c) => Writer(f, c)) /\ (Dirty(f, c) => Dirty(g, c))
    BY <1>5, <2>1 DEF Held, Writer, Dirty, m, n
  <2> QED BY <1>1, <1>4, <1>5, <2>3, <2>4, CoreRest DEF n
<1>7. r.ok = s.ok /\ r.mem = s.mem /\ \A b \in Addr : b # a => r.at[b] = s.at[b]
  BY <1>4 DEF OnlyAt
<1>8. Steady(r, old, now, Addr)
  <2>1. \A b \in Addr : b # a => Settled(r, old, now, b)
    BY <1>7 DEF Steady, Settled
  <2>2. Settled(r, old, now, a)
    BY <1>1, <1>6, <1>7 DEF Settled, g
  <2> QED BY <1>1, <1>5, <1>7, <2>1, <2>2 DEF Steady
<1>9. QuietBut(r, a, n)
  <2>1. \A k \in Node : k # n => ~g[k].lent
    BY <1>4 DEF Calm, f
  <2> QED BY <1>7, <2>1 DEF Calm, QuietBut, g
<1> QED BY <1>4, <1>5, <1>8, <1>9 DEF MidLent, f, g, n, r

(* ... and asks its L1D, if that is not the one that calls.                *)
MidAfterAsk(s, r, a, c, id, hit, old, now) ==
  LET u == r.at[a][L1D(c)]
  IN  /\ QuietBut(r, a, L2(c))
      /\ \A k \in ICore : r.at[a][L1I(k)] = s.at[a][L1I(k)]
      /\ UpperOK(u, now[a]) /\ ~AllowWrite(u) /\ ~u.dirty
      /\ id = 0 => u = s.at[a][L1D(c)] /\ hit = FALSE
      /\ id # 0 /\ ~hit => Gone(u)

MidHolds(r, t, a, c, act, old, now) ==
  MidReady(r, t, a, c, act, old, now) /\ ~t.at[a][L2(c)].dirty /\ t.at[a][L2(c)].way = "none"

LEMMA MidBuffered ==
  ASSUME NEW r, NEW a \in Addr, NEW c \in Core, NEW old, NEW now \in [Addr -> Val],
         Steady(r, old, now, Addr), QuietBut(r, a, L2(c)), Gone(r.at[a][L2(c)]),
         ~AllowWrite(r.at[a][L1D(c)]),
         NEW act \in {"fetch_read", "fetch_write"}, NEW t \in AcquireReq(AtL3, r, L2(c), a, act)
  PROVE  MidHolds(r, t, a, c, act, old, now)
<1> DEFINE m == r.at[a][L2(c)]
           x == t.at[a][L2(c)]
<1>1. m.dirty = FALSE /\ m.way = "none" /\ ~AllowWrite(m)
  BY GoneFacts
<1>2. LastCall(r, a, c, old, now)
  <2>1. c \notin Writers(r.at[a])
    BY <1>1 DEF Writers, Writer
  <2> QED BY <2>1 DEF LastCall
<1>3. GrantedLast(r, t, a, c, act, old, now)
  BY <1>2, GrantLast
<1>4. MidReady(r, t, a, c, act, old, now) /\ x.way = m.way
  BY <1>1, <1>3, GrantedReady
<1>5. x.dirty = m.dirty
  BY <1>3 DEF GrantedLast, MidGrant
<1> QED BY <1>1, <1>4, <1>5 DEF MidHolds

(* The L1D has the block modified, and the L2 puts it into its buffer.     *)
LEMMA MidTaken ==
  ASSUME NEW s, NEW a \in Addr, NEW c \in Core, NEW old, NEW now \in [Addr -> Val], MidExclusive,
         Steady(s, old, now, Addr), QuietBut(s, a, L2(c)), Gone(s.at[a][L2(c)]), s.at[a][L1D(c)].dirty,
         NEW r, AskedUpper(s, r, c, a, "downgrade")
  PROVE  MidReady(r.s, r.s, a, c, "fetch_read", old, now) /\ r.s.at[a][L2(c)].way = "none"
<1> DEFINE n == L2(c)
           f == s.at[a]
           l == f[L3]
           m == f[n]
           u == f[L1D(c)]
           v == now[a]
           w == s.mem[a]
           t == r.s
           g == t.at[a]
           x == g[n]
<1>1. /\ n \in Node /\ L3 \in Node /\ n # L3 /\ m \in Line /\ u \in Line /\ v \in Val /\ s \in Sys /\ s.ok
      /\ Rest(f, w, a, v) /\ w \in {old[a], v} /\ L1D(c) # n /\ L1D(c) # L3
  BY Nodes DEF Steady, Settled, Sys, Lines
<1>2. u.dirty /\ IsValid(u) /\ UpperOK(u, v) /\ u.outer = "M" /\ u.data = v
  <2>1. UpperOK(u, v) /\ u.dirty
    BY <1>1 DEF Rest, AboveOK, CoreOK
  <2> HIDE DEF u
  <2> QED BY <2>1, GoneFacts DEF UpperOK, IsValid
<1>3. Held(f, c) /\ Writer(f, c) /\ Dirty(f, c)
  BY <1>2 DEF Held, Writer, Dirty, AllowWrite
<1>4. /\ Around(f, a, c, v)
      /\ Clear(f, c)
      /\ LastOK(l, w, v, With(f, c), {c}, {c})
  <2>1. /\ Around(f, a, c, v) /\ CoreOK(f[L1D(c)], f[L2(c)], v)
        /\ Writer(f, c) => Clear(f, c)
        /\ LastOK(f[L3], w, v, With(f, c), Writers(f), Dirties(f))
        /\ Writers(f) = (IF Writer(f, c) THEN {c} ELSE {})
        /\ Dirties(f) = (IF Dirty(f, c) THEN {c} ELSE {})
    BY <1>1, <1>3, RestAround
  <2> QED BY <1>3, <2>1
<1>5. /\ OnlyAt(s, t, a)
      /\ x = AfterWriteback(m, u)
      /\ \A k \in Node \ {L1D(c), n} : g[k] = f[k]
  BY <1>2 DEF AskedUpper
<1>6. Gone(m)
  OBVIOUS
<1> HIDE DEF n, f, l, m, u, v, w, t, g, x
<1>7. x \in Line /\ IsValid(x) /\ x.dirty = TRUE /\ x.data = v /\ x.way = "none" /\ x.outer = "M"
  <2>1. ~IsValid(m) /\ m.way = "none"
    BY <1>6, GoneFacts
  <2> DEFINE z == AfterWriteback(m, u)
  <2>2. z \in Line /\ IsValid(z) /\ z.dirty = TRUE /\ z.data = u.data /\ z.way = m.way /\ (~IsValid(m) => z.outer = u.outer)
    BY <1>1, AfterWritebackFacts
  <2> HIDE DEF z
  <2> QED BY <1>2, <1>5, <2>1, <2>2 DEF z
<1>8. t \in Sys /\ t.ok = s.ok /\ t.mem = s.mem /\ (\A b \in Addr : b # a => t.at[b] = s.at[b]) /\ g \in Lines /\ g[L3] = l
  BY <1>1, <1>5 DEF OnlyAt, Sys, g, f, l
<1>9. Around(g, a, c, v) /\ Clear(g, c) /\ With(g, c) = With(f, c)
  <2>1. \A k \in Node \ {L1D(c), L2(c), L3} : g[k] = f[k]
    BY <1>5 DEF n
  <2> QED BY <1>4, <1>8, <2>1, AroundSame
<1>10. Steady(t, old, now, Addr \ {a})
  BY <1>1, <1>8 DEF Steady, Settled
<1>11. AllowWrite(x) /\ (IF AllowWrite(x) THEN {c} ELSE {}) = {c} /\ (IF x.dirty THEN {c} ELSE {}) = {c}
  BY <1>7 DEF AllowWrite
<1>12. LastOK(g[L3], t.mem[a], v, With(g, c), IF AllowWrite(x) THEN {c} ELSE {}, IF x.dirty THEN {c} ELSE {})
  BY <1>4, <1>8, <1>9, <1>11 DEF w
<1>13. t.mem[a] \in {old[a], v} /\ NoNewLent(t, t) /\ x.outer # "I"
  BY <1>1, <1>7, <1>8 DEF NoNewLent, w
<1> QED BY <1>7, <1>9, <1>10, <1>11, <1>12, <1>13 DEF MidReady, g, x, t, v, n

MidFetchedLine(s, t, a, c, act, id, hit, old, now) ==
  \E r : MidAfterAsk(s, r, a, c, id, hit, old, now) /\ MidHolds(r, t, a, c, act, old, now)

LEMMA MidFetchLine ==
  ASSUME NEW s, NEW a \in Addr, NEW c \in Core, NEW old, NEW now \in [Addr -> Val], NEW act, NEW id,
         MidCall(s, a, c, act, id, old, now), MidExclusive, ~IsValid(s.at[a][L2(c)]),
         NEW t \in FetchLine(AtL3, s, L2(c), a, Acquire(act), id).out
  PROVE  MidFetchedLine(s, t, a, c, act, id, FetchLine(AtL3, s, L2(c), a, Acquire(act), id).hit, old, now)
<1> DEFINE n == L2(c)
           cmd == Acquire(act)
           f == s.at[a]
           u == f[L1D(c)]
           v == now[a]
           s0 == Borrow(s, n, a)
           p == ProbeReq(s0, n, a, SyncAct(cmd), id)
           out == IF p.wb THEN WritebackReq(AtL3, p.s, n, a, "writeback")
                  ELSE AcquireReq(AtL3, p.s, n, a, CmdForOuterAcquire(cmd))
           fetch == FetchLine(AtL3, s, n, a, cmd, id)
<1>1. /\ n \in Node /\ n # L3 /\ u \in Line /\ s \in Sys /\ s.ok /\ v \in Val
      /\ Steady(s, old, now, Addr) /\ Calm(s) /\ CoreOK(u, f[n], v) /\ ~LastExclusive
      /\ L1D(c) \in Node \ {n}
  BY Nodes, Programs DEF MidCall, Steady, Settled, Rest, AboveOK, Sys, Lines
<1>2. act \in {"fetch_read", "fetch_write"} /\ ((id = 0 /\ ~AllowWrite(u)) \/ (id = NoId /\ act = "fetch_read"))
  BY DEF MidCall
<1>3. 0 # NoId
  BY DEF NoId
<1>4. fetch = [hit |-> p.hit, wb |-> p.wb, out |-> out]
  BY DEF FetchLine, Fetched
<1> HIDE DEF p, out
<1>5. t \in out /\ fetch.hit = p.hit
  BY <1>4
<1> HIDE DEF fetch
<1>6. CmdForOuterAcquire(cmd) = act
  BY <1>2 DEF CmdForOuterAcquire, IsWrite, Acquire
<1>7. SyncAct(cmd) = IF act = "fetch_write" THEN "evict" ELSE "downgrade"
  BY DEF SyncAct, Acquire
<1> HIDE DEF cmd, n
<1>8. Gone(f[n])
  <2>1. ~Normal(f[n])
    BY DEF Normal, n
  <2> QED BY <1>1, <2>1 DEF CoreOK, MidLine
<1>9. MidLent(s, s0, a, c, old, now)
  BY <1>1, <1>8, MidBorrow DEF n
<1> HIDE DEF s0
<1>10. /\ s0 \in Sys /\ Steady(s0, old, now, Addr) /\ QuietBut(s0, a, n) /\ s0.ok
       /\ Gone(s0.at[a][n])
       /\ s0.at[a][L1D(c)] = u /\ \A k \in ICore : s0.at[a][L1I(k)] = f[L1I(k)]
  <2>1. L1D(c) \in Node \ {L2(c)} /\ \A k \in ICore : L1I(k) \in Node \ {L2(c)}
    BY Nodes
  <2> QED BY <1>9, <2>1 DEF MidLent, Steady, n
<1>11. CASE id = 0
  <2>1. p = AskOwn(s0, c, a, SyncAct(cmd))
    BY <1>1, <1>11 DEF p, ProbeReq, AskOwn, n
  <2>2. NobodyAsked(s0, p)
    BY <1>10, <2>1, AskNobody
  <2>3. p.s = s0 /\ p.hit = FALSE /\ p.wb = FALSE
    BY <2>2 DEF NobodyAsked
  <2>4. t \in AcquireReq(AtL3, s0, L2(c), a, act)
    BY <1>5, <1>6, <2>3 DEF out, n
  <2>5. ~AllowWrite(u)
    BY <1>2, <1>3, <1>11
  <2>6. MidHolds(s0, t, a, c, act, old, now)
    BY <1>2, <1>10, <2>4, <2>5, MidBuffered DEF n
  <2>7. MidAfterAsk(s, s0, a, c, id, p.hit, old, now)
    <3>1. ~u.dirty /\ UpperOK(u, v)
      BY <1>1, <2>5, GoneFacts DEF CoreOK, UpperOK, AllowWrite
    <3> HIDE DEF u, v
    <3> QED BY <1>10, <1>11, <2>3, <2>5, <3>1 DEF MidAfterAsk, n, f, u, v
  <2> QED BY <1>5, <2>6, <2>7 DEF MidFetchedLine, fetch, n, cmd
<1>12. CASE id # 0
  <2>1. id = NoId /\ act = "fetch_read"
    BY <1>2, <1>12
  <2>2. p = AskTop(s0, c, a, "downgrade")
    BY <1>1, <1>7, <2>1 DEF p, ProbeReq, AskTop, n
  <2>3. AskedUpper(s0, p, c, a, "downgrade")
    <3>1. UpperOK(s0.at[a][L1D(c)], v) /\ "downgrade" \in ProbeAct
      BY <1>1, <1>10 DEF CoreOK, ProbeAct
    <3> QED BY <1>10, <2>2, <3>1, AskUpper
  <2> DEFINE r == p.s
             g == r.at[a]
             y == g[L1D(c)]
             x == g[n]
  <2>4. /\ OnlyAt(s0, r, a)
        /\ y = LineAfter(u, "downgrade")
        /\ x = IF u.dirty THEN AfterWriteback(s0.at[a][n], u) ELSE s0.at[a][n]
        /\ \A k \in Node \ {L1D(c), n} : g[k] = s0.at[a][k]
        /\ p.hit <=> IsValid(u)
        /\ p.wb <=> u.dirty
    BY <1>10, <2>3 DEF AskedUpper, n
  <2> HIDE DEF r, g, y, x
  <2>5. /\ UpperOK(y, v) /\ ~AllowWrite(y) /\ ~y.dirty /\ (y.lent => u.lent) /\ (IsValid(y) <=> IsValid(u))
        /\ (~IsValid(u) => y = NoLine)
    <3>1. "downgrade" \in ProbeAct /\ "downgrade" # "writeback" /\ "downgrade" # "evict" /\ UpperOK(u, v)
      BY <1>1 DEF ProbeAct, CoreOK
    <3>2. UpperOK(y, v) /\ ~AllowWrite(y) /\ y.dirty = FALSE
      BY <1>1, <2>4, <3>1, UpperAfter
    <3>3. y \in Line /\ (y.lent => u.lent) /\ (IsValid(y) <=> IsValid(u)) /\ (~IsValid(u) => y = NoLine)
      BY <1>1, <2>4, <3>1, LineAfterFacts
    <3> QED BY <3>2, <3>3
  <2>6. QuietBut(r, a, n)
    <3>1. \A k \in Node : k # n => ~g[k].lent
      <4>1. \A k \in Node : k # n => ~s0.at[a][k].lent
        BY <1>10 DEF QuietBut
      <4>2. ~u.lent
        BY <1>1, <1>10, <4>1
      <4> QED BY <2>4, <2>5, <4>1, <4>2 DEF y
    <3> QED BY <1>10, <2>4, <3>1 DEF QuietBut, OnlyAt, g
  <2>7. MidAfterAsk(s, r, a, c, id, p.hit, old, now)
    <3>1. \A k \in ICore : g[L1I(k)] = f[L1I(k)]
      <4>1. \A k \in ICore : L1I(k) \in Node \ {L1D(c), n}
        BY Nodes DEF n
      <4> QED BY <1>10, <2>4, <4>1
    <3>2. ~p.hit => Gone(y)
      BY <2>4, <2>5, NoLineType
    <3> QED BY <1>12, <2>5, <2>6, <3>1, <3>2 DEF MidAfterAsk, n, f, g, y, v
  <2>8. CASE p.wb
    <3>1. t \in WritebackReq(AtL3, r, L2(c), a, "writeback")
      BY <1>5, <2>8 DEF out, n, r
    <3>2. MidReady(r, r, a, c, act, old, now) /\ r.at[a][L2(c)].way = "none"
      <4>1. s0.at[a][L1D(c)].dirty /\ QuietBut(s0, a, L2(c)) /\ Gone(s0.at[a][L2(c)])
        BY <1>10, <2>4, <2>8 DEF n
      <4>2. MidReady(p.s, p.s, a, c, "fetch_read", old, now) /\ p.s.at[a][L2(c)].way = "none"
        BY <1>10, <2>3, <4>1, MidTaken
      <4> QED BY <2>1, <4>2 DEF r
    <3>3. MidHolds(r, t, a, c, act, old, now)
      <4>1. MidReady(r, r, a, c, act, old, now) /\ ~LastExclusive
        BY <1>1, <3>2
      <4>2. MidCleaned(r, r, t, a, c, act, old, now)
        BY <3>1, <4>1, MidClean
      <4> QED BY <3>2, <4>2 DEF MidHolds, MidCleaned
    <3> QED BY <1>5, <2>7, <3>3 DEF MidFetchedLine, fetch, n, cmd
  <2>9. CASE ~p.wb
    <3>1. t \in AcquireReq(AtL3, r, L2(c), a, act)
      BY <1>5, <1>6, <2>9 DEF out, n, r
    <3>2. r \in Sys /\ r.ok = s0.ok /\ r.mem = s0.mem /\ (\A b \in Addr : b # a => r.at[b] = s0.at[b]) /\ g \in Lines
      BY <2>4 DEF OnlyAt, Sys, g
    <3>3. Gone(x) /\ x = s0.at[a][n] /\ ~u.dirty
      BY <1>10, <2>4, <2>9
    <3>4. Rest(g, s0.mem[a], a, v)
      <4>1. Rest(s0.at[a], s0.mem[a], a, v)
        BY <1>10 DEF Steady, Settled
      <4>2. x.st # "M" /\ x.st # "E" /\ ~IsValid(x) /\ ~AllowWrite(x) /\ x.dirty = FALSE
        BY <3>3, GoneFacts
      <4>3. CoreOK(y, x, v)
        BY <2>5, <3>3, <4>2 DEF CoreOK
      <4>4. /\ Held(g, c) => Held(s0.at[a], c)
            /\ Writer(g, c) => Writer(s0.at[a], c)
            /\ Dirty(s0.at[a], c) => Dirty(g, c)
        BY <1>10, <2>5, <3>3, <4>2 DEF Held, Writer, Dirty, y, x, n
      <4> QED BY <2>4, <3>2, <4>1, <4>3, <4>4, CoreRest DEF n, x, y
    <3>5. Steady(r, old, now, Addr)
      <4>1. \A b \in Addr : b # a => Settled(r, old, now, b)
        BY <1>10, <3>2 DEF Steady, Settled
      <4>2. Settled(r, old, now, a)
        BY <1>10, <3>2, <3>4 DEF Settled, g, v, Steady
      <4> QED BY <1>10, <3>2, <4>1, <4>2 DEF Steady
    <3>6. MidHolds(r, t, a, c, act, old, now)
      BY <1>2, <2>5, <2>6, <3>1, <3>3, <3>5, MidBuffered DEF n, x, g, y
    <3> QED BY <1>5, <2>7, <3>6 DEF MidFetchedLine, fetch, n, cmd
  <2> QED BY <2>8, <2>9
<1> QED BY <1>11, <1>12

(* What is left for the L1 to be served from.                              *)
LEMMA MidHandOut ==
  ASSUME NEW s, NEW r, NEW t, NEW a \in Addr, NEW c \in Core, NEW act, NEW id, NEW hit, NEW old, NEW now,
         MidAfterAsk(s, r, a, c, id, hit, old, now), MidReady(r, t, a, c, act, old, now),
         MidServedLine(t.at[a][L2(c)], act, id, now[a], r.at[a][L1D(c)])
  PROVE  MidServed(s, t, a, c, act, id, old, now)
<1> DEFINE n == L2(c)
           f == s.at[a]
           g == t.at[a]
           h == r.at[a]
           x == g[n]
           y == h[L1D(c)]
           v == now[a]
<1>1. /\ Steady(t, old, now, Addr \ {a})
      /\ t.mem[a] \in {old[a], v}
      /\ Around(g, a, c, v)
      /\ g[L1D(c)] = y /\ \A k \in ICore : g[L1I(k)] = h[L1I(k)]
      /\ AllowWrite(x) => Clear(g, c)
      /\ LastOK(g[L3], t.mem[a], v, With(g, c), IF AllowWrite(x) THEN {c} ELSE {}, IF x.dirty THEN {c} ELSE {})
      /\ NoNewLent(r, t)
  BY DEF MidReady
<1>2. /\ QuietBut(r, a, n)
      /\ \A k \in ICore : h[L1I(k)] = f[L1I(k)]
      /\ UpperOK(y, v) /\ ~AllowWrite(y) /\ ~y.dirty
      /\ id = 0 => y = f[L1D(c)]
  BY DEF MidAfterAsk
<1>3. \A b \in Addr, k \in Node : t.at[b][k].lent => b = a /\ k = n
  BY <1>1, <1>2 DEF NoNewLent, QuietBut
<1>4. MidServedLine(x, act, id, v, y)
  OBVIOUS
<1> HIDE DEF n, f, g, h, x, y, v
<1> QED BY <1>1, <1>2, <1>3, <1>4 DEF MidServed, n, f, g, h, x, y, v

(* An uncached cache is served from a way if no other cache has the block. *)
LEMMA MidKeep ==
  ASSUME NEW s, NEW a \in Addr, NEW c \in Core, NEW old, NEW now \in [Addr -> Val], NEW act, NEW id,
         MidCall(s, a, c, act, id, old, now), MidExclusive, ~IsValid(s.at[a][L2(c)]),
         NEW t \in Keep(AtL3, FetchLine(AtL3, s, L2(c), a, Acquire(act), id), L2(c), a, id)
  PROVE  MidServed(s, t, a, c, act, id, old, now)
<1> DEFINE n == L2(c)
           fetch == FetchLine(AtL3, s, n, a, Acquire(act), id)
           v == now[a]
<1>1. /\ id = 0 \/ (id = NoId /\ act = "fetch_read")
      /\ n \in Node /\ n # L3 /\ ~LastExclusive
  BY Nodes, Programs DEF MidCall
<1>2. \A t1 \in fetch.out : MidFetchedLine(s, t1, a, c, act, id, fetch.hit, old, now)
  <2> TAKE t1 \in fetch.out
  <2> QED BY MidFetchLine
<1>3. t \in (IF id # NoId \/ fetch.hit THEN fetch.out ELSE UNION {Place(AtL3, t1, n, a, "normal") : t1 \in fetch.out})
  BY DEF Keep
<1> HIDE DEF n, fetch, v
<1>4. CASE id # NoId \/ fetch.hit
  <2>1. t \in fetch.out
    BY <1>3, <1>4
  <2>2. PICK r : MidAfterAsk(s, r, a, c, id, fetch.hit, old, now) /\ MidHolds(r, t, a, c, act, old, now)
    BY <1>2, <2>1 DEF MidFetchedLine
  <2> DEFINE x == t.at[a][L2(c)]
             u == r.at[a][L1D(c)]
  <2>3. MidReady(r, t, a, c, act, old, now) /\ ~x.dirty /\ x.way = "none"
    BY <2>2 DEF MidHolds
  <2>4. /\ x \in Line /\ IsValid(x) /\ x.data = v /\ x.outer # "I"
        /\ act = "fetch_write" => AllowWrite(x)
    BY <2>3 DEF MidReady, v
  <2>5. MidServedLine(x, act, id, v, u)
    <3> HIDE DEF x, u
    <3> QED BY <2>3, <2>4 DEF MidServedLine
  <2> QED BY <2>2, <2>3, <2>5, MidHandOut DEF v
<1>5. CASE id = NoId /\ ~fetch.hit
  <2>1. PICK t1 \in fetch.out : t \in Place(AtL3, t1, n, a, "normal")
    BY <1>3, <1>5
  <2>2. PICK r : MidAfterAsk(s, r, a, c, id, fetch.hit, old, now) /\ MidHolds(r, t1, a, c, act, old, now)
    BY <1>2 DEF MidFetchedLine
  <2>3. PICK t2 \in MakeRoom(AtL3, t1, n, a, "normal") :
          t = Put(t2, n, a, [t2.at[a][n] EXCEPT !.way = "normal", !.lent = @ /\ "normal" # "normal"])
    BY <2>1 DEF Place
  <2>4. MidReady(r, t1, a, c, act, old, now) /\ ~t1.at[a][n].dirty /\ t1.at[a][n].way = "none"
    BY <2>2 DEF MidHolds, n
  <2>5. Steady(t1, old, now, Addr \ {a})
    BY <2>4 DEF MidReady
  <2>6. RoomAtMid(t1, t2, a, c, old, now, Addr \ {a})
    <3>1. Addr \ {a} \subseteq Addr \ {a}
      OBVIOUS
    <3> DEFINE B == Addr \ {a}
    <3>2. Steady(t1, old, now, B) /\ Addr \ {a} \subseteq B /\ (LastExclusive => B = Addr /\ Calm(t1))
      BY <1>1, <2>5
    <3> HIDE DEF B
    <3>3. t2 \in MakeRoom(AtL3, t1, L2(c), a, "normal")
      BY <2>3 DEF n
    <3>4. RoomAtMid(t1, t2, a, c, old, now, B)
      BY <3>2, <3>3, MidMakeRoom
    <3> QED BY <3>4 DEF B
  <2>7. Steady(t2, old, now, Addr \ {a}) /\ NoNewLent(t1, t2) /\ t2.at[a] = t1.at[a] /\ t2.mem[a] = t1.mem[a]
    BY <1>1, <2>6 DEF RoomAtMid
  <2>8. MidReady(r, t2, a, c, act, old, now)
    <3>1. NoNewLent(r, t1) => NoNewLent(r, t2)
      BY <2>7 DEF NoNewLent
    <3> QED BY <2>4, <2>7, <3>1 DEF MidReady
  <2> DEFINE x == t2.at[a][n]
             y == [x EXCEPT !.way = "normal", !.lent = FALSE]
  <2>9. x \in Line /\ ~x.dirty
    BY <2>4, <2>7 DEF MidReady, n
  <2> HIDE DEF x
  <2>10. SameContent(x, y) /\ y.lent = FALSE /\ y.way = "normal"
    BY <2>9 DEF SameContent, Line
  <2>11. t = Put(t2, n, a, y)
    <3>1. (x.lent /\ "normal" # "normal") = FALSE
      BY <2>9
    <3>2. t = Put(t2, n, a, [x EXCEPT !.way = "normal", !.lent = x.lent /\ "normal" # "normal"])
      BY <2>3 DEF x
    <3> QED BY <3>1, <3>2
  <2> HIDE DEF y
  <2>12. MidReady(r, t, a, c, act, old, now) /\ t.at[a][n] = y
    <3>1. MidReady(r, Put(t2, L2(c), a, y), a, c, act, old, now) /\ Put(t2, L2(c), a, y).at[a][L2(c)] = y
      <4>1. SameContent(t2.at[a][L2(c)], y) /\ (y.lent => t2.at[a][L2(c)].lent)
        BY <2>10 DEF x, n
      <4> QED BY <2>8, <4>1, ReadyPut
    <3> QED BY <2>11, <3>1 DEF n
  <2>13. MidServedLine(y, act, id, v, r.at[a][L1D(c)])
    <3>1. /\ y \in Line /\ IsValid(y) /\ y.data = v /\ y.outer # "I"
          /\ y.dirty => AllowWrite(y)
          /\ act = "fetch_write" => AllowWrite(y)
      BY <2>12 DEF MidReady, n, v
    <3>2. Gone(r.at[a][L1D(c)])
      <4>1. id # 0
        BY <1>5 DEF NoId
      <4> QED BY <1>5, <2>2, <4>1 DEF MidAfterAsk
    <3>3. y.dirty = x.dirty
      BY <2>10 DEF SameContent
    <3> QED BY <2>9, <2>10, <3>1, <3>2, <3>3 DEF MidServedLine
  <2> QED BY <2>2, <2>12, <2>13, MidHandOut DEF v, n
<1> QED BY <1>4, <1>5

LEMMA MidBroadcast ==
  ASSUME NEW s, NEW a \in Addr, NEW c \in Core, NEW old, NEW now \in [Addr -> Val], NEW act, NEW id,
         MidCall(s, a, c, act, id, old, now), MidExclusive,
         NEW t \in BroadcastAccess(AtL3, s, L2(c), a, Acquire(act), id)
  PROVE  MidServed(s, t, a, c, act, id, old, now)
<1> DEFINE n == L2(c)
           cmd == Acquire(act)
           f == s.at[a]
           m == f[n]
           u == f[L1D(c)]
           v == now[a]
<1>1. /\ s \in Sys /\ s.ok /\ Steady(s, old, now, Addr) /\ Calm(s) /\ CoreOK(u, m, v) /\ ~LastExclusive
  BY Programs DEF MidCall, Steady, Settled, Rest, AboveOK
<1>2. act \in {"fetch_read", "fetch_write"} /\ (id = 0 \/ (id = NoId /\ act = "fetch_read")) /\ 0 # NoId
  BY DEF MidCall, NoId
<1> HIDE DEF n, cmd, f, m, u, v
<1>3. CASE ~IsValid(m)
  <2>1. t \in Keep(AtL3, FetchLine(AtL3, s, L2(c), a, Acquire(act), id), L2(c), a, id)
    BY <1>3 DEF BroadcastAccess, m, f, n
  <2>2. ~IsValid(s.at[a][L2(c)])
    BY <1>3 DEF m, f, n
  <2> QED BY <2>1, <2>2, MidKeep
<1>4. CASE IsValid(m)
  <2>1. Normal(m) /\ Gone(u) /\ ~AllowWrite(u) /\ ~u.dirty
    <3>1. Gone(u)
      BY <1>1, <1>4 DEF CoreOK
    <3> QED BY <1>1, <1>4, <3>1, GoneFacts DEF CoreOK, MidLine
  <2>2. PICK t1 \in Promote(AtL3, s, n, a, cmd) :
          IF id = NoId THEN t = t1 ELSE t \in Writeback(AtL3, t1, n, a, "writeback", FALSE)
    <3>1. CASE id = NoId
      BY <1>4, <3>1 DEF BroadcastAccess, m, f, n, cmd
    <3>2. CASE id # NoId
      <4>1. t \in MoveUp(AtL3, s, n, a, cmd)
        BY <1>4, <3>2 DEF BroadcastAccess, m, f, n, cmd
      <4> QED BY <3>2, <4>1 DEF MoveUp
    <3> QED BY <3>1, <3>2
  <2>3. MidReady(s, t1, a, c, act, old, now) /\ t1.at[a][n].way = "normal"
    BY <1>1, <1>2, <2>1, <2>2, MidPromote DEF m, u, f, n, cmd
  <2>4. MidReady(s, t, a, c, act, old, now) /\ t.at[a][n].way = "normal" /\ (id = 0 => ~t.at[a][n].dirty)
    <3>1. CASE id = 0
      <4>1. t \in Writeback(AtL3, t1, n, a, "writeback", FALSE)
        BY <1>2, <2>2, <3>1
      <4>2. CASE IsDirty(t1.at[a][n])
        <5>1. t \in WritebackReq(AtL3, t1, L2(c), a, "writeback")
          BY <4>1, <4>2 DEF Writeback, n
        <5>2. MidCleaned(s, t1, t, a, c, act, old, now)
          BY <1>1, <2>3, <5>1, MidClean
        <5> QED BY <2>3, <5>2 DEF MidCleaned, n
      <4>3. CASE ~IsDirty(t1.at[a][n])
        <5>1. t = t1
          BY <4>1, <4>3 DEF Writeback
        <5> QED BY <2>3, <4>3, <5>1 DEF IsDirty
      <4> QED BY <4>2, <4>3
    <3>2. CASE id = NoId
      <4>1. t = t1
        BY <2>2, <3>2
      <4> QED BY <1>2, <2>3, <3>2, <4>1
    <3> QED BY <1>2, <3>1, <3>2
  <2>5. MidAfterAsk(s, s, a, c, id, FALSE, old, now)
    <3>1. QuietBut(s, a, L2(c)) /\ UpperOK(u, v)
      BY <1>1, <2>1, QuietFacts DEF UpperOK
    <3> QED BY <2>1, <3>1 DEF MidAfterAsk, u, f, v
  <2> DEFINE x == t.at[a][n]
  <2>6. MidServedLine(x, act, id, v, u)
    <3>1. /\ x \in Line /\ IsValid(x) /\ x.data = v /\ x.outer # "I"
          /\ x.dirty => AllowWrite(x)
          /\ act = "fetch_write" => AllowWrite(x)
          /\ x.way = "normal" /\ (id = 0 => ~x.dirty)
      BY <2>4 DEF MidReady, n, v
    <3>2. ~x.lent
      <4>1. NoNewLent(s, t) /\ n \in Node
        BY <2>4, Nodes DEF MidReady, n
      <4> QED BY <1>1, <4>1 DEF NoNewLent, Calm
    <3> HIDE DEF x
    <3> QED BY <2>1, <3>1, <3>2 DEF MidServedLine
  <2> QED BY <2>4, <2>5, <2>6, MidHandOut DEF n, u, f, v
<1> QED BY <1>3, <1>4

LEMMA MidAccess ==
  ASSUME NEW s, NEW a \in Addr, NEW c \in Core, NEW old, NEW now \in [Addr -> Val], NEW act, NEW id,
         MidCall(s, a, c, act, id, old, now),
         NEW t \in AccessLine(AtL3, s, L2(c), a, Acquire(act), id)
  PROVE  MidServed(s, t, a, c, act, id, old, now)
<1>1. (Exclusive(L2(c)) <=> MidExclusive) /\ ~Directory(L2(c))
  BY Programs
<1>2. CASE MidExclusive
  <2>1. t \in BroadcastAccess(AtL3, s, L2(c), a, Acquire(act), id)
    BY <1>1, <1>2 DEF AccessLine
  <2> QED BY <1>2, <2>1, MidBroadcast
<1>3. CASE ~MidExclusive
  <2>1. t \in InclusiveAccess(AtL3, s, L2(c), a, Acquire(act), id)
    BY <1>1, <1>3 DEF AccessLine
  <2> QED BY <1>3, <2>1, MidInclusive
<1> QED BY <1>2, <1>3

(* What the L2 keeps of a block that it hands out, and the state that it   *)
(* grants.                                                                 *)
StateFor(act) == IF act = "fetch_read" THEN "S" ELSE "M"

MidHanded(x, y, act, id) ==
  /\ y \in Line /\ ~y.lent
  /\ IF MidExclusive /\ (id = 0 \/ x.way = "none") THEN y = NoLine
     ELSE /\ y.way = "normal" /\ y.st = StateFor(act)
          /\ y.outer = x.outer /\ y.dirty = x.dirty /\ y.data = x.data

LEMMA MidHandedFacts ==
  ASSUME NEW c \in Core, NEW act \in {"fetch_read", "fetch_write"}, NEW id, id \in {0, NoId},
         id = NoId => act = "fetch_read",
         NEW v, NEW u, NEW x, MidServedLine(x, act, id, v, u)
  PROVE  MidHanded(x, Returned(LineGranted(L2(c), act, x, id)), act, id)
<1> DEFINE n == L2(c)
           q == LineGranted(n, act, x, id)
           y == [x EXCEPT !.st = StateFor(act)]
<1>1. ~Directory(n) /\ (Exclusive(n) <=> MidExclusive) /\ 0 # NoId
  BY Programs DEF NoId
<1>2. /\ x \in Line /\ (x.way = "normal" => ~x.lent)
      /\ IF MidExclusive THEN x.way \in {"normal", "none"} ELSE x.way = "normal"
  BY DEF MidServedLine
<1>3. /\ y \in Line /\ y.st = StateFor(act) /\ y.outer = x.outer /\ y.dirty = x.dirty /\ y.data = x.data
      /\ y.way = x.way /\ y.lent = x.lent
  BY <1>2 DEF Line, State, StateFor
<1>4. Returned(y) = IF x.way = "none" THEN NoLine ELSE y
  BY <1>2, <1>3 DEF Returned
<1>5. Returned(NoLine) = NoLine /\ NoLine \in Line /\ ~NoLine.lent
  BY NoLineType
<1>6. q = IF MidExclusive /\ id = 0 THEN NoLine ELSE y
  <2>1. CASE ~MidExclusive
    <3>1. q = MetaAfterGrant(act, x, id)
      BY <1>1, <2>1 DEF LineGranted
    <3> QED BY <1>2, <2>1, <3>1 DEF MetaAfterGrant, ToShared, ToModified, AddSharer, StateFor
  <2>2. CASE MidExclusive
    <3>1. q = IF id = NoId THEN ToShared(x, NoId) ELSE NoLine
      BY <1>1, <2>2 DEF LineGranted
    <3>2. ToShared(x, NoId) = [x EXCEPT !.st = "S"]
      BY DEF ToShared, AddSharer
    <3>3. id = NoId => y = [x EXCEPT !.st = "S"]
      BY DEF StateFor
    <3> QED BY <1>1, <2>2, <3>1, <3>2, <3>3
  <2> QED BY <2>1, <2>2
<1> HIDE DEF n, q, y
<1>7. Returned(q) = IF MidExclusive /\ (id = 0 \/ x.way = "none") THEN NoLine ELSE y
  BY <1>2, <1>4, <1>5, <1>6
<1>8. ~(MidExclusive /\ (id = 0 \/ x.way = "none")) => x.way = "normal"
  BY <1>2
<1> QED BY <1>2, <1>3, <1>5, <1>7, <1>8 DEF MidHanded, q, n

(* The L1s of core c.                                                      *)
Top(c) == {L1D(c)} \cup {i \in Instr : i = L1I(c)}

LEMMA Tops ==
  ASSUME NEW c \in Core, NEW i \in Top(c)
  PROVE  /\ i \in Node /\ i # L2(c) /\ i # L3 /\ Outer(i) = L2(c) /\ Id(i) \in {0, NoId} /\ IsL1(i)
         /\ Id(i) = 0 => i = L1D(c)
         /\ Id(i) = NoId => i \in Instr /\ i = L1I(c) /\ c \in ICore /\ i # L1D(c)
         /\ ~Exclusive(i)
<1>1. i = L1D(c) \/ (i \in Instr /\ i = L1I(c))
  BY DEF Top
<1>2. CASE i = L1D(c)
  <2>1. i \notin Middle
    BY <1>2, Nodes
  <2> QED BY <1>2, <2>1, Nodes DEF Exclusive
<1>3. CASE i \in Instr /\ i = L1I(c)
  <2>1. \E d \in ICore : i = L1I(d)
    BY <1>3 DEF Instr
  <2>2. c \in ICore
    BY <1>3, <2>1 DEF L1I
  <2>3. i \notin Middle
    BY <1>3, <2>2, Nodes
  <2> QED BY <1>3, <2>2, <2>3, Nodes DEF Exclusive
<1> QED BY <1>1, <1>2, <1>3

LEMMA MidGrantUpdate ==
  ASSUME NEW s, NEW a \in Addr, NEW c \in Core, NEW i \in Top(c), NEW act \in {"fetch_read", "fetch_write"},
         NEW t \in AcquireReq(AtL2, s, i, a, act)
  PROVE  \E t0 \in AccessLine(AtL3, s, L2(c), a, Acquire(act), Id(i)) :
           t0 \in Sys /\ t0.ok =>
             LET l == t0.at[a][L2(c)]
                 m == t0.at[a][i]
                 y == Returned(LineGranted(L2(c), act, l, Id(i)))
                 o == StateFor(act)
                 z == [m EXCEPT !.data = l.data, !.outer = o]
                 x == MetaAfterFetch(act, z)
             IN  z \in Line /\ y \in Line /\ x \in Line /\ FetchAssertion(act, z) =>
                   t = Put(Put(Put(t0, L2(c), a, y), i, a, z), i, a, x)
<1> DEFINE n == L2(c)
<1>1. i \in Node /\ n \in Node /\ i # n /\ Outer(i) = n /\ ~Directory(n)
  BY Nodes, Tops, Programs
<1> HIDE DEF n
<1>2. AtL2(s, <<i, a, act>>) = AcquireResp(AtL3, s, i, a, act)
  BY DEF AtL2, OuterResp
<1>3. PICK r \in AcquireResp(AtL3, s, i, a, act) :
        t = [r EXCEPT !.at[a][i] = MetaAfterFetch(act, @), !.ok = @ /\ FetchAssertion(act, r.at[a][i])]
  BY <1>2 DEF AcquireReq
<1>4. PICK t0 \in AccessLine(AtL3, s, n, a, Acquire(act), Id(i)) :
        r = [t0 EXCEPT !.at[a][n] = Returned(LineGranted(n, act, t0.at[a][n], Id(i))),
                       !.at[a][i] = [t0.at[a][i] EXCEPT !.data = t0.at[a][n].data,
                                                        !.outer = StateFor(act)],
                       !.ok = t0.ok /\ GrantAssertion(act)]
  <2>1. PICK t0 \in AccessLine(AtL3, s, Outer(i), a, Acquire(act), Id(i)) :
          r = [t0 EXCEPT !.at[a][Outer(i)] = Returned(LineGranted(Outer(i), act, @, Id(i))),
                         !.at[a][i] = [@ EXCEPT !.data = t0.at[a][Outer(i)].data,
                                                !.outer = IF Directory(Outer(i)) THEN Dir!Granted(act, t0.at[a][Outer(i)], Id(i))
                                                          ELSE Granted(act, t0.at[a][Outer(i)], Id(i))],
                         !.ok = @ /\ GrantAssertion(act)]
    BY DEF AcquireResp
  <2>2. t0 \in AccessLine(AtL3, s, n, a, Acquire(act), Id(i))
    BY <1>1, <2>1
  <2>3. Granted(act, t0.at[a][n], Id(i)) = StateFor(act)
    BY DEF Granted, StateFor
  <2> QED BY <1>1, <2>1, <2>2, <2>3
<1> SUFFICES ASSUME t0 \in Sys, t0.ok
             PROVE  LET l == t0.at[a][L2(c)]
                        m == t0.at[a][i]
                        y == Returned(LineGranted(L2(c), act, l, Id(i)))
                        o == StateFor(act)
                        z == [m EXCEPT !.data = l.data, !.outer = o]
                        x == MetaAfterFetch(act, z)
                    IN  z \in Line /\ y \in Line /\ x \in Line /\ FetchAssertion(act, z) =>
                          t = Put(Put(Put(t0, L2(c), a, y), i, a, z), i, a, x)
  BY <1>4 DEF n
<1> DEFINE l == t0.at[a][n]
           m == t0.at[a][i]
           y == Returned(LineGranted(n, act, l, Id(i)))
           o == StateFor(act)
           z == [m EXCEPT !.data = l.data, !.outer = o]
           x == MetaAfterFetch(act, z)
<1>5. SUFFICES ASSUME z \in Line, y \in Line, x \in Line, FetchAssertion(act, z)
               PROVE  t = Put(Put(Put(t0, n, a, y), i, a, z), i, a, x)
  BY DEF n
<1> HIDE DEF y, o, x
<1>6. t0.at[a] \in Lines /\ t0.ok = TRUE /\ GrantAssertion(act)
  BY DEF Sys, GrantAssertion
<1>7. r = Put(Put(t0, n, a, y), i, a, z)
  <2>1. r = [t0 EXCEPT !.at[a][n] = y, !.at[a][i] = z, !.ok = t0.ok]
    BY <1>4, <1>6 DEF y, o
  <2> HIDE DEF z
  <2>2. [t0 EXCEPT !.at[a][n] = y, !.at[a][i] = z, !.ok = t0.ok]
          = [[t0 EXCEPT !.at[a][n] = y] EXCEPT !.at[a][i] = z]
    BY DEF Sys
  <2> QED BY <2>1, <2>2 DEF Put
<1> HIDE DEF z
<1>8. r \in Sys /\ r.ok = TRUE /\ r.at[a][i] = z
  <2>1. OnlyAt(t0, Put(t0, n, a, y), a)
    BY <1>1, <1>5, PutFacts
  <2>2. Put(t0, n, a, y) \in Sys /\ Put(t0, n, a, y).ok = TRUE
    BY <1>6, <2>1 DEF OnlyAt
  <2>3. OnlyAt(Put(t0, n, a, y), r, a) /\ r.at[a][i] = z
    BY <1>1, <1>5, <1>7, <2>2, PutFacts
  <2> QED BY <2>2, <2>3 DEF OnlyAt
<1>9. t = Put(r, i, a, x)
  <2>1. t = [r EXCEPT !.at[a][i] = x, !.ok = r.ok]
    BY <1>3, <1>5, <1>8 DEF x
  <2> QED BY <1>8, <2>1 DEF Put, Sys
<1> QED BY <1>7, <1>9

(* The block has come into the L1 i, with the content v.                   *)
TopLine(x, act, v) ==
  /\ x \in Line /\ x.way = "normal" /\ x.data = v /\ ~x.dirty
  /\ x.st = StateFor(act) /\ x.outer = StateFor(act)

LEMMA HandedCore ==
  ASSUME NEW act \in {"fetch_read", "fetch_write"}, NEW id, NEW v, NEW u, NEW x, NEW y, NEW k,
         MidServedLine(x, act, id, v, u), MidHanded(x, y, act, id), UpperOK(u, v), ~AllowWrite(u),
         \/ id = 0 /\ TopLine(k, act, v)
         \/ id = NoId /\ act = "fetch_read" /\ k = u
  PROVE  CoreOK(k, y, v) /\ (AllowWrite(k) \/ AllowWrite(y) => AllowWrite(x)) /\ (x.dirty => y.dirty)
<1>0. 0 # NoId
  BY DEF NoId
<1>1. /\ x \in Line /\ IsValid(x) /\ x.data = v /\ x.outer # "I"
      /\ x.dirty => AllowWrite(x)
      /\ act = "fetch_write" => AllowWrite(x)
      /\ IF MidExclusive THEN id = 0 \/ x.way = "none" => ~x.dirty
         ELSE x.way = "normal"
      /\ MidExclusive /\ id # 0 /\ x.way = "normal" => Gone(u)
      /\ MidExclusive => x.way \in {"normal", "none"}
  BY DEF MidServedLine
<1>2. id = 0 => UpperOK(k, v) /\ IsValid(k) /\ (AllowWrite(k) => act = "fetch_write") /\ (k.outer = "M" => act = "fetch_write")
  BY <1>0 DEF TopLine, UpperOK, IsValid, AllowWrite, StateFor
<1>3. id # 0 => UpperOK(k, v) /\ k = u /\ ~AllowWrite(k) /\ k.outer # "M" /\ act = "fetch_read"
  BY <1>0 DEF AllowWrite
<1>4. CASE MidExclusive /\ (id = 0 \/ x.way = "none")
  <2>1. y = NoLine
    BY <1>4 DEF MidHanded
  <2>2. Gone(y) /\ ~IsValid(y) /\ ~AllowWrite(y)
    BY <2>1, NoLineType
  <2>3. ~x.dirty
    BY <1>1, <1>4
  <2>4. CoreOK(k, y, v)
    BY <1>2, <1>3, <1>4, <2>2 DEF CoreOK
  <2> QED BY <1>1, <1>2, <1>3, <2>2, <2>3, <2>4
<1>5. CASE ~(MidExclusive /\ (id = 0 \/ x.way = "none"))
  <2>1. y \in Line /\ y.way = "normal" /\ y.st = StateFor(act) /\ y.outer = x.outer /\ y.dirty = x.dirty /\ y.data = v
    BY <1>1, <1>5 DEF MidHanded
  <2>2. IsValid(y) /\ Normal(y) /\ (AllowWrite(y) <=> AllowWrite(x)) /\ y.st # "E" /\ (y.st = "M" <=> act = "fetch_write")
    BY <2>1 DEF IsValid, Normal, AllowWrite, StateFor
  <2>3. MidLine(k, y, v)
    BY <1>1, <2>1, <2>2 DEF MidLine
  <2>4. MidExclusive => Gone(k)
    BY <1>1, <1>3, <1>5
  <2>5. CoreOK(k, y, v)
    BY <1>1, <1>2, <1>3, <2>2, <2>3, <2>4 DEF CoreOK
  <2> QED BY <1>1, <1>2, <1>3, <2>1, <2>2, <2>5
<1> QED BY <1>4, <1>5

LEMMA HandedRest ==
  ASSUME NEW c \in Core, NEW i \in Top(c), NEW act \in {"fetch_read", "fetch_write"}, NEW a, NEW v, NEW w,
         NEW h \in Lines, NEW k \in Lines, \A j \in Node \ {i, L2(c)} : k[j] = h[j],
         Around(h, a, c, v), UpperOK(h[L1D(c)], v), ~AllowWrite(h[L1D(c)]),
         MidServedLine(h[L2(c)], act, Id(i), v, h[L1D(c)]), MidHanded(h[L2(c)], k[L2(c)], act, Id(i)),
         TopLine(k[i], act, v), Id(i) = NoId => act = "fetch_read" /\ a \in Inst,
         AllowWrite(h[L2(c)]) => Clear(h, c),
         LastOK(h[L3], w, v, With(h, c), IF AllowWrite(h[L2(c)]) THEN {c} ELSE {}, IF h[L2(c)].dirty THEN {c} ELSE {})
  PROVE  Rest(k, w, a, v)
<1> DEFINE x == h[L2(c)]
           y == k[L2(c)]
           u == h[L1D(c)]
           z == k[L1D(c)]
<1>1. /\ i \in Node /\ i # L2(c) /\ i # L3 /\ Id(i) \in {0, NoId}
      /\ Id(i) = 0 => i = L1D(c)
      /\ Id(i) = NoId => i \in Instr /\ i = L1I(c) /\ c \in ICore /\ i # L1D(c)
      /\ L1D(c) \in Node /\ L1D(c) # L2(c) /\ L3 \in Node /\ L3 # L2(c)
  BY Tops, Nodes
<1>2. CoreOK(z, y, v) /\ (AllowWrite(z) \/ AllowWrite(y) => AllowWrite(x)) /\ (x.dirty => y.dirty)
  <2>1. CASE Id(i) = 0
    <3>1. TopLine(z, act, v)
      BY <1>1, <2>1
    <3> HIDE DEF x, y, u, z
    <3> QED BY <2>1, <3>1, HandedCore DEF x, y, u
  <2>2. CASE Id(i) = NoId
    <3>1. z = u /\ act = "fetch_read"
      BY <1>1, <2>2
    <3> HIDE DEF x, y, u, z
    <3> QED BY <2>2, <3>1, HandedCore DEF x, y, u
  <2> QED BY <1>1, <2>1, <2>2
<1>3. k[L3] = h[L3] /\ \A d \in Core : d # c => k[L1D(d)] = h[L1D(d)] /\ k[L2(d)] = h[L2(d)]
  <2>1. \A d \in Core : d # c => L1D(d) \in Node \ {i, L2(c)} /\ L2(d) \in Node \ {i, L2(c)}
    <3> TAKE d \in Core
    <3> HAVE d # c
    <3>1. L1D(d) \in Node /\ L2(d) \in Node /\ L1D(d) # L2(c) /\ L2(d) # L2(c)
      BY Nodes
    <3>2. i # L1D(d) /\ i # L2(d)
      BY <1>1, Nodes
    <3> QED BY <3>1, <3>2
  <2> QED BY <1>1, <2>1
<1>4. \A j \in ICore : InstOK(k[L1I(j)], a, v)
  <2> TAKE j \in ICore
  <2>1. L1I(j) \in Node /\ L1I(j) # L2(c)
    BY Nodes
  <2>2. CASE L1I(j) = i
    <3>1. Id(i) = NoId
      BY <2>2, Nodes
    <3>2. act = "fetch_read" /\ a \in Inst
      BY <3>1
    <3> QED BY <2>2, <3>2 DEF TopLine, InstOK, StateFor
  <2>3. CASE L1I(j) # i
    <3>1. k[L1I(j)] = h[L1I(j)]
      BY <2>1, <2>3
    <3> QED BY <3>1 DEF Around
  <2> QED BY <2>2, <2>3
<1>5. Around(k, a, c, v)
  BY <1>3, <1>4 DEF Around, Writer
<1>6. (Clear(k, c) <=> Clear(h, c)) /\ With(k, c) = With(h, c)
  <2>1. \A d \in Core : d # c => (Held(k, d) <=> Held(h, d))
    BY <1>3 DEF Held
  <2> QED BY <2>1 DEF Clear, With, Holders
<1>7. Writer(k, c) => AllowWrite(x)
  BY <1>2 DEF Writer
<1>8. (IF x.dirty THEN {c} ELSE {}) \subseteq Dirties(k)
  <2>1. x.dirty => Dirty(k, c)
    BY <1>2 DEF Dirty
  <2> QED BY <2>1 DEF Dirties
<1> HIDE DEF x, y, u, z
<1>9. LastOK(k[L3], w, v, With(h, c), IF AllowWrite(x) THEN {c} ELSE {}, IF x.dirty THEN {c} ELSE {})
  BY <1>3 DEF x
<1> DEFINE H == With(h, c)
           W == IF AllowWrite(x) THEN {c} ELSE {}
           D == IF x.dirty THEN {c} ELSE {}
<1>10. Holders(k) \subseteq H /\ (Writer(k, c) => c \in W) /\ (Writer(k, c) => Clear(k, c))
  BY <1>6, <1>7 DEF With, x
<1>11. CoreOK(k[L1D(c)], k[L2(c)], v)
  BY <1>2 DEF y, z
<1>12. D \subseteq Dirties(k) /\ LastOK(k[L3], w, v, H, W, D)
  BY <1>8, <1>9
<1> HIDE DEF H, W, D
<1> QED BY <1>5, <1>10, <1>11, <1>12, AroundRest

(* The block is in a way of the L1 i.                                      *)
Fixed(f, i) == [f EXCEPT ![i] = [f[i] EXCEPT !.way = "normal"]]

Filled(s, t, a, i, act, old, now) ==
  LET f == s.at[a]
      g == t.at[a]
      x == g[i]
  IN  /\ Steady(t, old, now, Addr \ {a}) /\ Calm(t)
      /\ t.mem[a] \in {old[a], now[a]}
      /\ x \in Line /\ x.data = now[a] /\ ~x.dirty
      /\ x.st = StateFor(act) /\ x.outer = StateFor(act) /\ x.way = f[i].way
      /\ Rest(Fixed(g, i), t.mem[a], a, now[a])
      /\ \A k \in ICore : L1I(k) # i => g[L1I(k)] = f[L1I(k)]

LEMMA GrantMid ==
  ASSUME NEW s, NEW a \in Addr, NEW c \in Core, NEW i \in Top(c), NEW old, NEW now \in [Addr -> Val], NEW act,
         MidCall(s, a, c, act, Id(i), old, now), Id(i) = NoId => a \in Inst,
         NEW t \in AcquireReq(AtL2, s, i, a, act)
  PROVE  Filled(s, t, a, i, act, old, now)
<1> DEFINE n == L2(c)
           v == now[a]
<1>0. /\ n \in Node /\ v \in Val /\ i \in Node /\ i # n /\ i # L3 /\ L3 \in Node /\ L3 # n /\ Id(i) \in {0, NoId}
      /\ Id(i) = 0 => i = L1D(c)
      /\ Id(i) = NoId => i = L1I(c) /\ c \in ICore
      /\ act \in {"fetch_read", "fetch_write"} /\ (Id(i) = NoId => act = "fetch_read") /\ 0 # NoId
      /\ Id(i) = 0 => ~AllowWrite(s.at[a][L1D(c)])
      /\ s \in Sys /\ Steady(s, old, now, Addr)
  BY Nodes, Tops DEF MidCall, NoId, Steady
<1>1. PICK t0 \in AccessLine(AtL3, s, L2(c), a, Acquire(act), Id(i)) :
           t0 \in Sys /\ t0.ok =>
             LET l == t0.at[a][L2(c)]
                 m == t0.at[a][i]
                 y == Returned(LineGranted(L2(c), act, l, Id(i)))
                 o == StateFor(act)
                 z == [m EXCEPT !.data = l.data, !.outer = o]
                 x == MetaAfterFetch(act, z)
             IN  z \in Line /\ y \in Line /\ x \in Line /\ FetchAssertion(act, z) =>
                   t = Put(Put(Put(t0, L2(c), a, y), i, a, z), i, a, x)
  <2>1. act \in {"fetch_read", "fetch_write"}
    BY <1>0
  <2> QED BY <2>1, MidGrantUpdate, Zenon
<1>2. MidServed(s, t0, a, c, act, Id(i), old, now)
  BY MidAccess
<1> DEFINE f == s.at[a]
           h == t0.at[a]
           l == h[n]
           m == h[i]
           u == h[L1D(c)]
           y == Returned(LineGranted(n, act, l, Id(i)))
           o == StateFor(act)
           z == [m EXCEPT !.data = l.data, !.outer = o]
           x == MetaAfterFetch(act, z)
<1>3. /\ Steady(t0, old, now, Addr \ {a}) /\ t0.mem[a] \in {old[a], v}
      /\ Around(h, a, c, v)
      /\ \A k \in ICore : h[L1I(k)] = f[L1I(k)]
      /\ Id(i) = 0 => u = f[L1D(c)]
      /\ UpperOK(u, v) /\ ~AllowWrite(u) /\ ~u.dirty
      /\ MidServedLine(l, act, Id(i), v, u)
      /\ AllowWrite(l) => Clear(h, c)
      /\ LastOK(h[L3], t0.mem[a], v, With(h, c), IF AllowWrite(l) THEN {c} ELSE {}, IF l.dirty THEN {c} ELSE {})
      /\ \A b \in Addr, k \in Node : t0.at[b][k].lent => b = a /\ k = n
  BY <1>2 DEF MidServed
<1> HIDE DEF f, h, l, m, u, y, o, z, x, n, v
<1>4. t0 \in Sys /\ t0.ok /\ h \in Lines /\ m \in Line /\ l.data = v
  BY <1>0, <1>3 DEF Steady, Sys, Lines, MidServedLine, h, m
<1>5. m = f[i] /\ ~m.dirty /\ ~m.lent
  <2>1. m = f[i]
    BY <1>0, <1>3 DEF m, u
  <2>2. Id(i) = 0 => ~m.dirty
    BY <1>0, <1>3 DEF m, u, h
  <2>3. Id(i) = NoId => ~m.dirty
    <3> HAVE Id(i) = NoId
    <3>1. InstOK(m, a, v)
      BY <1>0, <1>3 DEF Around, m
    <3>2. Gone(m) => ~m.dirty
      BY <1>4, GoneFacts
    <3> QED BY <3>1, <3>2 DEF InstOK
  <2>4. ~m.lent
    BY <1>0, <1>3 DEF m, h
  <2> QED BY <1>0, <2>1, <2>2, <2>3, <2>4
<1>6. MidHanded(l, y, act, Id(i))
  <2> DEFINE id == Id(i)
  <2>1. act \in {"fetch_read", "fetch_write"} /\ id \in {0, NoId} /\ (id = NoId => act = "fetch_read") /\ MidServedLine(l, act, id, v, u)
    BY <1>0, <1>3
  <2> HIDE DEF id
  <2>2. MidHanded(l, Returned(LineGranted(L2(c), act, l, id)), act, id)
    BY <2>1, MidHandedFacts
  <2> QED BY <2>2 DEF y, n, id
<1>7. z \in Line /\ x \in Line /\ FetchAssertion(act, z) /\ MidGrant(m, x, act, v) /\ x.outer = o
  <2>1. o \in State /\ o # "I" /\ (act = "fetch_write" => o = "M")
    BY DEF o, StateFor, State
  <2>2. Acquired(m, v, o, act)
    BY <1>0, <1>4, <2>1, MidGrantFacts
  <2> QED BY <1>4, <2>2 DEF Acquired, x, z
<1>8. y \in Line /\ ~y.lent
  BY <1>6 DEF MidHanded
<1>9. t = Put(Put(Put(t0, n, a, y), i, a, z), i, a, x)
  BY <1>1, <1>4, <1>7, <1>8 DEF n, y, x, z, o, l, m, h
<1> DEFINE t1 == Put(t0, n, a, y)
           t2 == Put(t1, i, a, z)
<1>10. Only(t0, t1, a, {n}) /\ t1.at[a][n] = y /\ t1.mem = t0.mem
  <2>1. t0 \in Sys /\ n \in Node /\ a \in Addr /\ y \in Line
    BY <1>0, <1>4, <1>8
  <2> HIDE DEF t1
  <2>2. t1 = Put(t0, n, a, y)
    BY DEF t1
  <2>3. Only(t0, Put(t0, n, a, y), a, {n}) /\ Put(t0, n, a, y).at[a][n] = y /\ Put(t0, n, a, y).mem = t0.mem
    BY <2>1, OnlyPut
  <2> QED BY <2>2, <2>3
<1> HIDE DEF t1
<1>11. t1 \in Sys
  BY <1>10 DEF Only
<1>12. Only(t1, t2, a, {i}) /\ t2.mem = t1.mem
  BY <1>0, <1>7, <1>11, OnlyPut
<1> HIDE DEF t2
<1>13. t2 \in Sys
  BY <1>12 DEF Only
<1>14. Only(t2, t, a, {i}) /\ t.at[a][i] = x /\ t.mem = t2.mem
  <2>1. t = Put(t2, i, a, x)
    BY <1>9 DEF t1, t2
  <2>2. t2 \in Sys /\ i \in Node /\ x \in Line
    BY <1>0, <1>7, <1>13
  <2> QED BY <2>1, <2>2, OnlyAssign
<1> DEFINE g == t.at[a]
           k == Fixed(g, i)
<1>15. Only(t0, t, a, {i, n}) /\ t.mem = t0.mem /\ g[n] = y /\ g[i] = x
  <2>1. Only(t1, t, a, {i})
    BY <1>12, <1>14, OnlyTrans
  <2>2. Only(t0, t, a, {i, n})
    BY <1>10, <2>1, OnlyTrans
  <2>3. g[n] = y
    BY <1>0, <1>10, <2>1 DEF Only
  <2> QED BY <1>10, <1>12, <1>14, <2>2, <2>3
<1>16. g \in Lines /\ t \in Sys /\ \A j \in Node \ {i, n} : g[j] = h[j]
  BY <1>15 DEF Only, Sys, h
<1> HIDE DEF g
<1>17. /\ x.st = StateFor(act) /\ x.outer = StateFor(act) /\ x.data = v /\ x.dirty = m.dirty /\ x.way = m.way /\ x.lent = m.lent
  BY <1>0, <1>7 DEF MidGrant, StateFor, o
<1> DEFINE x1 == [x EXCEPT !.way = "normal"]
<1>18. TopLine(x1, act, v)
  BY <1>5, <1>7, <1>17 DEF TopLine, Line
<1>19. k = [g EXCEPT ![i] = x1]
  BY <1>15 DEF Fixed
<1> HIDE DEF x1, k
<1>20. k \in Lines /\ k[i] = x1 /\ k[n] = y /\ \A j \in Node \ {i, n} : k[j] = h[j]
  <2>1. x1 \in Line
    BY <1>18 DEF TopLine
  <2>2. k \in Lines
    BY <1>0, <1>16, <1>19, <2>1 DEF Lines
  <2>3. \A j \in Node : k[j] = IF j = i THEN x1 ELSE g[j]
    BY <1>16, <1>19 DEF Lines
  <2> QED BY <1>0, <1>15, <1>16, <2>2, <2>3
<1>21. Rest(k, t.mem[a], a, v)
  <2> DEFINE w == t0.mem[a]
  <2>1. /\ Around(h, a, c, v) /\ UpperOK(h[L1D(c)], v) /\ ~AllowWrite(h[L1D(c)])
        /\ MidServedLine(h[L2(c)], act, Id(i), v, h[L1D(c)])
        /\ AllowWrite(h[L2(c)]) => Clear(h, c)
    BY <1>3 DEF u, l, n
  <2>2. LastOK(h[L3], w, v, With(h, c), IF AllowWrite(h[L2(c)]) THEN {c} ELSE {}, IF h[L2(c)].dirty THEN {c} ELSE {})
    BY <1>3 DEF l, n
  <2>3. MidHanded(h[L2(c)], k[L2(c)], act, Id(i)) /\ TopLine(k[i], act, v) /\ \A j \in Node \ {i, L2(c)} : k[j] = h[j]
    BY <1>6, <1>18, <1>20 DEF l, n
  <2>4. (Id(i) = NoId => act = "fetch_read" /\ a \in Inst) /\ act \in {"fetch_read", "fetch_write"}
    BY <1>0
  <2>5. h \in Lines /\ k \in Lines
    BY <1>4, <1>20
  <2> HIDE DEF w
  <2>6. Rest(k, w, a, v)
    BY <2>1, <2>2, <2>3, <2>4, <2>5, HandedRest
  <2> QED BY <1>15, <2>6 DEF w
<1>22. Steady(t, old, now, Addr \ {a})
  <2>1. Steady(t, old, now, (Addr \ {a}) \ {a})
    BY <1>3, <1>15, OnlySteady
  <2>2. (Addr \ {a}) \ {a} = Addr \ {a}
    OBVIOUS
  <2> QED BY <2>1, <2>2
<1>23. Calm(t)
  <2>1. \A b \in Addr, j \in Node : b # a => ~t.at[b][j].lent
    BY <1>3, <1>15 DEF Only
  <2>2. \A j \in Node : ~g[j].lent
    <3> TAKE j \in Node
    <3>1. CASE j = i
      BY <1>5, <1>15, <1>17, <3>1
    <3>2. CASE j = n
      BY <1>8, <1>15, <3>2
    <3>3. CASE j # i /\ j # n
      <4>1. ~h[j].lent
        BY <1>3, <3>3 DEF h
      <4> QED BY <1>16, <3>3, <4>1
    <3> QED BY <3>1, <3>2, <3>3
  <2> QED BY <2>1, <2>2 DEF Calm, g
<1>24. \A j \in ICore : L1I(j) # i => g[L1I(j)] = f[L1I(j)]
  <2>1. \A j \in ICore : L1I(j) # n /\ L1I(j) \in Node
    BY Nodes DEF n
  <2> QED BY <1>3, <1>16, <2>1
<1> QED BY <1>3, <1>5, <1>7, <1>15, <1>17, <1>21, <1>22, <1>23, <1>24 DEF Filled, f, g, k, v

----------------------------------------------------------------------------
(* The eviction of a block from an L1 of core c.                           *)
SameTops(f, g) ==
  /\ \A d \in Core : g[L1D(d)] = f[L1D(d)]
  /\ \A k \in ICore : g[L1I(k)] = f[L1I(k)]

Dropped(f, i) == [f EXCEPT ![i] = NoLine]

(* The L2 has taken what there is to take, and the line of the L1 may go.  *)
TopLeft(s, x, a, i, old, now) ==
  LET g == x.at[a]
  IN  /\ Steady(x, old, now, Addr \ {a}) /\ Calm(x)
      /\ x.mem[a] \in {old[a], now[a]}
      /\ Rest(Dropped(g, i), x.mem[a], a, now[a])
      /\ ~g[i].dirty
      /\ \A b \in Addr \ {a} : SameTops(s.at[b], x.at[b])

(* The L1D's line is gone, and the line y of the L2 has its content.       *)
HandedDown(f, g, c, y) ==
  LET u == f[L1D(c)]
      m == f[L2(c)]
  IN  /\ g \in Lines /\ g[L1D(c)] = NoLine /\ g[L2(c)] = y
      /\ \A k \in Node \ {L1D(c), L2(c)} : g[k] = f[k]
      /\ Normal(y) /\ y.outer # "I"
      /\ IsValid(u) \/ IsValid(m)
      /\ AllowWrite(y) => AllowWrite(u) \/ AllowWrite(m)
      /\ u.dirty \/ m.dirty => y.dirty
      /\ y.dirty => AllowWrite(y)
      /\ ~MidExclusive => (y.st = "M" => AllowWrite(y)) /\ y.st # "E"

LEMMA HandDownRest ==
  ASSUME NEW f, NEW w, NEW a, NEW v, NEW c \in Core, Rest(f, w, a, v), NEW g, NEW y, HandedDown(f, g, c, y), y.data = v
  PROVE  Rest(g, w, a, v)
<1> DEFINE z == g[L1D(c)]
           u == f[L1D(c)]
           m == f[L2(c)]
<1>1. /\ g \in Lines /\ z = NoLine /\ g[L2(c)] = y
      /\ \A k \in Node \ {L1D(c), L2(c)} : g[k] = f[k]
      /\ Normal(y) /\ y.outer # "I"
      /\ IsValid(u) \/ IsValid(m)
      /\ AllowWrite(y) => AllowWrite(u) \/ AllowWrite(m)
      /\ u.dirty \/ m.dirty => y.dirty
      /\ y.dirty => AllowWrite(y)
      /\ ~MidExclusive => (y.st = "M" => AllowWrite(y)) /\ y.st # "E"
  BY DEF HandedDown
<1> HIDE DEF z, u, m
<1>2. Gone(z) /\ ~IsValid(z) /\ ~AllowWrite(z) /\ ~z.dirty /\ z.outer # "M"
  BY <1>1, NoLineType, GoneFacts
<1>3. CoreOK(z, y, v)
  BY <1>1, <1>2 DEF CoreOK, UpperOK, MidLine
<1>4. Held(f, c) /\ (Writer(g, c) => Writer(f, c)) /\ (Dirty(f, c) => Dirty(g, c))
  BY <1>1, <1>2 DEF Held, Writer, Dirty, u, m, z
<1> QED BY <1>1, <1>3, <1>4, CoreRest DEF z

(* A line that is not dirty may go.                                        *)
LEMMA DropTop ==
  ASSUME NEW f, NEW w, NEW a, NEW v, NEW c \in Core, NEW i \in Top(c), Rest(f, w, a, v), ~MidExclusive \/ i # L1D(c),
         ~f[i].dirty
  PROVE  Rest(Dropped(f, i), w, a, v)
<1> DEFINE g == Dropped(f, i)
<1>1. i \in Node /\ i # L2(c) /\ i # L3 /\ f \in Lines
  BY Tops DEF Rest, AboveOK
<1>2. g \in Lines /\ g[i] = NoLine /\ \A k \in Node \ {i} : g[k] = f[k]
  BY <1>1, NoLineType DEF Lines, Dropped
<1> HIDE DEF g
<1>3. CASE i = L1D(c)
  <2> DEFINE z == g[i]
             u == f[i]
             m == f[L2(c)]
  <2>0. z = NoLine /\ L2(c) \in Node \ {i} /\ g[L2(c)] = m
    BY <1>1, <1>2, Nodes
  <2>1. CoreOK(u, m, v) /\ ~u.dirty
    BY <1>3 DEF Rest, AboveOK
  <2> HIDE DEF z, u, m
  <2>2. Gone(z) /\ ~IsValid(z) /\ ~AllowWrite(z) /\ ~z.dirty /\ z.outer # "M"
    BY <2>0, NoLineType, GoneFacts
  <2>3. CoreOK(z, m, v)
    BY <1>3, <2>1, <2>2 DEF CoreOK, UpperOK, MidLine
  <2>4. /\ Held(g, c) => Held(f, c)
        /\ Writer(g, c) => Writer(f, c)
        /\ Dirty(f, c) => Dirty(g, c)
    BY <1>3, <2>0, <2>1, <2>2 DEF Held, Writer, Dirty, z, u, m
  <2>5. \A k \in Node \ {L1D(c), L2(c)} : g[k] = f[k]
    BY <1>2, <1>3
  <2>6. CoreOK(g[L1D(c)], g[L2(c)], v)
    BY <1>3, <2>0, <2>3 DEF z
  <2> QED BY <1>2, <2>4, <2>5, <2>6, CoreRest DEF g
<1>4. CASE i # L1D(c)
  <2>1. i \in Instr
    BY <1>4 DEF Top
  <2>2. \A d \in Core : L1D(d) \in Node \ {i} /\ L2(d) \in Node \ {i}
    BY <2>1, Nodes
  <2>3. L3 \in Node \ {i}
    BY <1>1, Nodes
  <2>4. g[L3] = f[L3] /\ \A d \in Core : g[L1D(d)] = f[L1D(d)] /\ g[L2(d)] = f[L2(d)]
    BY <1>2, <2>2, <2>3
  <2>5. \A d \in Core : (Held(g, d) <=> Held(f, d)) /\ (Writer(g, d) <=> Writer(f, d)) /\ (Dirty(g, d) <=> Dirty(f, d))
    BY <2>4 DEF Held, Writer, Dirty
  <2>6. Holders(g) = Holders(f) /\ Writers(g) = Writers(f) /\ Dirties(g) = Dirties(f)
    BY <2>5 DEF Holders, Writers, Dirties
  <2>7. \A k \in ICore : InstOK(g[L1I(k)], a, v)
    <3> TAKE k \in ICore
    <3>1. L1I(k) \in Node /\ InstOK(f[L1I(k)], a, v)
      BY Nodes DEF Rest, AboveOK
    <3>2. L1I(k) = i => InstOK(g[L1I(k)], a, v)
      BY <1>2, NoLineType DEF InstOK
    <3> QED BY <1>2, <3>1, <3>2
  <2>8. AboveOK(g, a, v)
    BY <1>2, <2>4, <2>5, <2>7 DEF Rest, AboveOK
  <2> QED BY <2>4, <2>6, <2>8 DEF Rest, g
<1> QED BY <1>3, <1>4

LEMMA TopLeftFrom ==
  ASSUME NEW s, NEW t, NEW x, NEW a \in Addr, NEW c \in Core, NEW i \in Top(c), NEW old, NEW now,
         Steady(t, old, now, Addr), Calm(t), \A b \in Addr \ {a} : SameTops(s.at[b], t.at[b]),
         NEW K, Only(t, x, a, K), x.mem = t.mem, \A k \in Node : ~x.at[a][k].lent,
         ~x.at[a][i].dirty, Rest(Dropped(x.at[a], i), x.mem[a], a, now[a])
  PROVE  TopLeft(s, x, a, i, old, now)
<1>1. Steady(x, old, now, Addr \ {a}) /\ \A b \in Addr \ {a}, k \in Node : x.at[b][k].lent => t.at[b][k].lent
  BY OnlySteady
<1>2. Calm(x)
  BY <1>1 DEF Calm
<1>3. x.mem[a] \in {old[a], now[a]}
  BY DEF Steady, Settled
<1>4. \A b \in Addr \ {a} : SameTops(s.at[b], x.at[b])
  BY DEF Only
<1> QED BY <1>1, <1>2, <1>3, <1>4 DEF TopLeft

(* An L1D releases a dirty block to an inclusive L2.                       *)
LEMMA TopReleaseInclusive ==
  ASSUME NEW s, NEW a \in Addr, NEW c \in Core, NEW old, NEW now \in [Addr -> Val],
         Steady(s, old, now, Addr), Calm(s), ~MidExclusive, s.at[a][L1D(c)].dirty,
         NEW x \in WritebackReq(AtL2, s, L1D(c), a, "evict")
  PROVE  TopLeft(s, x, a, L1D(c), old, now)
<1> DEFINE i == L1D(c)
           n == L2(c)
           f == s.at[a]
           u == f[i]
           m == f[n]
           v == now[a]
           w == s.mem[a]
           hit == IsValid(m) /\ ~NeedPromote(Release, m)
<1>1. /\ i \in Node /\ n \in Node /\ n # i /\ Outer(i) = n /\ Id(i) = 0 /\ ~Exclusive(n) /\ ~IsL1(n)
      /\ u \in Line /\ m \in Line /\ v \in Val /\ s \in Sys /\ s.ok
      /\ Rest(f, w, a, v) /\ f \in Lines /\ ~u.lent /\ ~m.lent
  BY Nodes, Programs DEF Steady, Settled, Sys, Lines, Calm
<1>2. CoreOK(u, m, v) /\ u.dirty
  BY <1>1 DEF Rest, AboveOK
<1> HIDE DEF i, n, f, u, m, v, w, hit
<1>3. IsValid(u) /\ AllowWrite(u) /\ u.data = v /\ u.outer = "M"
  <2>1. ~Gone(u)
    BY <1>2, GoneFacts
  <2> QED BY <1>2, <2>1 DEF CoreOK, UpperOK, IsValid, AllowWrite
<1>4. IsValid(m) /\ m.st = "M" /\ AllowWrite(m) /\ Normal(m) /\ m.outer # "I"
  <2>1. m.st = "M" /\ AllowWrite(m)
    BY <1>2, <1>3 DEF CoreOK
  <2>2. IsValid(m)
    BY <2>1 DEF IsValid
  <2>3. ~Gone(m)
    BY <2>2, GoneFacts
  <2> QED BY <1>2, <2>1, <2>2, <2>3 DEF CoreOK, MidLine
<1>5. AtL2(s, <<i, a, "evict">>) = InclusiveWrite(AtL3, s, i, a, "evict")
  BY <1>1 DEF AtL2, OuterResp
<1>6. PICK r \in InclusiveWrite(AtL3, s, i, a, "evict") : x = Put(r, i, a, ToClean(r.at[a][i]))
  BY <1>5 DEF WritebackReq, i
<1>7. PICK t0 \in AccessLine(AtL3, s, n, a, Release, 0) : TakenBelow(t0, r, n, i, a, "evict", u.data, hit)
  <2> DEFINE act == "evict"
  <2> HIDE DEF act
  <2>0. r \in InclusiveWrite(AtL3, s, i, a, act)
    BY DEF act
  <2>1. PICK t0 \in AccessLine(AtL3, s, Outer(i), a, Release, Id(i)) :
          r = [t0 EXCEPT !.at[a][Outer(i)] = ToDirty([@ EXCEPT !.data = u.data]),
                         !.at[a][i] = IF act = "evict" THEN [@ EXCEPT !.outer = "I"] ELSE @,
                         !.ok       = @ /\ (IsValid(s.at[a][Outer(i)]) /\ ~NeedPromote(Release, s.at[a][Outer(i)]))]
    BY <2>0 DEF InclusiveWrite, u, f
  <2>2. TakenBelow(t0, r, n, i, a, act, u.data, hit)
    BY <1>1, <2>1 DEF TakenBelow, hit, m, f
  <2> QED BY <1>1, <2>1, <2>2 DEF act
<1>8. hit = TRUE
  BY <1>4 DEF hit, NeedPromote
<1>9. t0 = s
  <2>1. t0 \in InclusiveAccess(AtL3, s, n, a, Release, 0)
    BY <1>1, <1>7 DEF AccessLine
  <2>2. AccessNeedSync(Release, m) = "none"
    BY DEF AccessNeedSync, Release, IsRelease
  <2>3. t0 \in Promote(AtL3, s, n, a, Release)
    BY <1>1, <1>4, <2>1, <2>2 DEF InclusiveAccess, m, f
  <2>4. ~NeedPromote(Release, m) /\ ~NeedPromoteLocal(Release, m)
    BY <1>4 DEF NeedPromote, NeedPromoteLocal, IsModified
  <2> QED BY <2>3, <2>4 DEF Promote, m, f
<1> DEFINE g == x.at[a]
           y == g[n]
<1>10. /\ Only(s, x, a, {n, i}) /\ x.mem = s.mem
       /\ y \in Line /\ y.st = "M" /\ y.outer = m.outer /\ y.dirty = TRUE
       /\ y.data = v /\ y.way = m.way /\ y.lent = m.lent
       /\ g[i] = ToClean(GivenLine(u, "evict"))
  <2>1. s \in Sys /\ s.ok /\ u.data \in Val /\ TakenBelow(s, r, n, i, a, "evict", u.data, hit)
    BY <1>1, <1>3, <1>7, <1>9
  <2>2. Taken(s, Put(r, i, a, ToClean(r.at[a][i])), n, i, a, "evict", u.data)
    BY <1>1, <1>8, <2>1, TakenFacts
  <2>3. Taken(s, x, n, i, a, "evict", u.data)
    BY <1>6, <2>2
  <2> QED BY <1>3, <1>4, <2>3 DEF Taken, m, u, f
<1> HIDE DEF g, y
<1>11. ~g[i].dirty /\ ~g[i].lent /\ ~y.lent
  BY <1>1, <1>10 DEF ToClean, GivenLine, Line, State
<1>12. g \in Lines /\ g[n] = y /\ \A k \in Node \ {n, i} : g[k] = f[k]
  BY <1>10 DEF Only, Sys, g, f, y
<1> DEFINE h == Dropped(g, i)
<1>13. HandedDown(f, h, c, y)
  <2>1. h \in Lines /\ h[i] = NoLine /\ h[n] = y /\ \A k \in Node \ {n, i} : h[k] = f[k]
    BY <1>1, <1>12, NoLineType DEF Lines, Dropped
  <2>2. Normal(y) /\ y.outer # "I" /\ AllowWrite(y) /\ y.dirty /\ y.st # "E"
    BY <1>4, <1>10 DEF Normal, IsValid, AllowWrite
  <2> HIDE DEF h
  <2> QED BY <1>3, <2>1, <2>2 DEF HandedDown, u, m, f, i, n
<1>14. Rest(h, w, a, v)
  <2> HIDE DEF h
  <2> QED BY <1>1, <1>10, <1>13, HandDownRest
<1>15. \A k \in Node : ~x.at[a][k].lent
  <2>1. \A k \in Node : ~f[k].lent
    BY DEF Calm, f
  <2>2. \A k \in Node : ~g[k].lent
    BY <1>11, <1>12, <2>1
  <2> QED BY <2>2 DEF g
<1>16. \A b \in Addr \ {a} : SameTops(s.at[b], s.at[b])
  BY DEF SameTops
<1>17. i \in Top(c)
  BY DEF Top, i
<1>18. ~x.at[a][i].dirty /\ Rest(Dropped(x.at[a], i), x.mem[a], a, now[a])
  BY <1>10, <1>11, <1>14 DEF g, w, v
<1> QED BY <1>10, <1>15, <1>16, <1>17, <1>18, TopLeftFrom DEF i

(* What an exclusive L2 has to ask when its L1D releases a block.          *)
NothingAsked(s, p, c, a) ==
  LET n == L2(c)
  IN  p.s \in {s, Put(s, n, a, Lending(s.at[a][n]))} /\ p.hit = FALSE /\ p.wb = FALSE

LEMMA TopReleaseProbes ==
  ASSUME NEW s \in Sys, s.ok, Calm(s), NEW a \in Addr, NEW c \in Core
  PROVE  NothingAsked(s, ReleaseProbes(s, L2(c), a, L1D(c)), c, a)
<1> DEFINE i == L1D(c)
           n == L2(c)
           p == ReleaseProbes(s, n, a, i)
<1>1. n \in Node /\ ~Directory(n) /\ Id(i) = 0 /\ n # L3 /\ s.at[a][n] \in Line
  BY Nodes, Programs DEF Sys, Lines
<1> HIDE DEF i, n, p
<1>2. CASE AllowWrite(s.at[a][i])
  <2>1. p = NotAsked(s)
    BY <1>1, <1>2 DEF ReleaseProbes, p
  <2>2. p.s = s /\ p.hit = FALSE /\ p.wb = FALSE
    BY <2>1 DEF NotAsked
  <2> QED BY <2>2 DEF NothingAsked, n, p, i
<1>3. CASE ~AllowWrite(s.at[a][i])
  <2>1. p = ProbeReq(Borrow(s, n, a), n, a, "writeback", 0)
    BY <1>1, <1>3 DEF ReleaseProbes, p
  <2> DEFINE s1 == Put(s, n, a, Lending(s.at[a][n]))
  <2>2. Borrow(s, n, a) = s1
    <3>1. \A k \in Node : Lendable(s, k)
      BY QuietFacts
    <3> QED BY <1>1, <3>1, BorrowFacts
  <2>3. s1 \in Sys /\ s1.ok
    <3> DEFINE m1 == Lending(s.at[a][n])
    <3>1. m1 \in Line
      BY <1>1, LendingFacts
    <3> HIDE DEF m1
    <3>2. OnlyAt(s, Put(s, n, a, m1), a)
      BY <1>1, <3>1, PutFacts
    <3> QED BY <3>2 DEF OnlyAt, m1
  <2> HIDE DEF s1
  <2>4. p = AskOwn(s1, c, a, "writeback")
    BY <1>1, <2>1, <2>2 DEF ProbeReq, AskOwn, n
  <2>5. NobodyAsked(s1, p)
    BY <2>3, <2>4, AskNobody
  <2> QED BY <2>5 DEF NobodyAsked, NothingAsked, s1, n, p, i
<1> QED BY <1>2, <1>3

(* The caches are then as if nobody had been asked.                        *)
LEMMA NothingAskedFacts ==
  ASSUME NEW s \in Sys, s.ok, NEW a \in Addr, NEW c \in Core, NEW p, NothingAsked(s, p, c, a),
         s.at[a][L2(c)] = NoLine
  PROVE  /\ Returned(p.s.at[a][L2(c)]) = NoLine
         /\ [p.s EXCEPT !.at[a][L2(c)] = NoLine] = s
<1> DEFINE n == L2(c)
           m1 == Lending(s.at[a][n])
           s1 == Put(s, n, a, m1)
<1>1. n \in Node /\ s.at[a][n] \in Line
  BY Nodes DEF Sys, Lines
<1>2. m1 \in Line /\ m1.way = "none"
  <2> DEFINE m == s.at[a][n]
  <2>1. m.way = "none" /\ m \in Line
    BY <1>1 DEF NoLine
  <2> HIDE DEF m
  <2>2. Lending(m) \in Line /\ Lending(m).way = m.way
    BY <2>1, LendingFacts
  <2> QED BY <2>1, <2>2 DEF m
<1>3. Returned(NoLine) = NoLine /\ Returned(m1) = NoLine
  BY <1>2, NoLineType DEF Returned
<1>4. [s EXCEPT !.at[a][n] = NoLine] = s
  <2> DEFINE z == NoLine
  <2>1. s.at[a][n] = z
    OBVIOUS
  <2> HIDE DEF z
  <2> QED BY <1>1, <2>1 DEF Sys, Lines, z
<1>5. s1.at[a][n] = m1 /\ [s1 EXCEPT !.at[a][n] = NoLine] = s
  <2> DEFINE z == NoLine
  <2> HIDE DEF m1, z
  <2>1. [s1 EXCEPT !.at[a][n] = z] = [s EXCEPT !.at[a][n] = z]
    BY <1>1 DEF Sys, Lines, Put
  <2>2. s1.at[a][n] = m1
    BY <1>1 DEF Sys, Lines, Put
  <2> QED BY <1>4, <2>1, <2>2 DEF z
<1> HIDE DEF s1, m1
<1>6. p.s = s \/ p.s = s1
  BY DEF NothingAsked, n, s1, m1
<1> HIDE DEF NoLine, n
<1>7. s.at[a][n] = NoLine
  BY DEF n
<1>8. CASE p.s = s
  BY <1>3, <1>4, <1>7, <1>8 DEF n
<1>9. CASE p.s = s1
  BY <1>3, <1>5, <1>9 DEF n
<1> QED BY <1>6, <1>8, <1>9

(* An L1D releases a block to an exclusive L2.                             *)
UpperTaken(u) == [NoLine EXCEPT !.st = "S", !.outer = u.outer, !.dirty = u.dirty, !.data = u.data, !.way = "normal"]

LEMMA UpperTakenFacts ==
  ASSUME NEW u \in Line, NEW v \in Val, u.data = v, UpperOK(u, v), IsValid(u)
  PROVE  LET y == UpperTaken(u)
         IN  /\ y \in Line /\ Normal(y) /\ y.outer = u.outer /\ y.outer # "I" /\ y.dirty = u.dirty /\ y.data = v /\ y.st = "S"
             /\ ~y.lent /\ (y.dirty => AllowWrite(y)) /\ (AllowWrite(y) => AllowWrite(u))
<1> DEFINE y == UpperTaken(u)
<1>1. y \in Line /\ y.outer = u.outer /\ y.dirty = u.dirty /\ y.data = u.data /\ y.st = "S" /\ y.way = "normal" /\ y.lent = FALSE
  BY DEF UpperTaken, Line, State, NoLine
<1> HIDE DEF y
<1>2. ~Gone(u)
  BY GoneFacts
<1>3. u.outer # "I" /\ (u.dirty => AllowWrite(u))
  BY <1>2 DEF UpperOK, AllowWrite
<1> QED BY <1>1, <1>3 DEF Normal, IsValid, AllowWrite, y

LEMMA TopReleaseExclusive ==
  ASSUME NEW s, NEW a \in Addr, NEW c \in Core, NEW old, NEW now \in [Addr -> Val],
         Steady(s, old, now, Addr), Calm(s), MidExclusive, IsValid(s.at[a][L1D(c)]),
         NEW x \in WritebackReq(AtL2, s, L1D(c), a, "evict")
  PROVE  TopLeft(s, x, a, L1D(c), old, now)
<1> DEFINE i == L1D(c)
           n == Outer(i)
           f == s.at[a]
           u == f[i]
           m == f[n]
           v == now[a]
           p == ReleaseProbes(s, n, a, i)
           line == Returned(p.s.at[a][n])
           fits == ~p.wb /\ s.at[a][n].way = (IF Directory(n) THEN "ext" ELSE "none")
           asked == [p.s EXCEPT !.at[a][n] = line, !.ok = @ /\ fits]
           taken == [line EXCEPT !.st = IF Directory(n) THEN @ ELSE "S", !.outer = u.outer,
                                 !.dirty = u.dirty, !.data = u.data, !.way = "normal"]
<1>1. /\ i \in Node /\ n \in Node /\ n # i /\ n = L2(c) /\ Exclusive(n) /\ ~Directory(n) /\ ~LastExclusive
      /\ u \in Line /\ m \in Line /\ v \in Val /\ s \in Sys /\ s.ok
      /\ Rest(f, s.mem[a], a, v) /\ f \in Lines /\ ~u.lent /\ ~m.lent
  BY Nodes, Programs DEF Steady, Settled, Sys, Lines, Calm
<1>2. CoreOK(u, m, v) /\ IsValid(u)
  BY <1>1 DEF Rest, AboveOK
<1>3. NothingAsked(s, p, c, a)
  BY <1>1, TopReleaseProbes
<1> HIDE DEF i, n, f, u, m, v, p
<1>4. UpperOK(u, v) /\ u.data = v
  <2>1. ~Gone(u)
    BY <1>2, GoneFacts
  <2> QED BY <1>2, <2>1 DEF CoreOK, UpperOK
<1>5. m = NoLine
  <2>1. ~IsValid(m)
    <3>1. ~Gone(u)
      BY <1>2, GoneFacts
    <3> QED BY <1>2, <3>1 DEF CoreOK
  <2>2. Gone(m) /\ m.lent = FALSE
    BY <1>1, <1>2, <2>1 DEF CoreOK, MidLine, Normal, Line
  <2> QED BY <2>2 DEF Gone, NoLine
<1>6. AtL2(s, <<i, a, "evict">>) = ExclusiveWrite(AtL3, s, i, a)
  BY <1>1 DEF AtL2, OuterResp, n
<1>7. PICK r \in ExclusiveWrite(AtL3, s, i, a) : x = Put(r, i, a, ToClean(r.at[a][i]))
  BY <1>6 DEF WritebackReq, i
<1>8. line = NoLine /\ [p.s EXCEPT !.at[a][n] = NoLine] = s
  <2>1. s.at[a][L2(c)] = NoLine
    BY <1>1, <1>5 DEF m, f
  <2>2. /\ Returned(p.s.at[a][L2(c)]) = NoLine
        /\ [p.s EXCEPT !.at[a][L2(c)] = NoLine] = s
    BY <1>1, <1>3, <2>1, NothingAskedFacts
  <2> QED BY <1>1, <2>2
<1>9. p.hit = FALSE /\ fits = TRUE /\ p.s \in Sys /\ p.s.ok = TRUE
  <2>1. p.hit = FALSE /\ p.wb = FALSE
    BY <1>3 DEF NothingAsked
  <2>2. m.way = "none"
    BY <1>5 DEF NoLine
  <2>3. fits
    BY <1>1, <2>1, <2>2 DEF m, f
  <2>4. p.s \in Sys /\ p.s.ok
    <3>1. CASE p.s = s
      BY <1>1, <3>1
    <3>2. CASE p.s # s
      <4>1. p.s = Put(s, n, a, Lending(m))
        BY <1>1, <1>3, <3>2 DEF NothingAsked, m, f
      <4> DEFINE m1 == Lending(m)
      <4>2. m1 \in Line
        BY <1>1, LendingFacts
      <4> HIDE DEF m1
      <4>3. OnlyAt(s, Put(s, n, a, m1), a)
        BY <1>1, <4>2, PutFacts
      <4> QED BY <1>1, <4>1, <4>3 DEF OnlyAt, m1
    <3> QED BY <3>1, <3>2
  <2> HIDE DEF fits
  <2> QED BY <2>1, <2>3, <2>4 DEF Sys, fits
<1>10. taken = UpperTaken(u)
  <2> DEFINE z == NoLine
  <2> HIDE DEF line, z
  <2>1. line = z
    BY <1>8 DEF z
  <2>2. taken = [z EXCEPT !.st = "S", !.outer = u.outer, !.dirty = u.dirty, !.data = u.data, !.way = "normal"]
    BY <1>1, <2>1
  <2> QED BY <2>2 DEF UpperTaken, z
<1> DEFINE y == UpperTaken(u)
<1>11. PICK t \in MakeRoom(AtL3, asked, n, a, "normal") : TookLine(t, r, n, i, a, taken)
  <2>1. r \in (IF p.hit THEN {asked}
               ELSE {[t EXCEPT !.at[a][n] = taken, !.at[a][i] = [@ EXCEPT !.outer = "I", !.dirty = FALSE]]
                       : t \in MakeRoom(AtL3, asked, n, a, "normal")})
    BY DEF ExclusiveWrite, p, u, f, n
  <2> HIDE DEF asked, taken
  <2> QED BY <1>9, <2>1 DEF TookLine
<1>12. asked = s
  <2> DEFINE z == NoLine
             ps == p.s
  <2> HIDE DEF line, fits, z, ps
  <2>1. line = z /\ [ps EXCEPT !.at[a][n] = z] = s /\ (ps.ok /\ fits) = ps.ok /\ ps \in Sys
    BY <1>8, <1>9 DEF z, ps
  <2>2. asked = [ps EXCEPT !.at[a][n] = line, !.ok = ps.ok /\ fits]
    BY DEF ps
  <2>3. asked = [ps EXCEPT !.at[a][n] = z]
    BY <2>1, <2>2 DEF Sys
  <2> QED BY <2>1, <2>3
<1> HIDE DEF line, fits, asked, taken, y
<1>13. /\ y \in Line /\ Normal(y) /\ y.outer = u.outer /\ y.outer # "I" /\ y.dirty = u.dirty /\ y.data = v /\ y.st = "S"
       /\ ~y.lent /\ (y.dirty => AllowWrite(y)) /\ (AllowWrite(y) => AllowWrite(u))
  BY <1>1, <1>2, <1>4, UpperTakenFacts DEF y
<1>14. RoomAtMid(s, t, a, c, old, now, Addr)
  <2>1. t \in MakeRoom(AtL3, s, L2(c), a, "normal")
    BY <1>1, <1>11, <1>12
  <2> QED BY <1>1, <2>1, MidMakeRoom
<1>15. /\ Steady(t, old, now, Addr) /\ NoNewLent(s, t) /\ t.at[a] = f /\ t.mem[a] = s.mem[a]
       /\ \A b \in Addr, k \in ICore : t.at[b][L1I(k)] = s.at[b][L1I(k)]
       /\ \A b \in Addr, d \in Core : t.at[b][L1D(d)] = s.at[b][L1D(d)]
  BY <1>1, <1>14 DEF RoomAtMid, f
<1>16. t \in Sys /\ Calm(t)
  BY <1>15 DEF Steady, Calm, NoNewLent
<1> DEFINE g == x.at[a]
<1>17. Only(t, x, a, {n, i}) /\ x.mem = t.mem /\ g[n] = y /\ g[i] = LeftLine(u)
  <2>1. TookLine(t, r, n, i, a, y)
    BY <1>10, <1>11 DEF y
  <2>2. Took(t, Put(r, i, a, ToClean(r.at[a][i])), n, i, a, y)
    BY <1>1, <1>13, <1>16, <2>1, TookFacts
  <2>3. Took(t, x, n, i, a, y)
    BY <1>7, <2>2
  <2> QED BY <1>15, <2>3 DEF Took, u, f
<1> HIDE DEF g
<1>18. ~g[i].dirty /\ ~g[i].lent
  BY <1>1, <1>17 DEF LeftLine, Line, State
<1>19. g \in Lines /\ \A k \in Node \ {n, i} : g[k] = f[k]
  BY <1>15, <1>17 DEF Only, Sys, g
<1> DEFINE h == Dropped(g, i)
<1>20. HandedDown(f, h, c, y)
  <2>1. h \in Lines /\ h[i] = NoLine /\ h[n] = y /\ \A k \in Node \ {n, i} : h[k] = f[k]
    BY <1>1, <1>17, <1>19, NoLineType DEF Lines, Dropped
  <2> HIDE DEF h
  <2>2. ~m.dirty
    BY <1>5, NoLineType
  <2>3. u.dirty \/ m.dirty => y.dirty
    BY <1>13, <2>2
  <2> QED BY <1>1, <1>2, <1>13, <2>1, <2>3 DEF HandedDown, u, m, f, i
<1>21. Rest(h, s.mem[a], a, v)
  <2> DEFINE w == s.mem[a]
  <2> HIDE DEF h, w
  <2>1. Rest(f, w, a, v)
    BY <1>1 DEF w
  <2>2. Rest(h, w, a, v)
    BY <1>13, <1>20, <2>1, HandDownRest
  <2> QED BY <2>2 DEF w
<1>22. \A k \in Node : ~x.at[a][k].lent
  <2>1. \A k \in Node : ~f[k].lent
    BY DEF Calm, f
  <2>2. \A k \in Node : ~g[k].lent
    BY <1>13, <1>17, <1>18, <1>19, <2>1
  <2> QED BY <2>2 DEF g
<1>23. \A b \in Addr \ {a} : SameTops(s.at[b], t.at[b])
  BY <1>15 DEF SameTops
<1>24. i \in Top(c)
  BY DEF Top, i
<1>25. ~x.at[a][i].dirty /\ Rest(Dropped(x.at[a], i), x.mem[a], a, now[a])
  BY <1>15, <1>17, <1>18, <1>21 DEF g, v
<1> QED BY <1>15, <1>16, <1>17, <1>22, <1>23, <1>24, <1>25, TopLeftFrom DEF i

TopEvicted(s, t, a, old, now) ==
  /\ Steady(t, old, now, Addr) /\ Calm(t)
  /\ \A b \in Addr \ {a} : SameTops(s.at[b], t.at[b])

LEMMA TopEvict ==
  ASSUME NEW s, NEW a \in Addr, NEW c \in Core, NEW i \in Top(c), NEW old, NEW now \in [Addr -> Val],
         Steady(s, old, now, Addr), Calm(s), IsValid(s.at[a][i]),
         NEW t \in Evict(AtL2, s, i, a)
  PROVE  TopEvicted(s, t, a, old, now)
<1> DEFINE f == s.at[a]
           v == now[a]
<1>1. /\ i \in Node /\ i # L3 /\ IsL1(i) /\ Outer(i) = L2(c) /\ s \in Sys /\ s.ok /\ Rest(f, s.mem[a], a, v)
      /\ (Exclusive(L2(c)) <=> MidExclusive)
      /\ i = L1D(c) \/ (i \in Instr /\ i = L1I(c) /\ c \in ICore /\ i # L1D(c))
  BY Nodes, Tops, Programs DEF Steady, Settled
<1>2. i \notin Instr <=> i = L1D(c)
  BY <1>1, Nodes
<1>3. EvictProbes(s, i, a) = s /\ (ReleasesClean(i) <=> i = L1D(c) /\ MidExclusive)
  <2>1. EvictProbes(s, i, a) = s
    BY <1>1 DEF EvictProbes
  <2>2. ReleasesClean(i) <=> i = L1D(c) /\ MidExclusive
    <3>1. ReleasesClean(i) <=> i # L3 /\ i \notin Instr /\ Exclusive(Outer(i))
      BY DEF ReleasesClean
    <3> QED BY <1>1, <1>2, <3>1
  <2> QED BY <2>1, <2>2
<1> HIDE DEF f, v
<1>4. PICK x \in Writeback(AtL2, s, i, a, "evict", ReleasesClean(i)) :
        t = [x EXCEPT !.at[a][i] = NoLine, !.ok = @ /\ ~IsDirty(x.at[a][i])]
  BY <1>3 DEF Evict
<1>5. TopLeft(s, x, a, i, old, now)
  <2>1. CASE i = L1D(c) /\ (MidExclusive \/ IsDirty(f[i]))
    <3>1. x \in WritebackReq(AtL2, s, L1D(c), a, "evict")
      BY <1>3, <1>4, <2>1 DEF Writeback, f
    <3>2. CASE MidExclusive
      <4>1. IsValid(s.at[a][L1D(c)])
        BY <2>1
      <4> QED BY <2>1, <3>1, <3>2, <4>1, TopReleaseExclusive
    <3>3. CASE ~MidExclusive
      <4>1. s.at[a][L1D(c)].dirty
        BY <2>1, <3>3 DEF IsDirty, f
      <4> QED BY <2>1, <3>1, <3>3, <4>1, TopReleaseInclusive
    <3> QED BY <3>2, <3>3
  <2>2. CASE ~(i = L1D(c) /\ (MidExclusive \/ IsDirty(f[i])))
    <3>1. ~f[i].dirty
      <4>1. CASE i = L1D(c)
        BY <2>2, <4>1 DEF IsDirty
      <4>2. CASE i # L1D(c)
        <5>1. InstOK(f[i], a, v)
          BY <1>1, <4>2 DEF Rest, AboveOK
        <5>2. Gone(f[i]) => ~f[i].dirty
          BY GoneFacts
        <5> QED BY <5>1, <5>2 DEF InstOK
      <4> QED BY <4>1, <4>2
    <3>2. x = s
      BY <1>3, <1>4, <2>2, <3>1 DEF Writeback, IsDirty, f
    <3>3. Rest(Dropped(f, i), s.mem[a], a, v)
      <4>1. ~MidExclusive \/ i # L1D(c)
        BY <2>2
      <4> DEFINE w == s.mem[a]
      <4> HIDE DEF w
      <4>2. Rest(f, w, a, v)
        BY <1>1 DEF w
      <4>3. Rest(Dropped(f, i), w, a, v)
        BY <3>1, <4>1, <4>2, DropTop
      <4> QED BY <4>3 DEF w
    <3>4. \A b \in Addr \ {a} : SameTops(s.at[b], s.at[b])
      BY DEF SameTops
    <3>5. Steady(s, old, now, Addr \ {a}) /\ s.mem[a] \in {old[a], v}
      BY DEF Steady, Settled, v
    <3> QED BY <3>1, <3>2, <3>3, <3>4, <3>5 DEF TopLeft, f, v
  <2> QED BY <2>1, <2>2
<1> DEFINE g == x.at[a]
<1>6. /\ Steady(x, old, now, Addr \ {a}) /\ Calm(x) /\ x \in Sys /\ x.ok = TRUE
      /\ x.mem[a] \in {old[a], v}
      /\ Rest(Dropped(g, i), x.mem[a], a, v)
      /\ ~g[i].dirty
      /\ \A b \in Addr \ {a} : SameTops(s.at[b], x.at[b])
  BY <1>5 DEF TopLeft, Steady, Sys, v
<1> HIDE DEF g
<1>7. t = Put(x, i, a, NoLine)
  <2>1. (x.ok /\ ~IsDirty(x.at[a][i])) = x.ok
    BY <1>6 DEF IsDirty, g
  <2>2. t = [x EXCEPT !.at[a][i] = NoLine, !.ok = x.ok]
    BY <1>4, <2>1
  <2> HIDE DEF NoLine
  <2> QED BY <2>2, <1>6 DEF Put, Sys
<1>8. Only(x, t, a, {i}) /\ t.at[a][i] = NoLine /\ t.mem = x.mem
  <2>1. x \in Sys /\ i \in Node /\ NoLine \in Line
    BY <1>1, <1>6, NoLineType
  <2> HIDE DEF NoLine
  <2> QED BY <1>7, <2>1, OnlyAssign
<1>9. t.at[a] = Dropped(g, i)
  <2> DEFINE z == NoLine
  <2> HIDE DEF z
  <2>1. t = [x EXCEPT !.at[a][i] = z]
    BY <1>7 DEF Put, z
  <2> QED BY <1>6, <2>1 DEF Dropped, Sys, Lines, g, z
<1>10. Steady(t, old, now, Addr)
  <2>1. Steady(t, old, now, (Addr \ {a}) \ {a})
    BY <1>6, <1>8, OnlySteady
  <2>2. Settled(t, old, now, a)
    BY <1>6, <1>8, <1>9 DEF Settled, v
  <2>3. \A b \in Addr : b = a \/ b \in (Addr \ {a}) \ {a}
    OBVIOUS
  <2> QED BY <2>1, <2>2, <2>3 DEF Steady
<1>11. Calm(t)
  BY <1>6, <1>8, NoLineType DEF Calm, Only
<1>12. \A b \in Addr \ {a} : SameTops(s.at[b], t.at[b])
  BY <1>6, <1>8 DEF Only
<1> QED BY <1>10, <1>11, <1>12 DEF TopEvicted

RoomAtTop(s, t, a, old, now) ==
  Steady(t, old, now, Addr) /\ Calm(t) /\ SameTops(s.at[a], t.at[a])

LEMMA TopMakeRoom ==
  ASSUME NEW s, NEW a \in Addr, NEW c \in Core, NEW i \in Top(c), NEW old, NEW now \in [Addr -> Val],
         Steady(s, old, now, Addr), Calm(s), NEW way,
         NEW t \in MakeRoom(AtL2, s, i, a, way)
  PROVE  RoomAtTop(s, t, a, old, now)
<1> DEFINE there == {b \in Addr \ {a} : /\ Set[i[1]][b] = Set[i[1]][a]
                                        /\ IsValid(s.at[b][i])
                                        /\ s.at[b][i].way = way}
<1>1. t = s \/ \E d \in there : t \in Evict(AtL2, s, i, d)
  BY DEF MakeRoom
<1>2. CASE t = s
  BY <1>2 DEF RoomAtTop, SameTops
<1>3. CASE \E d \in there : t \in Evict(AtL2, s, i, d)
  <2>1. PICK d \in there : t \in Evict(AtL2, s, i, d)
    BY <1>3
  <2>2. d \in Addr /\ d # a /\ IsValid(s.at[d][i])
    OBVIOUS
  <2> HIDE DEF there
  <2>3. TopEvicted(s, t, d, old, now)
    BY <2>1, <2>2, TopEvict
  <2> QED BY <2>2, <2>3 DEF TopEvicted, RoomAtTop
<1> QED BY <1>1, <1>2, <1>3

----------------------------------------------------------------------------
(* A read or a write of an L1.                                             *)
Accessed(s, t, a, i, act, old, now) ==
  LET x == t.at[a][i]
  IN  /\ Steady(t, old, now, Addr) /\ Calm(t)
      /\ x \in Line /\ IsValid(x) /\ x.data = now[a] /\ x.way = "normal"
      /\ act = "fetch_write" => x.st = "M" /\ x.outer = "M"
      /\ \A k \in ICore : L1I(k) # i => t.at[a][L1I(k)] = s.at[a][L1I(k)]

(* The block is in a way when it has come.                                 *)
LEMMA FilledAccess ==
  ASSUME NEW s, NEW t, NEW r, NEW a \in Addr, NEW c \in Core, NEW i \in Top(c), NEW old, NEW now,
         NEW act \in {"fetch_read", "fetch_write"},
         Filled(s, t, a, i, act, old, now), r = Put(t, i, a, [t.at[a][i] EXCEPT !.way = "normal"])
  PROVE  Accessed(s, r, a, i, act, old, now)
<1> DEFINE g == t.at[a]
           x == g[i]
           y == [x EXCEPT !.way = "normal"]
           h == r.at[a]
<1>1. /\ Steady(t, old, now, Addr \ {a}) /\ Calm(t) /\ t \in Sys
      /\ t.mem[a] \in {old[a], now[a]}
      /\ x \in Line /\ x.data = now[a] /\ ~x.dirty
      /\ x.st = StateFor(act) /\ x.outer = StateFor(act)
      /\ Rest(Fixed(g, i), t.mem[a], a, now[a])
      /\ \A k \in ICore : L1I(k) # i => g[L1I(k)] = s.at[a][L1I(k)]
  BY DEF Filled, Steady
<1>2. i \in Node
  BY Tops
<1> HIDE DEF g, x, h
<1>3. y \in Line /\ y.data = now[a] /\ y.st = StateFor(act) /\ y.outer = StateFor(act) /\ y.way = "normal" /\ y.lent = x.lent
  BY <1>1 DEF Line
<1>4. r = Put(t, i, a, y) /\ Fixed(g, i) = [g EXCEPT ![i] = y]
  BY DEF x, g, Fixed
<1> HIDE DEF y
<1>5. Only(t, r, a, {i}) /\ h[i] = y /\ r.mem = t.mem
  <2>1. t \in Sys /\ y \in Line /\ r = Put(t, i, a, y)
    BY <1>1, <1>3, <1>4
  <2> QED BY <1>2, <2>1, OnlyAssign DEF h
<1>6. h = Fixed(g, i)
  BY <1>1, <1>2, <1>4 DEF Put, Sys, Lines, h, g
<1>7. Steady(r, old, now, Addr)
  <2>1. Steady(r, old, now, (Addr \ {a}) \ {a})
    BY <1>1, <1>5, OnlySteady
  <2>2. Settled(r, old, now, a)
    BY <1>1, <1>5, <1>6 DEF Settled, h
  <2>3. \A b \in Addr : b = a \/ b \in (Addr \ {a}) \ {a}
    OBVIOUS
  <2> QED BY <2>1, <2>2, <2>3 DEF Steady
<1>8. Calm(r)
  <2>1. ~x.lent
    BY <1>1, <1>2 DEF Calm, x, g
  <2> QED BY <1>1, <1>3, <1>5, <2>1 DEF Calm, Only, h
<1>9. \A k \in ICore : L1I(k) # i => h[L1I(k)] = g[L1I(k)]
  <2>1. \A k \in ICore : L1I(k) \in Node
    BY Nodes
  <2> QED BY <1>5, <2>1 DEF Only, h, g
<1>10. IsValid(y) /\ (act = "fetch_write" => y.st = "M" /\ y.outer = "M")
  BY <1>3 DEF IsValid, StateFor
<1>11. \A k \in ICore : L1I(k) # i => h[L1I(k)] = s.at[a][L1I(k)]
  BY <1>1, <1>9
<1> QED BY <1>3, <1>5, <1>7, <1>8, <1>10, <1>11 DEF Accessed, h

LEMMA TopAccess ==
  ASSUME NEW s, NEW a \in Addr, NEW c \in Core, NEW i \in Top(c), NEW old, NEW now \in [Addr -> Val],
         NEW act \in {"fetch_read", "fetch_write"},
         Steady(s, old, now, Addr), Calm(s), i # L1D(c) => act = "fetch_read" /\ a \in Inst,
         NEW t \in InclusiveAccess(AtL2, s, i, a, Acquire(act), NoId)
  PROVE  Accessed(s, t, a, i, act, old, now)
<1> DEFINE f == s.at[a]
           u == f[i]
           v == now[a]
           cmd == Acquire(act)
<1>1. /\ i \in Node /\ IsL1(i) /\ Outer(i) = L2(c) /\ s \in Sys /\ s.ok /\ Rest(f, s.mem[a], a, v) /\ u \in Line
      /\ i = L1D(c) \/ (i = L1I(c) /\ c \in ICore /\ i # L1D(c) /\ Id(i) = NoId)
      /\ Id(i) = 0 <=> i = L1D(c)
      /\ Id(i) = NoId <=> i # L1D(c)
      /\ Id(i) \in {0, NoId} /\ 0 # NoId
  BY Nodes, Tops DEF Steady, Settled, Sys, Lines, NoId
<1>2. UpperOK(f[L1D(c)], v) /\ (i # L1D(c) => InstOK(u, a, v))
  BY <1>1 DEF Rest, AboveOK, CoreOK
<1>3. cmd.act = act /\ CmdForOuterAcquire(cmd) = act /\ (IsWrite(cmd) <=> act = "fetch_write")
  BY DEF Acquire, CmdForOuterAcquire, IsWrite
<1> HIDE DEF f, u, v, cmd
<1>4. CASE IsValid(u)
  <2>1. t \in Promote(AtL2, s, i, a, cmd)
    BY <1>1, <1>4 DEF InclusiveAccess, u, f, cmd
  <2>2. ~Gone(u)
    BY <1>4, GoneFacts
  <2>3. u.way = "normal" /\ u.data = v /\ (i = L1D(c) /\ AllowWrite(u) => u.st = "M" /\ u.outer = "M")
    BY <1>1, <1>2, <2>2 DEF UpperOK, InstOK, AllowWrite, u
  <2>4. CASE NeedPromote(cmd, u)
    <3>1. act = "fetch_write" /\ ~AllowWrite(u) /\ i = L1D(c) /\ Id(i) = 0
      BY <1>1, <1>3, <2>4 DEF NeedPromote
    <3>2. t \in AcquireReq(AtL2, s, i, a, act)
      BY <2>1, <2>4, <3>1 DEF Promote, u, f
    <3>3. MidCall(s, a, c, act, Id(i), old, now)
      BY <3>1 DEF MidCall, u, f
    <3>4. Filled(s, t, a, i, act, old, now)
      BY <1>1, <3>1, <3>2, <3>3, GrantMid
    <3>5. t.at[a][i].way = "normal" /\ t.at[a][i] \in Line /\ t \in Sys
      BY <2>3, <3>4 DEF Filled, Steady, u, f
    <3>6. t = Put(t, i, a, [t.at[a][i] EXCEPT !.way = "normal"])
      <4> DEFINE x == t.at[a][i]
      <4>1. [x EXCEPT !.way = "normal"] = x
        BY <3>5 DEF Line
      <4>2. t = [t EXCEPT !.at[a][i] = t.at[a][i]]
        BY <1>1, <3>5 DEF Sys, Lines
      <4> QED BY <4>1, <4>2 DEF Put
    <3> QED BY <3>4, <3>6, FilledAccess
  <2>5. CASE ~NeedPromote(cmd, u)
    <3>1. act = "fetch_write" => AllowWrite(u) /\ i = L1D(c)
      BY <1>3, <2>5 DEF NeedPromote
    <3>2. ~NeedPromoteLocal(cmd, u)
      BY <1>3, <2>3, <3>1 DEF NeedPromoteLocal, IsModified
    <3>3. t = s
      BY <2>1, <2>5, <3>2 DEF Promote, u, f
    <3> QED BY <1>1, <1>4, <2>3, <3>1, <3>3 DEF Accessed, u, f, v
  <2> QED BY <2>4, <2>5
<1>5. CASE ~IsValid(u)
  <2>1. t \in Fetch(AtL2, s, i, a, cmd)
    BY <1>1, <1>5 DEF InclusiveAccess, u, f, cmd
  <2>2. PICK r \in MakeRoom(AtL2, s, i, a, "normal"), t1 \in UNION {AcquireReq(AtL2, q, i, a, CmdForOuterAcquire(cmd)) : q \in MakeRoom(AtL2, s, i, a, "normal")} :
          t1 \in AcquireReq(AtL2, r, i, a, CmdForOuterAcquire(cmd)) /\ t = Put(t1, i, a, [t1.at[a][i] EXCEPT !.way = "normal"])
    BY <2>1 DEF Fetch
  <2>3. t1 \in AcquireReq(AtL2, r, i, a, act)
    BY <1>3, <2>2
  <2>4. RoomAtTop(s, r, a, old, now)
    BY TopMakeRoom
  <2>5. Steady(r, old, now, Addr) /\ Calm(r) /\ SameTops(f, r.at[a])
    BY <2>4 DEF RoomAtTop, f
  <2>6. i = L1D(c) => ~AllowWrite(r.at[a][L1D(c)])
    <3> HAVE i = L1D(c)
    <3>1. r.at[a][L1D(c)] = u
      BY <2>5 DEF SameTops, u
    <3>2. UpperOK(u, v)
      BY <1>2 DEF u
    <3>3. Gone(u)
      BY <1>5, <3>2 DEF UpperOK, IsValid
    <3> QED BY <3>1, <3>3, GoneFacts
  <2>7. MidCall(r, a, c, act, Id(i), old, now)
    BY <1>1, <2>5, <2>6 DEF MidCall
  <2>8. Filled(r, t1, a, i, act, old, now)
    BY <1>1, <2>3, <2>7, GrantMid
  <2>9. Accessed(r, t, a, i, act, old, now)
    BY <2>2, <2>8, FilledAccess
  <2>10. \A k \in ICore : r.at[a][L1I(k)] = s.at[a][L1I(k)]
    BY <2>5 DEF SameTops, f
  <2> QED BY <2>9, <2>10 DEF Accessed
<1> QED BY <1>4, <1>5

----------------------------------------------------------------------------
(* A flush: nobody has the block, and the memory has its content.          *)
Flushed(t, a, old, now) ==
  Steady(t, old, now, Addr) /\ Calm(t) /\ t.mem[a] = now[a]

LEMMA FlushLast ==
  ASSUME NEW s, NEW a \in Addr, NEW old, NEW now \in [Addr -> Val], Steady(s, old, now, Addr), Calm(s),
         NEW t \in FlushLine(s, a)
  PROVE  Flushed(t, a, old, now)
<1> DEFINE f == s.at[a]
           l == f[L3]
           v == now[a]
           w == s.mem[a]
           buffered == ~(Normal(l) \/ ~Exclusive(L3))
           r == ProbeReq(IF buffered THEN Borrow(s, L3, a) ELSE s, L3, a, "evict", NoId).s
           g == r.at[a]
<1>1. /\ L3 \in Node /\ s \in Sys /\ s.ok /\ v \in Val /\ Rest(f, w, a, v) /\ \A k \in Node : Lendable(s, k)
      /\ (Exclusive(L3) <=> LastExclusive) /\ (Directory(L3) <=> LastDirectory) /\ f \in Lines
  BY Nodes, Programs, QuietFacts DEF Steady, Settled, Sys
<1>2. AskedToEvict(s, r, a, w, v)
  <2>1. buffered \in BOOLEAN
    OBVIOUS
  <2> HIDE DEF buffered, v, w
  <2> QED BY <1>1, <2>1, AskToEvict DEF f
<1>3. IF ~IsValid(l) /\ (~Exclusive(L3) \/ Directory(L3)) THEN t = s
      ELSE \E x \in Writeback(AtMemory, r, L3, a, "evict", FALSE) : t = Put(x, L3, a, NoLine)
  <2> DEFINE asked == ProbeReq(IF Normal(l) \/ ~Exclusive(L3) THEN s ELSE Borrow(s, L3, a), L3, a, "evict", NoId).s
  <2>1. asked = r
    <3>1. (IF Normal(l) \/ ~Exclusive(L3) THEN s ELSE Borrow(s, L3, a)) = (IF buffered THEN Borrow(s, L3, a) ELSE s)
      OBVIOUS
    <3> QED BY <3>1
  <2> HIDE DEF r
  <2>2. t \in (IF ~IsValid(l) /\ (~Exclusive(L3) \/ Directory(L3)) THEN {s}
               ELSE {Put(x, L3, a, NoLine) : x \in Writeback(AtMemory, asked, L3, a, "evict", FALSE)})
    BY DEF FlushLine
  <2> HIDE DEF asked
  <2> QED BY <2>1, <2>2
<1> HIDE DEF f, l, v, w, buffered, r, g
<1>4. CASE ~IsValid(l) /\ (~Exclusive(L3) \/ Directory(L3))
  <2>1. AboveOK(f, a, v) /\ LastOK(l, w, v, Holders(f), Writers(f), Dirties(f))
    BY <1>1 DEF Rest, l
  <2>2. Holders(f) = {}
    BY <1>1, <1>4, <2>1 DEF LastOK
  <2>3. Dirties(f) = {}
    BY <2>1, <2>2, HolderFacts
  <2>4. ~Normal(l)
    BY <1>4 DEF Normal
  <2>5. w = v
    BY <2>1, <2>3, <2>4 DEF LastOK
  <2> QED BY <1>3, <1>4, <2>5 DEF Flushed, v, w
<1>5. CASE ~(~IsValid(l) /\ (~Exclusive(L3) \/ Directory(L3)))
  <2>1. PICK x \in Writeback(AtMemory, r, L3, a, "evict", FALSE) : t = Put(x, L3, a, NoLine)
    BY <1>3, <1>5
  <2>2. /\ OnlyAt(s, r, a)
        /\ AboveOK(g, a, v) /\ Holders(g) = {} /\ Writers(g) = {} /\ Dirties(g) = {}
        /\ \A k \in Node \ {L3} : g[k].lent => f[k].lent
        /\ g[L3] \in Line
        /\ g[L3].dirty => g[L3].data = v
        /\ ~g[L3].dirty => w = v
    BY <1>2 DEF AskedToEvict, f, g
  <2>3. r \in Sys /\ r.ok = s.ok /\ r.mem = s.mem /\ Only(s, r, a, Node)
    BY <2>2 DEF OnlyAt, Only
  <2>4. /\ Only(r, x, a, {L3})
        /\ x.mem[a] = IF g[L3].dirty THEN g[L3].data ELSE w
    <3>1. r.at[a][L3].dirty => r.at[a][L3].data \in Val
      BY <1>1, <2>2 DEF g
    <3>2. /\ Only(r, x, a, {L3})
          /\ x.mem[a] = IF r.at[a][L3].dirty THEN r.at[a][L3].data ELSE r.mem[a]
      BY <2>1, <2>3, <3>1, LastWriteback
    <3> QED BY <2>3, <3>2 DEF g, w
  <2>5. Only(x, t, a, {L3}) /\ t.at[a][L3] = NoLine /\ t.mem = x.mem
    <3>1. x \in Sys
      BY <2>4 DEF Only
    <3> QED BY <1>1, <2>1, <3>1, OnlyPut, NoLineType
  <2>6. t.mem[a] = v
    BY <2>2, <2>4, <2>5
  <2>7. Only(r, t, a, {L3})
    BY <2>4, <2>5, OnlyTrans
  <2>8. Only(s, t, a, Node)
    BY <1>1, <2>3, <2>7, OnlyTrans
  <2> DEFINE h == t.at[a]
  <2>9. h \in Lines /\ SameAbove(g, h)
    BY <2>7, <2>8 DEF Only, Sys, SameAbove, g
  <2> HIDE DEF h
  <2>10. AboveOK(h, a, v) /\ Holders(h) = {} /\ Writers(h) = {} /\ Dirties(h) = {}
    BY <2>2, <2>9, SameAboveFacts
  <2>11. Settled(t, old, now, a)
    <3>1. h[L3] = NoLine
      BY <2>5 DEF h
    <3>2. LastOK(h[L3], v, v, {}, {}, {})
      BY <3>1, NoneOK
    <3> QED BY <2>6, <2>10, <3>2 DEF Settled, Rest, h, v
  <2>12. Steady(t, old, now, Addr)
    <3>1. Steady(t, old, now, Addr \ {a})
      BY <2>8, OnlySteady
    <3>2. \A b \in Addr : b = a \/ b \in Addr \ {a}
      OBVIOUS
    <3> QED BY <2>11, <3>1, <3>2 DEF Steady
  <2>13. Calm(t)
    <3>1. \A k \in Node \ {L3} : ~h[k].lent
      BY <2>2, <2>9 DEF SameAbove, Calm, f
    <3>2. ~h[L3].lent
      BY <2>5, NoLineType DEF h
    <3> QED BY <2>8, <3>1, <3>2 DEF Only, Calm, h
  <2> QED BY <2>6, <2>12, <2>13 DEF Flushed, v
<1> QED BY <1>4, <1>5

----------------------------------------------------------------------------
(* The contents as a program sees them.                                    *)
Store(s) == [a \in Addr |-> Latest(s, a)]

LEMMA Names ==
  \A n \in Node : /\ n[1] = "l1d" => \E c \in Core : n = L1D(c)
                  /\ n[1] = "l2" => \E c \in Core : n = L2(c)
<1>1. \A n \in Instr : n[1] = "l1i"
  BY DEF Instr, L1I
<1>2. \A n \in Data : n[1] = "l1d" /\ \E c \in Core : n = L1D(c)
  BY DEF Data, L1D
<1>3. \A n \in Middle : n[1] = "l2" /\ \E c \in Core : n = L2(c)
  BY DEF Middle, L2
<1>4. L3[1] = "l3"
  BY DEF L3
<1> QED BY <1>1, <1>2, <1>3, <1>4 DEF Node

LEMMA LatestIs ==
  ASSUME NEW s, NEW a \in Addr, NEW v, Rest(s.at[a], s.mem[a], a, v)
  PROVE  Latest(s, a) = v
<1> DEFINE f == s.at[a]
           dirty(level) == {n \in Node : n[1] = level /\ IsDirty(f[n])}
           of(S) == f[CHOOSE n \in S : TRUE].data
           l == f[L3]
           top == dirty("l1d")
           mid == dirty("l2")
<1>1. /\ \A c \in Core : CoreOK(f[L1D(c)], f[L2(c)], v)
      /\ LastOK(l, s.mem[a], v, Holders(f), Writers(f), Dirties(f))
  BY DEF Rest, AboveOK
<1>2. Latest(s, a) = IF top # {} THEN of(top) ELSE IF mid # {} THEN of(mid) ELSE IF Normal(l) THEN l.data ELSE s.mem[a]
  BY DEF Latest
<1> HIDE DEF f, l
<1>3. \A n \in top : f[n].data = v
  <2> TAKE n \in top
  <2>1. PICK c \in Core : n = L1D(c)
    BY Names
  <2>2. f[n].dirty /\ UpperOK(f[n], v)
    BY <1>1, <2>1 DEF IsDirty, CoreOK
  <2>3. ~Gone(f[n])
    BY <2>2, GoneFacts
  <2> QED BY <2>2, <2>3 DEF UpperOK
<1>4. top = {} => \A n \in mid : f[n].data = v
  <2> HAVE top = {}
  <2> TAKE n \in mid
  <2>1. PICK c \in Core : n = L2(c)
    BY Names
  <2>2. ~f[L1D(c)].dirty
    <3>1. L1D(c) \in Node /\ L1D(c)[1] = "l1d"
      BY Nodes
    <3> QED BY <3>1 DEF IsDirty
  <2>3. f[n].dirty /\ CoreOK(f[L1D(c)], f[n], v)
    BY <1>1, <2>1 DEF IsDirty
  <2>4. ~Gone(f[n])
    BY <2>3, GoneFacts
  <2> QED BY <2>2, <2>3, <2>4 DEF CoreOK, MidLine
<1>5. top = {} /\ mid = {} => Dirties(f) = {}
  <2> HAVE top = {} /\ mid = {}
  <2>1. \A c \in Core : ~f[L1D(c)].dirty /\ ~f[L2(c)].dirty
    <3> TAKE c \in Core
    <3>1. L1D(c) \in Node /\ L1D(c)[1] = "l1d" /\ L2(c) \in Node /\ L2(c)[1] = "l2"
      BY Nodes
    <3> QED BY <3>1 DEF IsDirty
  <2> QED BY <2>1 DEF Dirties, Dirty
<1>6. top = {} /\ mid = {} => (IF Normal(l) THEN l.data ELSE s.mem[a]) = v
  BY <1>1, <1>5 DEF LastOK
<1> HIDE DEF top, mid
<1>7. top # {} => of(top) = v
  BY <1>3
<1>8. top = {} /\ mid # {} => of(mid) = v
  BY <1>4
<1> QED BY <1>2, <1>6, <1>7, <1>8

(* The lines of every block agree, on the content that a program sees, and *)
(* no copy buffer is lent.                                                 *)
Agree(s) == Store(s) \in [Addr -> Val] /\ Steady(s, s.mem, Store(s), Addr) /\ Calm(s)

(* A call: the caches agree again, and the memory has received nothing but *)
(* current contents.                                                       *)
Served(s, t, now) ==
  /\ Agree(t) /\ Store(t) = now
  /\ \A b \in Addr : t.mem[b] \in {s.mem[b], Store(s)[b]}

LEMMA Agreed ==
  ASSUME NEW t, NEW old, NEW now \in [Addr -> Val], Steady(t, old, now, Addr), Calm(t)
  PROVE  Agree(t) /\ Store(t) = now /\ \A b \in Addr : t.mem[b] \in {old[b], now[b]}
<1>1. \A b \in Addr : Settled(t, old, now, b)
  BY DEF Steady
<1>2. Store(t) = now
  <2>1. \A b \in Addr : Latest(t, b) = now[b]
    BY <1>1, LatestIs DEF Settled
  <2> QED BY <2>1 DEF Store
<1>3. \A b \in Addr : Settled(t, t.mem, now, b)
  BY <1>1 DEF Settled
<1> QED BY <1>1, <1>2, <1>3 DEF Agree, Steady, Settled

----------------------------------------------------------------------------
(* The calls.                                                              *)
LEMMA Ports ==
  ASSUME NEW p \in Data \cup Instr
  PROVE  \E c \in Core : p \in Top(c) /\ (p \in Data => p = L1D(c)) /\ (p \in Instr => p # L1D(c))
<1>1. CASE p \in Data
  <2>1. PICK c \in Core : p = L1D(c)
    BY <1>1 DEF Data
  <2>2. p \notin Instr
    BY <2>1, Nodes
  <2> QED BY <2>1, <2>2 DEF Top
<1>2. CASE p \in Instr
  <2>1. PICK c \in ICore : p = L1I(c)
    BY <1>2 DEF Instr
  <2>2. c \in Core /\ p \notin Data /\ p # L1D(c)
    BY <2>1, Nodes
  <2> QED BY <1>2, <2>1, <2>2 DEF Top
<1> QED BY <1>1, <1>2

LEMMA ReadServes ==
  ASSUME NEW s, Agree(s), NEW p \in Data \cup Instr, NEW a \in Addr, p \in Instr => a \in Inst,
         NEW t \in InclusiveAccess(AtL2, s, p, a, Acquire("fetch_read"), NoId)
  PROVE  Served(s, t, Store(s)) /\ t.at[a][p].data = Store(s)[a]
<1> DEFINE now == Store(s)
           old == s.mem
           act == "fetch_read"
<1>1. Steady(s, old, now, Addr) /\ Calm(s) /\ now \in [Addr -> Val]
  BY DEF Agree
<1>2. PICK c \in Core : p \in Top(c) /\ (p \in Data => p = L1D(c))
  BY Ports
<1>3. act \in {"fetch_read", "fetch_write"} /\ (p # L1D(c) => act = "fetch_read" /\ a \in Inst)
  BY <1>2
<1>4. t \in InclusiveAccess(AtL2, s, p, a, Acquire(act), NoId)
  OBVIOUS
<1> HIDE DEF now, old, act
<1>5. Accessed(s, t, a, p, act, old, now)
  BY <1>1, <1>2, <1>3, <1>4, TopAccess
<1>6. Steady(t, old, now, Addr) /\ Calm(t) /\ t.at[a][p].data = now[a]
  BY <1>5 DEF Accessed
<1>7. Agree(t) /\ Store(t) = now /\ \A b \in Addr : t.mem[b] \in {old[b], now[b]}
  BY <1>1, <1>6, Agreed
<1> QED BY <1>6, <1>7 DEF Served, now, old

(* The driver flushes the L1Is.                                            *)
InstGone(s, a) == \A k \in ICore : Gone(s.at[a][L1I(k)])

LEMMA InstFlushes ==
  ASSUME Agree(sys), NEW a \in Addr
  PROVE  /\ Steady(InstFlushed(a), sys.mem, Store(sys), Addr) /\ Calm(InstFlushed(a))
         /\ InstGone(InstFlushed(a), a)
<1> DEFINE f == sys.at[a]
           g == [n \in Node |-> IF n \in Instr THEN NoLine ELSE f[n]]
           t == InstFlushed(a)
           now == Store(sys)
           v == now[a]
           w == sys.mem[a]
<1>1. sys \in Sys /\ sys.ok /\ Steady(sys, sys.mem, now, Addr) /\ Calm(sys) /\ Rest(f, w, a, v) /\ f \in Lines
  BY DEF Agree, Steady, Settled, Sys
<1> HIDE DEF now, v, w, f
<1>2. CASE a \in Inst
  <2>1. t = Update(sys, a, g)
    BY <1>2 DEF InstFlushed, Update, f
  <2>2. g \in Lines /\ \A n \in Node : g[n] = IF n \in Instr THEN NoLine ELSE f[n]
    <3> DEFINE z == NoLine
    <3>1. z \in Line
      BY NoLineType
    <3> HIDE DEF z
    <3>2. [n \in Node |-> IF n \in Instr THEN z ELSE f[n]] \in Lines
      BY <1>1, <3>1 DEF Lines
    <3> QED BY <3>2 DEF z
  <2> HIDE DEF g, t
  <2>3. OnlyAt(sys, t, a) /\ t.at[a] = g
    BY <1>1, <2>1, <2>2, UpdateFacts
  <2>4. \A c \in Core : g[L1D(c)] = f[L1D(c)] /\ g[L2(c)] = f[L2(c)]
    BY <2>2, Nodes
  <2>5. g[L3] = f[L3] /\ \A k \in ICore : g[L1I(k)] = NoLine
    BY <2>2, Nodes
  <2>6. \A c \in Core : (Held(g, c) <=> Held(f, c)) /\ (Writer(g, c) <=> Writer(f, c)) /\ (Dirty(g, c) <=> Dirty(f, c))
    BY <2>4 DEF Held, Writer, Dirty
  <2>7. Holders(g) = Holders(f) /\ Writers(g) = Writers(f) /\ Dirties(g) = Dirties(f)
    BY <2>6 DEF Holders, Writers, Dirties
  <2>8. \A k \in ICore : InstOK(g[L1I(k)], a, v)
    BY <2>5, NoLineType DEF InstOK
  <2>9. AboveOK(g, a, v)
    BY <1>1, <2>2, <2>4, <2>6, <2>8 DEF Rest, AboveOK
  <2>10. Rest(g, w, a, v)
    BY <1>1, <2>5, <2>7, <2>9 DEF Rest
  <2>11. Only(sys, t, a, Node)
    BY <2>3 DEF OnlyAt, Only
  <2>12. Steady(t, sys.mem, now, Addr)
    <3> DEFINE old == sys.mem
    <3>0. Steady(sys, old, now, Addr)
      BY <1>1
    <3> HIDE DEF old
    <3>1. Steady(t, old, now, Addr \ {a})
      BY <2>11, <3>0, OnlySteady
    <3>2. t.mem = sys.mem
      BY <2>3 DEF OnlyAt
    <3>3. Settled(t, old, now, a)
      BY <2>3, <2>10, <3>2 DEF Settled, w, v, old
    <3>4. \A b \in Addr : b = a \/ b \in Addr \ {a}
      OBVIOUS
    <3> QED BY <3>1, <3>3, <3>4 DEF Steady, old
  <2>13. Calm(t)
    <3>1. \A n \in Node : ~f[n].lent
      BY <1>1 DEF Calm, f
    <3>2. \A n \in Node : ~g[n].lent
      BY <2>2, <3>1, NoLineType
    <3> QED BY <1>1, <2>3, <3>2 DEF Calm, OnlyAt
  <2>14. InstGone(t, a)
    BY <2>3, <2>5, NoLineType DEF InstGone
  <2> QED BY <2>12, <2>13, <2>14 DEF t, now
<1>3. CASE a \notin Inst
  <2>1. t = sys
    BY <1>3 DEF InstFlushed
  <2>2. InstGone(sys, a)
    BY <1>1, <1>3 DEF Rest, AboveOK, InstOK, InstGone, f
  <2> QED BY <1>1, <2>1, <2>2 DEF now
<1> QED BY <1>2, <1>3

(* The line that a write leaves in the L1D.                                *)
WrittenLine(x, v) == ToDirty([x EXCEPT !.data = v])

LEMMA WriteRest ==
  ASSUME NEW f, NEW w, NEW a, NEW o, NEW v \in Val, NEW c \in Core, Rest(f, w, a, o),
         \A k \in ICore : Gone(f[L1I(k)]),
         IsValid(f[L1D(c)]), f[L1D(c)].way = "normal", f[L1D(c)].st = "M", f[L1D(c)].outer = "M",
         NEW g \in Lines, g[L1D(c)] = WrittenLine(f[L1D(c)], v), \A k \in Node \ {L1D(c)} : g[k] = f[k]
  PROVE  Rest(g, w, a, v)
<1> DEFINE x == f[L1D(c)]
           y == g[L1D(c)]
           m == f[L2(c)]
<1>1. /\ f \in Lines /\ L1D(c) \in Node /\ L2(c) \in Node \ {L1D(c)} /\ L3 \in Node \ {L1D(c)} /\ x \in Line
      /\ \A d \in Core : d # c => L1D(d) \in Node \ {L1D(c)} /\ L2(d) \in Node \ {L1D(c)}
      /\ \A k \in ICore : L1I(k) \in Node \ {L1D(c)}
  BY Nodes DEF Rest, AboveOK, Lines
<1>2. /\ x.way = "normal" /\ x.st = "M" /\ x.outer = "M" /\ y = WrittenLine(x, v)
  OBVIOUS
<1>3. Held(f, c) /\ Writer(f, c)
  BY DEF Held, Writer, AllowWrite
<1>4. /\ Around(f, a, c, o) /\ CoreOK(x, m, o) /\ Clear(f, c)
      /\ LastOK(f[L3], w, o, With(f, c), {c}, Dirties(f))
  <2>1. /\ Around(f, a, c, o) /\ CoreOK(f[L1D(c)], f[L2(c)], o)
        /\ Writer(f, c) => Clear(f, c)
        /\ LastOK(f[L3], w, o, With(f, c), Writers(f), Dirties(f))
        /\ Writers(f) = (IF Writer(f, c) THEN {c} ELSE {})
    BY <1>3, RestAround
  <2>2. Writers(f) = {c}
    BY <1>3, <2>1
  <2> QED BY <1>3, <2>1, <2>2
<1> HIDE DEF x, y, m
<1>5. y.way = "normal" /\ y.st = "M" /\ y.outer = "M" /\ y.data = v /\ y.dirty = TRUE
  BY <1>1, <1>2 DEF WrittenLine, ToDirty, Line
<1>6. ~Gone(x) /\ IsValid(x) /\ IsValid(y) /\ AllowWrite(y)
  BY <1>2, <1>5, GoneFacts DEF IsValid, AllowWrite
<1>7. CoreOK(y, m, v)
  <2>1. UpperOK(y, v) /\ y.dirty
    BY <1>5 DEF UpperOK
  <2>2. Gone(m) \/ MidLine(y, m, v)
    BY <1>4, <2>1 DEF CoreOK, MidLine
  <2>3. MidExclusive => ~IsValid(m)
    BY <1>4, <1>6 DEF CoreOK
  <2>4. ~MidExclusive => /\ m.st = "M" => AllowWrite(m)
                         /\ m.st # "E"
                         /\ IsValid(m)
                         /\ m.st = "M"
    BY <1>2, <1>4, <1>6 DEF CoreOK
  <2> QED BY <2>1, <2>2, <2>3, <2>4 DEF CoreOK
<1>8. g[L3] = f[L3] /\ g[L2(c)] = m /\ \A d \in Core : d # c => g[L1D(d)] = f[L1D(d)] /\ g[L2(d)] = f[L2(d)]
  BY <1>1 DEF m
<1>9. Around(g, a, c, v)
  <2>1. ASSUME NEW d \in Core, d # c PROVE CoreOK(g[L1D(d)], g[L2(d)], v) /\ ~Writer(g, d)
    <3> DEFINE p == f[L1D(d)]
               q == f[L2(d)]
    <3>1. CoreOK(p, q, o) /\ ~IsValid(p) /\ ~IsValid(q) /\ ~Writer(f, d)
      BY <1>4, <2>1 DEF Around, Clear, Held
    <3>2. (Writer(g, d) <=> Writer(f, d)) /\ g[L1D(d)] = p /\ g[L2(d)] = q
      BY <1>8, <2>1 DEF Writer
    <3> HIDE DEF p, q
    <3>3. Gone(p) /\ Gone(q)
      BY <3>1 DEF CoreOK, UpperOK, MidLine, Normal, IsValid
    <3>4. CoreOK(p, q, v)
      BY <3>1, <3>3 DEF CoreOK, UpperOK
    <3> QED BY <3>1, <3>2, <3>4
  <2>2. \A k \in ICore : InstOK(g[L1I(k)], a, v)
    BY <1>1 DEF InstOK
  <2> QED BY <2>1, <2>2 DEF Around
<1>10. Clear(g, c)
  BY <1>4, <1>8 DEF Clear, Held
<1>11. With(g, c) = With(f, c)
  BY <1>4, <1>10 DEF With, Holders, Clear
<1>12. LastOK(g[L3], w, v, With(g, c), {c}, {c})
  BY <1>4, <1>8, <1>11 DEF LastOK
<1>13. c \in Dirties(g)
  BY <1>5 DEF Dirties, Dirty, y
<1>14. CoreOK(g[L1D(c)], g[L2(c)], v) /\ Holders(g) \subseteq With(g, c) /\ {c} \subseteq Dirties(g)
  BY <1>7, <1>8, <1>13 DEF With, y
<1> QED BY <1>9, <1>10, <1>12, <1>14, AroundRest

Overwritten(s, a, v) == [Store(s) EXCEPT ![a] = v]

LEMMA WriteServes ==
  ASSUME Agree(sys), NEW p \in Data, NEW a \in Addr, NEW v \in Val,
         NEW r \in InclusiveAccess(AtL2, InstFlushed(a), p, a, Acquire("fetch_write"), NoId),
         NEW t, t = Put(r, p, a, ToDirty([r.at[a][p] EXCEPT !.data = v]))
  PROVE  Served(sys, t, Overwritten(sys, a, v))
<1> DEFINE s == InstFlushed(a)
           now == Store(sys)
           old == sys.mem
           act == "fetch_write"
           x == r.at[a][p]
           y == WrittenLine(x, v)
           next == Overwritten(sys, a, v)
<1>1. Steady(s, old, now, Addr) /\ Calm(s) /\ now \in [Addr -> Val] /\ InstGone(s, a)
  BY InstFlushes DEF Agree
<1>2. PICK c \in Core : p \in Top(c) /\ p = L1D(c)
  BY Ports
<1>3. act \in {"fetch_read", "fetch_write"} /\ (p # L1D(c) => act = "fetch_read" /\ a \in Inst)
  BY <1>2
<1>4. r \in InclusiveAccess(AtL2, s, p, a, Acquire(act), NoId) /\ t = Put(r, p, a, y)
  BY DEF WrittenLine
<1>5. next \in [Addr -> Val] /\ next[a] = v /\ \A b \in Addr : b # a => next[b] = now[b]
  BY <1>1 DEF Overwritten
<1>6. p \in Node /\ \A k \in ICore : L1I(k) \in Node /\ L1I(k) # p
  BY <1>2, Nodes
<1> HIDE DEF s, now, old, act, next, y, x
<1>7. Accessed(s, r, a, p, act, old, now)
  BY <1>1, <1>2, <1>3, <1>4, TopAccess
<1>8. /\ Steady(r, old, now, Addr) /\ Calm(r) /\ r \in Sys /\ r.ok
      /\ x \in Line /\ IsValid(x) /\ x.way = "normal" /\ x.st = "M" /\ x.outer = "M"
      /\ \A k \in ICore : r.at[a][L1I(k)] = s.at[a][L1I(k)]
  BY <1>6, <1>7 DEF Accessed, Steady, x, act
<1>9. Rest(r.at[a], r.mem[a], a, now[a]) /\ \A b \in Addr : r.mem[b] \in {old[b], now[b]}
  BY <1>8 DEF Steady, Settled
<1>10. y \in Line /\ y.lent = x.lent
  BY <1>8 DEF y, WrittenLine, ToDirty, Line
<1>11. Only(r, t, a, {p}) /\ t.at[a][p] = y /\ t.mem = r.mem
  <2>1. r \in Sys /\ p \in Node /\ y \in Line
    BY <1>6, <1>8, <1>10
  <2>2. Only(r, Put(r, p, a, y), a, {p}) /\ Put(r, p, a, y).at[a][p] = y /\ Put(r, p, a, y).mem = r.mem
    BY <2>1, OnlyPut
  <2>3. t = Put(r, p, a, y)
    BY <1>4
  <2> QED BY <2>2, <2>3
<1> DEFINE f == r.at[a]
           g == t.at[a]
           w == t.mem[a]
<1>12. Rest(g, w, a, v)
  <2>1. g \in Lines /\ \A k \in Node \ {L1D(c)} : g[k] = f[k]
    BY <1>2, <1>11 DEF Only, Sys
  <2>2. \A k \in ICore : Gone(f[L1I(k)])
    BY <1>1, <1>8 DEF InstGone
  <2>3. /\ IsValid(f[L1D(c)]) /\ f[L1D(c)].way = "normal" /\ f[L1D(c)].st = "M" /\ f[L1D(c)].outer = "M"
        /\ g[L1D(c)] = WrittenLine(f[L1D(c)], v)
    BY <1>2, <1>8, <1>11 DEF x, y
  <2> DEFINE o == now[a]
  <2>4. Rest(f, w, a, o)
    BY <1>9, <1>11
  <2> HIDE DEF f, g, w, o
  <2> QED BY <2>1, <2>2, <2>3, <2>4, WriteRest
<1> HIDE DEF f, g, w
<1>13. Steady(t, t.mem, next, Addr)
  <2>1. t \in Sys /\ t.ok /\ \A b \in Addr : b # a => t.at[b] = r.at[b] /\ t.mem[b] = r.mem[b]
    BY <1>8, <1>11 DEF Only
  <2>2. \A b \in Addr : Rest(r.at[b], r.mem[b], b, now[b])
    BY <1>8 DEF Steady, Settled
  <2>3. ASSUME NEW b \in Addr PROVE Rest(t.at[b], t.mem[b], b, next[b])
    <3>1. CASE b = a
      BY <1>5, <1>12, <3>1 DEF g, w
    <3>2. CASE b # a
      <4>1. t.at[b] = r.at[b] /\ t.mem[b] = r.mem[b] /\ next[b] = now[b]
        BY <1>5, <2>1, <3>2
      <4> QED BY <2>2, <4>1
    <3> QED BY <3>1, <3>2
  <2> QED BY <2>1, <2>3 DEF Steady, Settled
<1>14. Calm(t)
  <2>1. ~x.lent
    BY <1>6, <1>8 DEF Calm, x
  <2> QED BY <1>8, <1>10, <1>11, <2>1 DEF Calm, Only
<1> DEFINE w2 == t.mem
<1>15. Agree(t) /\ Store(t) = next
  <2>1. Steady(t, w2, next, Addr)
    BY <1>13
  <2> HIDE DEF w2
  <2> QED BY <1>5, <1>14, <2>1, Agreed
<1>16. \A b \in Addr : t.mem[b] \in {old[b], now[b]}
  BY <1>9, <1>11
<1> QED BY <1>15, <1>16 DEF Served, old, now, next

LEMMA FlushServes ==
  ASSUME NEW s, Agree(s), NEW a \in Addr, NEW t \in FlushLine(s, a)
  PROVE  Served(s, t, Store(s)) /\ t.mem[a] = Store(s)[a]
<1> DEFINE now == Store(s)
           old == s.mem
<1>1. Steady(s, old, now, Addr) /\ Calm(s) /\ now \in [Addr -> Val]
  BY DEF Agree
<1> HIDE DEF now, old
<1>2. Flushed(t, a, old, now)
  BY <1>1, FlushLast
<1>3. Steady(t, old, now, Addr) /\ Calm(t) /\ t.mem[a] = now[a]
  BY <1>2 DEF Flushed
<1>4. Agree(t) /\ Store(t) = now /\ \A b \in Addr : t.mem[b] \in {old[b], now[b]}
  BY <1>1, <1>3, Agreed
<1> QED BY <1>3, <1>4 DEF Served, now, old

LEMMA InstFlushServes ==
  ASSUME NEW s, Agree(s), NEW p \in Instr, NEW a \in Addr
  PROVE  Served(s, Put(s, p, a, NoLine), Store(s))
<1> DEFINE now == Store(s)
           old == s.mem
           none == NoLine
           t == Put(s, p, a, none)
           f == s.at[a]
           g == t.at[a]
           w == old[a]
           v == now[a]
<1>1. Steady(s, old, now, Addr) /\ Calm(s) /\ now \in [Addr -> Val]
  BY DEF Agree
<1>2. PICK c \in Core : p \in Top(c) /\ p # L1D(c)
  BY Ports
<1>3. s \in Sys /\ p \in Node /\ none \in Line /\ f \in Lines
  BY <1>1, <1>2, Tops, NoLineType DEF Steady, Sys
<1>4. Only(s, t, a, {p}) /\ t.at[a][p] = none /\ t.mem = old
  BY <1>3, OnlyPut
<1>5. Rest(f, w, a, v)
  BY <1>1 DEF Steady, Settled
<1> HIDE DEF t, now, old
<1>6. ~f[p].dirty
  <2>1. PICK k \in ICore : p = L1I(k)
    BY DEF Instr
  <2>2. InstOK(f[p], a, v)
    BY <1>5, <2>1 DEF Rest, AboveOK
  <2> QED BY <2>2, GoneFacts DEF InstOK
<1>7. g = Dropped(f, p)
  <2>1. g \in Lines /\ \A k \in Node : g[k] = IF k = p THEN none ELSE f[k]
    BY <1>4 DEF Only, Sys
  <2>2. Dropped(f, p) = [k \in Node |-> IF k = p THEN none ELSE f[k]]
    BY <1>3 DEF Dropped, Lines
  <2>3. g = [k \in Node |-> g[k]]
    BY <2>1 DEF Lines
  <2> HIDE DEF g
  <2> QED BY <2>1, <2>2, <2>3
<1>8. Rest(g, w, a, v)
  <2> HIDE DEF f, g, w, v
  <2>1. Rest(Dropped(f, p), w, a, v)
    BY <1>2, <1>5, <1>6, DropTop
  <2> QED BY <1>7, <2>1
<1>9. Steady(t, old, now, Addr)
  <2>1. Steady(t, old, now, Addr \ {a})
    BY <1>1, <1>4, OnlySteady
  <2>2. Settled(t, old, now, a)
    BY <1>4, <1>8 DEF Settled, g, w, v
  <2>3. \A b \in Addr : b = a \/ b \in Addr \ {a}
    OBVIOUS
  <2> QED BY <2>1, <2>2, <2>3 DEF Steady
<1>10. Calm(t)
  <2>1. none.lent = FALSE
    BY NoLineType DEF NoLine
  <2> QED BY <1>1, <1>4, <2>1 DEF Calm, Only
<1>11. Agree(t) /\ Store(t) = now /\ \A b \in Addr : t.mem[b] \in {old[b], now[b]}
  BY <1>1, <1>9, <1>10, Agreed
<1> QED BY <1>11 DEF Served, now, old, t

----------------------------------------------------------------------------
(* The specification.                                                      *)
IInv == Agree(sys)

LEMMA InitAgrees ==
  ASSUME Init
  PROVE  IInv /\ sys.mem \in [Addr -> Val] /\ Store(sys) = sys.mem
<1> DEFINE none == NoLine
           empty == [n \in Node |-> none]
<1>1. PICK content \in [Addr -> Val] : sys = [at |-> [a \in Addr |-> empty], mem |-> content, ok |-> TRUE]
  BY DEF Init
<1>2. none \in Line /\ Gone(none) /\ none.lent = FALSE
  BY NoLineType DEF NoLine
<1> HIDE DEF none
<1>3. empty \in Lines /\ \A n \in Node : empty[n] = none
  BY <1>2 DEF Lines
<1> HIDE DEF empty
<1>4. sys \in Sys /\ sys.ok /\ sys.mem = content /\ \A a \in Addr : sys.at[a] = empty
  BY <1>1, <1>3 DEF Sys
<1>5. ~IsValid(none) /\ ~AllowWrite(none) /\ none.dirty = FALSE /\ none.outer = "I" /\ none.st = "I"
  BY <1>2, GoneFacts
<1>6. ASSUME NEW a \in Addr PROVE Rest(empty, content[a], a, content[a])
  <2> DEFINE v == content[a]
  <2>0. v \in Val
    OBVIOUS
  <2> HIDE DEF v
  <2>1. \A c \in Core : empty[L1D(c)] = none /\ empty[L2(c)] = none
    BY <1>3, Nodes
  <2>2. \A c \in ICore : empty[L1I(c)] = none
    BY <1>3, Nodes
  <2>3. empty[L3] = none
    BY <1>3, Nodes
  <2>4. Holders(empty) = {} /\ Writers(empty) = {} /\ Dirties(empty) = {}
    BY <1>5, <2>1 DEF Holders, Writers, Dirties, Held, Writer, Dirty
  <2>5. CoreOK(none, none, v)
    BY <1>2, <1>5 DEF CoreOK, UpperOK
  <2>6. AboveOK(empty, a, v)
    BY <1>2, <1>3, <1>5, <2>1, <2>2, <2>5 DEF AboveOK, InstOK, Held
  <2>7. LastOK(none, v, v, {}, {}, {})
    BY NoneOK DEF none
  <2>8. Rest(empty, v, a, v)
    BY <2>3, <2>4, <2>6, <2>7 DEF Rest
  <2> QED BY <2>8 DEF v
<1>7. Steady(sys, content, content, Addr)
  BY <1>4, <1>6 DEF Steady, Settled
<1>8. Calm(sys)
  BY <1>2, <1>3, <1>4 DEF Calm
<1> QED BY <1>4, <1>7, <1>8, Agreed DEF IInv

(* The program is the same for ever.                                       *)
LEMMA SameProgram ==
  ASSUME conf' = conf
  PROVE  /\ Agree(sys') => IInv'
         /\ Store(sys)' = Store(sys')
         /\ \A n \in Node : Exclusive(n)' = Exclusive(n) /\ Directory(n)' = Directory(n)
<1>1. /\ MidExclusive' = MidExclusive /\ LastExclusive' = LastExclusive /\ LastDirectory' = LastDirectory
  BY DEF MidExclusive, LastExclusive, LastDirectory
<1>2. Store(sys)' = Store(sys')
  BY DEF Store
<1>3. Agree(sys') => IInv'
  BY <1>1, <1>2, ZenonT(60) DEF IInv, Agree, Steady, Settled, Rest, AboveOK, CoreOK, LastOK
<1>4. \A n \in Node : Exclusive(n)' = Exclusive(n) /\ Directory(n)' = Directory(n)
  BY DEF Exclusive, Directory
<1> QED BY <1>2, <1>3, <1>4

(* What the calls do.                                                      *)
LEMMA ReadStep ==
  ASSUME IInv, NEW p \in Data \cup Instr, NEW a \in Addr, Read(p, a)
  PROVE  Served(sys, sys', Store(sys)) /\ sys'.at[a][p].data = Store(sys)[a] /\ conf' = conf
<1>1. Agree(sys) /\ (p \in Instr => a \in Inst) /\ conf' = conf
  BY DEF IInv, Read, Running
<1>2. sys' \in InclusiveAccess(AtL2, sys, p, a, Acquire("fetch_read"), NoId)
  BY DEF Read
<1> QED BY <1>1, <1>2, ReadServes

LEMMA WriteStep ==
  ASSUME IInv, NEW p \in Data, NEW a \in Addr, NEW v \in Val, Write(p, a, v)
  PROVE  Served(sys, sys', Overwritten(sys, a, v)) /\ conf' = conf
<1>1. Agree(sys) /\ conf' = conf
  BY DEF IInv, Write, Running
<1>2. PICK t \in InclusiveAccess(AtL2, InstFlushed(a), p, a, Acquire("fetch_write"), NoId) :
        sys' = Put(t, p, a, ToDirty([t.at[a][p] EXCEPT !.data = v]))
  BY DEF Write
<1> QED BY <1>1, <1>2, WriteServes

LEMMA FlushStep ==
  ASSUME IInv, NEW p \in Data \cup Instr, NEW a \in Addr, Flush(p, a)
  PROVE  /\ Served(sys, sys', Store(sys)) /\ conf' = conf
         /\ p \in Data => sys'.mem[a] = Store(sys)[a]
<1>1. Agree(sys) /\ conf' = conf
  BY DEF IInv, Flush, Running
<1>2. sys' \in IF p \in Data THEN FlushLine(sys, a) ELSE {Put(sys, p, a, NoLine)}
  BY DEF Flush
<1>3. CASE p \in Data
  <2>1. sys' \in FlushLine(sys, a)
    BY <1>2, <1>3
  <2> QED BY <1>1, <2>1, FlushServes
<1>4. CASE p \notin Data
  <2>1. sys' = Put(sys, p, a, NoLine) /\ p \in Instr
    BY <1>2, <1>4
  <2>2. Served(sys, Put(sys, p, a, NoLine), Store(sys))
    BY <1>1, <2>1, InstFlushServes
  <2> QED BY <1>1, <1>4, <2>1, <2>2
<1> QED BY <1>3, <1>4

LEMMA NextAgrees ==
  ASSUME IInv, [Next]_vars
  PROVE  IInv'
<1>1. ASSUME NEW p \in Data \cup Instr, NEW a \in Addr, Read(p, a) PROVE IInv'
  BY <1>1, ReadStep, SameProgram DEF Served
<1>2. ASSUME NEW p \in Data, NEW a \in Addr, NEW v \in Val, Write(p, a, v) PROVE IInv'
  BY <1>2, WriteStep, SameProgram DEF Served
<1>3. ASSUME NEW p \in Data \cup Instr, NEW a \in Addr, Flush(p, a) PROVE IInv'
  BY <1>3, FlushStep, SameProgram DEF Served
<1>4. CASE UNCHANGED vars
  <2>1. conf' = conf /\ sys' = sys
    BY <1>4 DEF vars
  <2>2. Agree(sys')
    BY <2>1 DEF IInv
  <2> QED BY <2>1, <2>2, SameProgram
<1> QED BY <1>1, <1>2, <1>3, <1>4 DEF Next

(* The inductive invariant: between two calls every block agrees on one    *)
(* content at all levels, with one writer whose copies are the only ones,  *)
(* no assertion has failed, and all copy buffers are back.  It holds for   *)
(* all four programs and every number of cores, blocks, sets and ways, and *)
(* whatever the replacers choose.                                          *)
THEOREM AgreesAlways == Spec => []IInv
<1>1. Init => IInv
  BY InitAgrees
<1>2. IInv /\ [Next]_vars => IInv'
  BY NextAgrees
<1> QED BY <1>1, <1>2, PTL DEF Spec

LEMMA AgreeRest ==
  ASSUME IInv, NEW a \in Addr
  PROVE  /\ sys.ok /\ Rest(sys.at[a], sys.mem[a], a, Store(sys)[a])
         /\ \A n \in Node : ~sys.at[a][n].lent
BY DEF IInv, Agree, Steady, Settled, Calm

LEMMA HoldsIs ==
  ASSUME NEW a \in Addr, NEW c \in Core
  PROVE  /\ Holds(c, a) # {} <=> Held(sys.at[a], c)
         /\ (\E n \in Holds(c, a) : AllowWrite(sys.at[a][n])) => Writer(sys.at[a], c)
<1> DEFINE f == sys.at[a]
<1>1. L1D(c) \in Node /\ L2(c) \in Node
  BY Nodes
<1>2. Holds(c, a) = {n \in {L1D(c), L2(c)} : IsValid(f[n])}
  BY <1>1 DEF Holds
<1> QED BY <1>2 DEF Held, Writer

LEMMA AgreeSingleWriter == IInv => SingleWriter
<1> SUFFICES ASSUME IInv, NEW a \in Addr, NEW c \in Core, NEW d \in Core, c # d,
                    \E n \in Holds(c, a) : AllowWrite(sys.at[a][n])
             PROVE  Holds(d, a) = {}
  BY DEF SingleWriter
<1>1. Writer(sys.at[a], c)
  BY HoldsIs
<1>2. AboveOK(sys.at[a], a, Store(sys)[a])
  BY AgreeRest DEF Rest
<1>3. ~Held(sys.at[a], d)
  BY <1>1, <1>2 DEF AboveOK
<1> QED BY <1>3, HoldsIs

LEMMA AgreeLevels == IInv => LevelsAgree
<1> SUFFICES ASSUME IInv, NEW a \in Addr, NEW c \in Core
             PROVE  LET upper == sys.at[a][L1D(c)]
                        mid   == sys.at[a][L2(c)]
                        llc   == sys.at[a][L3]
                    IN  /\ IsValid(upper) => (IsValid(mid) <=> ~Exclusive(L2(c)))
                        /\ Holds(c, a) # {} =>
                             /\ Normal(llc) <=> ~Exclusive(L3)
                             /\ Directory(L3) => IsValid(llc) /\ c \in llc.sharer
  BY DEF LevelsAgree
<1> DEFINE f     == sys.at[a]
           upper == f[L1D(c)]
           mid   == f[L2(c)]
           llc   == f[L3]
           v     == Store(sys)[a]
           H     == Holders(f)
<1>1. Rest(f, sys.mem[a], a, v)
  BY AgreeRest
<1>2. CoreOK(upper, mid, v) /\ LastOK(llc, sys.mem[a], v, H, Writers(f), Dirties(f))
  BY <1>1 DEF Rest, AboveOK
<1>3. Holds(c, a) # {} => c \in H
  BY HoldsIs DEF Holders
<1> HIDE DEF f, upper, mid, llc, v, H
<1>4. IsValid(upper) => (IsValid(mid) <=> ~MidExclusive)
  <2>1. IsValid(upper) => ~Gone(upper)
    BY GoneFacts
  <2> QED BY <1>2, <2>1 DEF CoreOK
<1>5. IsValid(llc) => ~Gone(llc)
  BY GoneFacts
<1>6. Normal(llc) => IsValid(llc)
  BY DEF Normal
<1>7. c \in H => (Normal(llc) <=> ~LastExclusive)
  <2>1. CASE LastExclusive
    BY <1>2, <2>1 DEF LastOK
  <2>2. CASE ~LastExclusive
    BY <1>2, <1>5, <2>2 DEF LastOK
  <2> QED BY <2>1, <2>2
<1>8. c \in H /\ LastDirectory => IsValid(llc) /\ c \in llc.sharer
  BY <1>2 DEF LastOK
<1>9. IsValid(upper) => (IsValid(mid) <=> ~Exclusive(L2(c)))
  BY <1>4, Programs
<1>10. Holds(c, a) # {} => /\ Normal(llc) <=> ~Exclusive(L3)
                           /\ Directory(L3) => IsValid(llc) /\ c \in llc.sharer
  BY <1>3, <1>7, <1>8, Programs
<1> QED BY <1>9, <1>10 DEF f, upper, mid, llc

LEMMA AgreeAssertions == IInv => AssertionsHold
BY DEF IInv, Agree, Steady, Calm, AssertionsHold

(* Single writer or multiple readers across the three levels of all four   *)
(* programs, for every number of cores, blocks, sets and ways: a cache of  *)
(* a core that may write a block leaves no copy in the caches of another.  *)
THEOREM SingleWriterAlways == Spec => []SingleWriter
BY AgreesAlways, AgreeSingleWriter, PTL

(* What a line of a cache says of the caches above it is so: an inclusive  *)
(* one has what they have, an exclusive one does not, and a directory      *)
(* names all L2s that hold a block in or above themselves.                 *)
THEOREM LevelsAgreeAlways == Spec => []LevelsAgree
BY AgreesAlways, AgreeLevels, PTL

(* No assertion of the handlers fails, the bound on copy buffers included, *)
(* and no buffer is kept when a call is over.                              *)
THEOREM AssertionsHoldAlways == Spec => []AssertionsHold
BY AgreesAlways, AgreeAssertions, PTL

LEMMA StoreIs == Store(sys) = [a \in Addr |-> Latest(sys, a)]
BY DEF Store

(* A call is a step of the memory.                                         *)
LEMMA ServedWritesBack ==
  ASSUME IInv, conf' = conf, NEW now, Served(sys, sys', now), NEW Must,
         \A b \in Must : sys'.mem[b] = Store(sys)[b]
  PROVE  Memory!WriteBack(Must) /\ Store(sys)' = now
<1>1. Store(sys)' = now
  BY SameProgram DEF Served
<1>2. sys'.mem \in [Addr -> Val]
  BY DEF Served, Agree, Steady, Sys
<1>3. \A b \in Addr : sys'.mem[b] \in {sys.mem[b], Store(sys)[b]}
  BY DEF Served
<1> QED BY <1>1, <1>2, <1>3, StoreIs DEF Memory!WriteBack

LEMMA StepRefines ==
  ASSUME IInv, [Next]_vars
  PROVE  [Memory!Next]_Memory!vars
<1>1. ASSUME NEW p \in Data \cup Instr, NEW a \in Addr, Read(p, a) PROVE Memory!Next
  <2>1. Served(sys, sys', Store(sys)) /\ sys'.at[a][p].data = Store(sys)[a] /\ conf' = conf
    BY <1>1, ReadStep
  <2>2. Memory!WriteBack({}) /\ Store(sys)' = Store(sys)
    BY <2>1, ServedWritesBack
  <2>3. resp' = [op |-> "read", port |-> p, addr |-> a, val |-> Store(sys)[a]]
    BY <1>1, <2>1 DEF Read
  <2>4. Memory!Read(p, a)
    BY <2>2, <2>3, StoreIs DEF Memory!Read, Store
  <2> QED BY <2>4 DEF Memory!Next
<1>2. ASSUME NEW p \in Data, NEW a \in Addr, NEW v \in Val, Write(p, a, v) PROVE Memory!Next
  <2>1. Served(sys, sys', Overwritten(sys, a, v)) /\ conf' = conf
    BY <1>2, WriteStep
  <2>2. Memory!WriteBack({}) /\ Store(sys)' = Overwritten(sys, a, v)
    BY <2>1, ServedWritesBack
  <2>3. resp' = [op |-> "write", port |-> p, addr |-> a, val |-> v]
    BY <1>2 DEF Write
  <2>4. Memory!Write(p, a, v)
    BY <2>2, <2>3 DEF Memory!Write, Store, Overwritten
  <2> QED BY <2>4 DEF Memory!Next
<1>3. ASSUME NEW p \in Data \cup Instr, NEW a \in Addr, Flush(p, a) PROVE Memory!Next
  <2>1. /\ Served(sys, sys', Store(sys)) /\ conf' = conf
        /\ p \in Data => sys'.mem[a] = Store(sys)[a]
    BY <1>3, FlushStep
  <2>2. resp' = [op |-> "flush", port |-> p, addr |-> a]
    BY <1>3 DEF Flush
  <2>3. CASE p \in Data
    <3>1. \A b \in {a} : sys'.mem[b] = Store(sys)[b]
      BY <2>1, <2>3
    <3>2. Memory!WriteBack({a}) /\ Store(sys)' = Store(sys)
      BY <2>1, <3>1, ServedWritesBack
    <3>3. Memory!Persist("flush", p, a)
      BY <2>2, <3>2 DEF Memory!Persist, Store
    <3> QED BY <2>3, <3>3 DEF Memory!Next
  <2>4. CASE p \in Instr
    <3>1. Memory!WriteBack({}) /\ Store(sys)' = Store(sys)
      BY <2>1, ServedWritesBack
    <3>2. Memory!Manage("flush", p, a)
      BY <2>2, <3>1 DEF Memory!Manage, Store
    <3> QED BY <2>4, <3>2 DEF Memory!Next
  <2> QED BY <2>3, <2>4
<1>4. CASE UNCHANGED vars
  BY <1>4 DEF vars, Memory!vars, Latest, IsDirty, Normal, IsValid
<1> QED BY <1>1, <1>2, <1>3, <1>4 DEF Next

(* All four hierarchies are one memory: a read at any port returns what    *)
(* was last written to the block at any other, a flush of a block at a     *)
(* coherent port leaves its content in the memory, and nothing but current *)
(* contents ever reaches the memory, whatever the caches evict meanwhile.  *)
THEOREM ImplementsMemoryAlways == Spec => ImplementsMemory
<1>1. Init => Memory!Init
  BY InitAgrees DEF Init, Memory!Init, Store
<1>2. IInv /\ [Next]_vars => [Memory!Next]_Memory!vars
  BY StepRefines
<1> QED BY <1>1, <1>2, AgreesAlways, PTL DEF Spec, ImplementsMemory, Memory!Spec
============================================================================
