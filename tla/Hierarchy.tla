------------------------------ MODULE Hierarchy ------------------------------
(***************************************************************************)
(* The three-level hierarchies of the regression tests                     *)
(* (regression/c4-l3*.cpp, single-threaded): per core a coherent data      *)
(* cache (l1d), an uncached instruction cache (l1i) and an L2 above both,  *)
(* one L3 and the memory.  The four programs put together different        *)
(* caches, and conf says which of them runs:                               *)
(*                                                                         *)
(*   c4-l3           inclusive L2, inclusive L3, MSI by broadcast          *)
(*   c4-l3-exc       inclusive L2, exclusive L3, MSI by broadcast          *)
(*   c4-l3-exc-mesi  inclusive L2, exclusive L3 with a MESI directory in   *)
(*                   extended ways                                         *)
(*   c4-l3-intel     exclusive L2, inclusive L3 with a MESI directory, cut *)
(*                   into slices by SliceDispatcher (which looks at the    *)
(*                   address only: a slice is a part of the set index)     *)
(*                                                                         *)
(* In contrast to InclusiveCache and ExclusiveCache the handlers are       *)
(* written once for a cache at any level, as the ports in coherence.hpp    *)
(* and exclusive.hpp are.  The port below is a parameter of theirs, ??, *)
(* and in the end the memory.  Each maps the state of all caches to the    *)
(* states it may lead to, which differ in the victims.  A call of          *)
(* CoreInterface is one action.                                            *)
(***************************************************************************)
EXTENDS Integers, FiniteSets

CONSTANTS
  Conf,             \* the programs
  Core,             \* the cores, which number the coherence ids of the L3
  ICore,            \* the cores whose instruction cache is used
  Addr, Inst,       \* cache blocks; those that hold instructions
  Val, NoVal,       \* contents of a block; that of a line without content
  Set,              \* index functions: Set[level][block]
  Ways,             \* number of (normal) ways: Ways[level]
  DirWays,          \* extended ways of an L3 with a directory
  MSHR              \* copy buffers of a cache

(* Every cache broadcasts and speaks MSI but the L3s with a directory.     *)
INSTANCE CohPolicy WITH Proto <- "MSI", Directory <- FALSE
Dir == INSTANCE CohPolicy WITH Proto <- "MESI", Directory <- TRUE

ASSUME HierarchyAssumption ==
  /\ Conf \subseteq {"c4-l3", "c4-l3-exc", "c4-l3-exc-mesi", "c4-l3-intel"}
  /\ Core \subseteq Nat
  /\ ICore \subseteq Core
  /\ Inst \subseteq Addr
  /\ NoVal \notin Val
  /\ DirWays \in Nat \ {0}
  /\ MSHR \in Nat \ {0, 1}

VARIABLES
  conf,     \* the program that runs, the same for ever
  sys,      \* the caches and the memory
  resp      \* the last call and, for a read, the value it returned

vars == <<conf, sys, resp>>

L1D(c) == <<"l1d", c>>
L1I(c) == <<"l1i", c>>
L2(c)  == <<"l2", c>>
L3     == <<"l3", 0>>
Data   == {L1D(c) : c \in Core}
Instr  == {L1I(c) : c \in ICore}
Middle == {L2(c) : c \in Core}
Node   == Data \cup Instr \cup Middle \cup {L3}
IsL1(n) == n \in Data \cup Instr

(* The cache below, the coherent caches above, and the id by which a cache *)
(* is known below.                                                         *)
Outer(n) == IF IsL1(n) THEN L2(n[2]) ELSE L3
Inner(n) == IF n = L3 THEN Middle ELSE IF IsL1(n) THEN {} ELSE {L1D(n[2])}
Id(n)    == IF n \in Instr THEN NoId ELSE IF n \in Data THEN 0 ELSE n[2]

Exclusive(n) ==
  \/ n = L3 /\ conf \in {"c4-l3-exc", "c4-l3-exc-mesi"}
  \/ n \in Middle /\ conf = "c4-l3-intel"
Directory(n) == n = L3 /\ conf \in {"c4-l3-exc-mesi", "c4-l3-intel"}

(* s.at[a][n] is what cache n has of block a, and where: in a normal way,  *)
(* in an extended way (which has no content of its own), or, while it is   *)
(* served, in no way.  lent: its content is in a copy buffer.              *)
NoLine == [st |-> "I", outer |-> "I", dirty |-> FALSE, sharer |-> {},
           data |-> NoVal, way |-> "none", lent |-> FALSE]

Put(s, n, a, m) == [s EXCEPT !.at[a][n] = m]
Normal(m)       == IsValid(m) /\ m.way = "normal"

----------------------------------------------------------------------------
(* Copy buffers. *)

(* data_copy_buffer, with its assertion that there is one.                 *)
Borrow(s, n, a) ==
  [s EXCEPT !.at[a][n].lent = TRUE,
            !.ok = @ /\ Cardinality({b \in Addr : s.at[b][n].lent}) < MSHR]

(* Mistake: the line is done with and the buffer is not given back.        *)
KeepsBuffer(m) ==
  IF m.way = "none" THEN [NoLine EXCEPT !.lent = m.lent]
  ELSE IF m.way = "ext" THEN [m EXCEPT !.data = NoVal]
  ELSE m

(* data_return_buffer.  What is in no way is gone then, and an extended    *)
(* way is left without content.                                            *)
Returned(m) ==
  IF m.way = "none" THEN NoLine
  ELSE IF m.way = "ext" THEN [m EXCEPT !.data = NoVal, !.lent = FALSE]
  ELSE m

----------------------------------------------------------------------------
(* Probes. *)

NeedProbe(n, m, i, id) ==
  IF Directory(n) THEN Dir!ProbeNeedProbe(m, i, id) ELSE ProbeNeedProbe(m, i, id)

(* The prober's line takes the content that was written back; a copy       *)
(* buffer takes over the state of the copy, too.                           *)
AfterWriteback(line, copy) ==
  LET held == IF IsValid(line) THEN line ELSE [line EXCEPT !.st = "S", !.outer = copy.outer]
  IN  ToDirty([held EXCEPT !.data = copy.data])

(* probe_req of cache n: it asks the caches above it, Asked, one after the *)
(* other, and r is their probe_resp.  As each changes its own branch only, *)
(* what stays is what the last one of them wrote back.                     *)
Asked(s, n, a, id) == {i \in Inner(n) : NeedProbe(n, s.at[a][n], Id(i), id)}

Answered(s, n, a, r) ==
  LET asked == DOMAIN r
      back  == {i \in asked : r[i].wb}
      last  == CHOOSE i \in back : \A j \in back : Id(j) <= Id(i)
      by(m) == IF n = L3 THEN L2(m[2]) ELSE L1D(m[2])
      line  == IF back = {} THEN s.at[a][n] ELSE AfterWriteback(s.at[a][n], r[last].copy)
  IN  [s   |-> [s EXCEPT !.at[a] = [m \in Node |-> IF m = n THEN line
                                                   ELSE IF by(m) \in asked THEN r[by(m)].s.at[a][m]
                                                   ELSE @[m]],
                         !.ok = @ /\ \A i \in asked : r[i].s.ok],
       hit |-> \E i \in asked : r[i].hit,
       wb  |-> back # {}]

NotAsked(s) == [s |-> s, hit |-> FALSE, wb |-> FALSE]

(* probe_resp of cache i, when the caches above it have been asked: its    *)
(* line after that, and the copy that it writes back.                      *)
Probed(above, hit, i, a, act) ==
  LET m    == above.s.at[a][i]
      left == MetaAfterProbe(act, m)
  IN  [s    |-> Put(above.s, i, a, IF hit /\ IsValid(left) THEN left ELSE Returned(NoLine)),
       hit  |-> hit \/ above.hit,
       wb   |-> (hit \/ above.wb) /\ IsDirty(m),
       copy |-> m]

ProbeL1(s, i, a, act) == Probed(NotAsked(s), IsValid(s.at[a][i]), i, a, act)

AskL1(s, n, a, act, id) ==
  Answered(s, n, a, [i \in Asked(s, n, a, id) |-> ProbeL1(s, i, a, act)])

(* What an L2 asks its L1D for when it is probed: an exclusive one for a   *)
(* block that it does not have, with a copy buffer for the answer.         *)
ProbeSync(s, i, a, act) ==
  LET m == s.at[a][i]
  IN  IF Exclusive(i) THEN (IF IsValid(m) THEN "none" ELSE act)
      ELSE IF IsValid(m) THEN ProbeNeedSync(act, m) ELSE "none"

ProbeAbove(s, i, a, sync) ==
  IF sync = "none" THEN NotAsked(s)
  ELSE AskL1(IF IsValid(s.at[a][i]) THEN s ELSE Borrow(s, i, a), i, a, sync, NoId)

ProbeL2(s, i, a, act) ==
  Probed(ProbeAbove(s, i, a, ProbeSync(s, i, a, act)), IsValid(s.at[a][i]), i, a, act)

AskL2(s, a, act, id) ==
  Answered(s, L3, a, [i \in Asked(s, L3, a, id) |-> ProbeL2(s, i, a, act)])

ProbeReq(s, n, a, act, id) ==
  IF n = L3 THEN AskL2(s, a, act, id) ELSE AskL1(s, n, a, act, id)

----------------------------------------------------------------------------
(* Requests to the outer level. *)

(* The port below, whose handlers put what they grant into the line of the *)
(* cache that asks, is the parameter ?? of the handlers:                   *)
(* s ?? <<n, a, act>> are the states that it may leave when cache n sends  *)
(* it a request for block a.                                               *)
AcquireReq(_ ?? _, s, n, a, act) ==
  {[t EXCEPT !.at[a][n] = MetaAfterFetch(act, @), !.ok = @ /\ FetchAssertion(act, t.at[a][n])]
     : t \in s ?? <<n, a, act>>}

(* A release, or a write-back that keeps the line. *)
WritebackReq(_ ?? _, s, n, a, act) ==
  {Put(t, n, a, ToClean(t.at[a][n])) : t \in s ?? <<n, a, act>>}

(* ... and only if the line is dirty, or clean ones go down, too.          *)
Writeback(_ ?? _, s, n, a, act, clean) ==
  IF clean \/ IsDirty(s.at[a][n]) THEN WritebackReq(??, s, n, a, act) ELSE {s}

(* Mistake: an extended way is evicted like a normal one.                  *)
EvictsExtended(s, n, a) ==
  IF IsL1(n) \/ Exclusive(n) THEN s ELSE ProbeReq(s, n, a, "evict", NoId).s

(* writeback_need_sync: an exclusive cache has nothing above a normal way. *)
EvictProbes(s, n, a) ==
  IF IsL1(n) \/ (Exclusive(n) /\ Normal(s.at[a][n])) THEN s
  ELSE ProbeReq(IF s.at[a][n].way = "ext" THEN Borrow(s, n, a) ELSE s, n, a, "evict", NoId).s

(* inner_need_release: a cache above an exclusive one releases a clean     *)
(* victim, too.                                                            *)
ReleasesClean(n) == n # L3 /\ n \notin Instr /\ Exclusive(Outer(n))

(* evict(). *)
Evict(_ ?? _, s, n, a) ==
  {[t EXCEPT !.at[a][n] = NoLine, !.ok = @ /\ ~IsDirty(t.at[a][n])]
     : t \in Writeback(??, EvictProbes(s, n, a), n, a, "evict", ReleasesClean(n))}

(* replace() for a and the eviction of what was there.  An exclusive       *)
(* cache's replacer is not told of blocks that move up, so it may take any *)
(* way although one is free.                                               *)
MakeRoom(_ ?? _, s, n, a, way) ==
  LET there == {b \in Addr \ {a} : /\ Set[n[1]][b] = Set[n[1]][a]
                                   /\ IsValid(s.at[b][n])
                                   /\ s.at[b][n].way = way}
      free  == Cardinality(there) < (IF way = "ext" THEN DirWays ELSE Ways[n[1]])
  IN  (IF free THEN {s} ELSE {})
      \cup (IF free /\ ~Exclusive(n) THEN {} ELSE UNION {Evict(??, s, n, v) : v \in there})

----------------------------------------------------------------------------
(* access_line. *)

(* access_need_promote and what follows it.                                *)
Promote(_ ?? _, s, n, a, cmd) ==
  LET m == s.at[a][n]
  IN  IF NeedPromote(cmd, m) THEN AcquireReq(??, s, n, a, "fetch_write")
      ELSE IF NeedPromoteLocal(cmd, m) THEN {Put(s, n, a, ToModified(m, NoId))}
      ELSE {s}

(* A miss: the block comes into a way of n. *)
Fetch(_ ?? _, s, n, a, cmd) ==
  {Put(t, n, a, [t.at[a][n] EXCEPT !.way = "normal"])
     : t \in UNION {AcquireReq(??, u, n, a, CmdForOuterAcquire(cmd))
                       : u \in MakeRoom(??, s, n, a, "normal")}}

(* ... of an inclusive cache and of an L1. *)
InclusiveAccess(_ ?? _, s, n, a, cmd, id) ==
  LET act == IF IsL1(n) THEN "none" ELSE AccessNeedSync(cmd, s.at[a][n])
  IN  IF IsValid(s.at[a][n])
      THEN Promote(??, IF act = "none" THEN s ELSE ProbeReq(s, n, a, act, id).s, n, a, cmd)
      ELSE Fetch(??, s, n, a, cmd)

(* access_need_sync of the exclusive policies. *)
SyncAct(cmd) == IF cmd.act = "fetch_write" THEN "evict" ELSE "downgrade"

(* fetch_line: the caches above are asked first, and what they write back  *)
(* goes on at once.                                                        *)
Fetched(_ ?? _, above, n, a, cmd) ==
  [hit |-> above.hit, wb |-> above.wb,
   out |-> IF above.wb THEN WritebackReq(??, above.s, n, a, "writeback")
           ELSE AcquireReq(??, above.s, n, a, CmdForOuterAcquire(cmd))]

FetchLine(_ ?? _, s, n, a, cmd, id) ==
  Fetched(??, ProbeReq(Borrow(s, n, a), n, a, SyncAct(cmd), id), n, a, cmd)

(* A hit on a normal way whose block will move up, without its dirty bit.  *)
MoveUp(_ ?? _, s, n, a, cmd) ==
  UNION {Writeback(??, t, n, a, "writeback", FALSE) : t \in Promote(??, s, n, a, cmd)}

(* The block is put into a way of kind w, which may have to be emptied.    *)
Place(_ ?? _, s, n, a, w) ==
  {Put(t, n, a, [t.at[a][n] EXCEPT !.way = w, !.lent = @ /\ w # "normal"])
     : t \in MakeRoom(??, s, n, a, w)}

(* Without a directory a missing block is served from a copy buffer, or    *)
(* from a normal way if it is for an uncached cache and no other has it.   *)
Keep(_ ?? _, fetch, n, a, id) ==
  IF id # NoId \/ fetch.hit THEN fetch.out
  ELSE UNION {Place(??, t, n, a, "normal") : t \in fetch.out}

BroadcastAccess(_ ?? _, s, n, a, cmd, id) ==
  IF ~IsValid(s.at[a][n]) THEN Keep(??, FetchLine(??, s, n, a, cmd, id), n, a, id)
  ELSE IF id = NoId THEN Promote(??, s, n, a, cmd) ELSE MoveUp(??, s, n, a, cmd)

(* With a directory it is served from an extended way (no uncached cache   *)
(* is connected to such an L3).                                            *)
Serve(_ ?? _, fetch, n, a, cmd) ==
  IF fetch.wb THEN UNION {Promote(??, t, n, a, cmd) : t \in fetch.out} ELSE fetch.out

DirectoryAccess(_ ?? _, s, n, a, cmd, id) ==
  LET m == s.at[a][n]
  IN  CASE Normal(m)     -> UNION {Place(??, t, n, a, "ext") : t \in MoveUp(??, s, n, a, cmd)}
        [] m.way = "ext" -> Serve(??, FetchLine(??, s, n, a, cmd, id), n, a, cmd)
        [] OTHER         -> UNION {AcquireReq(??, Borrow(t, n, a), n, a, CmdForOuterAcquire(cmd))
                                     : t \in Place(??, s, n, a, "ext")}

AccessLine(_ ?? _, s, n, a, cmd, id) ==
  IF ~Exclusive(n) THEN InclusiveAccess(??, s, n, a, cmd, id)
  ELSE IF Directory(n) THEN DirectoryAccess(??, s, n, a, cmd, id)
  ELSE BroadcastAccess(??, s, n, a, cmd, id)

----------------------------------------------------------------------------
(* Requests from the inner level. *)

(* meta_after_grant. *)
LineGranted(n, act, m, id) ==
  IF Directory(n) THEN Dir!MetaAfterGrant(act, m, id)
  ELSE IF ~Exclusive(n) THEN MetaAfterGrant(act, m, id)
  ELSE IF id = NoId THEN ToShared(m, NoId) ELSE NoLine

(* acquire_resp to cache i, with the content and the state it grants.      *)
AcquireResp(_ ?? _, s, i, a, act) ==
  LET n == Outer(i)
      granted(m) == [line  |-> Returned(LineGranted(n, act, m, Id(i))),
                     outer |-> IF Directory(n) THEN Dir!Granted(act, m, Id(i))
                               ELSE Granted(act, m, Id(i))]
  IN  {[t EXCEPT !.at[a][n] = granted(@).line,
                 !.at[a][i] = [@ EXCEPT !.data = t.at[a][n].data, !.outer = granted(t.at[a][n]).outer],
                 !.ok       = @ /\ GrantAssertion(act)]
         : t \in AccessLine(??, s, n, a, Acquire(act), Id(i))}

(* write_line of an inclusive cache, for a release of cache i.             *)
InclusiveWrite(_ ?? _, s, i, a, act) ==
  LET n   == Outer(i)
      m   == s.at[a][i]
      hit == IsValid(s.at[a][n]) /\ ~NeedPromote(Release, s.at[a][n])
  IN  {[t EXCEPT !.at[a][n] = ToDirty([@ EXCEPT !.data = m.data]),
                 !.at[a][i] = IF act = "evict" THEN [@ EXCEPT !.outer = "I"] ELSE @,
                 !.ok       = @ /\ hit]
         : t \in AccessLine(??, s, n, a, Release, Id(i))}

(* The caches that an exclusive cache asks whether they have what i gives  *)
(* up: a directory its sharers; a broadcast is saved by a writable copy.   *)
ReleaseProbes(s, n, a, i) ==
  IF Directory(n) \/ ~AllowWrite(s.at[a][i])
  THEN ProbeReq(Borrow(s, n, a), n, a, IF Directory(n) THEN "downgrade" ELSE "writeback", Id(i))
  ELSE NotAsked(s)

(* write_line of an exclusive cache: the block comes into a normal way if  *)
(* nobody else has it.                                                     *)
ExclusiveWrite(_ ?? _, s, i, a) ==
  LET n      == Outer(i)
      m      == s.at[a][i]
      probed == ReleaseProbes(s, n, a, i)
      line   == Returned(probed.s.at[a][n])
      asked  == [probed.s EXCEPT
                   !.at[a][n] = line,
                   !.ok       = @ /\ ~probed.wb /\ s.at[a][n].way = (IF Directory(n) THEN "ext" ELSE "none")]
      taken  == [line EXCEPT !.st = IF Directory(n) THEN @ ELSE "S", !.outer = m.outer,
                             !.dirty = m.dirty, !.data = m.data, !.way = "normal"]
  IN  IF probed.hit THEN {asked}
      ELSE {[t EXCEPT !.at[a][n] = taken, !.at[a][i] = [@ EXCEPT !.outer = "I", !.dirty = FALSE]]
              : t \in MakeRoom(??, asked, n, a, "normal")}

(* acquire_resp or writeback_resp of the cache below i.                    *)
OuterResp(_ ?? _, s, i, a, act) ==
  IF act \notin {"evict", "writeback"} THEN AcquireResp(??, s, i, a, act)
  ELSE IF Exclusive(Outer(i)) THEN ExclusiveWrite(??, s, i, a)
  ELSE InclusiveWrite(??, s, i, a, act)

(* The memory, and the ports below an L2 and below an L1.                  *)
MemoryResp(s, n, a, act) ==
  IF act \in {"evict", "writeback"} THEN {[s EXCEPT !.mem[a] = s.at[a][n].data]}
  ELSE {[s EXCEPT !.at[a][n].data = s.mem[a], !.at[a][n].outer = "M"]}

AtMemory(s, req) == MemoryResp(s, req[1], req[2], req[3])
AtL3(s, req)     == OuterResp(AtMemory, s, req[1], req[2], req[3])
AtL2(s, req)     == OuterResp(AtL3, s, req[1], req[2], req[3])

(* flush_line of the L3, to which the caches above pass a flush on.  On a  *)
(* miss only an exclusive cache without a directory asks the others.       *)
FlushLine(s, a) ==
  LET m == s.at[a][L3]
      asked == ProbeReq(IF Normal(m) \/ ~Exclusive(L3) THEN s ELSE Borrow(s, L3, a), L3, a, "evict", NoId).s
  IN  IF ~IsValid(m) /\ (~Exclusive(L3) \/ Directory(L3)) THEN {s}
      ELSE {Put(t, L3, a, NoLine) : t \in Writeback(AtMemory, asked, L3, a, "evict", FALSE)}

----------------------------------------------------------------------------
(* The calls. *)

Init ==
  /\ conf \in Conf
  /\ \E content \in [Addr -> Val] :
       sys = [at |-> [a \in Addr |-> [n \in Node |-> NoLine]], mem |-> content, ok |-> TRUE]
  /\ resp = [op |-> "none"]

Running == sys.ok /\ UNCHANGED conf

Read(p, a) ==
  /\ Running
  /\ p \in Instr => a \in Inst
  /\ sys' \in InclusiveAccess(AtL2, sys, p, a, Acquire("fetch_read"), NoId)
  /\ resp' = [op |-> "read", port |-> p, addr |-> a, val |-> sys'.at[a][p].data]

(* The driver flushes the L1Is before an instruction is written.           *)
InstFlushed(a) ==
  IF a \in Inst THEN [sys EXCEPT !.at[a] = [n \in Node |-> IF n \in Instr THEN NoLine ELSE @[n]]]
  ELSE sys

Write(p, a, v) ==
  /\ Running
  /\ \E t \in InclusiveAccess(AtL2, InstFlushed(a), p, a, Acquire("fetch_write"), NoId) :
       sys' = Put(t, p, a, ToDirty([t.at[a][p] EXCEPT !.data = v]))
  /\ resp' = [op |-> "write", port |-> p, addr |-> a, val |-> v]

Flush(p, a) ==
  /\ Running
  /\ sys' \in IF p \in Data THEN FlushLine(sys, a) ELSE {Put(sys, p, a, NoLine)}
  /\ resp' = [op |-> "flush", port |-> p, addr |-> a]

Next ==
  \/ \E p \in Data \cup Instr, a \in Addr : Read(p, a)
  \/ \E p \in Data, a \in Addr, v \in Val : Write(p, a, v)
  \/ \E p \in Data \cup Instr, a \in Addr : Flush(p, a)

Spec == Init /\ [][Next]_vars

----------------------------------------------------------------------------
(* Properties. *)

Holds(c, a) == {n \in Node : n \in {L1D(c), L2(c)} /\ IsValid(sys.at[a][n])}

(* Single writer or multiple readers across the levels: as soon as one     *)
(* cache of a core may write a block, no cache of another core has it,     *)
(* though the L3 knows of the L2s only and a probe has to reach the L1D    *)
(* through an L2 that may itself not have the block.                       *)
SingleWriter ==
  \A a \in Addr, c \in Core, d \in Core :
    c # d /\ (\E n \in Holds(c, a) : AllowWrite(sys.at[a][n])) => Holds(d, a) = {}

(* What a cache may conclude from its own lines about the caches above:    *)
(* an inclusive one has every block they have, an exclusive one has in its *)
(* normal ways none, and a directory names every L2 that has the block or  *)
(* has it above itself.                                                    *)
LevelsAgree ==
  \A a \in Addr, c \in Core :
    LET upper == sys.at[a][L1D(c)]
        mid   == sys.at[a][L2(c)]
        llc   == sys.at[a][L3]
    IN  /\ IsValid(upper) => (IsValid(mid) <=> ~Exclusive(L2(c)))
        /\ Holds(c, a) # {} =>
             /\ Normal(llc) <=> ~Exclusive(L3)
             /\ Directory(L3) => IsValid(llc) /\ c \in llc.sharer

(* No assertion fails at any level (a release hits an inclusive and misses *)
(* an exclusive cache, no shared copy is dirty, a permission is as asked), *)
(* and a call that is over has given back every copy buffer, be it served, *)
(* probed, released or evicted with: otherwise a long run would use up the *)
(* pool of MSHR buffers.                                                   *)
AssertionsHold ==
  /\ sys.ok
  /\ \A a \in Addr, n \in Node : ~sys.at[a][n].lent

(* The content as a program sees it: that of a dirty L1D, else of a dirty  *)
(* L2, else of a normal way of the L3, else of the memory.                 *)
Latest(s, a) ==
  LET dirty(level) == {n \in Node : n[1] = level /\ IsDirty(s.at[a][n])}
      of(S)        == s.at[a][CHOOSE n \in S : TRUE].data
  IN  IF dirty("l1d") # {} THEN of(dirty("l1d"))
      ELSE IF dirty("l2") # {} THEN of(dirty("l2"))
      ELSE IF Normal(s.at[a][L3]) THEN s.at[a][L3].data
      ELSE s.mem[a]

Memory == INSTANCE CoherentMemory WITH
            Coherent <- Data, Uncached <- Instr,
            store    <- [a \in Addr |-> Latest(sys, a)],
            backing  <- sys.mem

(* All four hierarchies implement the memory that the two-level ones do:   *)
(* every read returns the last value written, a flush is durable, and the  *)
(* memory receives nothing but current contents.                           *)
ImplementsMemory == Memory!Spec
============================================================================
