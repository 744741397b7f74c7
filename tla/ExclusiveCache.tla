--------------------------- MODULE ExclusiveCache ---------------------------
(***************************************************************************)
(* The two-level hierarchy of the regression tests with an exclusive LLC   *)
(* (regression/c2-l2-exc*.cpp; cache/exclusive.hpp, single-threaded): the  *)
(* LLC holds the blocks that the coherent L1 data caches evicted and those *)
(* that only instruction caches asked for.  A block that moves up leaves   *)
(* the LLC; an L1D releases even a clean victim; and what several caches   *)
(* share is kept current in memory.                                        *)
(*                                                                         *)
(* With Directory, the LLC remembers the blocks of the L1Ds in extended    *)
(* ways, which have metadata and no content; without, it broadcasts every  *)
(* probe.  As in InclusiveCache a call of CoreInterface is one action and  *)
(* block[a] is all there is of block a.                                    *)
(***************************************************************************)
EXTENDS CohPolicy, FiniteSets

CONSTANTS
  L1Proto,            \* the protocol of the L1Ds: MI or MSI
  Core, ICore,        \* coherence ids of the L1Ds; the L1Is
  Addr, Inst,         \* cache blocks; those that hold instructions
  Val, NoVal,         \* contents of a block; that of a fresh copy buffer
  NoBlock,            \* no victim
  L1Set, L1Ways,      \* index function and ways of the L1s
  LLCSet, LLCWays,    \* index function and normal ways of the LLC
  DirWays,            \* extended ways of the LLC
  PrefetchPort        \* the ports on which prefetch() is called

Port == Core \cup ICore

ASSUME ExclusiveAssumption ==
  /\ Proto \in {"MSI", "MESI"}
  /\ L1Proto \in {"MI", "MSI"}
  /\ Core \subseteq Nat
  /\ Core \cap ICore = {}
  /\ Inst \subseteq Addr
  /\ NoBlock \notin Addr
  /\ NoVal \notin Val
  /\ PrefetchPort \subseteq Port

VARIABLES
  block,    \* block[a]: what every cache and the memory hold of block a
  resp      \* the last call and, for a read, the value it returned

vars == <<block, resp>>

L1D == INSTANCE CohPolicy WITH Proto <- L1Proto, Directory <- FALSE
L1I == INSTANCE CohPolicy WITH Proto <- "MSI", Directory <- FALSE

(* ext: in an extended way.  A line that is invalid or extended has no     *)
(* content of its own; while it is served it uses a copy buffer.           *)
Line  == [st : State, outer : State, dirty : BOOLEAN, sharer : SUBSET Core,
          data : Val \cup {NoVal}, ext : BOOLEAN]
Block == [up : [Port -> Line], llc : Line, mem : Val, ok : BOOLEAN]

NoLine == [st |-> "I", outer |-> "I", dirty |-> FALSE, sharer |-> {},
           data |-> NoVal, ext |-> FALSE]

Id(p)      == IF p \in Core THEN p ELSE NoId
Normal(m)  == IsValid(m) /\ ~m.ext
Holders(b) == {c \in Core : IsValid(b.up[c])}

----------------------------------------------------------------------------
(* The memory, the probes of the LLC, and its requests to the memory. *)

MemWriteback(b) ==
  IF IsDirty(b.llc)
  THEN [b EXCEPT !.mem = b.llc.data, !.llc = ToClean(b.llc)]
  ELSE b

Fetch(b, act) ==
  LET acquired == [b.llc EXCEPT !.data = b.mem, !.outer = "M"]
  IN  [b EXCEPT !.llc = MetaAfterFetch(act, acquired),
                !.ok  = @ /\ FetchAssertion(act, acquired)]

Probed(b, id) == {c \in Holders(b) : ProbeNeedProbe(b.llc, c, id)}

ProbeWriteback(b, id) == \E c \in Probed(b, id) : IsDirty(b.up[c])

(* meta_after_probe on the prober's line when c has written back: without  *)
(* a line it is the copy buffer, which takes over the state of the copy.   *)
AfterWriteback(b, c) ==
  LET line == IF IsValid(b.llc) THEN b.llc
              ELSE [b.llc EXCEPT !.st = "S", !.outer = b.up[c].outer]
  IN  ToDirty([line EXCEPT !.data = b.up[c].data])

(* probe_req.  The last dirty copy is the one that stays.                  *)
ProbeReq(b, act, id) ==
  LET dirty == {c \in Probed(b, id) : IsDirty(b.up[c])}
      last  == CHOOSE c \in dirty : \A d \in dirty : d <= c
      after(c) == L1D!MetaAfterProbe(act, b.up[c])
  IN  [b EXCEPT
        !.up  = [p \in Port |-> IF p \notin Probed(b, id) THEN b.up[p]
                                ELSE IF IsValid(after(p)) THEN after(p) ELSE NoLine],
        !.llc = IF dirty = {} THEN b.llc ELSE AfterWriteback(b, last)]

----------------------------------------------------------------------------
(* The LLC. *)

(* access_need_promote and what follows it.                                *)
Promoted(b, cmd) ==
  IF NeedPromote(cmd, b.llc) THEN Fetch(b, "fetch_write")
  ELSE IF NeedPromoteLocal(cmd, b.llc)
       THEN [b EXCEPT !.llc = ToModified(b.llc, NoId)]
       ELSE b

(* access_need_sync of the exclusive policy.                               *)
SyncAct(cmd) == IF cmd.act = "fetch_write" THEN "evict" ELSE "downgrade"

(* Mistake: the dirty content of a probed L1D is passed on without being   *)
(* written to the memory.                                                  *)
FetchKeptDirty(b, cmd, id) ==
  LET synced == ProbeReq(b, SyncAct(cmd), id)
  IN  IF ProbeWriteback(b, id)
      THEN [synced EXCEPT !.llc = ToClean(synced.llc)]
      ELSE Fetch(synced, CmdForOuterAcquire(cmd))

(* fetch_line, and a hit on an extended way: the other L1Ds are probed;    *)
(* dirty content is written back at once, otherwise the memory is current. *)
(* (Without a directory the policy is MSI's, and the state of the copy     *)
(* buffer's outer metadata is lost with the buffer.)                       *)
FetchLine(b, cmd, id) ==
  LET synced == ProbeReq(b, SyncAct(cmd), id)
  IN  IF ProbeWriteback(b, id)
      THEN MemWriteback(synced)
      ELSE Fetch(synced, CmdForOuterAcquire(cmd))

(* A hit on a normal way by a coherent L1: the line will move up, where    *)
(* its dirty bit would be lost.                                            *)
MoveUp(b, cmd) == MemWriteback(Promoted(b, cmd))

(* access_line.  The result has in llc the line or buffer that serves p.   *)
AccessLine(b, p, cmd) ==
  IF Normal(b.llc)
  THEN IF p \in Core THEN MoveUp(b, cmd) ELSE Promoted(b, cmd)
  ELSE IF ~Directory
       THEN FetchLine(b, cmd, Id(p))
       ELSE IF IsValid(b.llc)
            THEN IF ProbeWriteback(b, Id(p))
                 THEN Promoted(FetchLine(b, cmd, Id(p)), cmd)
                 ELSE FetchLine(b, cmd, Id(p))
            ELSE Fetch(b, CmdForOuterAcquire(cmd))

(* Mistake: the LLC keeps the block that it grants.                        *)
LineKept(b, llc, p, act) == ToShared([llc EXCEPT !.ext = FALSE], NoId)

(* meta_after_grant with a directory.  MESI serves an uncached L1 by a     *)
(* copy of a shared line.                                                  *)
DirectoryGranted(llc, p, act) ==
  IF Proto = "MESI" /\ p \notin Core THEN ToShared(llc, NoId) ELSE MetaAfterGrant(act, llc, Id(p))

(* meta_after_grant, and where the line is kept: in no way or in an        *)
(* extended way if it was granted to an L1D; in a normal way if no L1D     *)
(* was found to have it.                                                   *)
LineGranted(b, llc, p, act) ==
  IF ~Directory
  THEN IF p \notin Core /\ (Normal(b.llc) \/ Holders(b) = {})
       THEN ToShared(llc, NoId) ELSE NoLine
  ELSE LET ext == p \in Core \/ b.llc.ext
       IN  [DirectoryGranted(llc, p, act) EXCEPT !.ext = ext, !.data = IF ext THEN NoVal ELSE @]

(* acquire_resp for port p, and the rest of that port's acquire_req (where *)
(* an MI cache, which only fetches to write, does what an MSI one does).   *)
AcquireReq(b, p, act) ==
  LET acc  == AccessLine(b, p, Acquire(act))
      line == [b.up[p] EXCEPT !.data  = acc.llc.data,
                              !.outer = Granted(act, acc.llc, Id(p))]
  IN  [acc EXCEPT
        !.llc   = LineGranted(b, acc.llc, p, act),
        !.up[p] = L1I!MetaAfterFetch(act, line),
        !.ok    = /\ @
                  /\ ~IsDirty(b.up[p])
                  /\ Proto = "MESI" /\ p \in Core => act \in {"fetch_read", "fetch_write"}
                  /\ L1I!FetchAssertion(act, line)]

(* write_line for a release, with which an L1D gives up any victim: the    *)
(* LLC takes the block only when no other L1D has it.  Without a directory *)
(* the others are asked only if the line does not allow writes.            *)
ReleaseProbes(b, c) == Directory \/ ~AllowWrite(b.up[c])

(* Mistake: the other L1Ds are not asked.                                  *)
KeptByNobody(b, c) == FALSE

Kept(b, c) == ReleaseProbes(b, c) /\ Probed(b, c) # {}

Released(b, c) ==
  LET synced == IF Directory THEN ProbeReq(b, "downgrade", c) ELSE b
      llc    == [synced.llc EXCEPT !.outer = b.up[c].outer, !.dirty = b.up[c].dirty,
                                   !.data  = b.up[c].data,  !.ext   = FALSE]
  IN  [synced EXCEPT
        !.llc   = IF Kept(b, c) THEN @
                  ELSE IF Directory THEN llc ELSE ToShared(llc, NoId),
        !.up[c] = ToClean(@),
        !.ok    = /\ @
                  /\ IF Directory THEN IsValid(b.llc) /\ b.llc.ext ELSE ~IsValid(b.llc)
                  /\ ReleaseProbes(b, c) => ~ProbeWriteback(b, c)]

(* Mistake: an extended way is evicted like a normal one.                  *)
LLCEvictUnprobed(b) == [MemWriteback(b) EXCEPT !.llc = NoLine]

(* evict(): only an extended way is synchronised with the L1Ds.            *)
LLCEvict(b) ==
  LET written == MemWriteback(IF b.llc.ext THEN ProbeReq(b, "evict", NoId) ELSE b)
  IN  [written EXCEPT !.llc = NoLine]

(* flush_line with a directory: without an entry no L1D has the block.     *)
DirectoryMisses(b) == Directory /\ ~IsValid(b.llc)

(* flush_line: every L1D is probed, without a directory even on a miss.    *)
LLCFlush(b) ==
  IF DirectoryMisses(b) THEN b
  ELSE [MemWriteback(ProbeReq(b, "evict", NoId)) EXCEPT !.llc = NoLine]

(* prefetch_line, which is that of the inclusive cache.                    *)
LLCPrefetch(b) == IF IsValid(b.llc) THEN b ELSE Fetch(b, "prefetch")

----------------------------------------------------------------------------
(* The L1s. *)

(* evict(): inner_need_release() of the exclusive policy makes an L1D      *)
(* release a clean line, too.                                              *)
L1Evict(b, p) ==
  LET released == IF p \in Core THEN Released(b, p) ELSE b
  IN  [released EXCEPT !.up[p] = NoLine, !.ok = @ /\ ~IsDirty(released.up[p])]

(* The request that an access of the L1 sends to the LLC, if any.          *)
L1Request(b, p, cmd) ==
  IF ~IsValid(b.up[p])
  THEN IF p \in Core THEN L1D!CmdForOuterAcquire(cmd) ELSE L1I!CmdForOuterAcquire(cmd)
  ELSE IF L1D!NeedPromote(cmd, b.up[p]) THEN "fetch_write" ELSE "none"

(* access_line of an L1. *)
L1Access(b, p, cmd) ==
  IF L1Request(b, p, cmd) # "none" THEN AcquireReq(b, p, L1Request(b, p, cmd))
  ELSE IF L1D!NeedPromoteLocal(cmd, b.up[p])
       THEN [b EXCEPT !.up[p] = L1D!ToModified(@, NoId)]
       ELSE b

L1Read(b, p) == L1Access(b, p, Acquire("fetch_read"))

L1Write(b, p, v) ==
  LET acc == L1Access(b, p, Acquire("fetch_write"))
  IN  [acc EXCEPT !.up[p] = [ToDirty(@) EXCEPT !.data = v]]

(* A coherent L1 asks the LLC for a flush, for flush() and writeback().    *)
L1Flush(b, p, act) ==
  IF p \in Core THEN LLCFlush(b)
  ELSE IF act = "evict" THEN [b EXCEPT !.up[p] = NoLine]
  ELSE b

L1Prefetch(b, p) ==
  IF p \in Core THEN LLCPrefetch(b)
  ELSE IF IsValid(b.up[p]) THEN b ELSE AcquireReq(b, p, "prefetch")

----------------------------------------------------------------------------
(* Replacement.  The replacer of the LLC is not told of a line that moves  *)
(* up, so it may take any way although one is free.                        *)

InSet(set, a)       == {b \in Addr : set[b] = set[a]}
Victims(lines, n)   == (IF Cardinality(lines) < n THEN {NoBlock} ELSE {}) \cup lines

NormalVictims(bs, a) == Victims({b \in InSet(LLCSet, a) : Normal(bs[b].llc)}, LLCWays)
ExtVictims(bs, a)    == Victims({b \in InSet(LLCSet, a) : bs[b].llc.ext}, DirWays)

(* The victim of the L1; the one of the LLC when that victim is released   *)
(* to it; and the one of the LLC for the block that is accessed.           *)
L1Victims(p, a) ==
  IF IsValid(block[a].up[p]) THEN {NoBlock}
  ELSE LET lines == {b \in InSet(L1Set, a) : IsValid(block[b].up[p])}
       IN  IF Cardinality(lines) < L1Ways THEN {NoBlock} ELSE lines

ReleaseVictims(p, v) ==
  IF v # NoBlock /\ p \in Core /\ ~Kept(block[v], p) /\ ~Normal(block[v].llc)
  THEN NormalVictims(block, v) ELSE {NoBlock}

AcquireVictims(bs, p, a) ==
  IF p \in Core
  THEN IF Directory /\ ~bs[a].llc.ext THEN ExtVictims(bs, a) ELSE {NoBlock}
  ELSE IF IsValid(bs[a].llc) \/ (~Directory /\ Holders(bs[a]) # {}) THEN {NoBlock}
  ELSE NormalVictims(bs, a)

(* What a prefetch of a coherent L1 replaces.                              *)
PrefetchVictims(a) == IF IsValid(block[a].llc) THEN {NoBlock} ELSE NormalVictims(block, a)

LLCEvicted(bs, v) == [b \in Addr |-> IF b = v THEN LLCEvict(bs[b]) ELSE bs[b]]

(* All blocks as they may be when the L1 of p has made room for a.         *)
MadeRoom(p, a) ==
  UNION {{LET bs == LLCEvicted(block, w)
          IN  [b \in Addr |-> IF b = v THEN L1Evict(bs[b], p) ELSE bs[b]]
            : w \in ReleaseVictims(p, v)} : v \in L1Victims(p, a)}

(* ... and when the LLC has, for a request of p.                           *)
MadeRoomBelow(bs, p, a) == {LLCEvicted(bs, v) : v \in AcquireVictims(bs, p, a)}

(* All blocks as they may be before an access of p to a.                   *)
Before(p, a, cmd) ==
  IF L1Request(block[a], p, cmd) = "none" THEN {block}
  ELSE UNION {MadeRoomBelow(bs, p, a) : bs \in MadeRoom(p, a)}

----------------------------------------------------------------------------
(* The calls. *)

Init ==
  /\ \E content \in [Addr -> Val] :
       block = [a \in Addr |-> [up  |-> [p \in Port |-> NoLine], llc |-> NoLine,
                                mem |-> content[a], ok |-> TRUE]]
  /\ resp = [op |-> "none"]

Running == \A a \in Addr : block[a].ok

Read(p, a) ==
  /\ Running
  /\ p \in ICore => a \in Inst
  /\ \E bs \in Before(p, a, Acquire("fetch_read")) :
       block' = [bs EXCEPT ![a] = L1Read(@, p)]
  /\ resp' = [op |-> "read", port |-> p, addr |-> a, val |-> block'[a].up[p].data]

(* The driver flushes the L1Is before an instruction is written.           *)
InstFlushed(b) ==
  [b EXCEPT !.up = [p \in Port |-> IF p \in ICore THEN NoLine ELSE b.up[p]]]

Write(p, a, v) ==
  /\ Running
  /\ \E bs \in Before(p, a, Acquire("fetch_write")) :
       block' = [bs EXCEPT ![a] = L1Write(IF a \in Inst THEN InstFlushed(@) ELSE @, p, v)]
  /\ resp' = [op |-> "write", port |-> p, addr |-> a, val |-> v]

Flush(p, a, act) ==
  /\ Running
  /\ block' = [block EXCEPT ![a] = L1Flush(@, p, act)]
  /\ resp' = [op |-> IF act = "evict" THEN "flush" ELSE "writeback", port |-> p, addr |-> a]

Prefetch(p, a) ==
  /\ Running
  /\ p \in ICore => a \in Inst
  /\ \E bs \in (IF p \in Core THEN {LLCEvicted(block, v) : v \in PrefetchVictims(a)}
                ELSE Before(p, a, Acquire("prefetch"))) :
       block' = [bs EXCEPT ![a] = L1Prefetch(@, p)]
  /\ resp' = [op |-> "prefetch", port |-> p, addr |-> a]

FlushCache(p) ==
  /\ Running
  /\ block' = [a \in Addr |-> IF IsValid(block[a].up[p])
                              THEN L1Flush(block[a], p, "evict") ELSE block[a]]
  /\ resp' = [op |-> "flush_cache", port |-> p]

Next ==
  \/ \E p \in Port, a \in Addr : Read(p, a)
  \/ \E p \in Core, a \in Addr, v \in Val : Write(p, a, v)
  \/ \E p \in Port, a \in Addr, act \in FlushAct : Flush(p, a, act)
  \/ \E p \in PrefetchPort, a \in Addr : Prefetch(p, a)
  \/ \E p \in Port : FlushCache(p)

Spec == Init /\ [][Next]_vars

----------------------------------------------------------------------------
(* Properties. *)

(* Exclusion: a block that the LLC holds with its content is in no L1D.    *)
Exclusion == \A a \in Addr : Normal(block[a].llc) => Holders(block[a]) = {}

(* The extended directory: every L1D copy has an entry that names it, an   *)
(* entry without a copy is not left behind by MSI caches, and since it has *)
(* no content it is never dirty.                                           *)
DirectoryCovers ==
  \A a \in Addr :
    /\ Directory => \A c \in Holders(block[a]) : block[a].llc.ext /\ c \in block[a].llc.sharer
    /\ block[a].llc.ext => ~IsDirty(block[a].llc) /\ (L1Proto = "MSI" => Holders(block[a]) # {})

(* The content as a program sees it: that of a dirty L1D, else that of a   *)
(* normal way of the LLC, else that of the memory.                         *)
Latest(b) ==
  LET dirty == {c \in Core : IsDirty(b.up[c])}
  IN  IF dirty # {} THEN b.up[CHOOSE c \in dirty : TRUE].data
      ELSE IF Normal(b.llc) THEN b.llc.data
      ELSE b.mem

(* No assert() fails: a release misses the normal ways, no shared copy is  *)
(* dirty, and so on.                                                       *)
AssertionsHold == \A a \in Addr : block[a].ok

(* The hierarchy implements the same memory as the inclusive one. *)
Memory == INSTANCE CoherentMemory WITH
            Coherent <- Core, Uncached <- ICore,
            store    <- [a \in Addr |-> Latest(block[a])],
            backing  <- [a \in Addr |-> block[a].mem]

(* Every read returns the last value written, flushes are durable, and the *)
(* memory receives nothing but current contents.                           *)
ImplementsMemory == Memory!Spec
============================================================================
