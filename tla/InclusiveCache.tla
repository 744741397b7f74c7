--------------------------- MODULE InclusiveCache ---------------------------
(***************************************************************************)
(* The inclusive two-level hierarchy of the regression tests               *)
(* (regression/c{1,2,4}-l2*.cpp) in the single-threaded build              *)
(* (EnMT = false): per core a coherent data cache (L1D) and an uncached    *)
(* instruction cache (L1I), above one shared last-level cache (LLC, "L2")  *)
(* and the memory.  cache/coherence.hpp is the engine and CohPolicy holds  *)
(* the policies.                                                           *)
(*                                                                         *)
(* A call of CoreInterface runs to its end before the next one starts, so  *)
(* each call is one action that performs every nested request, probe,      *)
(* write-back and eviction.  The caches are indexed by block and not by    *)
(* way: block[a] holds what each cache and the memory have of block a, and *)
(* a nested handler is an operator from such a record to the next.  The    *)
(* ways are represented by their number, and the replacer by the choice of *)
(* any block of a full set.                                                *)
(***************************************************************************)
EXTENDS CohPolicy, FiniteSets

CONSTANTS
  Core,             \* coherence ids of the L1 data caches: coh[] of the LLC
  ICore,            \* the L1 instruction caches, connected as uncached
  Addr,             \* cache blocks
  Inst,             \* the blocks that hold instructions
  Val,              \* contents of a block
  NoBlock,          \* no victim
  L1Set, L1Ways,    \* index function and ways of the L1s
  LLCSet, LLCWays,  \* index function and ways of the LLC
  EmptyFirst,       \* EF of the replacers: take a free way first
  PrefetchPort      \* the ports on which prefetch() is called

Port == Core \cup ICore

(* Coherence ids are indices of coh[], so that -1 is nobody's.             *)
ASSUME CacheAssumption ==
  /\ Core \subseteq Nat
  /\ Core \cap ICore = {}
  /\ Inst \subseteq Addr
  /\ NoBlock \notin Addr
  /\ EmptyFirst \in BOOLEAN
  /\ PrefetchPort \subseteq Port

VARIABLES
  block,    \* block[a]: what every cache and the memory hold of block a
  resp      \* the last call and, for a read, the value it returned

vars == <<block, resp>>

Line  == [st : State, outer : State, dirty : BOOLEAN, sharer : SUBSET Core, data : Val]

(* ok turns FALSE when an assert() fails; the program then aborts.         *)
Block == [up : [Port -> Line], llc : Line, mem : Val, ok : BOOLEAN]

Id(p) == IF p \in Core THEN p ELSE NoId

----------------------------------------------------------------------------
(* The memory. *)

(* acquire_resp: its content, with write permission.                       *)
MemAcquired(b) == [b.llc EXCEPT !.data = b.mem, !.outer = "M"]

(* writeback_req of the LLC and writeback_resp of the memory.              *)
MemWriteback(b) ==
  IF IsDirty(b.llc)
  THEN [b EXCEPT !.mem = b.llc.data, !.llc = ToClean(b.llc)]
  ELSE b

----------------------------------------------------------------------------
(* The LLC: InnerCohPort, and OuterCohPort of the L1Ds it probes. *)

(* probe_req and probe_resp.  Caches are probed in the order of their ids, *)
(* so the content of the last dirty one stays.                             *)
ProbeReq(b, act, id) ==
  LET probed == {c \in Core : ProbeNeedProbe(b.llc, c, id)}
      held   == {c \in probed : IsValid(b.up[c])}
      dirty  == {c \in held : IsDirty(b.up[c])}
      last   == CHOOSE c \in dirty : \A d \in dirty : d <= c
      gone   == IF act = "evict" THEN probed ELSE probed \ held
  IN  [b EXCEPT
        !.up  = [p \in Port |-> IF p \in held THEN MetaAfterProbe(act, b.up[p]) ELSE b.up[p]],
        !.llc = Sync(IF dirty = {} THEN b.llc
                     ELSE ToDirty([b.llc EXCEPT !.data = b.up[last].data]), gone)]

(* outer->acquire_req: fetch the block, or the permission, from memory.    *)
Fetch(b, act) ==
  [b EXCEPT !.llc = MetaAfterFetch(act, MemAcquired(b)),
            !.ok  = @ /\ FetchAssertion(act, MemAcquired(b))]

(* access_line: probe the other inner caches on a hit, fetch on a miss.    *)
AccessLine(b, cmd, id) ==
  IF IsValid(b.llc)
  THEN LET act    == AccessNeedSync(cmd, b.llc)
           synced == IF act = "none" THEN b ELSE ProbeReq(b, act, id)
       IN  IF NeedPromote(cmd, synced.llc) THEN Fetch(synced, "fetch_write")
           ELSE IF NeedPromoteLocal(cmd, synced.llc)
                THEN [synced EXCEPT !.llc = ToModified(synced.llc, NoId)]
                ELSE synced
  ELSE Fetch(b, CmdForOuterAcquire(cmd))

(* acquire_resp for port p, and the rest of that port's acquire_req.       *)
AcquireReq(b, p, act) ==
  LET acc  == AccessLine(b, Acquire(act), Id(p))
      line == [b.up[p] EXCEPT !.data  = acc.llc.data,
                              !.outer = Granted(act, acc.llc, Id(p))]
  IN  [acc EXCEPT !.llc   = MetaAfterGrant(act, acc.llc, Id(p)),
                  !.up[p] = MetaAfterFetch(act, line),
                  !.ok    = @ /\ GrantAssertion(act) /\ FetchAssertion(act, line)]

(* writeback_resp of a release: write_line, which a cached port must hit.  *)
ReleaseLine(b, p) ==
  LET acc == AccessLine(b, Release, Id(p))
      hit == IsValid(b.llc) /\ ~NeedPromote(Release, b.llc)
  IN  [acc EXCEPT !.llc   = ToDirty([acc.llc EXCEPT !.data = b.up[p].data]),
                  !.up[p] = ToClean([b.up[p] EXCEPT !.outer = "I"]),
                  !.ok    = @ /\ (hit \/ Id(p) = NoId)]

(* Mistake: the L1Ds keep what the LLC evicts.                             *)
LLCEvictSilently(b) ==
  LET written == MemWriteback(b)
  IN  [written EXCEPT !.llc = ToInvalid(written.llc)]

(* evict() of an LLC line. *)
LLCEvict(b) ==
  LET synced  == ProbeReq(b, WritebackNeedSync, NoId)
      written == MemWriteback(synced)
  IN  [written EXCEPT !.llc = ToInvalid(written.llc)]

(* flush_line at the LLC.                                                  *)
LLCFlush(b, act) ==
  LET probe   == FlushNeedSync(act, b.llc)
      synced  == IF probe = "none" THEN b ELSE ProbeReq(b, probe, NoId)
      written == MemWriteback(synced)
  IN  IF IsValid(b.llc)
      THEN [written EXCEPT !.llc = MetaAfterFlush(act, written.llc)]
      ELSE b

(* prefetch_line at the LLC. *)
LLCPrefetch(b) == IF IsValid(b.llc) THEN b ELSE Fetch(b, "prefetch")

----------------------------------------------------------------------------
(* The L1s: CoreInterface. *)

(* writeback_need_writeback and writeback_req of an L1. *)
L1Writeback(b, p) == IF IsDirty(b.up[p]) THEN ReleaseLine(b, p) ELSE b

(* evict() of an L1 line: no inner caches to probe. *)
L1Evict(b, p) ==
  LET written == L1Writeback(b, p)
  IN  [written EXCEPT !.up[p] = ToInvalid(written.up[p]),
                      !.ok    = @ /\ ~IsDirty(written.up[p])]

(* access_line at an L1, for cmd. *)
L1Access(b, p, cmd) ==
  IF ~IsValid(b.up[p]) THEN AcquireReq(b, p, CmdForOuterAcquire(cmd))
  ELSE IF NeedPromote(cmd, b.up[p]) THEN AcquireReq(b, p, "fetch_write")
  ELSE IF NeedPromoteLocal(cmd, b.up[p])
       THEN [b EXCEPT !.up[p] = ToModified(b.up[p], NoId)]
       ELSE b

L1Read(b, p) == L1Access(b, p, Acquire("fetch_read"))

L1Write(b, p, v) ==
  LET acc == L1Access(b, p, Acquire("fetch_write"))
  IN  [acc EXCEPT !.up[p] = [ToDirty(acc.up[p]) EXCEPT !.data = v]]

(* flush_line: a cached L1 asks the LLC for a flush, be it called for a    *)
(* flush or for a write-back; an uncached one serves the request alone.    *)
L1Flush(b, p, act) ==
  IF p \in Core THEN LLCFlush(b, "evict")
  ELSE IF IsValid(b.up[p])
       THEN LET written == L1Writeback(b, p)
            IN  [written EXCEPT !.up[p] = MetaAfterFlush(act, written.up[p])]
       ELSE b

(* prefetch_line: likewise. *)
L1Prefetch(b, p) ==
  IF p \in Core THEN LLCPrefetch(b)
  ELSE IF IsValid(b.up[p]) THEN b ELSE AcquireReq(b, p, "prefetch")

----------------------------------------------------------------------------
(* Replacement. *)

(* A free way if there is one, else any block of the set.                  *)
Victims(set, ways) ==
  IF Cardinality(set) < ways
  THEN IF EmptyFirst THEN {NoBlock} ELSE {NoBlock} \cup set
  ELSE set

L1Victims(p, a) ==
  Victims({b \in Addr : L1Set[b] = L1Set[a] /\ IsValid(block[b].up[p])}, L1Ways)

LLCVictims(a) ==
  IF IsValid(block[a].llc) THEN {NoBlock}
  ELSE Victims({b \in Addr : LLCSet[b] = LLCSet[a] /\ IsValid(block[b].llc)}, LLCWays)

(* The victims of an access of p to a: that of its L1 and then, when the   *)
(* access goes on to the LLC, that of the LLC.                             *)
AccessVictims(p, a, cmd) ==
  IF ~IsValid(block[a].up[p]) THEN L1Victims(p, a) \X LLCVictims(a)
  ELSE IF NeedPromote(cmd, block[a].up[p]) THEN {NoBlock} \X LLCVictims(a)
  ELSE {<<NoBlock, NoBlock>>}

(* All blocks after the evictions of an access of port p.                  *)
Evicted(p, victims) ==
  [b \in Addr |->
     LET first == IF b = victims[1] THEN L1Evict(block[b], p) ELSE block[b]
     IN  IF b = victims[2] THEN LLCEvict(first) ELSE first]

----------------------------------------------------------------------------
(* The calls. *)

Init ==
  /\ \E content \in [Addr -> Val] :
       block = [a \in Addr |->
                 LET none == [st |-> "I", outer |-> "I", dirty |-> FALSE,
                              sharer |-> {}, data |-> content[a]]
                 IN  [up |-> [p \in Port |-> none], llc |-> none,
                      mem |-> content[a], ok |-> TRUE]]
  /\ resp = [op |-> "none"]

(* No assertion has failed. *)
Running == \A a \in Addr : block[a].ok

(* read().  The instruction caches are asked for instructions only.        *)
Read(p, a) ==
  /\ Running
  /\ p \in ICore => a \in Inst
  /\ \E victims \in AccessVictims(p, a, Acquire("fetch_read")) :
       block' = [Evicted(p, victims) EXCEPT ![a] = L1Read(@, p)]
  /\ resp' = [op |-> "read", port |-> p, addr |-> a, val |-> block'[a].up[p].data]

(* Mistake: the driver does not flush the instruction caches.              *)
InstKept(b) == b

(* The driver's rule for writing an instruction: "write by a data cache    *)
(* and flush before write", where the flush is of the instruction caches.  *)
InstFlushed(b) ==
  [b EXCEPT !.up = [p \in Port |->
     IF p \in ICore /\ IsValid(b.up[p]) THEN MetaAfterFlush("evict", b.up[p]) ELSE b.up[p]]]

(* write() of a data cache. *)
Write(p, a, v) ==
  /\ Running
  /\ \E victims \in AccessVictims(p, a, Acquire("fetch_write")) :
       block' = [Evicted(p, victims) EXCEPT
                   ![a] = L1Write(IF a \in Inst THEN InstFlushed(@) ELSE @, p, v)]
  /\ resp' = [op |-> "write", port |-> p, addr |-> a, val |-> v]

(* flush(), with act = "evict", and writeback().                           *)
Flush(p, a, act) ==
  /\ Running
  /\ block' = [block EXCEPT ![a] = L1Flush(@, p, act)]
  /\ resp' = [op |-> IF act = "evict" THEN "flush" ELSE "writeback", port |-> p, addr |-> a]

(* prefetch(). *)
Prefetch(p, a) ==
  /\ Running
  /\ \E victims \in (IF p \in Core THEN {NoBlock} \X LLCVictims(a)
                    ELSE AccessVictims(p, a, Acquire("prefetch"))) :
       block' = [Evicted(p, victims) EXCEPT ![a] = L1Prefetch(@, p)]
  /\ resp' = [op |-> "prefetch", port |-> p, addr |-> a]

(* flush_cache(): every block the L1 holds is flushed.                     *)
FlushCache(p) ==
  /\ Running
  /\ block' = [a \in Addr |-> IF IsValid(block[a].up[p])
                              THEN L1Flush(block[a], p, "evict") ELSE block[a]]
  /\ resp' = [op |-> "flush_cache", port |-> p]

Next ==
  \/ \E p \in Port, a \in Addr : Read(p, a)
  \/ \E p \in Core, a \in Addr, v \in Val : Write(p, a, v)
  \/ \E p \in Port, a \in Addr, act \in FlushAct : Flush(p, a, act)
  \/ \E p \in PrefetchPort, a \in Addr : Prefetch(p, a)
  \/ \E p \in Port : FlushCache(p)

Spec == Init /\ [][Next]_vars

----------------------------------------------------------------------------
(* Properties. *)

(* Type correctness of the blocks and of the last response.                *)
TypeOK ==
  /\ block \in [Addr -> Block]
  /\ resp \in {[op |-> "none"]}
          \cup [op : {"read", "write"}, port : Port, addr : Addr, val : Val]
          \cup [op : {"flush", "writeback", "prefetch"}, port : Port, addr : Addr]
          \cup [op : {"flush_cache"}, port : Port]

(* Single writer or multiple readers: an L1D that may write a block is the *)
(* only L1D that holds it, and the LLC then knows that its own copy may be *)
(* stale (its state is not shared, the state on which access_need_sync,    *)
(* probe_need_sync and flush_need_sync skip the probe), even when an       *)
(* exclusive copy was promoted without telling it.                         *)
SingleWriter ==
  \A a \in Addr, c \in Core :
    IsValid(block[a].up[c]) /\ AllowWrite(block[a].up[c]) =>
      /\ ~IsShared(block[a].llc)
      /\ \A d \in Core \ {c} : ~IsValid(block[a].up[d])

(* Inclusion, and a directory that never forgets a holder: every block in  *)
(* an L1D is in the LLC, and a directory has the L1D in its bit map, though *)
(* clean evictions are silent and an uncached port joins without a bit.    *)
InclusionAndDirectory ==
  \A a \in Addr, c \in Core :
    IsValid(block[a].up[c]) =>
      /\ IsValid(block[a].llc)
      /\ Directory => c \in block[a].llc.sharer

(* The content of block b as a program sees it: that of a dirty L1D, else  *)
(* that of the LLC, else that of the memory.                               *)
Latest(b) ==
  LET dirty == {c \in Core : IsDirty(b.up[c])}
  IN  IF dirty # {} THEN b.up[CHOOSE c \in dirty : TRUE].data
      ELSE IF IsValid(b.llc) THEN b.llc.data
      ELSE b.mem

(* No stale copy: every valid L1 copy, those of the instruction caches too *)
(* under the driver's flush rule, has the latest content, and a clean LLC  *)
(* copy is what the memory holds.                                          *)
CopiesAgree ==
  \A a \in Addr :
    /\ \A p \in Port : IsValid(block[a].up[p]) => block[a].up[p].data = Latest(block[a])
    /\ IsValid(block[a].llc) /\ ~IsDirty(block[a].llc) => block[a].llc.data = block[a].mem

(* No assert() of the engine or of the policies fails: a release hits the  *)
(* LLC, a fetched permission is the requested one, an evicted line is      *)
(* clean, and only reads and writes are granted.                           *)
AssertionsHold == \A a \in Addr : block[a].ok

(* "flush a cache block from the whole cache hierarchy" (coherence.hpp):   *)
(* when flush() of a data port returns, neither the LLC nor an L1D has it, *)
(* for the probe that empties the L1Ds is never skipped.                   *)
FlushedEverywhere ==
  resp.op = "flush" /\ resp.port \in Core =>
    /\ ~IsValid(block[resp.addr].llc)
    /\ \A c \in Core : ~IsValid(block[resp.addr].up[c])

(* The hierarchy implements one memory. *)
Memory == INSTANCE CoherentMemory WITH
            Coherent <- Core, Uncached <- ICore,
            store    <- [a \in Addr |-> Latest(block[a])],
            backing  <- [a \in Addr |-> block[a].mem]

(* Every read returns the last value written, by whichever port; flush()   *)
(* and writeback() of a data port are durable; and whatever evictions and  *)
(* probes do, the memory receives nothing but current contents.            *)
ImplementsMemory == Memory!Spec

----------------------------------------------------------------------------
(* The inductive invariant: what has to hold of one block for the next     *)
(* call to be correct, with v the content of the block.                    *)

(* A line that is not valid carries nothing, and only a writable line is   *)
(* dirty.                                                                  *)
LineInv(m) ==
  /\ ~IsValid(m) => m.outer = "I" /\ ~m.dirty
  /\ m.dirty => AllowWrite(m)

(* The instruction caches are never dirty; MI caches can always write.     *)
UpperInv(b) ==
  /\ \A p \in Port : LineInv(b.up[p])
  /\ \A i \in ICore : ~b.up[i].dirty
  /\ Proto = "MI" => \A c \in Core : IsValid(b.up[c]) => AllowWrite(b.up[c])

(* The memory always grants write permission to the LLC.                   *)
LowerInv(b) ==
  /\ IsValid(b.llc) => b.llc.outer = "M"
  /\ ~IsValid(b.llc) => ~b.llc.dirty

Covered(b) ==
  \A c \in Core : IsValid(b.up[c]) =>
    /\ IsValid(b.llc)
    /\ Directory => c \in b.llc.sharer

OneWriter(b) ==
  \A c \in Core : IsValid(b.up[c]) /\ AllowWrite(b.up[c]) =>
    /\ ~IsShared(b.llc)
    /\ \A d \in Core \ {c} : ~IsValid(b.up[d])

NoDirty(b) == \A c \in Core : ~b.up[c].dirty

Content(b, v) ==
  /\ \A p \in Port : IsValid(b.up[p]) => b.up[p].data = v
  /\ NoDirty(b) => IF IsValid(b.llc) THEN b.llc.data = v ELSE b.mem = v
  /\ IsValid(b.llc) /\ ~b.llc.dirty => b.llc.data = b.mem

Coherent(b, v) ==
  /\ b \in Block
  /\ b.ok
  /\ UpperInv(b)
  /\ LowerInv(b)
  /\ Covered(b)
  /\ OneWriter(b)
  /\ Content(b, v)

(* Every block is coherent, and instructions alone are in the L1Is: what   *)
(* all the invariants above follow from, and each call preserves.          *)
IInv ==
  /\ TypeOK
  /\ \A a \in Addr : Coherent(block[a], Latest(block[a]))
  /\ \A a \in Addr \ Inst, i \in ICore : ~IsValid(block[a].up[i])

(* The prefetches the policies support (see AssertionsHold): those that    *)
(* do not reach meta_after_grant, and none in an MI hierarchy.             *)
PrefetchSupported ==
  /\ PrefetchPort \subseteq Core
  /\ Proto = "MI" => PrefetchPort = {}
============================================================================
