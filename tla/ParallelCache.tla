---------------------------- MODULE ParallelCache ----------------------------
(***************************************************************************)
(* The inclusive two-level hierarchy in the multi-threaded build           *)
(* (EnMT = true, regression/multi-l2-msi.cpp): one thread per core, a data *)
(* cache (L1) for each, above one shared cache (LLC) and the memory.       *)
(*                                                                         *)
(* A thread runs its whole access: it looks the block up in its L1, goes   *)
(* on to the LLC, and there probes the other L1s itself.  What keeps the   *)
(* threads apart are the state words of the cache sets (SetState; here     *)
(* they are the lock with priorities that it implements) and the lock of   *)
(* each cache line.  A step goes from one point at which the code may have *)
(* to wait, or may find that others have been there, to the next.          *)
(*                                                                         *)
(* The content of a copy is modelled by whether it is that of the last     *)
(* write to the block: data is TRUE for a copy that is up to date.         *)
(***************************************************************************)
EXTENDS CohPolicy, FiniteSets

CONSTANTS
  Core,       \* the coherence ids of the L1s, and the threads that use them
  LLC,        \* the shared cache
  Addr,       \* cache blocks
  Set,        \* Set[c][a]: the set of cache c to which block a maps
  Ways,       \* Ways[c]: the ways of a set of cache c
  Call,       \* Call[t]: the calls <<op, block>> that thread t makes
  MSHR,       \* copy buffers of the LLC
  None        \* no block, no line, nobody

Cache == Core \cup {LLC}

ASSUME ParallelAssumption ==
  /\ Core \subseteq Nat
  /\ LLC \notin Core
  /\ Call \in [Core -> SUBSET ({"read", "write", "flush", "prefetch"} \X Addr)]
  /\ MSHR \in Nat \ {0}
  /\ None \notin Core \cup Addr

(* The entries of an inner port's table of pending finishes. *)
TableSize == 16

(* A finish is taken to undo its own acquire, which PendingXact shows when *)
(* the table has an entry for each thread and no two threads share a key:  *)
(* the L1s have ids of their own, but a prefetch is finished with the id   *)
(* -1, so a block must not be prefetched by two threads.                   *)
ASSUME FinishAssumption ==
  /\ IsFiniteSet(Core) /\ Cardinality(Core) <= TableSize
  /\ \A t, u \in Core : t # u => Call[t] \cap Call[u] \cap ({"prefetch"} \X Addr) = {}

(* In MI a release would probe the other L1s first. *)
ASSUME ReleaseAssumption == Proto \in {"MSI", "MESI"}

(* A line is a way of a set of a cache. *)
LinesOf(c, a) == {<<c, Set[c][a], w>> : w \in Ways[c]}
Line          == UNION {LinesOf(c, a) : c \in Cache, a \in Addr}
SetOf(c, a)   == <<c, Set[c][a]>>
CacheSet      == {SetOf(c, a) : c \in Cache, a \in Addr}

VARIABLES
  meta,     \* meta[l]: what line l holds
  lock,     \* lock[l]: the thread that has locked line l, or None
  word,     \* word[s]: the priorities that have reserved set s
  mem,      \* mem[a]: whether the memory is up to date
  th        \* th[t]: where thread t is, and the local variables of its calls

vars == <<meta, lock, word, mem, th>>

Meta == [addr : Addr \cup {None}, st : State, outer : State, dirty : BOOLEAN,
         sharer : SUBSET Core, data : BOOLEAN]

Empty == [addr |-> None, st |-> "I", outer |-> "I", dirty |-> FALSE,
          sharer |-> {}, data |-> FALSE]

(* XactPrio. *)
acquire == 1
probe   == 16
release == 4096

Blocked(p, s)   == \E q \in word[s] : p <= q
Preempted(p, s) == \E q \in word[s] : p < q

(* match(), and the lines that hit() finds.                                *)
Match(l, a) == IsValid(meta[l]) /\ meta[l].addr = a
Hits(c, a)  == {l \in LinesOf(c, a) : Match(l, a)}

(* A way that replace() takes: an empty one, if there is one.              *)
Victims(c, a) ==
  LET empty == {l \in LinesOf(c, a) : ~IsValid(meta[l])}
  IN  IF empty # {} THEN empty ELSE LinesOf(c, a)

Free(l) == lock[l] = None

(* The cache at which a thread is: its L1, or the LLC in the nested call.  *)
At(t)   == IF th[t].deep THEN LLC ELSE t
Mine(t) == IF th[t].deep THEN th[t].out ELSE th[t].line
Here(t) == SetOf(At(t), th[t].addr)

Idle == [pc |-> "idle", op |-> None, addr |-> None, deep |-> FALSE, act |-> None,
         line |-> None, out |-> None, why |-> None, todo |-> {}, in |-> None, data |-> FALSE]

Goto(t, label) == th' = [th EXCEPT ![t].pc = label]

Init ==
  /\ meta = [l \in Line |-> Empty]
  /\ lock = [l \in Line |-> None]
  /\ word = [s \in CacheSet |-> {}]
  /\ mem  = [a \in Addr |-> TRUE]
  /\ th   = [t \in Core |-> Idle]

(* A call: read() and write() look into the L1; flush() and prefetch() of  *)
(* a coherent cache are passed on to the LLC.                              *)
Start(t, op, a) ==
  /\ th[t] = Idle
  /\ th' = [th EXCEPT ![t] = [Idle EXCEPT !.pc = "hit", !.op = op, !.addr = a,
                                          !.deep = op \in {"flush", "prefetch"}]]
  /\ UNCHANGED <<meta, lock, word, mem>>

----------------------------------------------------------------------------
(* check_hit_or_replace(), in the L1 and in the LLC. *)

(* hit() reserves the set and keeps it if the block is found.  A prefetch  *)
(* only looks.                                                             *)
Hit(t) ==
  LET found == Hits(At(t), th[t].addr)
  IN  /\ th[t].pc = "hit"
      /\ IF th[t].op = "prefetch"
         THEN /\ th' = [th EXCEPT ![t] = IF found = {} THEN [@ EXCEPT !.pc = "replace"] ELSE Idle]
              /\ UNCHANGED word
         ELSE /\ ~Blocked(acquire, Here(t))
              /\ \/ /\ found = {}
                    /\ th' = [th EXCEPT ![t] = IF th[t].op = "flush" THEN Idle
                                               ELSE [@ EXCEPT !.pc = "replace"]]
                    /\ UNCHANGED word
                 \/ \E l \in found :
                      /\ word' = [word EXCEPT ![Here(t)] = @ \cup {acquire}]
                      /\ th' = [th EXCEPT ![t] = IF th[t].deep
                                  THEN [@ EXCEPT !.pc = "lock", !.out = l]
                                  ELSE [@ EXCEPT !.pc = "lock", !.line = l]]
      /\ UNCHANGED <<meta, lock, mem>>

(* Mistake: the line is not looked at again after it has been locked.       *)
LockUnchecked(t) ==
  /\ th[t].pc = "lock"
  /\ Free(Mine(t))
  /\ lock' = [lock EXCEPT ![Mine(t)] = t]
  /\ Goto(t, "access")
  /\ UNCHANGED <<meta, word, mem>>

(* Mistake: after others came first the same line is tried again.          *)
LockSpinning(t) ==
  /\ th[t].pc = "lock"
  /\ Free(Mine(t))
  /\ IF Preempted(acquire, Here(t)) \/ ~Match(Mine(t), th[t].addr)
     THEN UNCHANGED <<lock, th>>
     ELSE lock' = [lock EXCEPT ![Mine(t)] = t] /\ Goto(t, "access")
  /\ UNCHANGED <<meta, word, mem>>

(* The line is locked, and then must still hold the block, in a set that   *)
(* nobody with a higher priority has entered; else all is done again.      *)
Lock(t) ==
  /\ th[t].pc = "lock"
  /\ Free(Mine(t))
  /\ IF Preempted(acquire, Here(t)) \/ ~Match(Mine(t), th[t].addr)
     THEN /\ word' = [word EXCEPT ![Here(t)] = @ \ {acquire}]
          /\ Goto(t, "hit")
          /\ UNCHANGED lock
     ELSE /\ lock' = [lock EXCEPT ![Mine(t)] = t]
          /\ Goto(t, "access")
          /\ UNCHANGED word
  /\ UNCHANGED <<meta, mem>>

Took(t, l) ==
  /\ word' = [word EXCEPT ![Here(t)] = @ \cup {acquire}]
  /\ th' = [th EXCEPT ![t] = IF th[t].deep THEN [@ EXCEPT !.pc = "victim", !.out = l]
                                         ELSE [@ EXCEPT !.pc = "victim", !.line = l]]

(* Mistake: no second look, for the miss of hit() is trusted.              *)
ReplaceTrusting(t) ==
  /\ th[t].pc = "replace"
  /\ ~Blocked(acquire, Here(t))
  /\ \E l \in Victims(At(t), th[t].addr) : Took(t, l)
  /\ UNCHANGED <<meta, lock, mem>>

(* Mistake: the set is entered whoever is in it.                           *)
ReplaceUnguarded(t) ==
  /\ th[t].pc = "replace"
  /\ IF Hits(At(t), th[t].addr) # {}
     THEN Goto(t, "hit") /\ UNCHANGED word
     ELSE \E l \in Victims(At(t), th[t].addr) : Took(t, l)
  /\ UNCHANGED <<meta, lock, mem>>

(* replace() reserves the set and looks again whether the block is there.  *)
Replace(t) ==
  /\ th[t].pc = "replace"
  /\ ~Blocked(acquire, Here(t))
  /\ IF Hits(At(t), th[t].addr) # {}
     THEN Goto(t, "hit") /\ UNCHANGED word
     ELSE \E l \in Victims(At(t), th[t].addr) : Took(t, l)
  /\ UNCHANGED <<meta, lock, mem>>

(* The victim is locked when no higher priority is in the set: the loop    *)
(* over check_mt_state() and wait_mt_state().                              *)
Victim(t) ==
  /\ th[t].pc = "victim"
  /\ Free(Mine(t))
  /\ ~Preempted(acquire, Here(t))
  /\ lock' = [lock EXCEPT ![Mine(t)] = t]
  /\ Goto(t, "evict")
  /\ UNCHANGED <<meta, word, mem>>

----------------------------------------------------------------------------
(* The L1. *)

Cmd(t) == Acquire(IF th[t].op = "write" THEN "fetch_write" ELSE "fetch_read")

(* The access is served with content m of the line: a write makes all      *)
(* other copies stale.                                                     *)
Serve(t, m) ==
  LET a == th[t].addr
      written == [ToDirty(m) EXCEPT !.data = TRUE]
  IN  IF th[t].op = "write"
      THEN /\ meta' = [l \in Line |-> IF l = th[t].line THEN written
                                      ELSE IF meta[l].addr = a THEN [meta[l] EXCEPT !.data = FALSE]
                                      ELSE meta[l]]
           /\ mem' = [mem EXCEPT ![a] = FALSE]
      ELSE /\ meta' = [meta EXCEPT ![th[t].line] = m]
           /\ UNCHANGED mem

(* What other threads carry for the block is made stale, too.              *)
Carried(t, next) ==
  [u \in Core |-> IF u = t THEN next
                  ELSE IF th[t].op = "write" /\ th[u].addr = th[t].addr
                       THEN [th[u] EXCEPT !.data = FALSE] ELSE th[u]]

(* acquire_req() copies the metadata and unlocks the line for the time of  *)
(* the nested call.                                                        *)
AskLLC(t, act) ==
  /\ lock' = [lock EXCEPT ![th[t].line] = None]
  /\ th' = [th EXCEPT ![t].pc = "hit", ![t].deep = TRUE, ![t].act = act]

(* A hit is served, or its permission promoted. *)
Access(t) ==
  LET l == th[t].line
  IN  /\ th[t].pc = "access" /\ ~th[t].deep
      /\ IF NeedPromote(Cmd(t), meta[l])
         THEN AskLLC(t, "fetch_write") /\ UNCHANGED <<meta, word, mem>>
         ELSE /\ Serve(t, IF NeedPromoteLocal(Cmd(t), meta[l])
                          THEN ToModified(meta[l], NoId) ELSE meta[l])
              /\ lock' = [lock EXCEPT ![l] = None]
              /\ word' = [word EXCEPT ![Here(t)] = @ \ {acquire}]
              /\ th' = Carried(t, Idle)

(* evict(): a clean victim is dropped, a dirty one released.               *)
Evict(t) ==
  LET l == th[t].line
  IN  /\ th[t].pc = "evict" /\ ~th[t].deep
      /\ IF IsDirty(meta[l])
         THEN Goto(t, "release") /\ UNCHANGED <<meta, lock>>
         ELSE /\ meta' = [meta EXCEPT ![l] = Empty]
              /\ AskLLC(t, CmdForOuterAcquire(Cmd(t)))
      /\ UNCHANGED <<word, mem>>

(* write_line() of the LLC: hit(), which the assertion says it does.       *)
ReleaseReq(t) ==
  LET a == meta[th[t].line].addr
  IN  /\ th[t].pc = "release"
      /\ ~Blocked(release, SetOf(LLC, a))
      /\ \E o \in Hits(LLC, a) : th' = [th EXCEPT ![t].pc = "write", ![t].out = o]
      /\ word' = [word EXCEPT ![SetOf(LLC, a)] = @ \cup {release}]
      /\ UNCHANGED <<meta, lock, mem>>

(* Mistake: the released content is not marked as dirty in the LLC.        *)
ReleaseRespClean(t) ==
  LET l == th[t].line
      o == th[t].out
      a == meta[l].addr
  IN  /\ th[t].pc = "write"
      /\ Free(o)
      /\ word' = [word EXCEPT ![SetOf(LLC, a)] = @ \ {release}]
      /\ IF Match(o, a)
         THEN /\ meta' = [meta EXCEPT ![l] = Empty, ![o].data = meta[l].data]
              /\ AskLLC(t, CmdForOuterAcquire(Cmd(t)))
         ELSE Goto(t, "release") /\ UNCHANGED <<meta, lock>>
      /\ UNCHANGED mem

(* With the LLC's line locked the content is written and both lines are    *)
(* given free; or else the lookup is done again.  A release probes nobody. *)
ReleaseResp(t) ==
  LET l == th[t].line
      o == th[t].out
      a == meta[l].addr
  IN  /\ th[t].pc = "write"
      /\ Free(o)
      /\ word' = [word EXCEPT ![SetOf(LLC, a)] = @ \ {release}]
      /\ IF Match(o, a)
         THEN /\ meta' = [meta EXCEPT
                            ![l] = Empty,
                            ![o] = ToDirty([ToModified(@, NoId) EXCEPT !.data = meta[l].data])]
              /\ AskLLC(t, CmdForOuterAcquire(Cmd(t)))
         ELSE Goto(t, "release") /\ UNCHANGED <<meta, lock>>
      /\ UNCHANGED mem

(* The rest of acquire_req() and of the call: the line is locked again and *)
(* filled, the access is served, and line and set are given free.          *)
FillL1(t) ==
  LET l == th[t].line
      m == [Empty EXCEPT !.addr = th[t].addr, !.data = th[t].data,
                         !.outer = Granted(th[t].act, meta[th[t].out], t)]
  IN  /\ th[t].pc = "granted"
      /\ Free(l)
      /\ Serve(t, MetaAfterFetch(th[t].act, m))
      /\ word' = [word EXCEPT ![SetOf(t, th[t].addr)] = @ \ {acquire}]
      /\ th' = Carried(t, [th[t] EXCEPT !.pc = "finish"])
      /\ UNCHANGED lock

(* finish_resp(), for finish_req() of the L1 or at the end of a prefetch:  *)
(* the LLC gives the line and the set free, which are those of the thread  *)
(* by FinishAssumption.                                                    *)
Finish(t) ==
  /\ th[t].pc = "finish"
  /\ lock' = [lock EXCEPT ![th[t].out] = None]
  /\ word' = [word EXCEPT ![Here(t)] = @ \ {acquire}]
  /\ th' = [th EXCEPT ![t] = Idle]
  /\ UNCHANGED <<meta, mem>>

----------------------------------------------------------------------------
(* The LLC. *)

(* Before a probe the line is unlocked; afterwards "why" says what it was  *)
(* for.                                                                    *)
ProbeReq(t, act, id, why) ==
  /\ lock' = [lock EXCEPT ![th[t].out] = None]
  /\ th' = [th EXCEPT ![t].pc = "probe", ![t].why = <<why, act>>,
                      ![t].todo = {c \in Core : ProbeNeedProbe(meta[th[t].out], c, id)}]

(* A hit: other L1s are probed if need be. *)
AccessLLC(t) ==
  LET o   == th[t].out
      act == IF th[t].op = "flush" THEN FlushNeedSync("evict", meta[o])
             ELSE AccessNeedSync(Acquire(th[t].act), meta[o])
  IN  /\ th[t].pc = "access" /\ th[t].deep
      /\ IF act = "none"
         THEN Goto(t, "grant") /\ UNCHANGED lock
         ELSE IF th[t].op = "flush" THEN ProbeReq(t, act, NoId, "writeback")
         ELSE ProbeReq(t, act, t, "grant")
      /\ UNCHANGED <<meta, word, mem>>

(* A miss: the victim is evicted, from the L1s first.                      *)
EvictLLC(t) ==
  /\ th[t].pc = "evict" /\ th[t].deep
  /\ IF IsValid(meta[th[t].out])
     THEN ProbeReq(t, WritebackNeedSync, NoId, "writeback")
     ELSE Goto(t, "copy") /\ UNCHANGED lock
  /\ UNCHANGED <<meta, word, mem>>

(* The L1s are probed in the order of their ids.                           *)
Target(t) == CHOOSE c \in th[t].todo : \A d \in th[t].todo : c <= d

(* probe_resp(): hit() at the L1. *)
Probe(t) ==
  LET c == Target(t)
      a == meta[th[t].out].addr
  IN  /\ th[t].pc = "probe" /\ th[t].todo # {}
      /\ ~Blocked(probe, SetOf(c, a))
      /\ \/ /\ Hits(c, a) = {}
            /\ Goto(t, "probe_miss")
            /\ UNCHANGED word
         \/ \E l \in Hits(c, a) :
              /\ word' = [word EXCEPT ![SetOf(c, a)] = @ \cup {probe}]
              /\ th' = [th EXCEPT ![t].pc = "probe_lock", ![t].in = l]
      /\ UNCHANGED <<meta, lock, mem>>

ProbeLock(t) ==
  LET l == th[t].in
      a == meta[th[t].out].addr
      s == SetOf(Target(t), a)
  IN  /\ th[t].pc = "probe_lock"
      /\ Free(l)
      /\ IF Preempted(probe, s) \/ ~Match(l, a)
         THEN /\ word' = [word EXCEPT ![s] = @ \ {probe}]
              /\ th' = [th EXCEPT ![t].pc = "probe", ![t].in = None]
              /\ UNCHANGED lock
         ELSE /\ lock' = [lock EXCEPT ![l] = t]
              /\ Goto(t, "probe_hit")
              /\ UNCHANGED word
      /\ UNCHANGED <<meta, mem>>

Probed(t) == th' = [th EXCEPT ![t].pc = "probe", ![t].in = None, ![t].todo = @ \ {Target(t)}]

(* With both lines locked the LLC's takes over dirty content, and the L1   *)
(* loses the block or the permission.                                      *)
ProbeHit(t) ==
  LET l == th[t].in
      o == th[t].out
      m == MetaAfterProbe(th[t].why[2], meta[l])
  IN  /\ th[t].pc = "probe_hit"
      /\ Free(o)
      /\ meta' = [meta EXCEPT
                    ![l] = IF IsValid(m) THEN m ELSE Empty,
                    ![o] = IF IsDirty(meta[l])
                           THEN ToDirty([@ EXCEPT !.data = meta[l].data]) ELSE @]
      /\ lock' = [lock EXCEPT ![l] = None]
      /\ word' = [word EXCEPT ![SetOf(Target(t), meta[o].addr)] = @ \ {probe}]
      /\ Probed(t)
      /\ UNCHANGED mem

(* A miss locks the LLC's line, too, but changes nothing in it.            *)
ProbeMiss(t) ==
  /\ th[t].pc = "probe_miss"
  /\ Free(th[t].out)
  /\ Probed(t)
  /\ UNCHANGED <<meta, lock, word, mem>>

(* After the probes the line is locked again.                              *)
Synced(t) ==
  /\ th[t].pc = "probe" /\ th[t].todo = {}
  /\ Free(th[t].out)
  /\ lock' = [lock EXCEPT ![th[t].out] = t]
  /\ th' = [th EXCEPT ![t].pc = th[t].why[1], ![t].why = None]
  /\ UNCHANGED <<meta, word, mem>>

(* The rest of evict() and of flush_line(): dirty content is written to    *)
(* the memory, and the line dropped.                                       *)
WriteBack(t) ==
  LET o == th[t].out
  IN  /\ th[t].pc = "writeback"
      /\ mem' = [mem EXCEPT ![meta[o].addr] = IF IsDirty(meta[o]) THEN meta[o].data ELSE @]
      /\ meta' = [meta EXCEPT ![o] = Empty]
      /\ IF th[t].op = "flush"
         THEN /\ lock' = [lock EXCEPT ![o] = None]
              /\ word' = [word EXCEPT ![Here(t)] = @ \ {acquire}]
              /\ th' = [th EXCEPT ![t] = Idle]
         ELSE Goto(t, "copy") /\ UNCHANGED <<lock, word>>

(* The threads that have copy buffers of the LLC.  A thread takes one for  *)
(* the metadata and then one for the content; the pools have the same      *)
(* size, so whoever got the first finds the second.                        *)
Buffered(t) == th[t].pc \in {"fetch", "fill"}

(* acquire_req() of the LLC: the line is copied to a buffer, which is      *)
(* waited for with the line locked, and unlocked.                          *)
CopyLine(t) ==
  /\ th[t].pc = "copy"
  /\ Cardinality({u \in Core : Buffered(u)}) < MSHR
  /\ Goto(t, "fetch")
  /\ lock' = [lock EXCEPT ![th[t].out] = None]
  /\ UNCHANGED <<meta, word, mem>>

(* acquire_resp() of the memory, while the line is unlocked ...            *)
Fetch(t) ==
  /\ th[t].pc = "fetch"
  /\ th' = [th EXCEPT ![t].pc = "fill", ![t].data = mem[th[t].addr]]
  /\ UNCHANGED <<meta, lock, word, mem>>

(* ... and the line is locked again and filled, and the buffers returned.  *)
(* What a prefetch has fetched is granted to nobody, and finished at once. *)
Fill(t) ==
  LET o   == th[t].out
      act == IF th[t].op = "prefetch" THEN "prefetch" ELSE CmdForOuterAcquire(Acquire(th[t].act))
      m   == [Empty EXCEPT !.addr = th[t].addr, !.data = th[t].data, !.outer = "M"]
  IN  /\ th[t].pc = "fill"
      /\ Free(o)
      /\ meta' = [meta EXCEPT ![o] = MetaAfterFetch(act, m)]
      /\ lock' = [lock EXCEPT ![o] = t]
      /\ th' = [th EXCEPT ![t].pc = IF th[t].op = "prefetch" THEN "finish" ELSE "grant",
                          ![t].data = FALSE]
      /\ UNCHANGED <<word, mem>>

(* Mistake: line and set are given free before the L1 has its copy.        *)
GrantEarly(t) ==
  LET o == th[t].out
      m == IF NeedPromoteLocal(Acquire(th[t].act), meta[o])
           THEN ToModified(meta[o], NoId) ELSE meta[o]
  IN  /\ th[t].pc = "grant"
      /\ meta' = [meta EXCEPT ![o] = MetaAfterGrant(th[t].act, m, t)]
      /\ lock' = [lock EXCEPT ![o] = None]
      /\ word' = [word EXCEPT ![Here(t)] = @ \ {acquire}]
      /\ th' = [th EXCEPT ![t].pc = "granted", ![t].data = m.data]
      /\ UNCHANGED mem

(* acquire_resp() of the LLC: the line stays locked and the set reserved   *)
(* until the finish.                                                       *)
Grant(t) ==
  LET o == th[t].out
      m == IF NeedPromoteLocal(Acquire(th[t].act), meta[o])
           THEN ToModified(meta[o], NoId) ELSE meta[o]
  IN  /\ th[t].pc = "grant"
      /\ meta' = [meta EXCEPT ![o] = MetaAfterGrant(th[t].act, m, t)]
      /\ th' = [th EXCEPT ![t].pc = "granted", ![t].data = m.data]
      /\ UNCHANGED <<lock, word, mem>>

----------------------------------------------------------------------------
Step(t) ==
  \/ Hit(t) \/ Lock(t) \/ Replace(t) \/ Victim(t)
  \/ Access(t) \/ Evict(t) \/ ReleaseReq(t) \/ ReleaseResp(t) \/ FillL1(t) \/ Finish(t)
  \/ AccessLLC(t) \/ EvictLLC(t) \/ WriteBack(t) \/ CopyLine(t) \/ Fetch(t) \/ Fill(t) \/ Grant(t)
  \/ Probe(t) \/ ProbeLock(t) \/ ProbeHit(t) \/ ProbeMiss(t) \/ Synced(t)

Next == \E t \in Core : Step(t) \/ \E call \in Call[t] : Start(t, call[1], call[2])

Spec == Init /\ [][Next]_vars /\ \A t \in Core : WF_vars(Step(t))

----------------------------------------------------------------------------
(* Properties. *)

(* Single writer or multiple readers between threads: while an L1 may      *)
(* write a block no other L1 holds it, though the permission is granted by *)
(* one thread, taken away by another, and filled in after the LLC's line   *)
(* was last looked at.                                                     *)
SingleWriter ==
  \A c, d \in Core, a \in Addr :
    c # d => \A l \in Hits(c, a), m \in Hits(d, a) :
               ~AllowWrite(meta[l]) /\ ~AllowWrite(meta[m])

(* What a read can return: every valid copy in an L1 is that of the last   *)
(* write, even one that was granted before a probe and filled after it;    *)
(* and a line is served only while it holds the block, though others may   *)
(* probe or replace it between the lookup and the lock.                    *)
CopiesLatest ==
  /\ \A c \in Core, a \in Addr : \A l \in Hits(c, a) : meta[l].data
  /\ \A t \in Core : th[t].pc = "access" => Match(Mine(t), th[t].addr)

(* The content of the last write is never lost on its way down: some valid *)
(* line or the memory has it at every moment.                              *)
NothingLost ==
  \A a \in Addr : mem[a] \/ \E l \in Line : Match(l, a) /\ meta[l].data

(* A block is never inserted twice by two threads that both missed.        *)
OnceInSet == \A c \in Cache, a \in Addr : Cardinality(Hits(c, a)) <= 1

(* The blocks for which a thread is in the memory model, or goes there as  *)
(* soon as it gets a copy buffer.                                          *)
InMemory(t) ==
  IF th[t].pc \in {"copy", "fetch"} THEN {th[t].addr}
  ELSE IF th[t].pc = "writeback" /\ IsDirty(meta[th[t].out]) THEN {meta[th[t].out].addr}
  ELSE {}

(* "Two parallel memory accesses operating on the same memory location!"   *)
(* (memory.hpp) never happens.                                             *)
MemoryAlone == \A t, u \in Core : t # u => InMemory(t) \cap InMemory(u) = {}

(* The priorities with which thread t is in set s.                         *)
Looking  == {"hit", "replace"}
Probing  == {"probe_lock", "probe_hit"}
Reserved(t, s) ==
  LET r == th[t]
      inL1  == r.op \in {"read", "write"} /\ s = SetOf(t, r.addr)
                 /\ IF r.deep THEN r.pc # "finish" ELSE r.pc \notin Looking
      inLLC == r.deep /\ s = SetOf(LLC, r.addr) /\ r.pc \notin Looking
  IN  (IF r # Idle /\ (inL1 \/ inLLC) THEN {acquire} ELSE {})
      \cup (IF r.pc \in Probing /\ s = SetOf(Target(t), meta[r.out].addr) THEN {probe} ELSE {})
      \cup (IF r.pc = "write" /\ s = SetOf(LLC, meta[r.line].addr) THEN {release} ELSE {})

Held(s) == [t \in Core |-> Reserved(t, s)]

(* The reservations of each set follow the lock with priorities: threads   *)
(* use the set words as SetState assumes, and may rely on PriorityLock,    *)
(* which SetState implements.                                              *)
LockOf(s) == INSTANCE PriorityLock WITH
               Thread <- Core, Prio <- {acquire, probe, release}, held <- Held(s)
ImplementsPriorityLocks ==
  /\ \A s \in CacheSet : LockOf(s)!Init
  /\ [][\A s \in CacheSet : UNCHANGED Held(s) \/ LockOf(s)!Next]_vars

(* A call ends unless other threads make calls for ever: nobody waits for  *)
(* a lock or a set that is never given free, and yielding to a probe and   *)
(* looking again go round in circles only as long as others come by.       *)
Called(t) == th[t].pc = "idle" /\ th'[t].pc # "idle"
Progress ==
  \A t \in Core :
    []<>(th[t] = Idle) \/ []<><<\E u \in Core \ {t} : Called(u)>>_th
=============================================================================
