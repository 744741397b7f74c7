# A verification development for FlexiCAS

FlexiCAS is a C++ header library of cache models: a hierarchy of caches with a
coherence protocol, replacement policies, randomised and exclusive variants,
driven through `CoreInterface` and used by simulators.  This directory holds
TLA+ modules of its core, TLC configurations that check them on small
instances, and theorems that TLAPS checks for all instances.

Run everything here: `tlc -config X.cfg MCModule`, `tlapm XProofs.tla`.
`PROJECT.json` lists the runs, the source lines of every definition, the
hazards the properties are aimed at, and the findings.

## 1. The system

| Component | State | Operations | Talks to |
|---|---|---|---|
| `CohPolicy*` (`coh_policy.hpp`, `mi/msi/mesi.hpp`) | none | what to probe, fetch, promote, grant, and how the metadata changes | called by the ports |
| Metadata (`metadata.hpp`) | state, dirty, outer state, sharers, lock | `to_*`, `sync`, `is_*`, `lock` | line of a cache |
| `InnerCohPort` (`coherence.hpp`) | list of inner caches, `PendingXact` | `acquire_resp`, `writeback_resp`, `evict`, `flush_line`, `prefetch_line`, `probe_req`, `finish_resp` | outer port of the same cache, outer ports of the inner caches, cache array |
| `OuterCohPort` | coherence id | `acquire_req`, `writeback_req`, `probe_resp`, `finish_req` | inner port of the outer cache |
| `CoreInterface` | none | `read`, `write`, `flush`, `writeback`, `prefetch`, `flush_cache` | the L1 it is part of |
| `SimpleMemoryModel` (`memory.hpp`) | content per block | `acquire_resp`, `writeback_resp` | outermost cache |
| Exclusive ports (`exclusive.hpp`) | extended directory ways, copy buffers | the same calls, with blocks that move | as above |
| `CacheArrayNorm`, `CacheSkewed` (`cache.hpp`) | ways, `cache_set_state` words, buffer pools | `hit`, `replace`, `set/check/wait/reset_mt_state`, copy buffers | replacer, ports |
| Replacers (`replace.hpp`) | `used_map`, `free_map`, `alloc_map` | `replace`, `access`, `invalid` | hooks of the cache |
| `PendingXact`, `AtomicVar`, `LockCheck` (`util/multithread.hpp`) | table of pending finishes; word, condition variable; stack of held locks | `insert/read/remove`; `swap/wait`; `push/pop` | ports, arrays |
| MIRAGE (`mirage.hpp`) | pointers from metadata to data ways and back, a replacer for each | `access_line`, `cuckoo_search`, `cuckoo_relocate`, `replace_data` | outer port, replacers |
| Remapped cache (`dynamic_random.hpp`) | remap pointer, relocated flags, next index function | `remap`, `relocation_chain`, `hit` | monitor that asks for a remap, `evict` |
| Drivers (`util/regression.hpp`, `util/parallel_regression.hpp`) | expected contents; queues, exit flag | `gen`, `check`, `run` | `CoreInterface` |

What is hard: nested calls (an access evicts, an eviction probes, a probe
writes back, all before the access is served); permissions that change
silently (a promotion of an exclusive copy, a clean eviction); instruction
caches that are outside coherence; in the multi-threaded build, lock-free
reservations of a set, probes that overtake acquires, and a grant whose undoing
is remembered elsewhere until a finish comes.

What makes each part correct: the hierarchy is one memory (a read returns the
last write, a flush is durable); one writer or many readers; inclusion or
exclusion; a directory that misses no holder; a set word that is a lock and
never deadlocks; a replacer that always finds exactly one way; a finish that
undoes its own acquire.

## 2. Modules

| Module | Models | Abstract specification |
|---|---|---|
| `CohPolicy` | the policies and the metadata as operators from line to line | |
| `InclusiveCache` | two levels, inclusive, single-threaded | `CoherentMemory` |
| `ExclusiveCache` | two levels, exclusive LLC, single-threaded | `CoherentMemory` |
| `SetState` | the set word of the multi-threaded build | `PriorityLock` |
| `Replacer` | one set of a replacer under the calls of a cache | `ReplaceOrder` |
| `PendingXact` | the finish protocol of the multi-threaded build | |
| `ParallelCache` | two levels, inclusive, multi-threaded, over `CohPolicy` | `PriorityLock`, for each set |
| `Hierarchy` | the three-level programs, single-threaded, over `CohPolicy` | `CoherentMemory` |
| `Mirage` | a MIRAGE cache below L1s | |
| `Remap` | a dynamically randomised cache below L1s | |
| `ParallelRegression` | the multi-threaded test driver, over caches that work | |
| `MC*` | constants for TLC | |
| `*Proofs` | theorems of the module named; `ObjectProofs` those of `SetState`, `PendingXact` and `Replacer` | |

The definitions called "Mistake" are wrong versions of the operator after
them.  Each property is checked to fail when one of them takes its place, so
none holds for want of interesting states.

### InclusiveCache

`block[a]` is a record of all that the hierarchy has of block `a`: the line of
every L1 (`up`), of the shared cache (`llc`), the memory (`mem`), and `ok`,
which is FALSE once an `assert()` has failed.  `CoreInterface` calls do not
overlap without threads, so each is one action, and each C++ handler is an
operator from such a record to the next: `AccessLine`, `AcquireReq`,
`ProbeReq`, `ReleaseLine`, `LLCEvict`, `LLCFlush`, ...  They nest as the calls
do.  The caches are indexed by block: ways are a number per set, and the
replacer is the choice of any block of a full set (any block at all if it does
not take empty ways first), which is what `Replacer` can do.  Of the L1s, `Core`
are coherent data caches with ids 0, 1, ...; `ICore` are uncached instruction
caches with the id -1.  The rule that the drivers follow is part of the model:
data caches write, and the instruction caches are flushed first when the block
holds instructions (`InstFlushed`, `util/regression.hpp:89`).

What a promise means is `CoherentMemory`: `store` is the content a program
sees, `backing` the memory below.  The refinement maps `store[a]` to
`Latest(block[a])`, the dirty data copy if there is one, else the shared copy,
else the memory.

### ExclusiveCache

The same calls over the ports of `exclusive.hpp`.  A block that is granted to
a data cache leaves the shared cache, or keeps an extended way as a directory
entry without content (`ext`); a data cache gives back clean victims, too; a
hit on an entry probes and, if that brings dirty content, writes it to memory
at once (`FetchLine`).  Copy buffers are the record that an access works on
before it is stored or dropped.  `MCExclusiveCache` runs both builds, that with
the directory and that without, side by side: `build` says which.

### Hierarchy

Data and instruction L1s, an L2 for each core, an L3 and the memory, put
together as the four programs `regression/c4-l3*.cpp` do it; `conf` says which
one runs.  The handlers are written once for a cache at any level, as the C++
ports are; the port below is a parameter of theirs, an infix operator
`??`, since it returns what it may do to a state for a request: an L1's call is
`InclusiveAccess(AtL2, ...)`, `AtL2` passes `AtL3` on and that `AtMemory`.  Unlike
those of `InclusiveCache` the handlers choose victims on the way down, so each is an
operator from a state of all caches to the set of states that it may leave, and
a `CoreInterface` call is the composition.  A probe goes the other way: `AskL2`
and `AskL1` are `probe_req`, and put together the `probe_resp` of the caches above
(`ProbeL2`, which may ask the L1D in turn, and `ProbeL1`).  `sys.at[a][n]` is what
cache `n` has of block `a`, in a normal way, an extended way or no way (while it
is served from a copy buffer, `lent`), `sys.mem` the memory, `sys.ok` the
assertions, among them that a buffer is left when one is lent (`Borrow`) and
that the pool is full again after the call.  A slice is a part of the set index,
since `SliceDispatcher` (`coherence.hpp:577`) looks at the address alone.  The
`to_shared` at `exclusive.hpp:212` is left out: the outer state of that buffer
is dropped with it.  Here, and only here, a cache is probed while it may itself
have holders above it and a level below.

### SetState

One cache set, whose word has a bit per priority (acquire and flush, probe,
sync, release).  Every load, every compare-and-swap, every wait and every
notification is a step.  `Blocked` and `Preempted` are the numeric comparisons
of the code on sets of bits.  What a transaction does in the set is left to the
environment, which chooses hits, misses, retries and nested entries.  Thread
`t` enters at most `Runs[t]` times, the only bound.

### Replacer

`used`, `free` and `alloc` are the maps of one set.  The other side (`pending`) is
the cache, which calls `replace()` for a miss and the hooks later: between them a
victim is evicted, probes drop blocks, and releases touch them.  `replace()` itself
is three steps: `Allocate` looks for a free way and takes the first one by its
compare-and-swap, or sees none; then `Select` is `select()`, with
`delist_from_free()` if free ways do not come first; `Record` is `set_alloc_map()`.
`EnMT` lets the probes and releases of other threads come between any two of them
(`Undisturbed`), and lets a probe take a line whose promotion is under way.

So a probe may drop the victim after its way was selected and before it is
recorded.  `invalid()` then does not see that the way is taken and lists it as
free (`replace.hpp:172`), and it stays listed until the fill takes it off.
`FreeMapSound` says exactly this: the map loses no way and lists none that holds a
block, and the way a miss has taken is off it in one thread.  `ReplaceOrder` allows
the window, too (`Free`).  It does no harm: who would take the way from the map
needs the set, which is reserved until the fill (`OneAllocation`).

### PendingXact

Threads acquire blocks; the acquire reserves the set, locks a line and records
itself in a table of `MSHR` entries.  Each step of `finish_resp` that another
thread can see is an action: read, unlock, reset, remove, forward.  Caches
differ in their ids: coherent ones have their own, uncached ones share -1.  A
prefetch of a coherent cache, too, is recorded and finished with the id -1
(`PrefetchLine`, `coherence.hpp:377`); `Prefetch[t]` are the blocks that t prefetches.

### ParallelCache

The hierarchy of `InclusiveCache` with a thread per data cache
(`regression/multi-l2-msi.cpp`), here indexed by line: `meta[l]`, the lock of a
line, the word of a set.  `th[t]` is a thread's program counter with the local
variables of its nested calls, and a step goes from one point at which the code
may wait, or may find that others have been there, to the next.  `Lock`,
`Replace` and `Victim` are `check_hit_or_replace`; `AskLLC`, `AccessLLC` and
`Grant` an acquire, `ProbeReq` to `Synced` the probes, in the course of which
the line is unlocked and looked at again; `ReleaseReq`, `ReleaseResp` the
write-back of a victim; `Finish` the end of a grant or of a prefetch.  The set word is used by
`Blocked` and `Preempted` as in `SetState`, of which it takes what is proved
there: `ImplementsPriorityLocks` shows in return that the hierarchy uses each
word as `PriorityLock` asks.  From `PendingXact` it takes that a finish undoes its
own acquire, where that is proved: at most as many threads as the table has entries
(16), and no block prefetched by two of them (`FinishAssumption`).  In MI
`access_need_sync` answers yes for a release as well (`mi.hpp:28`), so that it unlocks
the LLC's line and probes the other L1s; `ReleaseResp` has no such probe, and
`ReleaseAssumption` leaves MI out.  Data is one bit, whether a copy is up to date.
The LLC lends a copy buffer to each acquire that misses, `CopyLine` to `Fill`; a
thread that finds the `MSHR` buffers lent waits with its set reserved and its
line locked.  An L1 lends to one thread only, so its pool is left out.

### Mirage

`meta` and `dmeta` point at each other; `mrep` and `drep` are the free maps and
allocations of the two replacers.  A miss is a sequence of steps, one for each
turn of its loops: `Miss` allocates, `Search` extends the chain, `Evict` empties
its end, `Relocate` moves the chain's blocks back to front, and `Fill` takes a
data way, evicts whose it was, binds and fetches.  The caches above appear as
`up`, the blocks of which they have newer content; an eviction probes them.

### Remap

`Found` is `hit()` with the remap pointer; `Take`, `Relocate` and `ChainEnd` are
`relocation_chain`, with the block on the move in `buf`; `Skip` and `End` are
the loop around it.  `End` picks the next index function from `Index`, as
`rotate_indexer` does by a random seed.  A remap starts between two accesses,
when `finish_resp` asks the monitor; the model lets it start at any.

### ParallelRegression

The producer (`Generate`, `Put`), a server per core (`Get` to `Check`) and the
main thread (`SetExit`).  A step is what a thread does under one mutex, or one
`CoreInterface` call; looking at the queue and testing the exit flag are two
(`Get`, `TestExit`), and so are recording a value in the `DataQueue` and writing
it, reading a value and checking it.  The caches are taken to be what
`ParallelCache` shows: one memory, `store`, for the data caches, and per core an
instruction cache, `inst`, that only its own flushes renew.  `gone` has no
counterpart in the code: it is what a `DataQueue` has dropped.

## 3. Runs

Passing runs (states are distinct states):

| Run | Checks | Bounds |
|---|---|---|
| `mesi_directory` | single writer, no stale copy, assertions, inclusion and directory, flush, one memory | 2 data caches, 1 instruction cache, 2 blocks (one of instructions), 2 values, one set, L1s of one way, LLC of one way, MESI with silent promotion (82,000) |
| `exclusive` | exclusion, directory cover, assertions, one memory | same caches and blocks; exclusive LLC of one way, as MSI by broadcast and as MESI with one extended way; prefetches on the instruction port and, with the directory, by a data cache (82,000 for both builds) |
| `hierarchy` | single writer, levels agree, assertions and buffers, one memory | the 4 programs, 2 cores, 1 instruction cache, 2 blocks (one of instructions), 2 values, one set of one way at every level, one extended way, 2 copy buffers (26,000) |
| `set_state` | one holder, no bit lost, priority lock, termination | 3 threads, one of which enters twice (673,000) |
| `replace_lru` | permutation, one allocation, sound free map, queue | LRU, 4 ways, multi-threaded build (4,800) |
| `parallel_msi` | single writer, copies latest, nothing lost, once in a set, memory alone, priority locks, progress | 2 threads with 7 kinds of call, L1s of one line, LLC of two sets of two ways, 4 blocks of which 3 share a set, one copy buffer (363,000) |
| `mirage` | binding, content, free maps | 3 partitions of one way per set, three data ways for 4 blocks, chains of two relocations, symmetry (1,351,000) |
| `remap` | blocks kept, the remap ends | 4 blocks, 2 sets of 2 ways, 3 index functions (112,000) |
| `finish_coherent` | recorded, own entry, every line available again | 3 caches with own ids, one of which prefetches a block, 2 blocks in 2 sets, 3 table entries (52,000) |
| `parallel_regression` | a refused value was dropped, private blocks exact, the run ends | 2 cores, a block of core 0's and a common one, both instructions, 4 transactions (575,000) |

Why the bounds are enough: coherence is a property of one block, and blocks
meet only through evictions, so two blocks in one set with one way per L1
already produce every nesting of eviction, probe and write-back.  A third
cache adds nothing that the second does not do: probes treat all but the
requester alike.  Two values are enough to tell a stale copy from a current
one.  In `SetState` three threads are needed for an interloper between a load
and a swap of two others, and one that comes back meets bits of its own
earlier entry if they were left.  In `ParallelCache` three blocks for a set of
two ways make each thread's miss evict a line that the other may be using, and
the fourth, in the other set, lets an L1's victim be released there meanwhile.
In `Mirage` all blocks share the sets of two partitions, so that an insertion
starts a chain, and a chain of two relocations goes through all three; four
blocks for three data ways force evictions from the data array.  `mirage_alloc`
has two partitions, and chains that come back to the first.  In `Remap` the functions
put all four blocks into one set of two ways, or two and two, or one and three:
chains meet free ways, blocks that move on, and blocks that have moved.  The
table has an entry per thread; the code has 16, more than the threads of its
tests.  In `Hierarchy` a set of one way makes every level evict on a miss, so an
access can evict at three levels at once; with two blocks no cache lends more
than two buffers, and the code has four.  `ParallelCache` has one buffer for two
threads, so that one waits, where the code has four.  In `ParallelRegression` a
`DataQueue` keeps two records, and four transactions are enough to push the
value out that a server has read and not yet checked, and for the producer to
sleep on one queue while the others run.  The theorems of section 5 remove the
bounds for every module, and cover what no run does: MI (but for `ParallelCache`)
and MSI by broadcast, FIFO, SRRIP and random replacement, and the other combinations of protocol,
directory and replacer.

`CHECK_DEADLOCK` is off in `parallel_regression` only, where the program returns
(`Returns` says that it does, and where else it may stop).  `SetState` ends in
`Terminating`.

Runs that TLC finds violated state what an assertion of the repository says and
the code does not do:

| Run | What |
|---|---|
| `finish_foreign` | two uncached L1s share the key of a table entry, and a finish unlocks the line of another acquire (`multithread.hpp:186`) |
| `mirage_alloc` | with two relocations, as in `regression/c2-l2-mirage.cpp`, a chain comes back to a set where a way is allocated, against the assertion of `set_alloc_map` (`replace.hpp:98`) |

What follows from it: the record of the first way is overwritten, so
`invalid()` no longer sees that the way is taken, and lists it in the free map
while the chain's block moves into it (with two ways in a set, TLC finds it in 30
steps); or a way that no chain used stays allocated and out of the map.
Nothing is unbound or lost even so: `BoundHolds` and `ContentHolds` are proved for
chains of any length.  `FreeSound` claims the map of the metadata only for
`MaxRelocN < P`, where a chain cannot come back, and `mirage` has such chains.

Smaller disagreements that were met while modelling and have no run:

- A prefetch through an uncached L1 reaches `meta_after_grant`, which asserts a
  read or a write (`msi.hpp:64`).  `PrefetchPort` and the assumption
  `PrefetchSupported` of the proofs keep it out.
- `writeback()` of a coherent L1 flushes the block out of every cache
  (`coherence.hpp:345`); the comment at `:439` says it stays, shared.
- A prefetch puts into the exclusive LLC a block that a data cache holds, and
  its release fails `assert(!hit)` (`exclusive.hpp:272`); in the broadcast build
  `exclusive` has prefetches on the instruction port only.
- In MI every acquire is a write, and a prefetch fails `mi.hpp:39`.
- MIRAGE inherits `prefetch_line`, which fills an entry without binding a data
  way; the entry's old pointer then names another block's content.
- MIRAGE's metadata replacer has `WN` ways (`cache_type.hpp:159`), its sets
  `WN+EW`: the "extra tag ways" (`mirage.hpp:69`) are never filled.
- "clean sharer if evict or miss" (`coh_policy.hpp:108`) calls a `sync()` that
  `MetadataMixer` overrides by an empty one (`metadata.hpp:200`), so a
  directory over-approximates; `Sync` models what happens, and
  `InclusionAndDirectory` is the half that correctness needs.
- `flush()` of an uncached L1 drops its own copy only (`coherence.hpp:346`),
  against "from the whole cache hierarchy" (`coherence.hpp:437`).
- The assertions of `PendingXact::insert` can never fail: one ends in
  `|| "..."`, which is true (`multithread.hpp:90`), and the index of a full
  table keeps its initial value 0, so that entry 0 is overwritten (`:94`).
  `Recorded` states what they meant.
- A prefetch is finished with the id -1, as if its cache were uncached
  (`coherence.hpp:378`).  When two threads prefetch the same block their finishes
  mix up as in `finish_foreign`: with a set of two ways TLC finds `OwnLine` violated
  then, and not violated when only one of them does.
- `invalid()` leaves the way that is being replaced out of the free map, but sees
  it in `alloc_map` only (`replace.hpp:172`): in the multi-threaded build a way
  that is selected and not yet recorded is listed (section 2, `Replacer`).
- `DataQueue` says that "all possible data will be saved for checking"
  (`parallel_regression.hpp:28`) and keeps the last `NC` records.  A shared
  instruction write is recorded by every server, so with three transactions one
  write can push the others out, and the assertion at `:164` fails on a value
  that was right when it was read.  `RefusedOnlyIfDropped` says that nothing
  else can make it fail.
- A server that finds its queue empty tests the exit flag next, not at the same
  time (`parallel_regression.hpp:171`): what is queued in between, the last
  transactions of a run, is never served.  The flag is a plain `bool` that two
  threads use; the model reads it as if it were atomic.
- `read()` of the multi-threaded build returns a pointer into a line that is
  unlocked by then (`coherence.hpp:474`).  In the driver the line is in the
  server's own L1 and no other thread fills that; a caller with two threads on
  one L1 would not be so lucky.  No property shows this: the models fix the value
  of a read when it is served.

## 4. Fairness

Five specifications state it.  `SetState` has weak fairness of every thread's
steps: the operating system schedules threads, and `wait()` has a time limit of
100 us, so a waiting thread always has a step.  This includes `Begin`: a thread
that has entries left goes on to the next one.  `Termination`, which is
`<>Finished`, asks that all of the finitely many entries (`Runs`) be made and end,
so it relies on `Begin` being taken; what this forces is a finite workload and no
more.  `ParallelCache` has weak fairness of the steps of a call, but not of `Start`: a
call is never forced to start.  Nothing else is assumed: a compare-and-swap may
fail as long as others succeed.  `PendingXact` has weak fairness of the steps
after an acquire, which only take the table's mutex.  `Remap` has weak fairness
of the steps of a remap, a loop of one thread.  `ParallelRegression` has weak
fairness of each thread, the producer, the main one and the servers: a server
that finds nothing yields and looks again, and the producer, once it is notified,
has only the mutex of one queue to take.  The other modules have no
liveness to state: their calls run to the end.

## 5. Theorems

Assumptions are those of the modules (`ProtoAssumption`, `CacheAssumption`,
`ReplacerAssumption`, `RunsAssumption`, `DriverAssumption`,
`PendingAssumption`, `NoneIsNoEntry`, `ParallelAssumption`, `FinishAssumption`,
`ReleaseAssumption`, `ExclusiveAssumption`,
`MirageAssumption`, `NoneIsNoPlace`, `RemapAssumption`, `HierarchyAssumption`),
which TLC evaluates in the runs.

**InclusiveCacheProofs.**  For all protocols, sets of cores, blocks and values,
index functions and associativities, under `PrefetchSupported` (prefetches on
data ports, none in MI: the ones that do not fail an assertion, see section 3):
`TypeCorrect`, `OneWriterOrReaders`, `Inclusive`, `NoStaleCopy`,
`NoAssertionFails`, `FlushIsGlobal`, and `Refinement`, that the hierarchy
implements `CoherentMemory`.  The inductive invariant is `IInv`: every block is
`Coherent(b, v)` with `v` its content.  None of the properties is inductive
alone: that a probe may be skipped needs the shared state to rule out a writer,
which needs the directory to name every holder; and that the memory gets
current content needs dirty copies to be writable, hence unique.  Each handler
has a lemma (`ProbeCoherent`, `AccessAcquire`, `AcquireCoherent`,
`L1EvictCoherent`, `LLCEvictCoherent`, `LLCFlushCoherent`, ...) that it takes
`Coherent(b, v)` to `Coherent` of the result with the same `v`; the calls follow
by applying these to one block each, and a call's step is the abstract step of
the same name.

**ExclusiveCacheProofs.**  For MSI and MESI below MI or MSI L1s, with the
extended directory or by broadcast, and for all cores, blocks, values, index
functions and associativities: `ExclusionHolds`, `DirectoryComplete`,
`NoAssertionFails`, and `Refinement` to the same `CoherentMemory`.  The
hypothesis `PrefetchSupported` says that without a directory L1Ds do not
prefetch: such a prefetch puts a block into a normal way that an L1D may hold
(section 3).  The invariant `IInv` is `Coherent(b, v)` for each block `b` with
content `v`, in three parts: what the L1s have (`Upper`), what a normal way of
the LLC or the memory has (`Lower`), and what an entry of the directory says
(`Entry`).  A dirty line of the LLC has to be writable there: otherwise a
promotion would fetch from the memory, over content that is not in it yet.
While a block is served it is in a copy buffer, so it is not coherent at each
moment; `Probes`, `Serves` and `Settles` say what it is after the probes, after
`access_line` and after the grant, and `AccessServes` and `LineGrantedSettles`
link them.  A call evicts before it accesses: `Room` says that the victims,
released by an L1 or evicted for these, keep their content and change no other
block (`EvictedRoom`, `MadeRoomRoom`), which takes that the victim whose release
needs room is never itself evicted for it.  `CallStep` then yields the
abstract step.

**HierarchyProofs.**  For the four three-level programs, with any number of cores,
instruction caches, blocks and values, any index functions and associativities,
any number of extended ways and of copy buffers from two on:
`SingleWriterAlways`, `LevelsAgreeAlways`, `AssertionsHoldAlways` and
`ImplementsMemoryAlways`, the refinement of `CoherentMemory`.  The inductive
invariant is `Agree` (theorem `AgreesAlways`), and its parts follow the levels.
For each block there is one content, `Store(s)[a]`, and `Rest` relates the block's
lines to it:

- `CoreOK`, the branch of a core: an inclusive L2 has what its L1D has, and the
  permission; an exclusive one has only what it does not.
- `LastOK`, the L3 over the memory and below three sets of cores, those that have
  the block, that may write it and that have changed it: who has changed it decides
  where the content is, who has it what the L3 or its directory must know.
- `AboveOK`: one core may write, and then it alone has the block.
- `InstOK`: an instruction cache has current instructions.
- `Calm`, that no buffer is lent, holds between calls.

None of the three properties is inductive alone.  A probe that a shared L2 answers
without asking its L1D (`ProbeSync`) is right since the L1D cannot then be dirty,
which is `CoreOK`; that a broadcast L3 may be silent rests on `LastOK` and that on
inclusion; and that a release finds its line, an assertion, is inclusion again.

A call is long: it may evict at three levels, each eviction probes, and each
probe may write back. The proof is by contracts, from the bottom up. The
requests of an L2 to the L3 have a contract each, for an acquire (`GrantLast`)
and for a release (`ReleaseLast`), and that is all that the proofs about an L2
use; in the same way those about an L1 use `GrantMid` and the contracts of a
release to an L2 (`TopReleaseInclusive`, `TopReleaseExclusive`). A contract says
that each block but the one in hand `Rest`s with the content it had, up to what
moved between L3 and memory, that the content is the same, and whose lines have
changed. While the block in hand is served it is in no state of the invariant:
its line may be in a buffer, its content only in the line that has asked for it.
`AskedOthers`, `Around` and `Clear` say what is left of `Rest` then: what the
cores other than the one that asks still have. Probes have lemmas of their own
(`ProbesCore`, `AskedOthers`), whose point is that the caches asked are in
branches of different cores, so that it does not matter in which order
(`Answered`). The bound of two buffers is used by one lemma, `BorrowFacts`: a
cache has at most one lent, for the block it serves, when it evicts another.
The invariant was model-checked first, on all four programs.

**ObjectProofs**, about the three objects that the handlers of a cache share.

- `SetState`, for any set of threads and any `Runs`: type correctness,
  `MutualExclusion`, `AssertionsOfTheWord`, and `Refinement` to `PriorityLock`.  The
  invariant `WordInv` ties the word to the threads: a bit is set exactly when one thread
  holds that priority.  The compare-and-swap then acts on the current word even
  though the comparison was made on an earlier load, since both are equal.
- `PendingXact`, for any caches, blocks, sets and ways, when no two threads can use
  the same key (`OwnKeys`) and the table has an entry for each thread
  (`EntryForEach`): `NeverLost`, `FinishesOwn`, and `UnlocksOwn`, the property that
  `finish_foreign` refutes where two threads share an id.  `OwnKeys` holds of coherent
  caches as long as no block is prefetched by two of them, since a prefetch has
  the id -1; being coherent is not enough.  The invariant `Inv` says that
  the valid entries are those of the acquires under way (`Present`, `Listed`), no
  two with one key (`OneEach`), and that an acquire's thread owns its line
  (`Holds`): what `find` returns by its key is then the entry of the caller, and
  `insert` finds a free one because the caller has none yet.
- `Replacer`, for every policy and number of ways, in one thread and between
  threads (there, `ReplacerAssumption` has FIFO, and LRU with DUO: the code
  compiles with no other policy, and LRU without DUO would race on `used_map`):
  `AlwaysAVictim`, `NoParallelAllocation`, `FreeMapStaysSound`, and
  `PrioritiesInRange`, that SRRIP's priorities stay within their two bits though
  they are aged until one is at the top.  The invariant `ReplacerSound` adds what
  holds in one thread only (`Alone`): the block of a hit is not dropped, and no
  way becomes free between the look at the map and the selection.  For FIFO and LRU (`Ranked`),
  `QueueRefined`: the replacer implements `ReplaceOrder`.  Its priorities are a
  permutation and so stand for a queue (`Queue`, `QueueAt`); `Touch` moves a way to
  the tail of that queue (`TouchQueue`) and `Demote` to its head (`DemoteQueue`), the
  scan of `select` finds the head, and each step is then one of the queue's or a
  stutter (`StepQueue`).

**ParallelRegressionProofs.**  For every set of cores, blocks, owners and number
of transactions: `RefusalsExplained` and `PrivateChecked`.  The invariant is
`Sound`.  Two of its parts carry the argument.  `OnRecord`: a value that a cache
or a server has was recorded, since a record precedes its write, so what the
check refuses was dropped.  `Follows`: a private block is worked on by one
server, so its content is the last record but for the write under way, and an
instruction cache has that content or nothing, since it is flushed before the
record.  `Placed`, that a private block's transactions are in the queue of its
core, is what makes the second one hold.

**ParallelCacheProofs.**  For any number of blocks, sets, ways and copy buffers, any
index functions, MSI and MESI, with a directory or without, and for any threads that
satisfy `FinishAssumption`, at most 16 of which no two prefetch the same block:
`WriterIsAlone`, `CopiesAreLatest`, `NothingIsLost`, `InsertedOnce`,
`MemoryIsAlone` and `LocksRefined`, that the words of the sets are used as
`PriorityLock` asks.  The invariant `IInv` has three layers.

- `Coherent` relates the lines: a valid line is in its set (`Placed`) and the only
  one of its cache for the block (`Unique`); an L1's copy is up to date and has
  below it a line of the LLC that knows the cache and its permission
  (`Included`); a writable copy is alone (`OneWriter`); a line of the LLC is up
  to date unless an L1 is dirty, and the memory unless the LLC has the block
  (`Backed`).
- `Guarded`: the lock of a line is that of the thread whose program counter says
  so (`Owns`), and a set's word holds what the threads have reserved
  (`Reserved`), each priority once.
- `ThreadInv(t)` is what thread t may rely on where it is.  A line is unlocked
  for every nested call, so most of what a thread has seen may have changed when
  it comes back; what has not is why the code is right.  In its own L1
  (`OwnL1`): its block does not come back while it looks for a victim, and the
  line that it will fill is empty or has the block without the permission.  In the
  LLC (`OwnLLC`): a block it missed stays out and one it found stays in, since
  it has the set.  In the L1s of others (`Others`): those it has probed do not
  get the block back, since for that they need the set, and what it has been
  granted is what is left to grant.

`Frame` shows that `ThreadInv(u)` outlasts a step of another thread t that gives
t's L1 no block from a set u has reserved (`NoGain`), leaves u's set of the LLC
its blocks (`SetKept`) and u's locked lines their metadata (`LineKept`,
`GoalKept`).  `FrameGuards` shows the same of locks and words, and `Combine` puts
them together: each action then has one lemma that it keeps `Coherent`, takes t
from one row of `ThreadInv` to the next, and is in the frame; the actions that
change no line need only `QuietStep`.  That no two threads are in one set of the
LLC (`Alone`) comes from `Words`, hence from the priorities.  The invariant was
model-checked first, with MSI by broadcast and MESI.

**MirageProofs.**  For any number of partitions from two on (`cuckoo_search` takes
the next block's way from the set of another one), any sets, ways, data slots and
index functions, and chains of any length: `BoundHolds`, `ContentHolds`,
`FreeHolds`, and `FindableHolds`, that a block is in a set where `hit()` looks for
it.  The invariant `IInv` has three parts.  `Lines` is what holds of the two
arrays at every step, in the middle of an access too: the pointers are one to
one, no block is in two entries, and its last content is in an L1, in the memory
or in a dirty entry.  `Access` is what holds of the chain: its blocks are in
distinct valid entries, each maps to the set of the entry after it, the access's
own block to the first and is itself nowhere, and once the relocation is under way
the end of the chain is empty.  A turn of `cuckoo_relocate` then moves a block
to an empty entry of a set where it belongs (`MovedLines`), and the fill finds
one for its own block (`FillLines`); the victim of the data array is never the
entry to be filled, since that is not valid.  `Apart` is needed for the free map
of the metadata only: in a chain shorter than the number of partitions each entry
is in a partition of its own (`Spread`), so that every way of it is still the
one its set has allocated, and `invalid()` leaves it out of the map until it is
filled.  The invariant was model-checked first, with two partitions and three.

**RemapProofs.**  For any number of sets and ways and any index functions:
`BlocksAreKept`.  Without a trace of where blocks have been it is not inductive.
The invariant `IInv` has that trace in `Located`: a block in a place with the
relocated flag is in its set by the next function, any other is in its set by the
current one and the pointer has yet to come to it; so at the end of a remap
every block has moved.  With `Unique`, that no block is in two places or in
one and in the buffer, a hit below or above the pointer finds the block where
it is (`WhereFound`), and what misses is nowhere (`MissIsNowhere`).  `LastKept`
and `UpperHeld` follow a block through the buffer and out of a chain that ends by
evicting it.

Model-checked only: `Termination`, `Available`, `Progress`, `RemapEnds` and
`Returns`, which are liveness, and `DirectoryCoversIfAny`, which selects one of the two
builds of `MCExclusiveCache`; `DirectoryComplete` proves what it says of that build,
for every value of the constants.  Two properties that runs find violated are
not theorems, of course; `UnlocksOwn` says when `OwnLine` does hold.

The proofs take about half an hour from nothing, half of it `HierarchyProofs`.

## 6. Not modelled

- In `ParallelCache`: instruction caches, and the third level of
  `regression/multi-l3-msi.cpp`; setting a bit of the word and the scan of the
  set after it are one step, as are unlocking a line and resetting the bit; each
  thread makes one of the calls of `Call` at a time.  Neither MI, whose releases
  probe, nor two threads that prefetch the same block, which mix up their
  finishes: see section 2 and `PendingXact`.
- In `Replacer`: LRU without DUO in the multi-threaded build, which no type of
  `util/cache_type.hpp` has; a release would then change `used_map` while another
  thread uses it.  In `Mirage`: prefetches.
  In `Hierarchy`: `writeback` and `prefetch`, which its programs do not call.
- `ExclusiveOuterCohPortDirectory` (`exclusive.hpp:558`), which no program of the
  repository puts together with a cache.
- I/O, printing, monitors, delay models, statistics, query: they observe.
- Hash and index functions: any function of the block stands for them.
- Addresses and tags: a block is a value; the tag match is equality.
- `read_pio`-like ports and `writeback_invalidate`, which is not implemented.
- The content of a block is one value: writes replace the whole block, as
  the drivers' do.
- Undefined behaviour: `is_exclusive_sharer(-1)` shifts by a negative number
  (`metadata.hpp:146`).  On the targets the build supports it yields bit 63,
  which no id has; the model takes it to be no sharer.

## 7. Plan

1. `ParallelCache`: instruction caches and their flushes; a third level, with the
   sync that an L2 makes while it has reserved its set for a probe.
2. `Mirage`: prefetches.
