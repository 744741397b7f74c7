------------------------- MODULE ParallelRegression -------------------------
(***************************************************************************)
(* The driver of the multi-threaded regression tests                       *)
(* (util/parallel_regression.hpp with RegressionGen of util/regression.hpp,*)
(* TestFlush = false as in regression/multi-l*.cpp).  A producer generates *)
(* transactions and queues them for a server thread per core; the servers  *)
(* take them, record what they write and compare what they read with what  *)
(* was recorded; the main thread joins the producer, sets the exit flag    *)
(* and joins the servers.                                                  *)
(*                                                                         *)
(* The caches are what ParallelCache shows them to be, one memory for the  *)
(* data caches, and an instruction cache that nobody keeps up to date but  *)
(* its own flushes.  A step is what a thread does under one mutex, or one  *)
(* call of a CoreInterface.  The pointer that read() returns without a     *)
(* lock is to a line of the server's own L1, which no other thread fills,  *)
(* so the content is that of the read.                                     *)
(***************************************************************************)
EXTENDS Integers, FiniteSets, SequencesExt

CONSTANTS
  Core,       \* the cores: NC servers
  Addr,       \* addr_pool
  Owner,      \* Owner[a]: the core that block a is private to, or Shared
  Shared,
  Inst,       \* iflag: the blocks that hold instructions
  TestN       \* number of transactions

ASSUME DriverAssumption ==
  /\ Core \subseteq Nat /\ IsFiniteSet(Core)
  /\ Shared \notin Core
  /\ Owner \in [Addr -> Core \cup {Shared}]
  /\ Inst \subseteq Addr
  /\ TestN \in Nat

(* No two writes have the same content (64 hashed bits): that of a write   *)
(* is the number of its transaction; 0 is the content before any write.    *)
NC   == Cardinality(Core)
Val  == 0 .. TestN
None == -1

VARIABLES
  num,      \* the number of transactions that were generated
  wflag,    \* the blocks that were written
  act,      \* the transaction that the producer has in hand
  left,     \* the cores in whose queues it still has to put it
  asleep,   \* the producer waits on xact_cond of the next one
  queue,    \* xact_queue[core]
  exit,     \* the main thread has told the servers to exit
  server,   \* the server threads
  store,    \* what the data caches and the memory hold of a block
  inst,     \* what each instruction cache holds of it
  dq,       \* data_deque of a block
  gone      \* what DataQueue dropped (no part of the program)

vars == <<num, wflag, act, left, asleep, queue, exit, server, store, inst, dq, gone>>

producing == <<num, wflag, act, left>>
caches    == <<store, inst>>
records   == <<dq, gone>>

Idle == [pc |-> "get", act |-> <<>>, val |-> None]

Init ==
  /\ num = 0 /\ wflag = {} /\ act = <<>> /\ left = <<>> /\ asleep = FALSE
  /\ queue = [c \in Core |-> <<>>]
  /\ exit = FALSE
  /\ server = [c \in Core |-> Idle]
  /\ store = [a \in Addr |-> 0]
  /\ inst = [c \in Core |-> [a \in Addr |-> None]]
  /\ dq = [a \in Addr |-> <<>>]
  /\ gone = [a \in Addr |-> {}]

(* An assertion that fails ends the program. *)
Running == \A c \in Core : server[c].pc # "refused"

----------------------------------------------------------------------------
(* The producer. *)

(* gen(): a block is written first, only data caches write, and a write of *)
(* an instruction comes with a flush: of the core's own instruction cache, *)
(* or of all if the block is shared.                                       *)
Generated ==
  {[core |-> c, addr |-> a, rw |-> rw, ic |-> ic, data |-> IF rw THEN num + 1 ELSE 0,
    flush |-> IF ~(rw /\ a \in Inst) THEN 0 ELSE IF Owner[a] = Shared THEN 2 ELSE 1]
     : c \in Core, a \in Addr, rw \in BOOLEAN, ic \in BOOLEAN}

Allowed(x) ==
  /\ Owner[x.addr] \in {x.core, Shared}
  /\ x.addr \notin wflag => x.rw
  /\ x.ic => x.addr \in Inst /\ ~x.rw

(* A flush of all goes to every other core first and to its own last.      *)
Receivers(x) ==
  IF x.flush = 2 THEN Append(SetToSortSeq(Core \ {x.core}, <), x.core) ELSE <<x.core>>

Generate ==
  /\ Running /\ left = <<>> /\ num < TestN
  /\ act' \in {x \in Generated : Allowed(x)}
  /\ left' = Receivers(act')
  /\ num' = num + 1
  /\ wflag' = IF act'.rw THEN wflag \cup {act'.addr} ELSE wflag
  /\ UNCHANGED <<asleep, queue, exit, server, caches, records>>

(* The queue of another core must be empty before a flush of all is put in *)
(* it.  The producer holds that queue's mutex only.                        *)
Put ==
  /\ Running /\ left # <<>> /\ ~asleep
  /\ LET c == Head(left)
     IN  IF act.flush = 2 /\ c # act.core /\ queue[c] # <<>>
         THEN asleep' = TRUE /\ UNCHANGED <<queue, left>>
         ELSE /\ queue' = [queue EXCEPT ![c] = Append(@, act)]
              /\ left' = Tail(left)
              /\ UNCHANGED asleep
  /\ UNCHANGED <<num, wflag, act, exit, server, caches, records>>

Produced == num = TestN /\ left = <<>>

----------------------------------------------------------------------------
(* The servers. *)

(* Mistake: the producer is not notified.                                  *)
SleepsOn(c) == asleep

(* notify_all on xact_cond[c].                                             *)
Notified(c) == asleep /\ Head(left) # c

(* Mistake: the instruction cache is not flushed.                          *)
FirstNoFlush(x) == IF x.rw THEN "record" ELSE "read"

(* The first step of the transaction that was taken.                       *)
First(x) == IF x.flush # 0 THEN "flush" ELSE IF x.rw THEN "record" ELSE "read"

(* get_xact.                                                               *)
Get(c) ==
  /\ server[c].pc = "get"
  /\ IF queue[c] = <<>>
     THEN server' = [server EXCEPT ![c].pc = "empty"] /\ UNCHANGED <<queue, asleep>>
     ELSE /\ server' = [server EXCEPT ![c].pc = First(Head(queue[c])), ![c].act = Head(queue[c])]
          /\ queue' = [queue EXCEPT ![c] = Tail(@)]
          /\ asleep' = Notified(c)
  /\ UNCHANGED <<producing, exit, caches, records>>

(* ... found nothing: the flag is read now, not when the queue was looked  *)
(* at.                                                                     *)
TestExit(c) ==
  /\ server[c].pc = "empty"
  /\ server' = [server EXCEPT ![c].pc = IF exit THEN "done" ELSE "get"]
  /\ UNCHANGED <<producing, asleep, queue, exit, caches, records>>

(* The server's own instruction cache is flushed, whoever is act_core.     *)
Flush(c) ==
  /\ server[c].pc = "flush"
  /\ inst' = [inst EXCEPT ![c][server[c].act.addr] = None]
  /\ server' = [server EXCEPT ![c].pc = "record"]
  /\ UNCHANGED <<producing, asleep, queue, exit, store, records>>

(* DataQueue::write: only the last NC records are kept.                    *)
Kept(d) == IF Len(d) > NC THEN Tail(d) ELSE d

Recorded(c) ==
  LET a == server[c].act.addr
      d == Append(dq[a], server[c].act.data)
  IN  /\ dq' = [dq EXCEPT ![a] = Kept(d)]
      /\ gone' = [gone EXCEPT ![a] = (@ \cup ToSet(d)) \ ToSet(Kept(d))]

(* Mistake: what is written is recorded when the write is done.            *)
RecordAfter(c) ==
  /\ \/ /\ server[c].pc = "record"
        /\ store' = [store EXCEPT ![server[c].act.addr] = server[c].act.data]
        /\ server' = [server EXCEPT ![c].pc = "written"]
        /\ UNCHANGED records
     \/ /\ server[c].pc = "written"
        /\ Recorded(c)
        /\ server' = [server EXCEPT ![c] = Idle]
        /\ UNCHANGED store
  /\ UNCHANGED <<producing, asleep, queue, exit, inst>>

(* write_dq, before the write.                                             *)
Record(c) ==
  /\ server[c].pc = "record"
  /\ Recorded(c)
  /\ server' = [server EXCEPT ![c].pc = "write"]
  /\ UNCHANGED <<producing, asleep, queue, exit, caches>>

Write(c) ==
  /\ server[c].pc = "write"
  /\ store' = [store EXCEPT ![server[c].act.addr] = server[c].act.data]
  /\ server' = [server EXCEPT ![c] = Idle]
  /\ UNCHANGED <<producing, asleep, queue, exit, inst, records>>

(* An instruction cache answers with its copy, or, if it has none or has   *)
(* evicted it, fetches the block.                                          *)
Read(c) ==
  LET a == server[c].act.addr
  IN  /\ server[c].pc = "read"
      /\ \E v \in {store[a]} \cup (IF server[c].act.ic THEN {inst[c][a]} \ {None} ELSE {}) :
           /\ server' = [server EXCEPT ![c].pc = "check", ![c].val = v]
           /\ inst' = IF server[c].act.ic THEN [inst EXCEPT ![c][a] = v] ELSE inst
      /\ UNCHANGED <<producing, asleep, queue, exit, store, records>>

(* check() of the DataQueue, which comes later than the read.              *)
Accepts(a, v) == dq[a] = <<>> \/ v = 0 \/ v \in ToSet(dq[a])
Check(c) ==
  /\ server[c].pc = "check"
  /\ server' = [server EXCEPT ![c] = IF Accepts(@.act.addr, @.val) THEN Idle
                                     ELSE [@ EXCEPT !.pc = "refused"]]
  /\ UNCHANGED <<producing, asleep, queue, exit, caches, records>>

Serve(c) ==
  /\ Running
  /\ \/ Get(c) \/ TestExit(c) \/ Flush(c) \/ Record(c)
     \/ Write(c) \/ Read(c) \/ Check(c)

----------------------------------------------------------------------------
(* The main thread. *)

SetExit ==
  /\ Running /\ Produced /\ ~exit
  /\ exit' = TRUE
  /\ UNCHANGED <<producing, asleep, queue, server, caches, records>>

Returned == exit /\ \A c \in Core : server[c].pc = "done"

Next == Generate \/ Put \/ SetExit \/ \E c \in Core : Serve(c)

(* The operating system runs every thread.                                 *)
Fairness ==
  /\ WF_vars(Generate \/ Put)
  /\ WF_vars(SetExit)
  /\ \A c \in Core : WF_vars(Serve(c))

Spec == Init /\ [][Next]_vars /\ Fairness

----------------------------------------------------------------------------
(* Properties. *)

(* What the check refuses of a memory that works, it once had: a value is  *)
(* recorded before any cache can return it, so it can only have been       *)
(* pushed out, by NC later records that other servers made while the       *)
(* reader was between its read and its check or had the value in an        *)
(* instruction cache.                                                      *)
RefusedOnlyIfDropped ==
  \A c \in Core : server[c].pc = "refused" => server[c].val \in gone[server[c].act.addr]

(* For a private block the check is exact: its reads and writes are served *)
(* in the order in which they were generated and its core's instruction    *)
(* cache is flushed in between, so a read returns what was recorded last,  *)
(* and is never refused.                                                   *)
Latest(a) == IF dq[a] = <<>> THEN 0 ELSE Last(dq[a])
PrivateExact ==
  \A c \in Core :
    LET a == server[c].act.addr
    IN  server[c].pc \in {"check", "refused"} /\ Owner[a] # Shared =>
          server[c].pc = "check" /\ server[c].val = Latest(a)

(* The run ends, unless an assertion ends it: the producer, which waits    *)
(* for queues to become empty one after the other, is woken up, and every  *)
(* server gets to see the exit flag.                                       *)
Returns == <>(Returned \/ ~Running)
============================================================================
