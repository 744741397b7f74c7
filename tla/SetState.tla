------------------------------ MODULE SetState ------------------------------
(***************************************************************************)
(* The state word of one cache set in the multi-threaded build             *)
(* (CacheArrayNorm::cache_set_state, cache/cache.hpp, an AtomicVar of      *)
(* util/multithread.hpp) under the transactions of cache/coherence.hpp     *)
(* that reserve the set.                                                   *)
(*                                                                         *)
(* set_mt_state() and reset_mt_state() are loops of a load and a           *)
(* compare-and-swap; each is a step of its own here, so that any number of *)
(* other threads may run in between.  The word has one bit per priority    *)
(* and is modelled as the set of the priorities whose bit is set; the      *)
(* comparisons of the code, which are numeric, are Blocked and Preempted   *)
(* on that set.                                                            *)
(*                                                                         *)
(* What the transactions do in the set (lookup, line lock, coherence) is   *)
(* left open: whether the block is found is a choice of the environment.   *)
(***************************************************************************)
EXTENDS Naturals

CONSTANTS
  Thread,   \* the threads that use the set
  Runs      \* how often each thread enters the set: the bound of the model

ASSUME RunsAssumption == Runs \in [Thread -> Nat]

(* XactPrio.  A flush has the priority of an acquire. *)
acquire == 1
probe   == 16
sync    == 256
release == 4096

Prio == {acquire, probe, sync, release}

VARIABLES
  state,    \* cache_set_state[s]: the priorities that are in the set
  pc,       \* where each thread is
  prio,     \* the priority each thread's current call is about
  seen,     \* the word each thread loaded last
  held,     \* the priorities each thread has entered with and not yet reset
  again,    \* whether a thread enters anew after its reset: "redo the hit check"
  runs      \* how often each thread has yet to enter the set

vars == <<state, pc, prio, seen, held, again, runs>>

Inside == {"in", "yield_read", "yield_wait", "work", "reset_read", "reset_swap"}
Label  == Inside \cup {"idle", "set_read", "set_wait", "set_swap", "notify"}

Blocked(p, word)   == \E q \in word : p <= q    \* prio <= state
Preempted(p, word) == \E q \in word : p < q     \* (prio << 1) - 1 < state

Goto(t, label) == pc' = [pc EXCEPT ![t] = label]

Init ==
  /\ state = {}
  /\ pc    = [t \in Thread |-> "idle"]
  /\ prio  = [t \in Thread |-> acquire]
  /\ seen  = [t \in Thread |-> {}]
  /\ held  = [t \in Thread |-> {}]
  /\ again = [t \in Thread |-> FALSE]
  /\ runs  = Runs

(* A thread comes with an acquire (or flush), a probe or a release.        *)
Begin(t) ==
  /\ pc[t] = "idle"
  /\ runs[t] > 0
  /\ runs' = [runs EXCEPT ![t] = @ - 1]
  /\ \E p \in {acquire, probe, release} : prio' = [prio EXCEPT ![t] = p]
  /\ Goto(t, "set_read")
  /\ UNCHANGED <<state, seen, held, again>>

----------------------------------------------------------------------------
(* set_mt_state *)

(* Mistake: the own priority does not block ("prio < state").              *)
SetReadAbove(t) ==
  /\ pc[t] = "set_read"
  /\ seen' = [seen EXCEPT ![t] = state]
  /\ Goto(t, IF Preempted(prio[t], state) THEN "set_wait" ELSE "set_swap")
  /\ UNCHANGED <<state, prio, held, again, runs>>

SetRead(t) ==
  /\ pc[t] = "set_read"
  /\ seen' = [seen EXCEPT ![t] = state]
  /\ Goto(t, IF Blocked(prio[t], state) THEN "set_wait" ELSE "set_swap")
  /\ UNCHANGED <<state, prio, held, again, runs>>

(* Mistake: the word is stored, not compared and swapped.                  *)
SetStore(t) ==
  /\ pc[t] = "set_swap"
  /\ state' = seen[t] \cup {prio[t]}
  /\ held'  = [held EXCEPT ![t] = @ \cup {prio[t]}]
  /\ Goto(t, IF prio[t] = sync THEN "work" ELSE "in")
  /\ UNCHANGED <<prio, seen, again, runs>>

SetSwap(t) ==
  /\ pc[t] = "set_swap"
  /\ IF state = seen[t]
     THEN /\ state' = state \cup {prio[t]}
          /\ held'  = [held EXCEPT ![t] = @ \cup {prio[t]}]
          /\ Goto(t, IF prio[t] = sync THEN "work" ELSE "in")
     ELSE /\ Goto(t, "set_read")
          /\ UNCHANGED <<state, held>>
  /\ UNCHANGED <<prio, seen, again, runs>>

(* Mistake: wait() without a time limit.                                   *)
Never(t) == FALSE /\ UNCHANGED vars

(* AtomicVar::wait() gives up after 100us, notified or not.                *)
Timeout(t) ==
  /\ \/ pc[t] = "set_wait"   /\ Goto(t, "set_read")
     \/ pc[t] = "yield_wait" /\ Goto(t, "yield_read")
  /\ UNCHANGED <<state, prio, seen, held, again, runs>>

----------------------------------------------------------------------------
(* In the set. *)

(* hit() found no such block: it leaves the set, and a probe or a flush    *)
(* ends there.                                                             *)
Miss(t) ==
  /\ pc[t] = "in"
  /\ again' = [again EXCEPT ![t] = FALSE]
  /\ Goto(t, "reset_read")
  /\ UNCHANGED <<state, prio, seen, held, runs>>

(* An access enters it again in replace(), and again in hit() when it sees *)
(* there that the block was inserted meanwhile.                            *)
MissAgain(t) ==
  /\ pc[t] = "in"
  /\ prio[t] = acquire
  /\ runs[t] > 0
  /\ runs' = [runs EXCEPT ![t] = @ - 1]
  /\ again' = [again EXCEPT ![t] = TRUE]
  /\ Goto(t, "reset_read")
  /\ UNCHANGED <<state, prio, seen, held>>

(* check_mt_state(), with the line locked.  A hit that was pre-empted      *)
(* leaves the set and starts over; a replacement waits in the set.         *)
Check(t) ==
  /\ pc[t] = "in"
  /\ IF ~Preempted(prio[t], state)
     THEN Goto(t, "work") /\ UNCHANGED again
     ELSE \/ Goto(t, "reset_read") /\ again' = [again EXCEPT ![t] = TRUE]
          \/ prio[t] = acquire /\ Goto(t, "yield_read") /\ UNCHANGED again
  /\ UNCHANGED <<state, prio, seen, held, runs>>

(* wait_mt_state(), after which the line is locked and checked again.      *)
YieldRead(t) ==
  /\ pc[t] = "yield_read"
  /\ Goto(t, IF Preempted(prio[t], state) THEN "yield_wait" ELSE "in")
  /\ UNCHANGED <<state, prio, seen, held, again, runs>>

(* While it serves an access a thread may enter the set once more: with    *)
(* sync, around the probe of the inner caches, or as the probe by which    *)
(* its own outer acquire evicts another block of the set.                  *)
Nested(t) ==
  /\ pc[t] = "work"
  /\ held[t] = {acquire}
  /\ runs[t] > 0
  /\ runs' = [runs EXCEPT ![t] = @ - 1]
  /\ \E p \in {probe, sync} : prio' = [prio EXCEPT ![t] = p]
  /\ Goto(t, "set_read")
  /\ UNCHANGED <<state, seen, held, again>>

Done(t) ==
  /\ pc[t] = "work"
  /\ again' = [again EXCEPT ![t] = FALSE]
  /\ Goto(t, "reset_read")
  /\ UNCHANGED <<state, prio, seen, held, runs>>

----------------------------------------------------------------------------
(* reset_mt_state *)

ResetRead(t) ==
  /\ pc[t] = "reset_read"
  /\ seen' = [seen EXCEPT ![t] = state]
  /\ Goto(t, "reset_swap")
  /\ UNCHANGED <<state, prio, held, again, runs>>

(* Mistake: the word is stored.                                            *)
ResetStore(t) ==
  /\ pc[t] = "reset_swap"
  /\ state' = seen[t] \ {prio[t]}
  /\ held'  = [held EXCEPT ![t] = @ \ {prio[t]}]
  /\ Goto(t, "notify")
  /\ UNCHANGED <<prio, seen, again, runs>>

ResetSwap(t) ==
  /\ pc[t] = "reset_swap"
  /\ IF state = seen[t]
     THEN /\ state' = state \ {prio[t]}
          /\ held'  = [held EXCEPT ![t] = @ \ {prio[t]}]
          /\ Goto(t, "notify")
     ELSE /\ Goto(t, "reset_read")
          /\ UNCHANGED <<state, held>>
  /\ UNCHANGED <<prio, seen, again, runs>>

(* A notified thread loads the word again. *)
Woken(label) ==
  IF label = "set_wait" THEN "set_read"
  ELSE IF label = "yield_wait" THEN "yield_read"
  ELSE label

(* cv.notify_one() wakes any one waiter, if there is one; the thread then  *)
(* starts over, or goes on with what it interrupted, or is done.           *)
Notify(t) ==
  /\ pc[t] = "notify"
  /\ \E u \in Thread :
       pc' = [[pc EXCEPT ![u] = Woken(@)] EXCEPT
               ![t] = IF again[t] THEN "set_read"
                      ELSE IF held[t] = {} THEN "idle" ELSE "work"]
  /\ prio' = [prio EXCEPT ![t] = IF again[t] \/ held[t] = {} THEN @ ELSE acquire]
  /\ UNCHANGED <<state, seen, held, again, runs>>

----------------------------------------------------------------------------
Step(t) ==
  \/ Begin(t)
  \/ SetRead(t)
  \/ SetSwap(t)
  \/ Timeout(t)
  \/ Miss(t)
  \/ MissAgain(t)
  \/ Check(t)
  \/ YieldRead(t)
  \/ Nested(t)
  \/ Done(t)
  \/ ResetRead(t)
  \/ ResetSwap(t)
  \/ Notify(t)

Finished == \A t \in Thread : pc[t] = "idle" /\ runs[t] = 0

(* The program ends when every thread has run its transactions.            *)
Terminating == Finished /\ UNCHANGED vars

Next == (\E t \in Thread : Step(t)) \/ Terminating

(* The operating system runs every thread that can run.                    *)
Spec == Init /\ [][Next]_vars /\ \A t \in Thread : WF_vars(Step(t))

----------------------------------------------------------------------------
(* Properties. *)

(* Type correctness. *)
TypeOK ==
  /\ state \subseteq Prio
  /\ pc    \in [Thread -> Label]
  /\ prio  \in [Thread -> Prio]
  /\ seen  \in [Thread -> SUBSET Prio]
  /\ held  \in [Thread -> SUBSET Prio]
  /\ again \in [Thread -> BOOLEAN]
  /\ runs  \in [Thread -> Nat]

(* No two threads are in the set with the same priority, whatever happens  *)
(* between the load and the compare-and-swap of set_mt_state().            *)
OneHolder == \A t, u \in Thread : t # u => held[t] \cap held[u] = {}

(* assert(state >= prio) in check_mt_state() and wait_mt_state(), and      *)
(* assert(state == (state | prio)) in reset_mt_state(): nobody takes away  *)
(* the bit of a transaction that is in the set.                            *)
BitStands ==
  \A t \in Thread : pc[t] \in Inside => prio[t] \in state

(* The loops implement a lock with priorities: a thread enters only above  *)
(* everything that is in the set at that moment, though it compared an     *)
(* earlier word.                                                           *)
Lock == INSTANCE PriorityLock
ImplementsPriorityLock == Lock!Spec

(* A finite workload ends: waiting, yielding and starting over never go    *)
(* round in circles, and no wake-up is lost for good.                      *)
Termination == <>Finished
=============================================================================
