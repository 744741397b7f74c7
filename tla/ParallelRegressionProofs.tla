---------------------- MODULE ParallelRegressionProofs ----------------------
(***************************************************************************)
(* Proofs about ParallelRegression, for any number of cores, blocks and    *)
(* transactions: what the check refuses was recorded and dropped, and the  *)
(* check of a private block is exact.                                      *)
(***************************************************************************)
EXTENDS ParallelRegression, FiniteSetTheorems, TLAPS

(* What gen() produces, as far as the servers rely on it, and what may be  *)
(* in the queue of core c.                                                 *)
Xact ==
  {x \in [core : Core, addr : Addr, rw : BOOLEAN, ic : BOOLEAN, data : Val, flush : 0 .. 2] :
     /\ x.flush = 2 => Owner[x.addr] = Shared
     /\ x.ic => x.addr \in Inst
     /\ x.rw /\ x.addr \in Inst => x.flush # 0}
XactOf(c) == {x \in Xact : Owner[x.addr] \in {c, Shared}}

Working == {"flush", "record", "write", "read", "check", "refused"}
Thread  == [pc : {"get", "empty", "done"} \cup Working, act : Xact \cup {<<>>},
            val : Val \cup {None}]

Shape ==
  /\ num \in Nat
  /\ left # <<>> =>
       act \in Xact /\ (Owner[act.addr] = Shared \/ (left = <<act.core>> /\ act \in XactOf(act.core)))
  /\ queue \in [Core -> Seq(Xact)]
  /\ server \in [Core -> Thread]
  /\ store \in [Addr -> Val]
  /\ inst \in [Core -> [Addr -> Val \cup {None}]]
  /\ dq \in [Addr -> Seq(Val)]
  /\ gone \in [Addr -> SUBSET Val]

(* A private block is worked on by its core only.                          *)
Placed ==
  \A c \in Core :
    /\ \A i \in 1 .. Len(queue[c]) : queue[c][i] \in XactOf(c)
    /\ server[c].pc \in Working => server[c].act \in XactOf(c)

(* No cache and no server has a value that was never recorded.             *)
Seen(a) == {0} \cup ToSet(dq[a]) \cup gone[a]
OnRecord ==
  /\ \A a \in Addr : store[a] \in Seen(a)
  /\ \A c \in Core, a \in Addr : inst[c][a] \in Seen(a) \cup {None}
  /\ \A c \in Core :
       /\ server[c].pc = "write" => server[c].act.data \in Seen(server[c].act.addr)
       /\ server[c].pc = "check" => server[c].val \in Seen(server[c].act.addr)

(* The caches of a private block's core agree with the last record.        *)
At(c, label, a) == server[c].pc \in label /\ server[c].act.addr = a
Follows ==
  \A c \in Core, a \in Addr : Owner[a] = c =>
    /\ IF At(c, {"write"}, a) THEN server[c].act.data = Latest(a) ELSE store[a] = Latest(a)
    /\ a \in Inst => inst[c][a] \in IF At(c, {"record", "write"}, a) THEN {None} ELSE {None, store[a]}

Sound == Shape /\ Placed /\ OnRecord /\ Follows /\ RefusedOnlyIfDropped /\ PrivateExact

----------------------------------------------------------------------------
(* A core is there, so that a record is kept. *)
LEMMA SomeCore == ASSUME NEW c \in Core PROVE NC \in Nat \ {0}
<1>1. IsFiniteSet(Core)
  BY DriverAssumption
<1>2. Cardinality(Core) \in Nat /\ (Cardinality(Core) = 0 <=> Core = {})
  BY <1>1, FS_CardinalityType, FS_EmptySet
<1> QED BY <1>2 DEF NC

(* push_back keeps what was there until pop_front.                         *)
LEMMA Pushed ==
  ASSUME NEW s \in Seq(Val), NEW v \in Val
  PROVE  /\ Append(s, v) \in Seq(Val)
         /\ Append(s, v) # <<>>
         /\ ToSet(s) \subseteq ToSet(Append(s, v))
         /\ v \in ToSet(Append(s, v))
<1> DEFINE d == Append(s, v)
<1>1. /\ d \in Seq(Val) /\ Len(d) = Len(s) + 1 /\ d[Len(s) + 1] = v
      /\ \A i \in 1 .. Len(s) : d[i] = s[i]
  OBVIOUS
<1>2. DOMAIN s = 1 .. Len(s) /\ DOMAIN d = 1 .. Len(d) /\ Len(s) \in Nat
  BY <1>1
<1>3. v \in ToSet(d)
  BY <1>1, <1>2 DEF ToSet
<1>4. ToSet(s) \subseteq ToSet(d)
  BY <1>1, <1>2 DEF ToSet
<1> QED BY <1>1, <1>3, <1>4

(* DataQueue::write leaves the new value at the end, and at most NC.       *)
LEMMA KeptLast ==
  ASSUME NEW s \in Seq(Val), NEW v \in Val, NC \in Nat \ {0}
  PROVE  LET k == Kept(Append(s, v))
         IN  k \in Seq(Val) /\ k # <<>> /\ Last(k) = v /\ v \in ToSet(k)
<1> DEFINE d == Append(s, v)
           k == Kept(d)
<1>1. d \in Seq(Val) /\ Len(d) = Len(s) + 1 /\ d[Len(d)] = v /\ Len(s) \in Nat
  OBVIOUS
<1>2. k \in Seq(Val) /\ Len(k) \in Nat \ {0} /\ k[Len(k)] = v
  <2>1. CASE Len(d) > NC
    <3>1. k = Tail(d) /\ Len(d) > 1
      BY <2>1, <1>1 DEF Kept
    <3>2. Tail(d) \in Seq(Val) /\ Len(Tail(d)) = Len(d) - 1 /\ Tail(d)[Len(d) - 1] = d[Len(d)]
      BY <3>1, <1>1
    <3> QED BY <3>1, <3>2, <1>1
  <2>2. CASE ~(Len(d) > NC)
    BY <2>2, <1>1 DEF Kept
  <2> QED BY <2>1, <2>2
<1>3. v \in ToSet(k)
  BY <1>2 DEF ToSet
<1> QED BY <1>2, <1>3 DEF Last

----------------------------------------------------------------------------
LEMMA InitSound == Init => Sound
<1> SUFFICES ASSUME Init PROVE Sound
  OBVIOUS
<1>1. 0 \in Val /\ None \notin Val
  BY DriverAssumption DEF Val, None
<1>2. Shape
  BY <1>1 DEF Init, Shape, Idle, Thread
<1>3. Placed /\ RefusedOnlyIfDropped /\ PrivateExact
  BY DEF Init, Placed, RefusedOnlyIfDropped, PrivateExact, Idle, Working
<1>4. OnRecord
  BY DEF Init, OnRecord, Idle, Seen
<1>5. Follows
  BY DEF Init, Follows, Idle, At, Latest
<1> QED BY <1>2, <1>3, <1>4, <1>5 DEF Sound

(* The other invariants do not speak of what the producer has or does.     *)
LEMMA Unmoved ==
  ASSUME Sound, UNCHANGED <<server, store, inst, dq, gone>>
  PROVE  OnRecord' /\ Follows' /\ RefusedOnlyIfDropped' /\ PrivateExact'
<1>1. OnRecord'
  BY DEF Sound, OnRecord, Seen
<1>2. Follows'
  <2>1. \A a \in Addr : Latest(a)' = Latest(a)
    BY DEF Latest
  <2> QED BY <2>1 DEF Sound, Follows, At
<1>3. RefusedOnlyIfDropped'
  BY DEF Sound, RefusedOnlyIfDropped
<1>4. PrivateExact'
  BY DEF Sound, PrivateExact, Latest
<1> QED BY <1>1, <1>2, <1>3, <1>4

(* gen() produces well-formed transactions.                                *)
LEMMA GenerateSound == Sound /\ Generate => Sound'
<1> SUFFICES ASSUME Sound, Generate PROVE Sound'
  OBVIOUS
<1>1. num + 1 \in Val /\ 0 \in Val
  BY DriverAssumption DEF Sound, Shape, Generate, Val
<1>2. act' \in Xact /\ Owner[act'.addr] \in {act'.core, Shared} /\ act'.core \in Core
  BY <1>1, DriverAssumption DEF Generate, Generated, Allowed, Xact
<1>3. Owner[act'.addr] = Shared \/ left' = <<act'.core>>
  BY <1>2 DEF Generate, Receivers, Xact
<1>4. Shape'
  BY <1>2, <1>3 DEF Sound, Shape, Generate, caches, records, XactOf
<1>5. UNCHANGED <<queue, server, store, inst, dq, gone>>
  BY DEF Generate, caches, records
<1>6. Placed'
  BY <1>5 DEF Sound, Placed
<1>7. OnRecord' /\ Follows' /\ RefusedOnlyIfDropped' /\ PrivateExact'
  BY <1>5, Unmoved
<1> QED BY <1>4, <1>6, <1>7 DEF Sound

(* A private transaction is put in the queue of its core.                  *)
LEMMA PutSound == Sound /\ Put => Sound'
<1> SUFFICES ASSUME Sound, Put PROVE Sound'
  OBVIOUS
<1> DEFINE c == Head(left)
<1>1. UNCHANGED <<num, act, server, store, inst, dq, gone>>
  BY DEF Put, caches, records
<1>2. OnRecord' /\ Follows' /\ RefusedOnlyIfDropped' /\ PrivateExact'
  BY <1>1, Unmoved
<1>3. Shape' /\ Placed'
  <2>1. CASE UNCHANGED <<queue, left>>
    BY <1>1, <2>1 DEF Sound, Shape, Placed
  <2>2. CASE queue' = [queue EXCEPT ![c] = Append(@, act)] /\ left' = Tail(left)
    <3>1. act \in Xact /\ (Owner[act.addr] = Shared \/ (left = <<act.core>> /\ act \in XactOf(act.core)))
      BY DEF Put, Sound, Shape
    <3>2. act \in XactOf(c)
      BY <3>1 DEF XactOf
    <3>3. left' # <<>> => Owner[act.addr] = Shared
      <4>1. left = <<act.core>> => Tail(left) = <<>>
        OBVIOUS
      <4> QED BY <2>2, <3>1, <4>1
    <3>4. ASSUME NEW d \in Core
          PROVE  /\ queue'[d] \in Seq(Xact)
                 /\ \A i \in 1 .. Len(queue'[d]) : queue'[d][i] \in XactOf(d)
      <4>1. queue[d] \in Seq(Xact) /\ \A i \in 1 .. Len(queue[d]) : queue[d][i] \in XactOf(d)
        BY DEF Sound, Shape, Placed
      <4>2. CASE d = c
        <5>1. queue'[d] = Append(queue[d], act)
          BY <2>2, <4>2 DEF Sound, Shape
        <5> QED BY <5>1, <4>1, <4>2, <3>1, <3>2
      <4>3. CASE d # c
        <5>1. queue'[d] = queue[d]
          BY <2>2, <4>3 DEF Sound, Shape
        <5> QED BY <5>1, <4>1
      <4> QED BY <4>2, <4>3
    <3>5. queue' \in [Core -> Seq(Xact)]
      <4>1. DOMAIN queue' = Core /\ queue' = [d \in Core |-> queue'[d]]
        BY <2>2 DEF Sound, Shape
      <4> QED BY <4>1, <3>4
    <3> QED BY <1>1, <3>1, <3>3, <3>4, <3>5 DEF Sound, Shape, Placed
  <2> QED BY <2>1, <2>2 DEF Put
<1> QED BY <1>2, <1>3 DEF Sound

LEMMA SetExitSound == Sound /\ SetExit => Sound'
<1> SUFFICES ASSUME Sound, SetExit PROVE Sound'
  OBVIOUS
<1>1. UNCHANGED <<num, act, left, queue, server, store, inst, dq, gone>>
  BY DEF SetExit, producing, caches, records
<1>2. OnRecord' /\ Follows' /\ RefusedOnlyIfDropped' /\ PrivateExact'
  BY <1>1, Unmoved
<1>3. Shape' /\ Placed'
  BY <1>1 DEF Sound, Shape, Placed
<1> QED BY <1>2, <1>3 DEF Sound

----------------------------------------------------------------------------
(* A server that works does so on a block of its own or on a shared one,   *)
(* and no other server works on its private blocks.                        *)
LEMMA Apart ==
  ASSUME Sound, NEW c \in Core, server[c].pc \in Working
  PROVE  /\ server[c].act \in Xact /\ server[c].act.addr \in Addr
         /\ server[c].act.data \in Val
         /\ \A d \in Core : Owner[server[c].act.addr] = d => d = c
<1>1. server[c].act \in XactOf(c)
  BY DEF Sound, Placed
<1> QED BY <1>1, DriverAssumption DEF XactOf, Xact

(* A server takes a step that neither writes nor reads. *)
LEMMA Stepped ==
  ASSUME Sound, NEW c \in Core, NEW t \in Thread,
         server' = [server EXCEPT ![c] = t],
         UNCHANGED <<num, act, left, store, inst, dq, gone>>,
         queue' \in [Core -> Seq(Xact)],
         \A d \in Core, i \in Nat : i \in 1 .. Len(queue'[d]) => queue'[d][i] \in XactOf(d),
         server[c].pc \notin {"record", "write"},
         t.pc \notin {"write", "check"},
         t.pc \in Working => t.act \in XactOf(c),
         t.pc = "record" => t.act.addr \notin Inst,
         t.pc = "refused" => t.val \in gone[t.act.addr] /\ Owner[t.act.addr] = Shared
  PROVE  Sound'
<1>1. /\ server' \in [Core -> Thread] /\ server'[c] = t
      /\ \A d \in Core : d # c => server'[d] = server[d]
  BY DEF Sound, Shape
<1>2. Shape'
  BY <1>1 DEF Sound, Shape
<1>3. Placed'
  BY <1>1 DEF Sound, Shape, Placed
<1>4. OnRecord'
  BY <1>1 DEF Sound, OnRecord, Seen
<1>5. Follows'
  <2> SUFFICES ASSUME NEW d \in Core, NEW a \in Addr, Owner[a] = d
               PROVE  /\ IF At(d, {"write"}, a)' THEN server'[d].act.data = Latest(a)'
                                                 ELSE store'[a] = Latest(a)'
                      /\ a \in Inst => inst'[d][a] \in IF At(d, {"record", "write"}, a)'
                                                        THEN {None} ELSE {None, store'[a]}
    BY DEF Follows, At
  <2>1. Latest(a)' = Latest(a)
    BY DEF Latest
  <2>2. /\ IF At(d, {"write"}, a) THEN server[d].act.data = Latest(a) ELSE store[a] = Latest(a)
        /\ a \in Inst => inst[d][a] \in IF At(d, {"record", "write"}, a)
                                         THEN {None} ELSE {None, store[a]}
    BY DEF Sound, Follows
  <2>3. CASE d # c
    BY <1>1, <2>1, <2>2, <2>3 DEF At
  <2>4. CASE d = c
    BY <1>1, <2>1, <2>2, <2>4 DEF At
  <2> QED BY <2>3, <2>4
<1>6. RefusedOnlyIfDropped'
  BY <1>1 DEF Sound, RefusedOnlyIfDropped
<1>7. PrivateExact'
  BY <1>1 DEF Sound, PrivateExact, Latest
<1> QED BY <1>2, <1>3, <1>4, <1>5, <1>6, <1>7 DEF Sound

(* A server takes a transaction from its queue, or finds it empty.         *)
LEMMA GetSound == \A c \in Core : Sound /\ Get(c) => Sound'
<1> SUFFICES ASSUME NEW c \in Core, Sound, Get(c) PROVE Sound'
  OBVIOUS
<1>1. UNCHANGED <<num, act, left, store, inst, dq, gone>> /\ server[c].pc = "get"
  BY DEF Get, producing, caches, records
<1>2. server \in [Core -> Thread] /\ queue \in [Core -> Seq(Xact)]
  BY DEF Sound, Shape
<1>3. \A d \in Core, i \in Nat : i \in 1 .. Len(queue[d]) => queue[d][i] \in XactOf(d)
  BY DEF Sound, Placed
<1>4. CASE server' = [server EXCEPT ![c].pc = "empty"] /\ queue' = queue
  <2> DEFINE t == [server[c] EXCEPT !.pc = "empty"]
  <2>1. t \in Thread /\ t.pc = "empty" /\ server' = [server EXCEPT ![c] = t]
    BY <1>2, <1>4 DEF Thread
  <2> QED BY <1>1, <1>2, <1>3, <1>4, <2>1, Stepped DEF Working
<1>5. CASE /\ queue[c] # <<>>
           /\ server' = [server EXCEPT ![c].pc = First(Head(queue[c])), ![c].act = Head(queue[c])]
           /\ queue' = [queue EXCEPT ![c] = Tail(@)]
  <2> DEFINE x == Head(queue[c])
             t == [server[c] EXCEPT !.pc = First(x), !.act = x]
  <2>1. x \in XactOf(c) /\ x \in Xact
    <3>1. queue[c] \in Seq(Xact) /\ Len(queue[c]) \in Nat \ {0}
      BY <1>2, <1>5
    <3>2. x = queue[c][1] /\ 1 \in 1 .. Len(queue[c])
      BY <3>1
    <3> QED BY <1>3, <3>2 DEF XactOf
  <2>2. First(x) \in {"flush", "record", "read"} /\ (First(x) = "record" => x.addr \notin Inst)
    BY <2>1 DEF First, Xact
  <2>3. t \in Thread /\ t.pc = First(x) /\ t.act = x /\ server' = [server EXCEPT ![c] = t]
    BY <1>2, <1>5, <2>1, <2>2 DEF Thread, Working
  <2>4. queue' \in [Core -> Seq(Xact)]
    BY <1>2, <1>5
  <2>5. ASSUME NEW d \in Core, NEW i \in Nat, i \in 1 .. Len(queue'[d])
        PROVE  queue'[d][i] \in XactOf(d)
    <3>1. CASE d # c
      BY <1>2, <1>3, <1>5, <2>5, <3>1
    <3>2. CASE d = c
      <4>1. queue'[c] = Tail(queue[c]) /\ queue[c] \in Seq(Xact)
        BY <1>2, <1>5
      <4>2. i + 1 \in 1 .. Len(queue[c]) /\ queue'[c][i] = queue[c][i + 1]
        <5> DEFINE q == queue[c]
        <5>1. q \in Seq(Xact) /\ q # <<>> /\ i \in 1 .. Len(Tail(q))
          BY <4>1, <2>5, <3>2, <1>5
        <5>2. i + 1 \in 1 .. Len(q) /\ Tail(q)[i] = q[i + 1]
          BY <5>1
        <5> QED BY <4>1, <5>2
      <4> QED BY <1>3, <4>2, <3>2
    <3> QED BY <3>1, <3>2
  <2> QED BY <1>1, <2>1, <2>2, <2>3, <2>4, <2>5, Stepped
<1> QED BY <1>4, <1>5 DEF Get

(* A server that found its queue empty returns to it or ends.              *)
LEMMA TestExitSound == \A c \in Core : Sound /\ TestExit(c) => Sound'
<1> SUFFICES ASSUME NEW c \in Core, Sound, TestExit(c) PROVE Sound'
  OBVIOUS
<1> DEFINE t == [server[c] EXCEPT !.pc = IF exit THEN "done" ELSE "get"]
<1>1. UNCHANGED <<num, act, left, store, inst, dq, gone, queue>> /\ server[c].pc = "empty"
  BY DEF TestExit, producing, caches, records
<1>2. server \in [Core -> Thread] /\ queue \in [Core -> Seq(Xact)]
  BY DEF Sound, Shape
<1>3. \A d \in Core, i \in Nat : i \in 1 .. Len(queue[d]) => queue[d][i] \in XactOf(d)
  BY DEF Sound, Placed
<1>4. t \in Thread /\ t.pc \in {"get", "done"} /\ server' = [server EXCEPT ![c] = t]
  BY <1>2 DEF Thread, TestExit
<1> QED BY <1>1, <1>2, <1>3, <1>4, Stepped DEF Working

(* A value that the check of a DataQueue refuses was dropped by it, and    *)
(* that of a private block's is its last record.                           *)
LEMMA CheckSound == \A c \in Core : Sound /\ Check(c) => Sound'
<1> SUFFICES ASSUME NEW c \in Core, Sound, Check(c) PROVE Sound'
  OBVIOUS
<1> DEFINE a == server[c].act.addr
           v == server[c].val
           t == IF Accepts(a, v) THEN Idle ELSE [server[c] EXCEPT !.pc = "refused"]
<1>1. UNCHANGED <<num, act, left, store, inst, dq, gone, queue>> /\ server[c].pc = "check"
  BY DEF Check, producing, caches, records
<1>2. server \in [Core -> Thread] /\ queue \in [Core -> Seq(Xact)] /\ dq \in [Addr -> Seq(Val)]
  BY DEF Sound, Shape
<1>3. \A d \in Core, i \in Nat : i \in 1 .. Len(queue[d]) => queue[d][i] \in XactOf(d)
  BY DEF Sound, Placed
<1>4. server[c].act \in XactOf(c) /\ a \in Addr
  BY <1>1, Apart DEF Sound, Placed, Working
<1>5. t \in Thread /\ t.pc \in {"get", "refused"}
  BY <1>2, <1>4 DEF Thread, Working, Idle, None, XactOf
<1>6. server' = [server EXCEPT ![c] = t]
  BY <1>2 DEF Check
<1>7. t.pc = "refused" => t.act = server[c].act /\ t.val = v /\ ~Accepts(a, v)
  BY <1>2 DEF Thread, Idle
<1>8. ~Accepts(a, v) => v \in gone[a] /\ Owner[a] = Shared
  <2> SUFFICES ASSUME ~Accepts(a, v) PROVE v \in gone[a] /\ Owner[a] = Shared
    OBVIOUS
  <2>1. dq[a] # <<>> /\ v # 0 /\ v \notin ToSet(dq[a])
    BY DEF Accepts
  <2>2. v \in Seen(a)
    BY <1>1 DEF Sound, OnRecord
  <2>3. v \in gone[a]
    BY <2>1, <2>2 DEF Seen
  <2>4. Owner[a] # Shared => v = Latest(a)
    BY <1>1 DEF Sound, PrivateExact
  <2>5. Last(dq[a]) \in ToSet(dq[a])
    <3>1. dq[a] \in Seq(Val) /\ Len(dq[a]) \in Nat \ {0} /\ DOMAIN dq[a] = 1 .. Len(dq[a])
      BY <1>2, <1>4, <2>1
    <3> QED BY <3>1 DEF Last, ToSet
  <2>6. Owner[a] = Shared
    BY <2>1, <2>4, <2>5 DEF Latest
  <2> QED BY <2>3, <2>6
<1>9. t.pc \in Working => t.act \in XactOf(c)
  BY <1>4, <1>5, <1>7 DEF Working
<1>10. t.pc = "refused" => t.val \in gone[t.act.addr] /\ Owner[t.act.addr] = Shared
  BY <1>7, <1>8
<1>11. /\ server[c].pc \notin {"record", "write"} /\ t.pc \notin {"write", "check"}
       /\ t.pc = "record" => t.act.addr \notin Inst
  BY <1>1, <1>5
<1> HIDE DEF t
<1> QED BY <1>1, <1>2, <1>3, <1>5, <1>6, <1>9, <1>10, <1>11, Stepped

(* The instruction cache of a private block's core is empty of it before   *)
(* the block is written.                                                   *)
LEMMA FlushSound == \A c \in Core : Sound /\ Running /\ Flush(c) => Sound'
<1> SUFFICES ASSUME NEW c \in Core, Sound, Running, Flush(c) PROVE Sound'
  OBVIOUS
<1> DEFINE a == server[c].act.addr
<1>1. UNCHANGED <<num, act, left, store, dq, gone, queue>> /\ server[c].pc = "flush"
  BY DEF Flush, producing, records
<1>2. server \in [Core -> Thread] /\ inst \in [Core -> [Addr -> Val \cup {None}]]
  BY DEF Sound, Shape
<1>3. /\ server' \in [Core -> Thread] /\ server'[c] = [server[c] EXCEPT !.pc = "record"]
      /\ \A d \in Core : d # c => server'[d] = server[d]
  BY <1>2 DEF Flush, Thread, Working
<1>4. /\ server'[c].pc = "record" /\ server'[c].act = server[c].act
      /\ server[c].act \in XactOf(c) /\ a \in Addr
  BY <1>1, <1>2, <1>3, Apart DEF Thread, Sound, Placed, Working
<1>5. /\ inst' \in [Core -> [Addr -> Val \cup {None}]] /\ inst'[c][a] = None
      /\ \A d \in Core, b \in Addr : d # c \/ b # a => inst'[d][b] = inst[d][b]
  BY <1>2, <1>4 DEF Flush
<1>6. Shape'
  BY <1>1, <1>3, <1>5 DEF Sound, Shape
<1>7. Placed'
  BY <1>1, <1>3, <1>4 DEF Sound, Placed, Working
<1>8. OnRecord'
  <2>1. \A b \in Addr : Seen(b)' = Seen(b)
    BY <1>1 DEF Seen
  <2>2. \A d \in Core, b \in Addr : inst'[d][b] \in Seen(b)' \cup {None}
    BY <1>5, <2>1 DEF Sound, OnRecord
  <2> QED BY <1>1, <1>3, <1>4, <2>1, <2>2 DEF Sound, OnRecord, Seen
<1>9. Follows'
  <2> SUFFICES ASSUME NEW d \in Core, NEW b \in Addr, Owner[b] = d
               PROVE  /\ IF At(d, {"write"}, b)' THEN server'[d].act.data = Latest(b)'
                                                 ELSE store'[b] = Latest(b)'
                      /\ b \in Inst => inst'[d][b] \in IF At(d, {"record", "write"}, b)'
                                                        THEN {None} ELSE {None, store'[b]}
    BY DEF Follows, At
  <2>1. Latest(b)' = Latest(b)
    BY <1>1 DEF Latest
  <2>2. /\ IF At(d, {"write"}, b) THEN server[d].act.data = Latest(b) ELSE store[b] = Latest(b)
        /\ b \in Inst => inst[d][b] \in IF At(d, {"record", "write"}, b)
                                         THEN {None} ELSE {None, store[b]}
    BY DEF Sound, Follows
  <2>3. CASE d # c
    BY <1>1, <1>3, <1>5, <2>1, <2>2, <2>3 DEF At
  <2>4. CASE d = c /\ b = a
    BY <1>1, <1>4, <1>5, <2>1, <2>2, <2>4 DEF At
  <2>5. CASE d = c /\ b # a
    BY <1>1, <1>4, <1>5, <2>1, <2>2, <2>5 DEF At
  <2> QED BY <2>3, <2>4, <2>5
<1>10. RefusedOnlyIfDropped'
  BY <1>3, <1>4 DEF Running, RefusedOnlyIfDropped
<1>11. PrivateExact'
  <2> SUFFICES ASSUME NEW d \in Core, NEW b, b = server'[d].act.addr,
                      server'[d].pc \in {"check", "refused"}, Owner[b] # Shared
               PROVE  server'[d].pc = "check" /\ server'[d].val = Latest(b)'
    BY DEF PrivateExact
  <2>1. d # c
    BY <1>4
  <2>2. server'[d] = server[d]
    BY <1>3, <2>1
  <2> QED BY <1>1, <2>2 DEF Sound, PrivateExact, Latest
<1> QED BY <1>6, <1>7, <1>8, <1>9, <1>10, <1>11 DEF Sound

(* What is recorded is the last record, and what was recorded before is    *)
(* still kept or was dropped.                                              *)
LEMMA RecordSound == \A c \in Core : Sound /\ Running /\ Record(c) => Sound'
<1> SUFFICES ASSUME NEW c \in Core, Sound, Running, Record(c) PROVE Sound'
  OBVIOUS
<1> PICK x \in Xact : x = server[c].act
  BY Apart DEF Record, Working
<1> PICK a \in Addr : a = x.addr
  BY DEF Xact
<1> DEFINE q == Append(dq[a], x.data)
<1>1. UNCHANGED <<num, act, left, store, inst, queue>> /\ server[c].pc = "record"
  BY DEF Record, producing, caches
<1>2. /\ server \in [Core -> Thread] /\ dq \in [Addr -> Seq(Val)]
      /\ gone \in [Addr -> SUBSET Val]
  BY DEF Sound, Shape
<1>3. /\ a \in Addr /\ x.data \in Val /\ x \in XactOf(c)
      /\ \A d \in Core : Owner[a] = d => d = c
  BY <1>1, Apart DEF Sound, Placed, Working
<1>4. /\ server' \in [Core -> Thread] /\ server'[c] = [server[c] EXCEPT !.pc = "write"]
      /\ \A d \in Core : d # c => server'[d] = server[d]
  BY <1>2 DEF Record, Thread, Working
<1>5. server'[c].pc = "write" /\ server'[c].act = x
  BY <1>2, <1>4 DEF Thread
<1>6. /\ q \in Seq(Val) /\ ToSet(dq[a]) \subseteq ToSet(q)
      /\ Kept(q) \in Seq(Val) /\ Kept(q) # <<>> /\ Last(Kept(q)) = x.data
      /\ x.data \in ToSet(Kept(q))
  BY <1>2, <1>3, SomeCore, Pushed, KeptLast
<1>7. /\ dq' = [dq EXCEPT ![a] = Kept(q)]
      /\ gone' = [gone EXCEPT ![a] = (gone[a] \cup ToSet(q)) \ ToSet(Kept(q))]
  BY <1>2, <1>3 DEF Record, Recorded
<1>8. /\ dq'[a] = Kept(q) /\ gone'[a] = (gone[a] \cup ToSet(q)) \ ToSet(Kept(q))
      /\ \A b \in Addr : b # a => dq'[b] = dq[b] /\ gone'[b] = gone[b]
  BY <1>2, <1>3, <1>7
<1>9. ToSet(q) \subseteq Val
  <2>1. DOMAIN q = 1 .. Len(q) /\ \A i \in 1 .. Len(q) : q[i] \in Val
    BY <1>6
  <2> QED BY <2>1 DEF ToSet
<1>10. dq' \in [Addr -> Seq(Val)] /\ gone' \in [Addr -> SUBSET Val]
  BY <1>2, <1>3, <1>6, <1>7, <1>9
<1>11. Latest(a)' = x.data /\ \A b \in Addr : b # a => Latest(b)' = Latest(b)
  BY <1>6, <1>8 DEF Latest
<1>12. x.data \in Seen(a)' /\ \A b \in Addr : Seen(b) \subseteq Seen(b)'
  <2>1. x.data \in Seen(a)'
    BY <1>6, <1>8 DEF Seen
  <2>2. Seen(a) \subseteq Seen(a)'
    BY <1>6, <1>8 DEF Seen
  <2>3. \A b \in Addr : b # a => Seen(b)' = Seen(b)
    BY <1>8 DEF Seen
  <2> QED BY <2>1, <2>2, <2>3
<1>13. Shape'
  BY <1>1, <1>4, <1>10 DEF Sound, Shape
<1>14. Placed'
  BY <1>1, <1>3, <1>4, <1>5 DEF Sound, Placed, Working
<1>15. OnRecord'
  <2>1. \A b \in Addr : store'[b] \in Seen(b)'
    BY <1>1, <1>12 DEF Sound, OnRecord
  <2>2. \A d \in Core, b \in Addr : inst'[d][b] \in Seen(b)' \cup {None}
    BY <1>1, <1>12 DEF Sound, OnRecord
  <2>3. ASSUME NEW d \in Core
        PROVE  /\ (server[d].pc = "write" => server[d].act.data \in Seen(server[d].act.addr))'
               /\ (server[d].pc = "check" => server[d].val \in Seen(server[d].act.addr))'
    <3>1. CASE d = c
      BY <1>5, <1>12, <3>1
    <3>2. CASE d # c
      <4>1. server'[d] = server[d]
        BY <1>4, <3>2
      <4>2. CASE server[d].pc \in {"write", "check"}
        <5> PICK b \in Addr : b = server[d].act.addr
          BY <4>2, Apart DEF Working
        <5>1. /\ server[d].pc = "write" => server[d].act.data \in Seen(b)'
              /\ server[d].pc = "check" => server[d].val \in Seen(b)'
          BY <1>12 DEF Sound, OnRecord
        <5> QED BY <4>1, <5>1
      <4> QED BY <4>1, <4>2
    <3> QED BY <3>1, <3>2
  <2> QED BY <2>1, <2>2, <2>3 DEF OnRecord, Seen
<1>16. Follows'
  <2> SUFFICES ASSUME NEW d \in Core, NEW b \in Addr, Owner[b] = d
               PROVE  /\ IF At(d, {"write"}, b)' THEN server'[d].act.data = Latest(b)'
                                                 ELSE store'[b] = Latest(b)'
                      /\ b \in Inst => inst'[d][b] \in IF At(d, {"record", "write"}, b)'
                                                        THEN {None} ELSE {None, store'[b]}
    BY DEF Follows, At
  <2>1. /\ IF At(d, {"write"}, b) THEN server[d].act.data = Latest(b) ELSE store[b] = Latest(b)
        /\ b \in Inst => inst[d][b] \in IF At(d, {"record", "write"}, b)
                                         THEN {None} ELSE {None, store[b]}
    BY DEF Sound, Follows
  <2>2. CASE d # c
    <3>1. b # a
      BY <1>3, <2>2
    <3> QED BY <1>1, <1>4, <1>11, <2>1, <2>2, <3>1 DEF At
  <2>3. CASE d = c /\ b = a
    BY <1>1, <1>5, <1>11, <2>1, <2>3 DEF At
  <2>4. CASE d = c /\ b # a
    BY <1>1, <1>5, <1>11, <2>1, <2>4 DEF At
  <2> QED BY <2>2, <2>3, <2>4
<1>17. RefusedOnlyIfDropped'
  BY <1>4, <1>5 DEF Running, RefusedOnlyIfDropped
<1>18. PrivateExact'
  <2> SUFFICES ASSUME NEW d \in Core, server'[d].pc \in {"check", "refused"},
                      Owner[server'[d].act.addr] # Shared
               PROVE  (server[d].pc = "check" /\ server[d].val = Latest(server[d].act.addr))'
    BY DEF PrivateExact
  <2>1. d # c /\ server'[d] = server[d]
    BY <1>4, <1>5
  <2> PICK b \in Addr : b = server[d].act.addr
    BY <2>1, Apart DEF Working
  <2>2. server[d].pc = "check" /\ server[d].val = Latest(b)
    BY <2>1 DEF Sound, PrivateExact
  <2>3. Owner[b] = d
    BY <2>1, <2>2 DEF XactOf, Working, Sound, Placed
  <2>4. Latest(b)' = Latest(b)
    BY <1>3, <1>11, <2>1, <2>3
  <2> QED BY <2>1, <2>2, <2>4
<1> QED BY <1>13, <1>14, <1>15, <1>16, <1>17, <1>18 DEF Sound

(* The caches hold what was recorded before.                               *)
LEMMA WriteSound == \A c \in Core : Sound /\ Running /\ Write(c) => Sound'
<1> SUFFICES ASSUME NEW c \in Core, Sound, Running, Write(c) PROVE Sound'
  OBVIOUS
<1> PICK x \in Xact : x = server[c].act
  BY Apart DEF Write, Working
<1> PICK a \in Addr : a = x.addr
  BY DEF Xact
<1>1. UNCHANGED <<num, act, left, queue, inst, dq, gone>> /\ server[c].pc = "write"
  BY DEF Write, producing, records
<1>2. server \in [Core -> Thread] /\ store \in [Addr -> Val]
  BY DEF Sound, Shape
<1>3. \A d \in Core : Owner[a] = d => d = c
  BY <1>1, Apart DEF Working
<1>4. /\ server' \in [Core -> Thread] /\ server'[c] = Idle
      /\ \A d \in Core : d # c => server'[d] = server[d]
  BY <1>2 DEF Write, Thread, Idle, Val, None
<1>5. server'[c].pc = "get"
  BY <1>4 DEF Idle
<1>6. /\ store' \in [Addr -> Val] /\ store'[a] = x.data
      /\ \A b \in Addr : b # a => store'[b] = store[b]
  BY <1>2 DEF Write, Xact
<1>7. \A b \in Addr : Seen(b)' = Seen(b) /\ Latest(b)' = Latest(b)
  BY <1>1 DEF Seen, Latest
<1>8. x.data \in Seen(a)
  BY <1>1 DEF Sound, OnRecord
<1>9. Shape'
  BY <1>1, <1>4, <1>6 DEF Sound, Shape
<1>10. Placed'
  BY <1>1, <1>4, <1>5 DEF Sound, Placed, Working
<1>11. OnRecord'
  <2>1. \A b \in Addr : (store[b] \in Seen(b))'
    BY <1>6, <1>7, <1>8 DEF Sound, OnRecord
  <2>2. \A d \in Core, b \in Addr : (inst[d][b] \in Seen(b) \cup {None})'
    BY <1>1, <1>7 DEF Sound, OnRecord
  <2>3. ASSUME NEW d \in Core
        PROVE  /\ (server[d].pc = "write" => server[d].act.data \in Seen(server[d].act.addr))'
               /\ (server[d].pc = "check" => server[d].val \in Seen(server[d].act.addr))'
    BY <1>1, <1>4, <1>5 DEF Sound, OnRecord, Seen
  <2> QED BY <2>1, <2>2, <2>3 DEF OnRecord
<1>12. Follows'
  <2> SUFFICES ASSUME NEW d \in Core, NEW b \in Addr, Owner[b] = d
               PROVE  /\ IF At(d, {"write"}, b)' THEN server'[d].act.data = Latest(b)'
                                                 ELSE store'[b] = Latest(b)'
                      /\ b \in Inst => inst'[d][b] \in IF At(d, {"record", "write"}, b)'
                                                        THEN {None} ELSE {None, store'[b]}
    BY DEF Follows, At
  <2>1. /\ IF At(d, {"write"}, b) THEN server[d].act.data = Latest(b) ELSE store[b] = Latest(b)
        /\ b \in Inst => inst[d][b] \in IF At(d, {"record", "write"}, b)
                                         THEN {None} ELSE {None, store[b]}
    BY DEF Sound, Follows
  <2>2. CASE d # c
    <3>1. b # a
      BY <1>3, <2>2
    <3> QED BY <1>1, <1>4, <1>6, <1>7, <2>1, <2>2, <3>1 DEF At
  <2>3. CASE d = c /\ b = a
    BY <1>1, <1>5, <1>6, <1>7, <2>1, <2>3 DEF At
  <2>4. CASE d = c /\ b # a
    BY <1>1, <1>5, <1>6, <1>7, <2>1, <2>4 DEF At
  <2> QED BY <2>2, <2>3, <2>4
<1>13. RefusedOnlyIfDropped'
  BY <1>4, <1>5 DEF Running, RefusedOnlyIfDropped
<1>14. PrivateExact'
  BY <1>1, <1>4, <1>5 DEF Sound, PrivateExact, Latest
<1> QED BY <1>9, <1>10, <1>11, <1>12, <1>13, <1>14 DEF Sound

(* What a cache returns is on record, and the last record if the block is  *)
(* private.                                                                *)
LEMMA ReadSound == \A c \in Core : Sound /\ Running /\ Read(c) => Sound'
<1> SUFFICES ASSUME NEW c \in Core, Sound, Running, Read(c) PROVE Sound'
  OBVIOUS
<1> PICK x \in Xact : x = server[c].act
  BY Apart DEF Read, Working
<1> PICK a \in Addr : a = x.addr
  BY DEF Xact
<1> PICK v \in {store[a]} \cup (IF x.ic THEN {inst[c][a]} \ {None} ELSE {}) :
         /\ server' = [server EXCEPT ![c].pc = "check", ![c].val = v]
         /\ inst' = IF x.ic THEN [inst EXCEPT ![c][a] = v] ELSE inst
  BY DEF Read
<1>1. UNCHANGED <<num, act, left, queue, store, dq, gone>> /\ server[c].pc = "read"
  BY DEF Read, producing, records
<1>2. /\ server \in [Core -> Thread] /\ store \in [Addr -> Val]
      /\ inst \in [Core -> [Addr -> Val \cup {None}]]
  BY DEF Sound, Shape
<1>3. x \in XactOf(c) /\ \A d \in Core : Owner[a] = d => d = c
  BY <1>1, Apart DEF Sound, Placed, Working
<1>4. v \in Val /\ v \in Seen(a)
  BY <1>2 DEF Sound, OnRecord
<1> DEFINE t == [server[c] EXCEPT !.pc = "check", !.val = v]
<1>5. t \in Thread /\ server' = [server EXCEPT ![c] = t]
  <2>1. server[c] \in Thread
    BY <1>2
  <2>2. t \in Thread
    BY <2>1, <1>4 DEF Thread, Working
  <2>3. server' = [server EXCEPT ![c] = t]
    BY <1>2
  <2> QED BY <2>2, <2>3
<1>6. /\ server' \in [Core -> Thread] /\ server'[c] = t
      /\ \A d \in Core : d # c => server'[d] = server[d]
  BY <1>2, <1>5
<1>7. server'[c].pc = "check" /\ server'[c].act = x /\ server'[c].val = v
  BY <1>2, <1>6 DEF Thread
<1>8. /\ inst' \in [Core -> [Addr -> Val \cup {None}]]
      /\ \A d \in Core, b \in Addr : d # c \/ b # a => inst'[d][b] = inst[d][b]
  BY <1>2, <1>4
<1>9. inst'[c][a] = IF x.ic THEN v ELSE inst[c][a]
  BY <1>2
<1>10. \A b \in Addr : Seen(b)' = Seen(b) /\ Latest(b)' = Latest(b)
  BY <1>1 DEF Seen, Latest
<1>11. Owner[a] = c => v = store[a] /\ store[a] = Latest(a)
  <2> SUFFICES ASSUME Owner[a] = c PROVE v = store[a] /\ store[a] = Latest(a)
    OBVIOUS
  <2>1. /\ store[a] = Latest(a)
        /\ a \in Inst => inst[c][a] \in {None, store[a]}
    BY <1>1 DEF Sound, Follows, At
  <2>2. x.ic => a \in Inst
    BY DEF Xact
  <2> QED BY <2>1, <2>2
<1>12. Shape'
  BY <1>1, <1>6, <1>8 DEF Sound, Shape
<1>13. Placed'
  BY <1>1, <1>3, <1>6, <1>7 DEF Sound, Placed, Working
<1>14. OnRecord'
  <2>1. \A b \in Addr : (store[b] \in Seen(b))'
    BY <1>1, <1>10 DEF Sound, OnRecord
  <2>2. ASSUME NEW d \in Core, NEW b \in Addr PROVE (inst[d][b] \in Seen(b) \cup {None})'
    <3>1. inst[d][b] \in Seen(b) \cup {None}
      BY DEF Sound, OnRecord
    <3> QED BY <1>4, <1>8, <1>9, <1>10, <3>1
  <2>3. ASSUME NEW d \in Core
        PROVE  /\ (server[d].pc = "write" => server[d].act.data \in Seen(server[d].act.addr))'
               /\ (server[d].pc = "check" => server[d].val \in Seen(server[d].act.addr))'
    <3>1. CASE d = c
      BY <1>4, <1>7, <1>10, <3>1
    <3>2. CASE d # c
      BY <1>1, <1>6, <3>2 DEF Sound, OnRecord, Seen
    <3> QED BY <3>1, <3>2
  <2> QED BY <2>1, <2>2, <2>3 DEF OnRecord
<1>15. Follows'
  <2> SUFFICES ASSUME NEW d \in Core, NEW b \in Addr, Owner[b] = d
               PROVE  /\ IF At(d, {"write"}, b)' THEN server'[d].act.data = Latest(b)'
                                                 ELSE store'[b] = Latest(b)'
                      /\ b \in Inst => inst'[d][b] \in IF At(d, {"record", "write"}, b)'
                                                        THEN {None} ELSE {None, store'[b]}
    BY DEF Follows, At
  <2>1. /\ IF At(d, {"write"}, b) THEN server[d].act.data = Latest(b) ELSE store[b] = Latest(b)
        /\ b \in Inst => inst[d][b] \in IF At(d, {"record", "write"}, b)
                                         THEN {None} ELSE {None, store[b]}
    BY DEF Sound, Follows
  <2>2. CASE d # c
    BY <1>1, <1>6, <1>8, <1>10, <2>1, <2>2 DEF At
  <2>3. CASE d = c /\ b = a
    <3>1. inst'[c][a] \in {inst[c][a], store[a]}
      BY <1>9, <1>11, <2>3
    <3> QED BY <1>1, <1>7, <1>10, <2>1, <2>3, <3>1 DEF At
  <2>4. CASE d = c /\ b # a
    BY <1>1, <1>7, <1>8, <1>10, <2>1, <2>4 DEF At
  <2> QED BY <2>2, <2>3, <2>4
<1>16. RefusedOnlyIfDropped'
  BY <1>6, <1>7 DEF Running, RefusedOnlyIfDropped
<1>17. PrivateExact'
  <2> SUFFICES ASSUME NEW d \in Core, server'[d].pc \in {"check", "refused"},
                      Owner[server'[d].act.addr] # Shared
               PROVE  (server[d].pc = "check" /\ server[d].val = Latest(server[d].act.addr))'
    BY DEF PrivateExact
  <2>1. CASE d = c
    <3>1. Owner[a] = c
      BY <1>3, <1>7, <2>1 DEF XactOf
    <3> QED BY <1>7, <1>10, <1>11, <2>1, <3>1
  <2>2. CASE d # c
    <3>1. server[d].pc = "check" /\ server[d].val = Latest(server[d].act.addr)
      BY <1>6, <2>2 DEF Sound, PrivateExact
    <3> QED BY <1>1, <1>6, <2>2, <3>1 DEF Latest
  <2> QED BY <2>1, <2>2
<1> QED BY <1>12, <1>13, <1>14, <1>15, <1>16, <1>17 DEF Sound

LEMMA StutterSound == Sound /\ UNCHANGED vars => Sound'
<1> SUFFICES ASSUME Sound, UNCHANGED vars PROVE Sound'
  OBVIOUS
<1>1. UNCHANGED <<num, act, left, queue, server, store, inst, dq, gone>>
  BY DEF vars
<1>2. OnRecord' /\ Follows' /\ RefusedOnlyIfDropped' /\ PrivateExact'
  BY <1>1, Unmoved
<1>3. Shape' /\ Placed'
  BY <1>1 DEF Sound, Shape, Placed
<1> QED BY <1>2, <1>3 DEF Sound

----------------------------------------------------------------------------
(* The driver keeps its invariant. *)
THEOREM DriverSound == Spec => []Sound
<1>1. Sound /\ [Next]_vars => Sound'
  <2> SUFFICES ASSUME Sound, [Next]_vars PROVE Sound'
    OBVIOUS
  <2>1. CASE Generate
    BY <2>1, GenerateSound
  <2>2. CASE Put
    BY <2>2, PutSound
  <2>3. CASE SetExit
    BY <2>3, SetExitSound
  <2>4. ASSUME NEW c \in Core, Serve(c) PROVE Sound'
    BY <2>4, GetSound, TestExitSound, FlushSound, RecordSound, WriteSound, ReadSound, CheckSound
       DEF Serve
  <2>5. CASE UNCHANGED vars
    BY <2>5, StutterSound
  <2> QED BY <2>1, <2>2, <2>3, <2>4, <2>5 DEF Next
<1> QED BY InitSound, <1>1, PTL DEF Spec

(* DataQueue::check never refuses a value that was not recorded and then   *)
(* dropped: no data race of the driver itself makes a correct cache fail.  *)
THEOREM RefusalsExplained == Spec => []RefusedOnlyIfDropped
<1>1. Sound => RefusedOnlyIfDropped
  BY DEF Sound
<1> QED BY DriverSound, <1>1, PTL

(* The check of a block that one core owns tells exactly whether the cache *)
(* returned what was written last.                                         *)
THEOREM PrivateChecked == Spec => []PrivateExact
<1>1. Sound => PrivateExact
  BY DEF Sound
<1> QED BY DriverSound, <1>1, PTL
============================================================================
