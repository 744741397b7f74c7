----------------------------- MODULE CohPolicy -----------------------------
(***************************************************************************)
(* The coherence policies of FlexiCAS (cache/coh_policy.hpp, mi.hpp,       *)
(* msi.hpp, mesi.hpp) and the cache-line metadata they operate on          *)
(* (cache/metadata.hpp), as pure operators.                                *)
(*                                                                         *)
(* A cache line is a record                                                *)
(*    st      the coherence state kept for the inner side (MT::state)      *)
(*    outer   the state granted by the outer cache (outer_meta.state)      *)
(*    dirty   outer_meta.dirty; the mixer forwards is_dirty() to it        *)
(*    sharer  the directory bit map (only a directory fills it)            *)
(*    data    the block's content                                          *)
(* The C++ metadata methods mutate the line; here each one is an operator  *)
(* from the old line to the new one.  A command is the pair of its message *)
(* type and its action; probes are named by their action alone, and the    *)
(* action "none" stands for the pair (false, cmd_for_null()).              *)
(***************************************************************************)
EXTENDS Integers

CONSTANTS
  Proto,        \* the coherence protocol of the hierarchy: MI, MSI or MESI
  Directory     \* TRUE: the shared cache keeps sharer bit maps; FALSE: it broadcasts

(* MetadataMIBroadcast is the only MI metadata, and MESI needs a directory *)
(* (mesi.hpp: "support only directory based outer").                       *)
ASSUME ProtoAssumption ==
  /\ Proto \in {"MI", "MSI", "MESI"}
  /\ Directory \in BOOLEAN
  /\ Proto = "MI" => ~Directory
  /\ Proto = "MESI" => Directory

NoId == -1      \* the coherence id of an uncached inner port, or of nobody

State == {"I", "S", "E", "M"}

----------------------------------------------------------------------------
(* Commands. *)

Acquire(act)   == [msg |-> "acquire", act |-> act]
Release        == [msg |-> "release", act |-> "evict"]

IsRelease(cmd) == cmd.msg = "release"
IsWrite(cmd)   == cmd.act \in {"fetch_write", "evict", "writeback"}

AcquireAct == {"fetch_read", "fetch_write", "prefetch"}
FlushAct   == {"evict", "writeback"}
ProbeAct   == {"evict", "downgrade", "writeback"}

----------------------------------------------------------------------------
(* Metadata. *)

IsValid(m)    == m.st # "I"
IsShared(m)   == m.st = "S"
IsModified(m) == m.st = "M"
IsDirty(m)    == m.dirty
AllowWrite(m) == m.outer \in {"E", "M"}

ToDirty(m)    == [m EXCEPT !.dirty = TRUE]
ToClean(m)    == [m EXCEPT !.dirty = FALSE]

ToInvalid(m)  ==
  [m EXCEPT !.st = "I", !.outer = "I", !.dirty = FALSE, !.sharer = {}]

(* Mistake: the bit map is replaced.                                       *)
AddSharerReplacing(m, id) ==
  IF Directory /\ id # NoId THEN [m EXCEPT !.sharer = {id}] ELSE m

(* add_sharer_help: only a directory keeps the bit map, and id -1 has no bit *)
AddSharer(m, id) ==
  IF Directory /\ id # NoId THEN [m EXCEPT !.sharer = @ \cup {id}] ELSE m

(* The metadata of a protocol overrides with an empty body the states the  *)
(* protocol does not have.                                                 *)
ToShared(m, id) ==
  IF Proto = "MI" THEN m ELSE AddSharer([m EXCEPT !.st = "S"], id)

ToExclusive(m, id) ==
  IF Proto = "MESI" THEN AddSharer([m EXCEPT !.st = "E"], id) ELSE m

ToModified(m, id) == AddSharer([m EXCEPT !.st = "M"], id)

IsExclusiveSharer(m, id) == m.sharer = {id}

(* The mixer's sync() is empty and hides the directory's delete_sharer(),  *)
(* so the inner caches "gone" that a probe found or left without the block *)
(* stay in the bit map.                                                    *)
Sync(m, gone) == m

----------------------------------------------------------------------------
(* Acquire. *)

(* The action with which a missing block is fetched from the outer level.  *)
CmdForOuterAcquire(cmd) ==
  IF Proto = "MI" \/ IsWrite(cmd) THEN "fetch_write" ELSE "fetch_read"

(* Mistakes: no probe before a write to a shared block, and none before a  *)
(* read of an exclusive one, which its owner may have modified silently.   *)
AccessSkipsShared(cmd, m) ==
  IF IsShared(m) \/ IsRelease(cmd) THEN "none"
  ELSE IF cmd.act = "fetch_write" THEN "evict"
  ELSE "downgrade"
AccessTrustsExclusive(cmd, m) ==
  IF Proto = "MI" \/ cmd.act = "fetch_write" THEN "evict"
  ELSE IF IsRelease(cmd) \/ ~IsModified(m) THEN "none"
  ELSE "downgrade"

(* The probe a shared cache sends to its other inner caches before it      *)
(* serves a hit.                                                           *)
AccessNeedSync(cmd, m) ==
  IF Proto = "MI" \/ cmd.act = "fetch_write" THEN "evict"
  ELSE IF IsRelease(cmd) \/ IsShared(m) THEN "none"
  ELSE "downgrade"

(* A write to a line without write permission asks the outer cache for it; *)
(* a write to an exclusive line is promoted silently.                      *)
NeedPromote(cmd, m)      == Proto # "MI" /\ IsWrite(cmd) /\ ~AllowWrite(m)
NeedPromoteLocal(cmd, m) ==
  Proto # "MI" /\ IsWrite(cmd) /\ AllowWrite(m) /\ ~IsModified(m)

(* meta_after_fetch: init() drops the state, then the fetched one is set.  *)
MetaAfterFetch(act, m) ==
  IF Proto # "MI" /\ act \in {"fetch_read", "prefetch"}
  THEN ToShared([m EXCEPT !.st = "I"], NoId)
  ELSE ToModified([m EXCEPT !.st = "I"], NoId)

(* ... and the assertion it makes on the way.                              *)
FetchAssertion(act, m) ==
  \/ Proto # "MI" /\ act \in {"fetch_read", "prefetch"}
  \/ act = "fetch_write" /\ AllowWrite(m)

(* meta_after_grant: what the shared cache records ...                     *)
MetaAfterGrant(act, m, id) ==
  IF Proto # "MI" /\ act = "fetch_read"
  THEN LET shared == ToShared(m, id)
       IN  IF Proto = "MESI" /\ IsExclusiveSharer(shared, id)
           THEN ToExclusive(shared, id)
           ELSE shared
  ELSE ToModified(m, id)

(* ... what it grants to the requester ...                                 *)
Granted(act, m, id) ==
  IF Proto # "MI" /\ act = "fetch_read"
  THEN IF Proto = "MESI" /\ IsExclusiveSharer(ToShared(m, id), id)
       THEN "E" ELSE "S"
  ELSE "M"

(* ... and its assertion: only reads and writes are granted.               *)
GrantAssertion(act) == Proto = "MI" \/ act \in {"fetch_read", "fetch_write"}

----------------------------------------------------------------------------
(* Probe. *)

(* probe_need_probe: the requester is skipped, and a directory probes its  *)
(* sharers only.                                                           *)
ProbeNeedProbe(m, target, id) == target # id /\ (Directory => target \in m.sharer)

(* Mistake: a cache in the middle answers a downgrade without asking.      *)
ProbeSyncsEvictionsOnly(act, m) == IF act = "evict" THEN "evict" ELSE "none"

(* probe_need_sync: the probe that a cache with inner caches of its own    *)
(* sends up before it answers one.                                         *)
ProbeNeedSync(act, m) ==
  IF Proto = "MI" THEN (IF act = "writeback" THEN "writeback" ELSE "evict")
  ELSE IF act # "evict" /\ IsShared(m) THEN "none"
  ELSE act

(* meta_after_probe on the probed cache's own line; on the prober's line   *)
(* it is ToDirty after a write-back and Sync after an eviction or a miss.  *)
(* MSI and MESI first do what MI does, which drops the line.               *)
MetaAfterProbe(act, m) ==
  LET mi == IF act \in {"evict", "downgrade"} THEN ToInvalid(m) ELSE m
  IN  IF Proto = "MI" \/ act = "writeback" THEN mi
      ELSE IF act = "evict" THEN ToInvalid(mi)
      ELSE ToClean(ToShared([mi EXCEPT !.outer = "S"], NoId))

----------------------------------------------------------------------------
(* Release and flush. *)

(* writeback_need_sync holds of every cache that has inner caches, with a  *)
(* releasing probe; writeback_need_writeback is IsDirty, for               *)
(* inner_need_release() answers no.                                        *)
WritebackNeedSync == "evict"

(* Mistake: a flush, too, skips the probe of a shared block.               *)
FlushSkipsShared(act, m) ==
  IF Proto # "MI" /\ IsShared(m) THEN "none"
  ELSE IF act = "evict" THEN "evict"
  ELSE "writeback"

FlushNeedSync(act, m) ==
  IF act = "evict" THEN "evict"
  ELSE IF Proto # "MI" /\ IsShared(m) THEN "none"
  ELSE "writeback"

MetaAfterFlush(act, m) == IF act = "evict" THEN ToInvalid(m) ELSE m
============================================================================
