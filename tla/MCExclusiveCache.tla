-------------------------- MODULE MCExclusiveCache --------------------------
(***************************************************************************)
(* Constants for checking ExclusiveCache: all blocks map to one set.  Both *)
(* LLCs are checked in one run: build says whether the program is that     *)
(* with the directory, whose constants the configuration gives, or that    *)
(* without.                                                                *)
(***************************************************************************)
EXTENDS ExclusiveCache

VARIABLE build

OneSet == [a \in Addr |-> 0]

Broadcast == INSTANCE ExclusiveCache WITH
               Proto <- "MSI", Directory <- FALSE, PrefetchPort <- ICore

BuildInit == Init /\ build \in {"directory", "broadcast"}

BuildNext ==
  /\ \/ build = "directory" /\ Next
     \/ build = "broadcast" /\ Broadcast!Next
  /\ UNCHANGED build

BuildSpec == BuildInit /\ [][BuildNext]_<<vars, build>>

(* The directory names every L1D that has a block and has no content of    *)
(* its own, in the program that has a directory.                           *)
DirectoryCoversIfAny == build = "directory" => DirectoryCovers
============================================================================
