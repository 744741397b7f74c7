----------------------------- MODULE MCReplacer -----------------------------
(***************************************************************************)
(* Checking Replacer: its constants are numbers and strings, which the     *)
(* configurations give directly.                                           *)
(***************************************************************************)
EXTENDS Replacer
=============================================================================
