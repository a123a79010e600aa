---------------------------- MODULE MCVersionStore ----------------------------
(* Small instances of VersionStore for TLC.                                 *)
EXTENDS VersionStore, TLC

(* Prompts, sessions and tag names are interchangeable; branch names too,   *)
(* because the store treats the default branch like any other.              *)
Symmetric ==
  Permutations(Session) \cup Permutations(Prompt) \cup Permutations(Branch)
=============================================================================
