--------------------------------- MODULE MCFork ---------------------------------
EXTENDS Fork, TLC

CONSTANTS first, second, other   (* prompt ids                               *)

(* One slug is used twice, by the source of a fork or by its destination.    *)
MCSlugOf == [p \in Prompt |-> IF p = other THEN "other" ELSE "same"]

(* Sessions are alike, so are branches, and the two ids with one slug.       *)
Symmetric ==
  Permutations(Session) \cup Permutations(Branch) \cup Permutations({first, second})
=============================================================================
