------------------------------ MODULE MCCommunity ------------------------------
EXTENDS Community, TLC

CONSTANTS shut, p1

(* Both prompts and the collections are of one namespace.                    *)
HomeShut == [p \in Prompt |-> shut]

(* Sessions are alike, and so are actors.                                    *)
Symmetric == Permutations(Session) \cup Permutations(Actor)
=============================================================================
