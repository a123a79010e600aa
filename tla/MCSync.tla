--------------------------------- MODULE MCSync ---------------------------------
(* Small instances of Sync for TLC.                                         *)
EXTENDS Sync, TLC

(* Every caller pushes the whole vault.                                     *)
MCScope == [p \in Push |-> Prompt]

Symmetric == Permutations(Writer) \cup Permutations(Push)
=============================================================================
