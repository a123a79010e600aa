------------------------------ MODULE MCAccounts ------------------------------
(* Small instances of Accounts for TLC.                                     *)
EXTENDS Accounts, TLC

Symmetric == Permutations(Worker) \cup Permutations(Jti) \cup Permutations(Name \ {Admin}) \cup Permutations(Email)
=============================================================================
