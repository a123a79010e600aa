------------------------------ MODULE MCFederation ------------------------------
(* Small instances of Federation for TLC.                                   *)
EXTENDS Federation, TLC

Symmetric == Permutations(Servers) \cup Permutations(Feds) \cup Permutations(Threads)

EntryOf(k, accepted) == [key |-> k, url |-> k, accepted |-> accepted]

(* Nobody, any one party accepted or not, or everybody.                     *)
MCTables ==
  {{}} \cup {{EntryOf(k, accepted)} : k \in Party, accepted \in BOOLEAN}
  \cup {{EntryOf(k, TRUE) : k \in Party}}
=============================================================================
