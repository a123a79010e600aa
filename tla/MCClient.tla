-------------------------------- MODULE MCClient --------------------------------
(* Small instances of Client for TLC.                                       *)
EXTENDS Client, TLC

CONSTANTS main, v1

(* The head of the default branch and a tag of the remote.                  *)
MCUris == {[remote |-> TRUE, ref |-> "latest"], [remote |-> TRUE, ref |-> v1]}
=============================================================================
