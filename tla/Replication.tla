------------------------------ MODULE Replication ------------------------------
(***************************************************************************)
(* What a push promises, however often streams are cut, repeated or run at *)
(* once: the receiver holds rows of the sender, unchanged, and never one   *)
(* without its parent.  The import checks of import_version() and the      *)
(* order of to_json() exist for this.                                      *)
(***************************************************************************)
EXTENDS Naturals

VARIABLES
  parent,   (* SHA -> SHA of the parent, 0 for none                        *)
  sent,     (* SHA -> row of the sender                                    *)
  received  (* SHA -> row of the receiver                                  *)

Init == DOMAIN sent = {} /\ DOMAIN received = {}

Extends(f, g) == DOMAIN g \in SUBSET DOMAIN f /\ \A v \in DOMAIN g : f[v] = g[v]

(* The sender has made one more version.                                    *)
Make ==
  /\ Extends(sent', sent)
  /\ Extends(parent', parent)
  /\ UNCHANGED received

(* A version of the sender has arrived.                                     *)
Receive ==
  /\ \E v \in DOMAIN sent \ DOMAIN received :
       /\ parent[v] \in DOMAIN received \cup {0}
       /\ received' = [x \in DOMAIN received \cup {v} |->
                         IF x = v THEN sent[v] ELSE received[x]]
  /\ UNCHANGED <<parent, sent>>

Next == Make \/ Receive

Spec == Init /\ [][Next]_<<parent, sent, received>>
=============================================================================
