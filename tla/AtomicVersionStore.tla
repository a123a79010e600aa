-------------------------- MODULE AtomicVersionStore --------------------------
(***************************************************************************)
(* What the version store promises to a caller that has it to itself:      *)
(* every operation happens at once.  A commit is placed on top of the head *)
(* its branch has at that moment and is younger than it, a merge is a      *)
(* fast-forward, a failed operation changes nothing.                       *)
(***************************************************************************)
EXTENDS VersionTables

Time == 1..MaxClock

(* A timestamp for a new child of the commit parent.                        *)
Younger(t, parent) == parent # NoSha => commits[parent].created_at < t

CommitOn(p, b, t) == Younger(t, heads[<<p, b>>]) /\ InsertCommit(p, b, heads[<<p, b>>], t)

CommitElsewhere(parent, t) == Younger(t, parent) /\ ForeignCommit(parent, t)

Rollback(p, b, v) == p \in Live /\ v \in RefTargets(p) /\ MoveBranch(p, b, v)

Merge(p, from, into) ==
  /\ heads[<<p, from>>] # NoSha
  /\ CanFastForward(heads[<<p, into>>], heads[<<p, from>>])
  /\ PutBranch(p, into, heads[<<p, from>>])

Next ==
  \/ \E p \in Prompt :
       \/ NewPrompt(p)
       \/ RemovePrompt(p)
       \/ \E t \in Tag, v \in Sha : PutTag(p, t, v)
       \/ \E b \in Branch, v \in Sha : PutBranch(p, b, v)
       \/ \E b \in Branch, t \in Time : CommitOn(p, b, t)
       \/ \E b \in Branch, v \in Sha : InsertImport(p, b, v)
       \/ \E b \in Branch, v \in Sha : Rollback(p, b, v)
       \/ \E from, into \in Branch : Merge(p, from, into)
  \/ \E parent \in Sha \cup {NoSha}, t \in Time : CommitElsewhere(parent, t)

Spec == TablesInit /\ [][Next]_tables
=============================================================================
