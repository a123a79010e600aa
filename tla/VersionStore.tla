----------------------------- MODULE VersionStore -----------------------------
(***************************************************************************)
(* The version operations of services/version_store.py, run by several     *)
(* sessions at once: the server, the CLI and an embedded shim each open    *)
(* their own connection to the same vault.                                 *)
(*                                                                         *)
(* A session runs one operation at a time.  What an operation reads before *)
(* its first INSERT/UPDATE/DELETE it reads outside any transaction; from   *)
(* that statement to session.commit() it holds the single SQLite write     *)
(* lock.  An operation is therefore some read steps, kept in req[s],       *)
(* followed by one write step that checks nothing again but the primary    *)
(* and foreign keys.                                                       *)
(***************************************************************************)
EXTENDS VersionTables

CONSTANTS
  Session,   (* one per process that has opened the vault                  *)
  Exclusive  (* whether a prompt has one session at work on it at a time:  *)
             (* commands run one after another, or each prompt has its own *)
             (* author.  The code sees to no such thing.                   *)

ASSUME ExclusiveAssumption == Exclusive \in BOOLEAN

VARIABLES
  clock,     (* the next timestamp _utcnow() returns                       *)
  req        (* what each session has read for its operation so far        *)

vars == <<tables, clock, req>>

Idle == [op |-> "idle"]

(* sha is the version an operation is about to put at a head, base the head *)
(* of the branch when the operation read it.                                *)
Request ==
  {Idle}
  \cup [op : {"commit_stamped"}, prompt : Prompt, branch : Branch, created_at : Nat]
  \cup [op : {"commit_read"}, prompt : Prompt, branch : Branch, created_at : Nat,
        base : Sha \cup {NoSha}]
  \cup [op : {"import", "rollback", "merge_source"}, prompt : Prompt, branch : Branch, sha : Sha]
  \cup [op : {"merge_target"}, prompt : Prompt, branch : Branch, sha : Sha,
        base : Sha \cup {NoSha}]

Busy(s, p) == req[s] # Idle /\ req[s].prompt = p
Ready(s, p) == req[s] = Idle /\ (Exclusive => \A t \in Session : ~Busy(t, p))

Begin(s, request) == Ready(s, request.prompt) /\ req' = [req EXCEPT ![s] = request]
Continue(s, request) == req' = [req EXCEPT ![s] = request]
Return(s) == req' = [req EXCEPT ![s] = Idle]

Init ==
  /\ TablesInit
  /\ clock = 1
  /\ req = [s \in Session |-> Idle]

-----------------------------------------------------------------------------
(* Operations of a single step.                                             *)

CreatePrompt(s, p) == Ready(s, p) /\ NewPrompt(p) /\ UNCHANGED <<clock, req>>
DeletePrompt(s, p) == Ready(s, p) /\ RemovePrompt(p) /\ UNCHANGED <<clock, req>>
CreateTag(s, p, t, v) == Ready(s, p) /\ PutTag(p, t, v) /\ UNCHANGED <<clock, req>>
CreateBranch(s, p, b, v) == Ready(s, p) /\ PutBranch(p, b, v) /\ UNCHANGED <<clock, req>>

-----------------------------------------------------------------------------
(* commit(): take the timestamp, read the branch head, write.               *)

(* Mutant: two commits in a row get the same timestamp.                     *)
CommitStampCoarse(s, p, b) ==
  /\ p \in Live
  /\ clock <= MaxClock
  /\ Begin(s, [op |-> "commit_stamped", prompt |-> p, branch |-> b, created_at |-> clock])
  /\ UNCHANGED <<tables, clock>>

CommitStamp(s, p, b) ==
  /\ p \in Live
  /\ clock <= MaxClock
  /\ Begin(s, [op |-> "commit_stamped", prompt |-> p, branch |-> b, created_at |-> clock])
  /\ clock' = clock + 1
  /\ UNCHANGED tables

(* Mutant: the parent is the newest version of the prompt, as in log(), and *)
(* not the one branches.head_sha names.                                     *)
CommitReadNewest(s) ==
  LET r == req[s]
      made == {v \in Stored : versions[v].prompt = r.prompt}
  IN
  /\ r.op = "commit_stamped"
  /\ \E base \in made \cup {NoSha} :
       /\ \A v \in made : v <= base
       /\ Continue(s, [op |-> "commit_read", prompt |-> r.prompt, branch |-> r.branch,
                       created_at |-> r.created_at, base |-> base])
  /\ UNCHANGED <<tables, clock>>

CommitRead(s) ==
  LET r == req[s] IN
  /\ r.op = "commit_stamped"
  /\ Continue(s, [op |-> "commit_read", prompt |-> r.prompt, branch |-> r.branch,
                  created_at |-> r.created_at, base |-> heads[<<r.prompt, r.branch>>]])
  /\ UNCHANGED <<tables, clock>>

CommitWrite(s) ==
  LET r == req[s] IN
  /\ r.op = "commit_read"
  /\ InsertCommit(r.prompt, r.branch, r.base, r.created_at)
  /\ Return(s)
  /\ UNCHANGED clock

-----------------------------------------------------------------------------
(* import_version(): look the SHA up, write when it is not there.           *)

CommitElsewhere(parent) ==
  /\ clock <= MaxClock
  /\ ForeignCommit(parent, clock)
  /\ clock' = clock + 1
  /\ UNCHANGED req

ImportCheck(s, p, b, v) ==
  /\ p \in Live
  /\ v \notin Stored
  /\ Begin(s, [op |-> "import", prompt |-> p, branch |-> b, sha |-> v])
  /\ UNCHANGED <<tables, clock>>

(* Mutant: the version is imported but the branch head stays behind.        *)
ImportWriteRowOnly(s) ==
  LET r == req[s] IN
  /\ r.op = "import"
  /\ r.sha \notin Stored /\ r.prompt \in Live /\ Resolvable(commits[r.sha].parent)
  /\ InsertVersion(r.sha, r.prompt, r.branch)
  /\ Return(s)
  /\ UNCHANGED <<commits, heads, tags, prompts, clock>>

ImportWrite(s) ==
  LET r == req[s] IN
  /\ r.op = "import"
  /\ InsertImport(r.prompt, r.branch, r.sha)
  /\ Return(s)
  /\ UNCHANGED clock

-----------------------------------------------------------------------------
(* rollback(): resolve the ref, move the branch.                            *)

RollbackResolve(s, p, b, v) ==
  /\ p \in Live
  /\ v \in RefTargets(p)
  /\ Begin(s, [op |-> "rollback", prompt |-> p, branch |-> b, sha |-> v])
  /\ UNCHANGED <<tables, clock>>

RollbackWrite(s) ==
  LET r == req[s] IN
  /\ r.op = "rollback"
  /\ MoveBranch(r.prompt, r.branch, r.sha)
  /\ Return(s)
  /\ UNCHANGED clock

-----------------------------------------------------------------------------
(* merge(): read the source head, read the target head and walk down to it, *)
(* move the target.                                                         *)

MergeReadSource(s, p, from, into) ==
  /\ p \in Live
  /\ heads[<<p, from>>] # NoSha
  /\ Begin(s, [op |-> "merge_source", prompt |-> p, branch |-> into, sha |-> heads[<<p, from>>]])
  /\ UNCHANGED <<tables, clock>>

MergeReadTarget(s) ==
  LET r == req[s]
      base == heads[<<r.prompt, r.branch>>]
  IN
  /\ r.op = "merge_source"
  /\ \/ /\ CanFastForward(base, r.sha)
        /\ Continue(s, [op |-> "merge_target", prompt |-> r.prompt, branch |-> r.branch,
                        sha |-> r.sha, base |-> base])
     \/ ~CanFastForward(base, r.sha) /\ Return(s)
  /\ UNCHANGED <<tables, clock>>

(* A target that was absent at the read is created by create_branch().      *)
MergeWrite(s) ==
  LET r == req[s] IN
  /\ r.op = "merge_target"
  /\ IF r.base = NoSha THEN PutBranch(r.prompt, r.branch, r.sha)
                       ELSE MoveBranch(r.prompt, r.branch, r.sha)
  /\ Return(s)
  /\ UNCHANGED clock

-----------------------------------------------------------------------------
(* A constraint error, a lock timeout or the death of the process ends an   *)
(* operation with its transaction rolled back.                              *)
Abandon(s) ==
  /\ req[s] # Idle
  /\ Return(s)
  /\ UNCHANGED <<tables, clock>>

(* s begins an operation on prompt p; some are over at once.                *)
Call(s, p) ==
  \/ CreatePrompt(s, p)
  \/ DeletePrompt(s, p)
  \/ \E t \in Tag, v \in Sha : CreateTag(s, p, t, v)
  \/ \E b \in Branch, v \in Sha : CreateBranch(s, p, b, v)
  \/ \E b \in Branch : CommitStamp(s, p, b)
  \/ \E b \in Branch, v \in Sha : ImportCheck(s, p, b, v)
  \/ \E b \in Branch, v \in Sha : RollbackResolve(s, p, b, v)
  \/ \E from, into \in Branch : MergeReadSource(s, p, from, into)

(* s goes on with the operation it has begun.                               *)
Resume(s) ==
  \/ CommitRead(s)
  \/ CommitWrite(s)
  \/ ImportWrite(s)
  \/ RollbackWrite(s)
  \/ MergeReadTarget(s)
  \/ MergeWrite(s)
  \/ Abandon(s)

Next ==
  \/ \E s \in Session, p \in Prompt : Call(s, p)
  \/ \E s \in Session : Resume(s)
  \/ \E parent \in Sha \cup {NoSha} : CommitElsewhere(parent)

Spec == Init /\ [][Next]_vars

-----------------------------------------------------------------------------
(* The type invariant: the tables have their columns' types and a session   *)
(* is idle or holds what one of the operations has read.                    *)
TypeOK ==
  /\ TablesTypeOK
  /\ clock \in Nat
  /\ req \in [Session -> Request]

(* The versions that keep their row in a step, or lose it with their prompt *)
VersionsKept ==
  \A v \in Stored : \/ v \in Stored' /\ versions'[v] = versions[v]
                    \/ prompts'[versions[v].prompt] = "deleted"

(* A version is immutable (docs/concepts.md 3): it disappears only with its *)
(* prompt, and no commit or import by any session changes or moves its row. *)
VersionsImmutable == [][VersionsKept]_vars

(* A parent is not younger than its child: the export sorts by created_at   *)
(* and relies on it to send parents before children (shim.py 876).          *)
ParentsOlder ==
  \A v \in Stored :
    commits[v].parent # NoSha => commits[commits[v].parent].created_at < commits[v].created_at

(* A commit writes a version whose parent is the head it replaces.          *)
AppendsToHead ==
  \A s \in Session :
    CommitWrite(s) =>
      LET old == heads[<<req[s].prompt, req[s].branch>>]
          new == heads'[<<req[s].prompt, req[s].branch>>]
      IN commits'[new].parent = old

(* commit() appends: the version it puts at the head has the head it        *)
(* replaces as its parent (docs/concepts.md 4).                             *)
CommitAppends == [][AppendsToHead]_vars

(* A merge replaces a head by a version that has it as an ancestor.         *)
MovesForward ==
  \A s \in Session :
    MergeWrite(s) =>
      LET old == heads[<<req[s].prompt, req[s].branch>>]
          new == heads'[<<req[s].prompt, req[s].branch>>]
      IN old # NoSha => IsAncestor(old, new)

(* merge() is fast-forward only: the head it replaces is an ancestor of the *)
(* new one (version_store.py, merge()).                                     *)
MergeFastForwards == [][MovesForward]_vars

(* When no two sessions are at work on one prompt, the steps of an          *)
(* operation add up to the operation done at once: the store implements     *)
(* AtomicVersionStore.                                                      *)
Atomic == INSTANCE AtomicVersionStore
AtomicSpec == Atomic!Spec
=============================================================================
