----------------------------- MODULE VersionTables -----------------------------
(***************************************************************************)
(* The tables of orm/tables.py that hold the version graph of a vault, and *)
(* what the operations of services/version_store.py read from and write to *)
(* them.  VersionStore and AtomicVersionStore share this module: the first *)
(* says in which steps sessions do this, the second what one caller at a   *)
(* time would see.                                                         *)
(***************************************************************************)
EXTENDS Naturals, Sequences

CONSTANTS
  Prompt,      (* prompt ids; an id is a uuid4 and never used again        *)
  Branch,      (* branch names                                             *)
  Tag,         (* tag names                                                *)
  MaxCommits,  (* bound on the commit objects made in a behaviour          *)
  MaxClock     (* bound on the timestamps handed out in a behaviour        *)

ASSUME BoundsAssumption == MaxCommits \in Nat /\ MaxClock \in Nat

VARIABLES
  commits,   (* every commit object made here or by another vault; its     *)
             (* index stands for its SHA, which is a hash over parent_sha  *)
             (* and created_at and so fixes both for ever                  *)
  versions,  (* table versions: SHA -> prompt_id and branch columns        *)
  heads,     (* table branches: (prompt_id, name) -> head_sha, 0 = no row  *)
  tags,      (* table tags: (prompt_id, name) -> sha, 0 = no row           *)
  prompts    (* table prompts: which ids have a row                        *)

tables == <<commits, versions, heads, tags, prompts>>

NoSha == 0
Sha == 1..Len(commits)
Commit == [parent : Nat, created_at : Nat]
Row == [prompt : Prompt, branch : Branch]

TablesTypeOK ==
  /\ commits \in Seq(Commit)
  /\ DOMAIN versions \in SUBSET Sha
  /\ versions \in [DOMAIN versions -> Row]
  /\ heads \in [Prompt \X Branch -> Sha \cup {NoSha}]
  /\ tags \in [Prompt \X Tag -> Sha \cup {NoSha}]
  /\ prompts \in [Prompt -> {"absent", "live", "deleted"}]

TablesInit ==
  /\ commits = <<>>
  /\ versions = [v \in {} |-> [prompt |-> {}, branch |-> {}]]
  /\ heads = [x \in Prompt \X Branch |-> NoSha]
  /\ tags = [x \in Prompt \X Tag |-> NoSha]
  /\ prompts = [p \in Prompt |-> "absent"]

-----------------------------------------------------------------------------
(* What the operations read.                                                *)

Stored == DOMAIN versions
Live == {p \in Prompt : prompts[p] = "live"}

(* The ancestors of v (v among them) are the members of the least set that  *)
(* holds v and the parent of each of its members.                           *)
ParentClosed(S) == \A v \in S : commits[v].parent \in S \cup {NoSha}
IsAncestor(x, v) == \A S \in SUBSET Sha : v \in S /\ ParentClosed(S) => x \in S

(* Mutant: any two different heads count as a fast-forward.                  *)
CanFastForwardUnchecked(base, v) == base = NoSha \/ (base # v /\ v \in Stored)

(* merge() walks the stored parents of v in search of base: there is        *)
(* something to do when base is a proper ancestor, or no row at all.        *)
CanFastForward(base, v) ==
  \/ base = NoSha
  \/ base # v /\ v \in Stored /\ IsAncestor(base, v)

(* Mutant: a connection without PRAGMA foreign_keys = ON.                   *)
ResolvableUnchecked(v) == TRUE

(* Foreign keys: parent_sha, head_sha and tags.sha are NULL or a stored SHA *)
Resolvable(v) == v \in Stored \cup {NoSha}

(* Mutant: versions.parent_sha is the only reference that is looked at.     *)
PointedAtByVersions(p) ==
  \E v, w \in Stored :
    versions[v].prompt = p /\ versions[w].prompt # p /\ commits[w].parent = v

(* The versions of p that a row of another prompt points at: deleting p     *)
(* would break the foreign key of that row.                                 *)
PointedAtFromOutside(p) ==
  \E v \in Stored :
    /\ versions[v].prompt = p
    /\ \/ \E q \in Prompt \ {p}, b \in Branch : heads[<<q, b>>] = v
       \/ \E q \in Prompt \ {p}, t \in Tag : tags[<<q, t>>] = v
       \/ \E w \in Stored : versions[w].prompt # p /\ commits[w].parent = v

(* What resolve() can return for some ref of p: a branch head or a tag of   *)
(* p, whatever prompt it belongs to, or a version of p by SHA or prefix.    *)
RefTargets(p) ==
  {v \in Stored : \/ \E b \in Branch : heads[<<p, b>>] = v
                  \/ \E t \in Tag : tags[<<p, t>>] = v
                  \/ versions[v].prompt = p}

-----------------------------------------------------------------------------
(* What the transactions write.                                             *)

InsertVersion(v, p, b) ==
  versions' = [x \in Stored \cup {v} |->
                 IF x = v THEN [prompt |-> p, branch |-> b] ELSE versions[x]]

(* Insert the branch row or move it.                                        *)
UpsertHead(p, b, v) == heads' = [heads EXCEPT ![<<p, b>>] = v]

(* UPDATE branches ... WHERE: nothing happens when there is no such row.    *)
UpdateHead(p, b, v) ==
  heads' = IF heads[<<p, b>>] = NoSha THEN heads ELSE [heads EXCEPT ![<<p, b>>] = v]

NewPrompt(p) ==
  /\ prompts[p] = "absent"
  /\ prompts' = [prompts EXCEPT ![p] = "live"]
  /\ UNCHANGED <<commits, versions, heads, tags>>

(* delete_prompt removes the tags, branches, versions and the prompt in one *)
(* transaction; it is rolled back when a row of another prompt still points *)
(* at one of the versions.                                                  *)
RemovePrompt(p) ==
  /\ p \in Live
  /\ ~PointedAtFromOutside(p)
  /\ tags' = [x \in Prompt \X Tag |-> IF x[1] = p THEN NoSha ELSE tags[x]]
  /\ heads' = [x \in Prompt \X Branch |-> IF x[1] = p THEN NoSha ELSE heads[x]]
  /\ versions' = [v \in {w \in Stored : versions[w].prompt # p} |-> versions[v]]
  /\ prompts' = [prompts EXCEPT ![p] = "deleted"]
  /\ UNCHANGED commits

(* Mutant: the head is moved though the version was not inserted.           *)
InsertCommitHeadOnly(p, b, base, t) ==
  LET v == Len(commits) + 1 IN
  /\ v <= MaxCommits
  /\ p \in Live /\ Resolvable(base)
  /\ UpsertHead(p, b, v)
  /\ UNCHANGED <<commits, versions, tags, prompts>>

(* commit() inserts the version, then the branch row or an update of it:    *)
(* without a head at the read it inserts, and a row that has appeared since *)
(* breaks the primary key.                                                  *)
InsertCommit(p, b, base, t) ==
  LET v == Len(commits) + 1 IN
  /\ v <= MaxCommits
  /\ p \in Live /\ Resolvable(base)
  /\ base = NoSha => heads[<<p, b>>] = NoSha
  /\ commits' = Append(commits, [parent |-> base, created_at |-> t])
  /\ InsertVersion(v, p, b)
  /\ UpsertHead(p, b, v)
  /\ UNCHANGED <<tags, prompts>>

(* A commit object that another vault makes, on top of anything it pulled.  *)
ForeignCommit(parent, t) ==
  /\ Len(commits) < MaxCommits
  /\ commits' = Append(commits, [parent |-> parent, created_at |-> t])
  /\ UNCHANGED <<versions, heads, tags, prompts>>

(* Mutant: an import replaces the row that another session has just made.   *)
InsertImportReplacing(p, b, v) ==
  /\ p \in Live /\ Resolvable(commits[v].parent)
  /\ InsertVersion(v, p, b)
  /\ UpsertHead(p, b, v)
  /\ UNCHANGED <<commits, tags, prompts>>

(* import_version() inserts a version made elsewhere, once, and moves the   *)
(* branch head to it whatever it was.                                       *)
InsertImport(p, b, v) ==
  /\ v \notin Stored
  /\ p \in Live /\ Resolvable(commits[v].parent)
  /\ InsertVersion(v, p, b)
  /\ UpsertHead(p, b, v)
  /\ UNCHANGED <<commits, tags, prompts>>

(* create_tag and create_branch are upserts that any stored SHA satisfies.  *)
PutTag(p, t, v) ==
  /\ p \in Live /\ v \in Stored
  /\ tags' = [tags EXCEPT ![<<p, t>>] = v]
  /\ UNCHANGED <<commits, versions, heads, prompts>>

PutBranch(p, b, v) ==
  /\ p \in Live /\ v \in Stored
  /\ UpsertHead(p, b, v)
  /\ UNCHANGED <<commits, versions, tags, prompts>>

(* rollback() and the UPDATE of merge().                                    *)
MoveBranch(p, b, v) ==
  /\ heads[<<p, b>>] # NoSha => v \in Stored
  /\ UpdateHead(p, b, v)
  /\ UNCHANGED <<commits, versions, tags, prompts>>
-----------------------------------------------------------------------------
(* What must hold of the tables whatever the operations overlap.            *)

(* No row points at a row that is not there: versions, branches and tags    *)
(* belong to a prompt that exists, heads, tags and parents to versions that *)
(* are stored.  delete_prompt, commit and import_version rely on the        *)
(* foreign keys of orm/tables.py for it.                                    *)
ReferencesResolve ==
  /\ \A v \in Stored : /\ versions[v].prompt \in Live
                       /\ commits[v].parent \in Stored \cup {NoSha}
  /\ \A p \in Prompt, b \in Branch :
       heads[<<p, b>>] # NoSha => p \in Live /\ heads[<<p, b>>] \in Stored
  /\ \A p \in Prompt, t \in Tag :
       tags[<<p, t>>] # NoSha => p \in Live /\ tags[<<p, t>>] \in Stored

(* The history under a branch or a tag is complete: every ancestor of a     *)
(* head or a tag is stored, even when it belongs to another prompt and that *)
(* prompt is being deleted, so that merge() never walks off a chain.        *)
HistoryComplete ==
  \A v \in Sha, x \in Sha :
    /\ \/ \E p \in Prompt, b \in Branch : heads[<<p, b>>] = v
       \/ \E p \in Prompt, t \in Tag : tags[<<p, t>>] = v
    /\ IsAncestor(x, v)
    => x \in Stored
=============================================================================
