---------------------------------- MODULE Fork ----------------------------------
(***************************************************************************)
(* fork() of services/version_store.py: a new prompt, a commit for each    *)
(* version of a branch of the source, the tags of these versions, and at   *)
(* last the row of table forks with the counter of the source.  Each is a  *)
(* transaction, so other sessions see and change what is half done, and a  *)
(* fork that fails on the way stays half done.                             *)
(*                                                                         *)
(* fork() and the others look a prompt up by its slug once and work on its *)
(* id from then on.  An id is used once, a slug again and again: the row of*)
(* a deleted prompt is gone and its namespace and name are free.           *)
(***************************************************************************)
EXTENDS VersionTables, FiniteSets

CONSTANTS
  Session,   (* processes with a session on the vault                        *)
  Slug,      (* namespace/name                                               *)
  SlugOf     (* the slug that the prompt of an id is created under           *)

ASSUME SlugsAssumption == SlugOf \in [Prompt -> Slug]

VARIABLES
  origin,     (* for each commit object, the one whose content it copies   *)
  forks,      (* table forks: its rows hold the slugs of these two ids, and*)
              (* the ids and what else the fork read is history            *)
  forkCount,  (* prompts.fork_count                                        *)
  clock,      (* the next timestamp _utcnow() returns                      *)
  job,        (* the fork each session is in                               *)
  retagged    (* history: tags of what is there that create_tag() has put  *)

vars == <<tables, origin, forks, forkCount, clock, job, retagged>>

Idle == [step |-> "idle"]
NoTags == [t \in {} |-> NoSha]

Init ==
  /\ TablesInit
  /\ origin = <<>>
  /\ forks = {}
  /\ forkCount = [p \in Prompt |-> 0]
  /\ clock = 1
  /\ job = [s \in Session |-> Idle]
  /\ retagged = {}

At(s, step) == job[s].step = step
Set(s, fields) == job' = [job EXCEPT ![s] = fields]

-----------------------------------------------------------------------------
(* namespace and name are unique among the rows of table prompts.           *)
SlugFree(p) == \A q \in Live : SlugOf[q] # SlugOf[p]

(* What other sessions do to the source and the fork meanwhile: a method    *)
(* each, without interleaving of its own (see VersionStore).  rollback() and*)
(* merge() are left out: fork() reads heads of its own destination only.    *)

(* A new prompt counts no forks, whatever rows forks has of its slug.       *)
Create(p) ==
  /\ SlugFree(p)
  /\ NewPrompt(p)
  /\ UNCHANGED <<origin, forks, forkCount, clock, job, retagged>>

Commit1(p, b) ==
  /\ clock <= MaxClock
  /\ InsertCommit(p, b, heads[<<p, b>>], clock)
  /\ origin' = Append(origin, Len(origin) + 1)
  /\ clock' = clock + 1
  /\ UNCHANGED <<forks, forkCount, job, retagged>>

TagVersion(p, t, v) ==
  /\ PutTag(p, t, v)
  /\ retagged' = retagged \cup {<<p, t>>}
  /\ UNCHANGED <<origin, forks, forkCount, clock, job>>

Delete(p) ==
  /\ RemovePrompt(p)
  /\ retagged' = {x \in retagged : x[1] # p}
  /\ UNCHANGED <<origin, forks, forkCount, clock, job>>

-----------------------------------------------------------------------------
(* fork(), the steps of a session.                                          *)

(* The source is there, the destination's slug is free.  (The head that is  *)
(* read for source_sha is left out: nothing is decided by it.)              *)
Begin(s, p, d, b) ==
  /\ At(s, "idle")
  /\ p \in Live
  /\ prompts[d] = "absent" /\ SlugFree(d)
  /\ Set(s, [step |-> "create", source |-> p, dest |-> d, branch |-> b,
             log |-> {}, rows |-> {}, base |-> NoSha, stamp |-> 0,
             copies |-> {}, left |-> {}, tags |-> NoTags])
  /\ UNCHANGED <<tables, origin, forks, forkCount, clock, retagged>>

CreateDest(s) ==
  /\ At(s, "create")
  /\ SlugFree(job[s].dest)
  /\ NewPrompt(job[s].dest)
  /\ Set(s, [job[s] EXCEPT !.step = "log"])
  /\ UNCHANGED <<origin, forks, forkCount, clock, retagged>>

(* log() selects by the branch column ...                                   *)
SelectLog(s) ==
  /\ At(s, "log")
  /\ \E log \in {{v \in Stored : versions[v] = [prompt |-> job[s].source, branch |-> job[s].branch]}} :
       Set(s, [job[s] EXCEPT !.step = "fetch", !.log = log, !.rows = log])
  /\ UNCHANGED <<tables, origin, forks, forkCount, clock, retagged>>

Older(v, w) == commits[v].created_at < commits[w].created_at

(* ... and fetches the versions one by one, newest first, without those     *)
(* that are gone when their turn comes.                                     *)
FetchLog(s) ==
  /\ At(s, "fetch")
  /\ \E kept \in SUBSET job[s].rows :
       /\ job[s].rows \cap Stored \subseteq kept
       /\ \A v \in kept, w \in job[s].rows : Older(v, w) => w \in kept
       /\ Set(s, [job[s] EXCEPT !.step = "copy", !.rows = kept])
  /\ UNCHANGED <<tables, origin, forks, forkCount, clock, retagged>>

(* Mutant: log() is copied as it comes, newest first.                       *)
NextCopyNewest(s) == {v \in job[s].rows : \A w \in job[s].rows : v = w \/ Older(w, v)}

(* reversed(log()): the oldest that is left.                                *)
NextCopy(s) == {v \in job[s].rows : \A w \in job[s].rows : v = w \/ Older(v, w)}

(* commit() of the oldest that is left: it takes the time and reads the     *)
(* head of the destination ...                                              *)
ReadHead(s) ==
  /\ At(s, "copy") /\ job[s].rows # {}
  /\ clock <= MaxClock
  /\ Set(s, [job[s] EXCEPT !.step = "write", !.stamp = clock,
               !.base = heads[<<job[s].dest, job[s].branch>>]])
  /\ clock' = clock + 1
  /\ UNCHANGED <<tables, origin, forks, forkCount, retagged>>

(* ... and writes, which fails when a head has appeared where it saw none.  *)
WriteCopy(s) ==
  /\ At(s, "write")
  /\ InsertCommit(job[s].dest, job[s].branch, job[s].base, job[s].stamp)
  /\ \E v \in NextCopy(s) :
       /\ origin' = Append(origin, origin[v])
       /\ Set(s, [job[s] EXCEPT !.step = "copy", !.rows = @ \ {v},
                    !.copies = @ \cup {<<v, Len(commits) + 1>>}])
  /\ UNCHANGED <<forks, forkCount, clock, retagged>>

(* sha_map.                                                                 *)
Copy(s, v) == {x[2] : x \in {y \in job[s].copies : y[1] = v}}

(* Mutant: all tags of the source are to be copied, mapped or not.          *)
ReadTagsAll(s) ==
  LET wanted == {t \in Tag : Copy(s, tags[<<job[s].source, t>>]) # {}} IN
  /\ At(s, "copy") /\ job[s].rows = {}
  /\ Set(s, [job[s] EXCEPT !.step = "tag", !.left = Tag,
               !.tags = [t \in wanted |-> tags[<<job[s].source, t>>]]])
  /\ UNCHANGED <<tables, origin, forks, forkCount, clock, retagged>>

(* list_tags(): those on versions outside the log are left out.             *)
ReadTags(s) ==
  LET wanted == {t \in Tag : Copy(s, tags[<<job[s].source, t>>]) # {}} IN
  /\ At(s, "copy") /\ job[s].rows = {}
  /\ Set(s, [job[s] EXCEPT !.step = "tag", !.left = wanted,
               !.tags = [t \in wanted |-> tags[<<job[s].source, t>>]]])
  /\ UNCHANGED <<tables, origin, forks, forkCount, clock, retagged>>

Tagged(s, t) == Set(s, [job[s] EXCEPT !.left = @ \ {t}])

CopyTag(s, t) ==
  /\ At(s, "tag") /\ t \in job[s].left
  /\ \E v \in Copy(s, job[s].tags[t]) : PutTag(job[s].dest, t, v)
  /\ Tagged(s, t)
  /\ UNCHANGED <<origin, forks, forkCount, clock, retagged>>

ForkRow(j) == [source |-> j.source, fork |-> j.dest, branch |-> j.branch,
               log |-> j.log, copies |-> j.copies, tags |-> j.tags]

(* Mutant: the counter is that of the prompt that has the slug now.         *)
CountedBySlug(p) ==
  [q \in Prompt |->
     IF q \in Live /\ SlugOf[q] = SlugOf[p] THEN forkCount[q] + 1 ELSE forkCount[q]]

(* UPDATE prompts ... WHERE id: nothing happens when there is no such row.  *)
Counted(p) == IF p \in Live THEN [forkCount EXCEPT ![p] = @ + 1] ELSE forkCount

(* The counter and the row, in one transaction; nothing here asks whether   *)
(* the source or the fork is still there.                                   *)
Record(s) ==
  /\ At(s, "tag") /\ job[s].left = {}
  /\ forkCount' = Counted(job[s].source)
  /\ forks' = forks \cup {ForkRow(job[s])}
  /\ Set(s, Idle)
  /\ UNCHANGED <<tables, origin, clock, retagged>>

(* A statement fails or the process dies: what is committed stays.          *)
Abandon(s) ==
  /\ ~At(s, "idle")
  /\ Set(s, Idle)
  /\ UNCHANGED <<tables, origin, forks, forkCount, clock, retagged>>

-----------------------------------------------------------------------------
Others ==
  \E p \in Prompt :
    \/ Create(p) \/ Delete(p)
    \/ \E b \in Branch : Commit1(p, b)
    \/ \E t \in Tag, v \in Sha : TagVersion(p, t, v)

Forking(s) ==
  \/ CreateDest(s) \/ SelectLog(s) \/ FetchLog(s) \/ ReadHead(s) \/ WriteCopy(s)
  \/ ReadTags(s) \/ (\E t \in Tag : CopyTag(s, t)) \/ Record(s) \/ Abandon(s)

Next ==
  \/ Others
  \/ \E s \in Session :
       \/ \E p, d \in Prompt, b \in Branch : Begin(s, p, d, b)
       \/ Forking(s)

Spec == Init /\ [][Next]_vars
-----------------------------------------------------------------------------
(* Type invariant: the tables, the contents and the forks under way.        *)
TypeOK ==
  /\ TablesTypeOK
  /\ origin \in Seq(Sha) /\ Len(origin) = Len(commits)
  /\ \A v \in Sha : origin[v] <= v
  /\ forkCount \in [Prompt -> Nat]
  /\ \A s \in Session : ~At(s, "idle") =>
       /\ job[s].rows \subseteq job[s].log
       /\ job[s].left \subseteq DOMAIN job[s].tags
       /\ job[s].stamp < clock

(* Of every version log() selected in the source there is a copy with its   *)
(* content, and copies are in the order of what they copy.                  *)
VersionsCopied(r) ==
  /\ \A v \in r.log : \E x \in Stored : <<v, x>> \in r.copies
  /\ \A c \in r.copies :
       /\ origin[c[2]] = origin[c[1]]
       /\ versions[c[2]] = [prompt |-> r.fork, branch |-> r.branch]
       /\ \A e \in r.copies : Older(c[1], e[1]) => Older(c[2], e[2])

(* A tag names the copy of what the source's tag named when it was read,    *)
(* unless create_tag() was called on the fork.                              *)
TagsCopied(r) ==
  \A t \in DOMAIN r.tags :
    <<r.fork, t>> \notin retagged => <<r.tags[t], tags[<<r.fork, t>>]>> \in r.copies

(* A fork that is recorded is whole, in its versions and its tags, however  *)
(* the source changed while fork() copied it.  (A source or a fork deleted  *)
(* since may lack some.)  A fork that stops half way must leave no record.  *)
RecordedForksComplete ==
  \A r \in forks :
    {r.source, r.fork} \subseteq Live => VersionsCopied(r) /\ TagsCopied(r)

(* fork_count is the number of forks recorded of this very prompt, whichever*)
(* forks race, fail, are repeated or lose their source, and whoever had its *)
(* slug before.                                                             *)
ForkCountIsForks ==
  \A p \in Live : forkCount[p] = Cardinality({r \in forks : r.source = p})
=============================================================================
