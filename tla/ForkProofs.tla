------------------------------ MODULE ForkProofs ------------------------------
(***************************************************************************)
(* What holds of Fork for any number of sessions, prompts, branches, tags  *)
(* and commits, wherever forks stop and whatever happens to their sources. *)
(***************************************************************************)
EXTENDS Fork, FiniteSetTheorems, TLAPS

Job ==
  [step : {"create", "log", "fetch", "copy", "write", "tag"},
   source : Prompt, dest : Prompt, branch : Branch,
   log : SUBSET Nat, rows : SUBSET Nat, base : Nat, stamp : Nat,
   copies : SUBSET (Nat \X Nat), left : SUBSET Tag,
   tags : UNION {[T -> Nat] : T \in SUBSET Tag}]

(* A fork knows commit objects that have been made, before now.             *)
Typed ==
  /\ TypeOK
  /\ clock \in Nat \ {0} /\ \A v \in Sha : commits[v].created_at < clock
  /\ job \in [Session -> Job \cup {Idle}]
  /\ \A s \in Session : job[s] # Idle =>
       job[s].log \subseteq Sha /\ job[s].copies \subseteq Sha \X Sha

(* The copies are in the fork, with the contents and in the order of what   *)
(* they copy.                                                               *)
Copied(d, b, copies) ==
  \A c \in copies :
    /\ origin[c[2]] = origin[c[1]]
    /\ d \in Live => c[2] \in Stored /\ versions[c[2]] = [prompt |-> d, branch |-> b]
    /\ \A e \in copies : Older(c[1], e[1]) => Older(c[2], e[2])

(* These tags of the fork name the copies of what the source's have named.  *)
TagsDone(d, done, named, copies) ==
  d \in Live =>
    \A t \in done : <<d, t>> \notin retagged => <<named[t], tags[<<d, t>>]>> \in copies

(* What log() has selected of a source that is still there is copied or     *)
(* still to come.                                                           *)
LogKept(j) ==
  j.source \in Live =>
    \A v \in j.log : /\ v \in Stored /\ versions[v].prompt = j.source
                     /\ v \in j.rows \/ \E x \in Sha : <<v, x>> \in j.copies

(* Versions are copied oldest first.                                        *)
InOrder(j) ==
  /\ \A c \in j.copies, w \in j.rows : ~Older(w, c[1])
  /\ j.step = "write" => \A c \in j.copies : commits[c[2]].created_at < j.stamp

Steps(j) ==
  /\ prompts[j.source] # "absent"
  /\ j.step # "create" => prompts[j.dest] # "absent"
  /\ j.step \in {"create", "log"} => j.log = {}
  /\ j.step \in {"create", "log", "fetch"} => j.copies = {}
  /\ j.step = "fetch" => j.rows = j.log
  /\ j.step = "tag" => j.rows = {}
  /\ j.step # "tag" => DOMAIN j.tags = {}

JobKnown(j) ==
  /\ Steps(j) /\ LogKept(j) /\ InOrder(j)
  /\ Copied(j.dest, j.branch, j.copies)
  /\ TagsDone(j.dest, DOMAIN j.tags \ j.left, j.tags, j.copies)

RowKnown(r) ==
  /\ r.source \in Prompt /\ prompts[r.source] # "absent"
  /\ r.fork \in Prompt /\ prompts[r.fork] # "absent"
  /\ r.copies \subseteq Sha \X Sha
  /\ r.source \in Live => \A v \in r.log : \E x \in Sha : <<v, x>> \in r.copies
  /\ DOMAIN r.tags \subseteq Tag
  /\ Copied(r.fork, r.branch, r.copies)
  /\ TagsDone(r.fork, DOMAIN r.tags, r.tags, r.copies)

(* A session that has created its destination, and a row that records it,   *)
(* share it with no other.                                                  *)
Created(s) == job[s] # Idle /\ job[s].step # "create"
Owners ==
  \A s \in Session : Created(s) =>
    /\ \A u \in Session \ {s} : Created(u) => job[u].dest # job[s].dest
    /\ \A r \in forks : r.fork # job[s].dest

Counts ==
  /\ IsFiniteSet(forks)
  /\ \A p \in Prompt : prompts[p] = "absent" => forkCount[p] = 0
  /\ ForkCountIsForks

Known ==
  /\ \A s \in Session : job[s] # Idle => JobKnown(job[s])
  /\ \A r \in forks : RowKnown(r)
  /\ Owners

Inv == Typed /\ Known /\ Counts

-----------------------------------------------------------------------------
(* What no step takes away: commit objects are not changed, a deleted       *)
(* prompt does not return, and a version goes only with its prompt.         *)
Evolves ==
  /\ Sha \subseteq Sha'
  /\ \A v \in Sha : commits'[v] = commits[v] /\ origin'[v] = origin[v]
  /\ \A p \in Prompt : prompts[p] # "absent" =>
                         prompts'[p] # "absent" /\ (p \in Live' => p \in Live)
  /\ \A v \in Stored : versions[v].prompt \in Live' => v \in Stored' /\ versions'[v] = versions[v]

(* The tags of d move only when create_tag() is called on d.                *)
TagsKept(d) ==
  \/ d \notin Live'
  \/ \A t \in Tag : \/ <<d, t>> \in retagged'
                    \/ <<d, t>> \notin retagged /\ tags'[<<d, t>>] = tags[<<d, t>>]

LEMMA CopiedStays ==
  ASSUME Evolves, NEW d \in Prompt, NEW b, NEW copies, copies \subseteq Sha \X Sha,
         copies = {} \/ prompts[d] # "absent", Copied(d, b, copies)
  PROVE  Copied(d, b, copies)'
<1>1. ASSUME NEW c \in copies
      PROVE  /\ origin'[c[2]] = origin'[c[1]]
             /\ d \in Live' => c[2] \in Stored' /\ versions'[c[2]] = [prompt |-> d, branch |-> b]
  <2>1. c[1] \in Sha /\ c[2] \in Sha
    OBVIOUS
  <2>2. origin[c[2]] = origin[c[1]]
    BY DEF Copied
  <2>3. d \in Live' => c[2] \in Stored /\ versions[c[2]] = [prompt |-> d, branch |-> b]
    BY DEF Copied, Evolves
  <2> QED BY <2>1, <2>2, <2>3 DEF Evolves
<1>2. ASSUME NEW c \in copies, NEW e \in copies, Older(c[1], e[1])'
      PROVE  Older(c[2], e[2])'
  <2>1. {c[1], c[2], e[1], e[2]} \subseteq Sha
    OBVIOUS
  <2>2. Older(c[1], e[1])
    BY <1>2, <2>1 DEF Older, Evolves
  <2>3. Older(c[2], e[2])
    BY <2>2 DEF Copied
  <2> QED BY <2>1, <2>3 DEF Older, Evolves
<1> QED BY <1>1, <1>2 DEF Copied

LEMMA TagsStay ==
  ASSUME Evolves, NEW d \in Prompt, NEW done, done \subseteq Tag, NEW named, NEW copies,
         done = {} \/ (prompts[d] # "absent" /\ TagsKept(d)), TagsDone(d, done, named, copies)
  PROVE  TagsDone(d, done, named, copies)'
BY DEF TagsDone, TagsKept, Evolves

LEMMA RowStays ==
  ASSUME Evolves, NEW r, RowKnown(r), TagsKept(r.fork)
  PROVE  RowKnown(r)'
<1>1. Copied(r.fork, r.branch, r.copies)'
  BY CopiedStays DEF RowKnown
<1>2. TagsDone(r.fork, DOMAIN r.tags, r.tags, r.copies)'
  BY TagsStay DEF RowKnown
<1>3. /\ prompts'[r.source] # "absent" /\ prompts'[r.fork] # "absent"
      /\ r.copies \subseteq Sha' \X Sha'
      /\ r.source \in Live' => \A v \in r.log : \E x \in Sha' : <<v, x>> \in r.copies
  BY DEF RowKnown, Evolves
<1> QED BY <1>1, <1>2, <1>3 DEF RowKnown

LEMMA JobStaysButTags ==
  ASSUME Evolves, NEW j \in Job, j.log \subseteq Sha, j.rows \subseteq j.log,
         j.copies \subseteq Sha \X Sha, JobKnown(j)
  PROVE  Steps(j)' /\ LogKept(j)' /\ InOrder(j)' /\ Copied(j.dest, j.branch, j.copies)'
<1>1. Steps(j)'
  BY DEF JobKnown, Steps, Evolves, Job
<1>2. LogKept(j)'
  BY DEF JobKnown, Steps, LogKept, Evolves, Job
<1>3. InOrder(j)'
  <2>1. ASSUME NEW c \in j.copies, NEW w \in j.rows
        PROVE  ~Older(w, c[1])'
    BY DEF JobKnown, InOrder, Older, Evolves
  <2>2. ASSUME j.step = "write", NEW c \in j.copies
        PROVE  commits'[c[2]].created_at < j.stamp
    BY <2>2 DEF JobKnown, InOrder, Evolves
  <2> QED BY <2>1, <2>2 DEF InOrder
<1>4. Copied(j.dest, j.branch, j.copies)'
  BY CopiedStays DEF JobKnown, Steps, Job
<1> QED BY <1>1, <1>2, <1>3, <1>4

LEMMA JobStays ==
  ASSUME Evolves, NEW j \in Job, j.log \subseteq Sha, j.rows \subseteq j.log,
         j.copies \subseteq Sha \X Sha, JobKnown(j), j.step = "create" \/ TagsKept(j.dest)
  PROVE  JobKnown(j)'
<1>1. TagsDone(j.dest, DOMAIN j.tags \ j.left, j.tags, j.copies)'
  <2>1. DOMAIN j.tags \subseteq Tag
    BY DEF Job
  <2>2. j.step = "create" => DOMAIN j.tags \ j.left = {}
    BY DEF JobKnown, Steps
  <2>3. j.step # "create" => prompts[j.dest] # "absent" /\ TagsKept(j.dest)
    BY DEF JobKnown, Steps
  <2>4. j.dest \in Prompt
    BY DEF Job
  <2> QED BY <2>1, <2>2, <2>3, <2>4, TagsStay DEF JobKnown
<1> QED BY <1>1, JobStaysButTags DEF JobKnown

LEMMA JobPrimed ==
  ASSUME NEW u \in Session, NEW i, job'[u] = i, JobKnown(i)'
  PROVE  JobKnown(job[u])'
BY DEF JobKnown, Steps, LogKept, InOrder, Copied, TagsDone, Older, Live, Stored

LEMMA JobIs ==
  ASSUME Typed, Known, NEW u \in Session, job[u] # Idle
  PROVE  \E i \in Job : /\ i = job[u] /\ JobKnown(i)
                        /\ i.rows \subseteq i.log /\ i.left \subseteq DOMAIN i.tags
                        /\ i.stamp < clock
                        /\ i.log \subseteq Sha /\ i.copies \subseteq Sha \X Sha
<1>1. job[u] \in Job
  BY DEF Typed
<1>2. ~At(u, "idle")
  BY <1>1 DEF At, Job
<1>3. JobKnown(job[u])
  BY DEF Known
<1> QED BY <1>1, <1>2, <1>3 DEF Typed, TypeOK

(* A step of a session that takes its fork from one job to the next.        *)
LEMMA KnownStep ==
  ASSUME Typed, Known, Evolves, NEW s \in Session, NEW j,
         job' = [job EXCEPT ![s] = j], forks' = forks,
         \A d \in Prompt : TagsKept(d) \/ (Created(s) /\ d = job[s].dest),
         j = Idle \/ (j \in Job /\ JobKnown(j)'),
         j # Idle /\ j.step # "create" =>
           (Created(s) /\ j.dest = job[s].dest) \/ prompts[j.dest] = "absent"
  PROVE  Known'
<1>1. job'[s] = j /\ \A u \in Session \ {s} : job'[u] = job[u]
  BY DEF Typed
<1>2. ASSUME NEW u \in Session, job'[u] # Idle
      PROVE  JobKnown(job[u])'
  <2>1. CASE u = s
    BY <1>1, <1>2, <2>1, JobPrimed
  <2>2. CASE u # s
    <3>1. PICK i \in Job : /\ i = job[u] /\ i = job'[u] /\ JobKnown(i) /\ i.rows \subseteq i.log
                           /\ i.log \subseteq Sha /\ i.copies \subseteq Sha \X Sha
      BY <1>1, <1>2, <2>2, JobIs
    <3>2. i.step = "create" \/ TagsKept(i.dest)
      <4>1. CASE i.step # "create" /\ Created(s)
        BY <2>2, <3>1, <4>1, <1>2, <1>1 DEF Known, Owners, Created, Job
      <4>2. CASE ~Created(s)
        BY <4>2 DEF Job
      <4> QED BY <4>1, <4>2
    <3>3. JobKnown(i)'
      BY <3>1, <3>2, JobStays
    <3>4. job'[u] = i
      BY <3>1
    <3> QED BY <3>3, <3>4, JobPrimed
  <2> QED BY <2>1, <2>2
<1>3. ASSUME NEW r \in forks
      PROVE  RowKnown(r)'
  <2>1. RowKnown(r)
    BY DEF Known
  <2>2. TagsKept(r.fork)
    BY <2>1 DEF Known, Owners, RowKnown
  <2> QED BY <2>1, <2>2, RowStays
<1>4. ASSUME NEW u \in Session \ {s}, Created(u)
      PROVE  prompts[job[u].dest] # "absent"
  BY <1>4 DEF Known, JobKnown, Steps, Created
<1>5. \A u \in Session \ {s} : Created(u)' <=> Created(u)
  BY <1>1 DEF Created
<1>6. ASSUME Created(s)'
      PROVE  /\ \A u \in Session \ {s} : Created(u) => job[u].dest # j.dest
             /\ \A r \in forks : r.fork # j.dest
  <2>1. CASE Created(s) /\ j.dest = job[s].dest
    BY <2>1 DEF Known, Owners
  <2>2. CASE prompts[j.dest] = "absent"
    BY <2>2, <1>4 DEF Known, RowKnown
  <2> QED BY <1>6, <1>1, <2>1, <2>2 DEF Created
<1>7. Owners'
  <2>1. ASSUME NEW u \in Session, Created(u)'
        PROVE  /\ \A x \in Session \ {u} : Created(x)' => job'[x].dest # job'[u].dest
               /\ \A r \in forks' : r.fork # job'[u].dest
    <3>1. CASE u = s
      BY <3>1, <2>1, <1>1, <1>5, <1>6
    <3>2. CASE u # s
      BY <3>2, <2>1, <1>1, <1>5, <1>6 DEF Known, Owners
    <3> QED BY <3>1, <3>2
  <2> QED BY <2>1 DEF Owners
<1> QED BY <1>2, <1>3, <1>7 DEF Known

(* A step of somebody else.                                                 *)
LEMMA KnownOthers ==
  ASSUME Typed, Known, Evolves, UNCHANGED <<job, forks>>, \A d \in Prompt : TagsKept(d)
  PROVE  Known'
<1>1. ASSUME NEW u \in Session, job'[u] # Idle
      PROVE  JobKnown(job[u])'
  <2>1. PICK i \in Job : /\ i = job[u] /\ i = job'[u] /\ JobKnown(i) /\ i.rows \subseteq i.log
                         /\ i.log \subseteq Sha /\ i.copies \subseteq Sha \X Sha
    BY <1>1, JobIs
  <2>2. TagsKept(i.dest)
    BY DEF Job
  <2>3. JobKnown(i)'
    BY <2>1, <2>2, JobStays
  <2>4. job'[u] = i
    BY <2>1
  <2> QED BY <2>3, <2>4, JobPrimed
<1>2. ASSUME NEW r \in forks
      PROVE  RowKnown(r)'
  <2>1. RowKnown(r) /\ TagsKept(r.fork)
    BY DEF Known, RowKnown
  <2> QED BY <2>1, RowStays
<1>3. Owners'
  BY DEF Known, Owners, Created
<1> QED BY <1>1, <1>2, <1>3 DEF Known

(* A step that records no fork.                                             *)
LEMMA CountsStay ==
  ASSUME Typed, Known, Counts, Evolves, UNCHANGED <<forks, forkCount>>
  PROVE  Counts'
<1>1. ASSUME NEW p \in Prompt, prompts'[p] = "absent"
      PROVE  forkCount'[p] = 0
  BY <1>1 DEF Evolves, Counts
<1>2. ASSUME NEW p \in Prompt, p \in Live'
      PROVE  forkCount'[p] = Cardinality({r \in forks' : r.source = p})
  <2>1. CASE prompts[p] # "absent"
    BY <1>2, <2>1 DEF Evolves, Counts, ForkCountIsForks
  <2>2. CASE prompts[p] = "absent"
    <3>1. {r \in forks' : r.source = p} = {}
      BY <2>2 DEF Known, RowKnown
    <3> QED BY <2>2, <3>1, FS_EmptySet DEF Counts
  <2> QED BY <2>1, <2>2
<1>3. ForkCountIsForks'
  BY <1>2 DEF ForkCountIsForks, Live
<1> QED BY <1>1, <1>3 DEF Counts

-----------------------------------------------------------------------------
(* What the table operations do to what forks have read.                    *)

LEMMA NewPromptStep ==
  ASSUME Typed, NEW p \in Prompt, NewPrompt(p), UNCHANGED <<origin, retagged>>
  PROVE  /\ TablesTypeOK' /\ Evolves /\ \A d \in Prompt : TagsKept(d)
         /\ prompts[p] = "absent" /\ prompts'[p] = "live"
<1>1. /\ prompts' \in [Prompt -> {"absent", "live", "deleted"}]
      /\ prompts[p] = "absent" /\ prompts'[p] = "live"
      /\ \A q \in Prompt \ {p} : prompts'[q] = prompts[q]
  BY DEF Typed, TypeOK, TablesTypeOK, NewPrompt
<1>2. TablesTypeOK'
  BY <1>1 DEF Typed, TypeOK, TablesTypeOK, NewPrompt, Sha
<1>3. Evolves
  BY <1>1 DEF NewPrompt, Evolves, Sha, Stored, Live
<1>4. \A d \in Prompt : TagsKept(d)
  BY DEF NewPrompt, TagsKept
<1> QED BY <1>1, <1>2, <1>3, <1>4

LEMMA RemovePromptStep ==
  ASSUME Typed, NEW p \in Prompt, RemovePrompt(p), origin' = origin,
         \A d \in Prompt \ {p}, t \in Tag : <<d, t>> \in retagged' <=> <<d, t>> \in retagged
  PROVE  TablesTypeOK' /\ Evolves /\ \A d \in Prompt : TagsKept(d)
<1>1. /\ prompts' \in [Prompt -> {"absent", "live", "deleted"}]
      /\ prompts[p] = "live" /\ prompts'[p] = "deleted"
      /\ \A q \in Prompt \ {p} : prompts'[q] = prompts[q]
  BY DEF Typed, TypeOK, TablesTypeOK, RemovePrompt, Live
<1>2. /\ Stored' = {v \in Stored : versions[v].prompt # p}
      /\ \A v \in Stored' : versions'[v] = versions[v]
  BY DEF RemovePrompt, Stored
<1>3. \A d \in Prompt, t \in Tag : d # p => tags'[<<d, t>>] = tags[<<d, t>>]
  BY DEF RemovePrompt
<1>4. TablesTypeOK'
  <2>1. heads' \in [Prompt \X Branch -> Sha \cup {NoSha}]
    BY DEF Typed, TypeOK, TablesTypeOK, RemovePrompt
  <2>2. tags' \in [Prompt \X Tag -> Sha \cup {NoSha}]
    BY DEF Typed, TypeOK, TablesTypeOK, RemovePrompt
  <2>3. DOMAIN versions' \in SUBSET Sha /\ versions' \in [DOMAIN versions' -> Row]
    BY DEF Typed, TypeOK, TablesTypeOK, RemovePrompt, Stored
  <2> QED BY <2>1, <2>2, <2>3, <1>1 DEF Typed, TypeOK, TablesTypeOK, RemovePrompt, Sha
<1>5. Evolves
  BY <1>1, <1>2 DEF RemovePrompt, Evolves, Sha, Live
<1>6. \A d \in Prompt : TagsKept(d)
  BY <1>1, <1>3 DEF TagsKept, Live
<1> QED BY <1>4, <1>5, <1>6

LEMMA PutTagStep ==
  ASSUME Typed, NEW p \in Prompt, NEW t \in Tag, NEW v, PutTag(p, t, v),
         origin' = origin, retagged \subseteq retagged'
  PROVE  /\ TablesTypeOK' /\ Evolves
         /\ v \in Stored /\ tags'[<<p, t>>] = v
         /\ \A d \in Prompt, u \in Tag : <<d, u>> # <<p, t>> => tags'[<<d, u>>] = tags[<<d, u>>]
<1>1. /\ UNCHANGED <<commits, versions, heads, prompts>> /\ v \in Stored
      /\ tags' = [tags EXCEPT ![<<p, t>>] = v]
  BY DEF PutTag
<1>2. v \in Sha
  BY <1>1 DEF Typed, TypeOK, TablesTypeOK, Stored
<1>3. /\ tags' \in [Prompt \X Tag -> Sha \cup {NoSha}] /\ tags'[<<p, t>>] = v
      /\ \A d \in Prompt, u \in Tag : <<d, u>> # <<p, t>> => tags'[<<d, u>>] = tags[<<d, u>>]
  BY <1>1, <1>2 DEF Typed, TypeOK, TablesTypeOK
<1>4. TablesTypeOK'
  BY <1>1, <1>3 DEF Typed, TypeOK, TablesTypeOK, Sha
<1>5. Evolves
  BY <1>1 DEF Evolves, Sha, Live, Stored
<1> QED BY <1>1, <1>3, <1>4, <1>5

LEMMA CommitStep ==
  ASSUME Typed, NEW p \in Prompt, NEW b \in Branch, NEW base, NEW t \in Nat,
         NEW o \in 1..(Len(commits) + 1),
         InsertCommit(p, b, base, t), origin' = Append(origin, o), retagged' = retagged
  PROVE  /\ TablesTypeOK' /\ Evolves /\ \A d \in Prompt : TagsKept(d)
         /\ origin' \in Seq(Sha') /\ Len(origin') = Len(commits')
         /\ \A v \in Sha' : origin'[v] <= v
         /\ Sha' = Sha \cup {Len(commits) + 1}
         /\ origin'[Len(commits) + 1] = o
         /\ commits'[Len(commits) + 1].created_at = t
         /\ Len(commits) + 1 \in Stored'
         /\ versions'[Len(commits) + 1] = [prompt |-> p, branch |-> b]
<1> DEFINE n == Len(commits) + 1
<1>1. /\ UNCHANGED <<tags, prompts>> /\ base \in Stored \cup {NoSha}
      /\ commits' = Append(commits, [parent |-> base, created_at |-> t])
      /\ versions' = [x \in Stored \cup {n} |->
                        IF x = n THEN [prompt |-> p, branch |-> b] ELSE versions[x]]
      /\ heads' = [heads EXCEPT ![<<p, b>>] = n]
  BY DEF InsertCommit, Resolvable, InsertVersion, UpsertHead
<1>2. commits \in Seq(Commit) /\ Stored \subseteq Sha /\ versions \in [Stored -> Row]
  BY DEF Typed, TypeOK, TablesTypeOK, Stored
<1>3. [parent |-> base, created_at |-> t] \in Commit
  BY <1>1, <1>2 DEF Commit, Sha, NoSha
<1>4. /\ commits' \in Seq(Commit) /\ Len(commits') = n
      /\ \A v \in Sha : commits'[v] = commits[v]
      /\ commits'[n] = [parent |-> base, created_at |-> t]
  BY <1>1, <1>2, <1>3 DEF Sha
<1>5. Sha' = Sha \cup {n} /\ n \notin Sha
  BY <1>2, <1>4 DEF Sha
<1>6. /\ Stored' = Stored \cup {n} /\ versions' \in [Stored' -> Row]
      /\ versions'[n] = [prompt |-> p, branch |-> b]
      /\ \A v \in Stored : versions'[v] = versions[v]
  BY <1>1, <1>2, <1>5 DEF Stored, Row
<1>7. heads' \in [Prompt \X Branch -> Sha' \cup {NoSha}]
  BY <1>1, <1>5 DEF Typed, TypeOK, TablesTypeOK
<1>8. tags' \in [Prompt \X Tag -> Sha' \cup {NoSha}]
  BY <1>1, <1>5 DEF Typed, TypeOK, TablesTypeOK
<1>9. TablesTypeOK'
  <2>1. prompts' \in [Prompt -> {"absent", "live", "deleted"}]
    BY <1>1 DEF Typed, TypeOK, TablesTypeOK
  <2>2. DOMAIN versions' \in SUBSET Sha' /\ versions' \in [DOMAIN versions' -> Row']
    BY <1>2, <1>5, <1>6 DEF Stored, Row
  <2>3. commits' \in Seq(Commit')
    BY <1>4 DEF Commit
  <2> QED BY <1>7, <1>8, <2>1, <2>2, <2>3 DEF TablesTypeOK, NoSha
<1>10. /\ origin \in Seq(Sha) /\ Len(origin) = Len(commits)
       /\ \A v \in Sha : origin[v] <= v
  BY DEF Typed, TypeOK
<1>11. origin \in Seq(Sha') /\ o \in Sha'
  BY <1>2, <1>5, <1>10 DEF Sha
<1>12. /\ origin' \in Seq(Sha') /\ Len(origin') = n
       /\ \A v \in Sha : origin'[v] = origin[v]
       /\ origin'[n] = o
  BY <1>2, <1>10, <1>11 DEF Sha
<1>13. \A v \in Sha' : origin'[v] <= v
  <2>1. o <= n
    BY <1>2
  <2>2. \A v \in Sha : origin'[v] <= v
    BY <1>10, <1>12
  <2> HIDE DEF n
  <2> QED BY <1>5, <1>12, <2>1, <2>2
<1>14. Evolves
  BY <1>1, <1>4, <1>5, <1>6, <1>12 DEF Evolves, Live
<1>15. \A d \in Prompt : TagsKept(d)
  BY <1>1 DEF TagsKept
<1>16. Len(origin') = Len(commits') /\ commits'[n].created_at = t /\ n \in Stored'
  BY <1>4, <1>6, <1>12
<1>17. /\ Sha' = Sha \cup {n} /\ origin'[n] = o
       /\ versions'[n] = [prompt |-> p, branch |-> b] /\ origin' \in Seq(Sha')
  BY <1>5, <1>6, <1>12
<1> QED BY <1>9, <1>13, <1>14, <1>15, <1>16, <1>17, Zenon

(* The types, when a session goes on with j.                                *)
LEMMA TypedStep ==
  ASSUME Typed, TablesTypeOK', Evolves,
         origin' \in Seq(Sha'), Len(origin') = Len(commits'), \A v \in Sha' : origin'[v] <= v,
         forkCount' \in [Prompt -> Nat],
         clock' \in Nat, clock <= clock', \A v \in Sha' : commits'[v].created_at < clock',
         NEW s \in Session, NEW j, job' = [job EXCEPT ![s] = j],
         j # Idle =>
           /\ j \in Job /\ j.stamp < clock'
           /\ j.rows \subseteq j.log /\ j.left \subseteq DOMAIN j.tags
           /\ j.log \subseteq Sha' /\ j.copies \subseteq Sha' \X Sha',
         j = Idle \/ j \in Job
  PROVE  Typed'
<1>1. /\ job' \in [Session -> Job \cup {Idle}]
      /\ job'[s] = j /\ \A u \in Session \ {s} : job'[u] = job[u]
  BY DEF Typed
<1>2. ASSUME NEW u \in Session, job'[u] # Idle
      PROVE  /\ job'[u].rows \subseteq job'[u].log
             /\ job'[u].left \subseteq DOMAIN job'[u].tags /\ job'[u].stamp < clock'
             /\ job'[u].log \subseteq Sha' /\ job'[u].copies \subseteq Sha' \X Sha'
  <2>1. CASE u = s
    BY <1>1, <1>2, <2>1
  <2>2. CASE u # s
    <3>1. job'[u] = job[u] /\ job[u] \in Job
      BY <1>1, <1>2, <2>2 DEF Typed
    <3>2. ~At(u, "idle") /\ job[u].stamp \in Nat
      BY <3>1 DEF At, Job
    <3>3. /\ job[u].rows \subseteq job[u].log /\ job[u].left \subseteq DOMAIN job[u].tags
          /\ job[u].stamp < clock
          /\ job[u].log \subseteq Sha /\ job[u].copies \subseteq Sha \X Sha
      BY <1>2, <3>1, <3>2 DEF Typed, TypeOK
    <3>4. job[u].stamp < clock' /\ Sha \subseteq Sha'
      BY <3>2, <3>3 DEF Typed, Evolves
    <3> QED BY <3>1, <3>3, <3>4
  <2> QED BY <2>1, <2>2
<1>3. \A u \in Session : ~At(u, "idle")' => job'[u] # Idle
  BY DEF At, Idle
<1>4. TypeOK'
  BY <1>2, <1>3 DEF TypeOK
<1> QED BY <1>1, <1>2, <1>4 DEF Typed

(* ... and when no session does.                                            *)
LEMMA TypedOthers ==
  ASSUME Typed, TablesTypeOK', Evolves,
         origin' \in Seq(Sha'), Len(origin') = Len(commits'), \A v \in Sha' : origin'[v] <= v,
         clock' \in Nat, clock <= clock', \A v \in Sha' : commits'[v].created_at < clock',
         UNCHANGED <<job, forkCount>>
  PROVE  Typed'
<1>1. ASSUME NEW u \in Session, job[u] # Idle
      PROVE  /\ job[u].rows \subseteq job[u].log
             /\ job[u].left \subseteq DOMAIN job[u].tags /\ job[u].stamp < clock'
             /\ job[u].log \subseteq Sha' /\ job[u].copies \subseteq Sha' \X Sha'
  <2>1. job[u] \in Job
    BY <1>1 DEF Typed
  <2>2. ~At(u, "idle") /\ job[u].stamp \in Nat
    BY <2>1 DEF At, Job
  <2>3. /\ job[u].rows \subseteq job[u].log /\ job[u].left \subseteq DOMAIN job[u].tags
        /\ job[u].stamp < clock
        /\ job[u].log \subseteq Sha /\ job[u].copies \subseteq Sha \X Sha
    BY <1>1, <2>2 DEF Typed, TypeOK
  <2>4. job[u].stamp < clock' /\ Sha \subseteq Sha'
    BY <2>2, <2>3 DEF Typed, Evolves
  <2> QED BY <2>3, <2>4
<1>2. \A u \in Session : ~At(u, "idle")' => job[u] # Idle
  BY DEF At, Idle
<1>3. TypeOK'
  BY <1>1, <1>2 DEF Typed, TypeOK
<1> QED BY <1>1, <1>3 DEF Typed

-----------------------------------------------------------------------------
(* The steps of a fork.                                                     *)

LEMMA CreatedBefore ==
  ASSUME Typed, NEW v \in Sha
  PROVE  commits[v].created_at \in Nat /\ commits[v].created_at < clock
<1>1. commits \in Seq(Commit)
  BY DEF Typed, TypeOK, TablesTypeOK
<1>2. commits[v] \in Commit
  BY <1>1 DEF Sha
<1> QED BY <1>2 DEF Typed, Commit

(* A step that writes nothing.                                              *)
LEMMA QuietStep ==
  ASSUME Inv, UNCHANGED <<tables, origin, forks, forkCount, retagged>>,
         clock' \in Nat, clock <= clock',
         NEW s \in Session, NEW j, job' = [job EXCEPT ![s] = j],
         j = Idle \/ (j \in Job /\ JobKnown(j)),
         j # Idle =>
           /\ j.rows \subseteq j.log /\ j.left \subseteq DOMAIN j.tags /\ j.stamp < clock'
           /\ j.log \subseteq Sha /\ j.copies \subseteq Sha \X Sha,
         j # Idle /\ j.step # "create" => Created(s) /\ j.dest = job[s].dest
  PROVE  Inv'
<1>1. Typed /\ Known /\ Counts
  BY DEF Inv
<1>2. /\ UNCHANGED <<commits, versions, heads, tags, prompts>>
      /\ Sha' = Sha /\ Stored' = Stored /\ Live' = Live
  BY DEF tables, Sha, Stored, Live
<1>3. TablesTypeOK'
  BY <1>1, <1>2 DEF Typed, TypeOK, TablesTypeOK
<1>4. Evolves
  BY <1>2 DEF Evolves
<1>5. \A d \in Prompt : TagsKept(d)
  BY <1>2 DEF TagsKept
<1>6. j = Idle \/ (j \in Job /\ JobKnown(j)')
  <2>1. j # Idle => TagsKept(j.dest)
    BY <1>5 DEF Job
  <2> QED BY <1>4, <2>1, JobStays
<1>7. Typed'
  <2>1. /\ origin' \in Seq(Sha') /\ Len(origin') = Len(commits')
        /\ \A v \in Sha' : origin'[v] <= v
        /\ forkCount' \in [Prompt -> Nat]
    BY <1>1, <1>2 DEF Typed, TypeOK
  <2>2. \A v \in Sha' : commits'[v].created_at < clock'
    <3>1. \A v \in Sha : commits[v].created_at \in Nat /\ commits[v].created_at < clock
      BY <1>1, CreatedBefore
    <3>2. clock \in Nat
      BY <1>1 DEF Typed
    <3> QED BY <1>2, <3>1, <3>2
  <2> QED BY <1>1, <1>2, <1>3, <1>4, <2>1, <2>2, TypedStep
<1>8. Known'
  BY <1>1, <1>4, <1>5, <1>6, KnownStep
<1>9. Counts'
  BY <1>1, <1>4, CountsStay
<1> QED BY <1>7, <1>8, <1>9 DEF Inv

(* The job of a session that is in a step of fork().                        *)
LEMMA InJob ==
  ASSUME Inv, NEW s \in Session, ~At(s, "idle")
  PROVE  \E i \in Job : /\ i = job[s] /\ JobKnown(i) /\ i # Idle
                        /\ i.rows \subseteq i.log /\ i.left \subseteq DOMAIN i.tags
                        /\ i.stamp < clock
                        /\ i.log \subseteq Sha /\ i.copies \subseteq Sha \X Sha
<1>1. job[s] # Idle
  BY DEF At, Idle
<1> QED BY <1>1, JobIs DEF Inv

LEMMA BeginInv ==
  ASSUME Inv, NEW s \in Session, NEW p \in Prompt, NEW d \in Prompt, NEW b \in Branch,
         Begin(s, p, d, b)
  PROVE  Inv'
<1>1. PICK j : j = [step |-> "create", source |-> p, dest |-> d, branch |-> b,
                    log |-> {}, rows |-> {}, base |-> NoSha, stamp |-> 0,
                    copies |-> {}, left |-> {}, tags |-> NoTags]
  OBVIOUS
<1>2. /\ job' = [job EXCEPT ![s] = j] /\ p \in Live
      /\ UNCHANGED <<tables, origin, forks, forkCount, clock, retagged>>
  BY <1>1 DEF Begin, Set
<1>3. j \in Job
  <2>1. NoTags \in [{} -> Nat]
    BY DEF NoTags
  <2>2. NoTags \in UNION {[T -> Nat] : T \in SUBSET Tag}
    BY <2>1
  <2> QED BY <1>1, <2>2 DEF Job, NoSha
<1>4. JobKnown(j)
  <2>1. Steps(j)
    BY <1>1, <1>2 DEF Steps, Live, NoTags
  <2> QED BY <1>1, <2>1 DEF JobKnown, LogKept, InOrder, Copied, TagsDone, NoTags
<1>5. /\ j.rows \subseteq j.log /\ j.left \subseteq DOMAIN j.tags /\ j.stamp = 0
      /\ j.log \subseteq Sha /\ j.copies \subseteq Sha \X Sha /\ j.step = "create"
  BY <1>1
<1>6. clock' \in Nat /\ clock <= clock' /\ j.stamp < clock'
  BY <1>2, <1>5 DEF Inv, Typed
<1>7. UNCHANGED <<tables, origin, forks, forkCount, retagged>>
  BY <1>2
<1> QED BY <1>2, <1>3, <1>4, <1>5, <1>6, <1>7, QuietStep

LEMMA CreateDestInv ==
  ASSUME Inv, NEW s \in Session, CreateDest(s)
  PROVE  Inv'
<1>1. Typed /\ Known /\ Counts
  BY DEF Inv
<1>2. ~At(s, "idle")
  BY DEF CreateDest, At
<1>3. PICK i \in Job : /\ i = job[s] /\ JobKnown(i) /\ i # Idle
                       /\ i.rows \subseteq i.log /\ i.left \subseteq DOMAIN i.tags
                       /\ i.stamp < clock
                       /\ i.log \subseteq Sha /\ i.copies \subseteq Sha \X Sha
  BY <1>2, InJob
<1>4. PICK j : j = [i EXCEPT !.step = "log"]
  OBVIOUS
<1>5. /\ i.step = "create" /\ NewPrompt(i.dest) /\ job' = [job EXCEPT ![s] = j]
      /\ UNCHANGED <<origin, forks, forkCount, clock, retagged>>
  BY <1>3, <1>4 DEF CreateDest, At, Set
<1>6. /\ TablesTypeOK' /\ Evolves /\ \A d \in Prompt : TagsKept(d)
      /\ prompts[i.dest] = "absent" /\ prompts'[i.dest] = "live"
  <2>1. i.dest \in Prompt
    BY DEF Job
  <2> QED BY <1>1, <1>5, <2>1, NewPromptStep
<1>7. JobKnown(i)'
  BY <1>3, <1>5, <1>6, JobStays
<1>8. /\ j \in Job /\ j.step = "log" /\ j.source = i.source /\ j.dest = i.dest
      /\ j.branch = i.branch /\ j.log = i.log /\ j.rows = i.rows /\ j.copies = i.copies
      /\ j.left = i.left /\ j.tags = i.tags /\ j.stamp = i.stamp
  BY <1>4 DEF Job
<1>9. JobKnown(j)'
  <2>1. Steps(j)'
    BY <1>5, <1>6, <1>7, <1>8 DEF JobKnown, Steps
  <2>2. LogKept(j)' /\ InOrder(j)'
    BY <1>5, <1>7, <1>8 DEF JobKnown, LogKept, InOrder
  <2>3. /\ Copied(j.dest, j.branch, j.copies)'
        /\ TagsDone(j.dest, DOMAIN j.tags \ j.left, j.tags, j.copies)'
    BY <1>7, <1>8 DEF JobKnown
  <2> QED BY <2>1, <2>2, <2>3 DEF JobKnown
<1>10. Typed'
  <2>1. /\ UNCHANGED <<commits, versions, heads, tags>> /\ Sha' = Sha
    BY <1>5 DEF NewPrompt, Sha
  <2>2. /\ origin' \in Seq(Sha') /\ Len(origin') = Len(commits')
        /\ \A v \in Sha' : origin'[v] <= v
        /\ forkCount' \in [Prompt -> Nat]
    BY <1>1, <1>5, <2>1 DEF Typed, TypeOK
  <2>3. clock' \in Nat /\ clock <= clock' /\ \A v \in Sha' : commits'[v].created_at < clock'
    BY <1>1, <1>5, <2>1 DEF Typed
  <2>4. /\ j.rows \subseteq j.log /\ j.left \subseteq DOMAIN j.tags /\ j.stamp < clock'
        /\ j.log \subseteq Sha' /\ j.copies \subseteq Sha' \X Sha'
    BY <1>3, <1>5, <1>8, <2>1
  <2> QED BY <1>1, <1>5, <1>6, <1>8, <2>2, <2>3, <2>4, TypedStep
<1>11. Known'
  BY <1>1, <1>5, <1>6, <1>8, <1>9, KnownStep
<1>12. Counts'
  BY <1>1, <1>5, <1>6, CountsStay
<1> QED BY <1>10, <1>11, <1>12 DEF Inv

LEMMA SelectLogInv ==
  ASSUME Inv, NEW s \in Session, SelectLog(s)
  PROVE  Inv'
<1>1. ~At(s, "idle")
  BY DEF SelectLog, At
<1>2. PICK i \in Job : /\ i = job[s] /\ JobKnown(i) /\ i # Idle
                       /\ i.rows \subseteq i.log /\ i.left \subseteq DOMAIN i.tags
                       /\ i.stamp < clock
                       /\ i.log \subseteq Sha /\ i.copies \subseteq Sha \X Sha
  BY <1>1, InJob
<1>3. PICK log : /\ log = {v \in Stored : versions[v] = [prompt |-> i.source, branch |-> i.branch]}
                 /\ job' = [job EXCEPT ![s] =
                              [i EXCEPT !.step = "fetch", !.log = log, !.rows = log]]
  BY <1>2 DEF SelectLog, Set
<1>4. /\ i.step = "log"
      /\ UNCHANGED <<tables, origin, forks, forkCount, clock, retagged>>
  BY <1>2 DEF SelectLog, At
<1>5. PICK j : j = [i EXCEPT !.step = "fetch", !.log = log, !.rows = log]
  OBVIOUS
<1>6. log \subseteq Stored /\ Stored \subseteq Sha /\ Sha \subseteq Nat
  BY <1>3 DEF Inv, Typed, TypeOK, TablesTypeOK, Stored, Sha
<1>7. /\ j \in Job /\ j.step = "fetch" /\ j.source = i.source /\ j.dest = i.dest
      /\ j.branch = i.branch /\ j.log = log /\ j.rows = log /\ j.copies = i.copies
      /\ j.left = i.left /\ j.tags = i.tags /\ j.stamp = i.stamp
  BY <1>5, <1>6 DEF Job
<1>8. JobKnown(j)
  <2>1. i.copies = {} /\ Steps(j)
    BY <1>2, <1>4, <1>7 DEF JobKnown, Steps
  <2>2. LogKept(j)
    BY <1>3, <1>7 DEF LogKept
  <2>3. InOrder(j)
    BY <1>7, <2>1 DEF InOrder
  <2>4. /\ Copied(j.dest, j.branch, j.copies)
        /\ TagsDone(j.dest, DOMAIN j.tags \ j.left, j.tags, j.copies)
    BY <1>2, <1>7 DEF JobKnown
  <2> QED BY <2>1, <2>2, <2>3, <2>4 DEF JobKnown
<1>9. Created(s) /\ j.dest = job[s].dest
  BY <1>2, <1>4, <1>7 DEF Created
<1>10. clock' \in Nat /\ clock <= clock' /\ j.stamp < clock'
  BY <1>2, <1>4, <1>7 DEF Inv, Typed
<1>11. /\ j.rows \subseteq j.log /\ j.left \subseteq DOMAIN j.tags
       /\ j.log \subseteq Sha /\ j.copies \subseteq Sha \X Sha
  BY <1>2, <1>6, <1>7
<1>12. job' = [job EXCEPT ![s] = j] /\ UNCHANGED <<tables, origin, forks, forkCount, retagged>>
  BY <1>3, <1>4, <1>5
<1> QED BY <1>7, <1>8, <1>9, <1>10, <1>11, <1>12, QuietStep

LEMMA FetchLogInv ==
  ASSUME Inv, NEW s \in Session, FetchLog(s)
  PROVE  Inv'
<1>1. ~At(s, "idle")
  BY DEF FetchLog, At
<1>2. PICK i \in Job : /\ i = job[s] /\ JobKnown(i) /\ i # Idle
                       /\ i.rows \subseteq i.log /\ i.left \subseteq DOMAIN i.tags
                       /\ i.stamp < clock
                       /\ i.log \subseteq Sha /\ i.copies \subseteq Sha \X Sha
  BY <1>1, InJob
<1>3. PICK kept \in SUBSET i.rows :
        /\ i.rows \cap Stored \subseteq kept
        /\ job' = [job EXCEPT ![s] = [i EXCEPT !.step = "copy", !.rows = kept]]
  BY <1>2 DEF FetchLog, Set
<1>4. /\ i.step = "fetch"
      /\ UNCHANGED <<tables, origin, forks, forkCount, clock, retagged>>
  BY <1>2 DEF FetchLog, At
<1>5. PICK j : j = [i EXCEPT !.step = "copy", !.rows = kept]
  OBVIOUS
<1>6. /\ j \in Job /\ j.step = "copy" /\ j.source = i.source /\ j.dest = i.dest
      /\ j.branch = i.branch /\ j.log = i.log /\ j.rows = kept /\ j.copies = i.copies
      /\ j.left = i.left /\ j.tags = i.tags /\ j.stamp = i.stamp
  BY <1>5 DEF Job
<1>7. JobKnown(j)
  <2>1. i.copies = {} /\ i.rows = i.log /\ Steps(j)
    BY <1>2, <1>4, <1>6 DEF JobKnown, Steps
  <2>2. LogKept(j)
    BY <1>2, <1>3, <1>6, <2>1 DEF JobKnown, LogKept
  <2>3. InOrder(j)
    BY <1>6, <2>1 DEF InOrder
  <2>4. /\ Copied(j.dest, j.branch, j.copies)
        /\ TagsDone(j.dest, DOMAIN j.tags \ j.left, j.tags, j.copies)
    BY <1>2, <1>6 DEF JobKnown
  <2> QED BY <2>1, <2>2, <2>3, <2>4 DEF JobKnown
<1>8. Created(s) /\ j.dest = job[s].dest
  BY <1>2, <1>4, <1>6 DEF Created
<1>9. clock' \in Nat /\ clock <= clock' /\ j.stamp < clock'
  BY <1>2, <1>4, <1>6 DEF Inv, Typed
<1>10. /\ j.rows \subseteq j.log /\ j.left \subseteq DOMAIN j.tags
       /\ j.log \subseteq Sha /\ j.copies \subseteq Sha \X Sha
  BY <1>2, <1>3, <1>6
<1>11. job' = [job EXCEPT ![s] = j] /\ UNCHANGED <<tables, origin, forks, forkCount, retagged>>
  BY <1>3, <1>4, <1>5
<1> QED BY <1>6, <1>7, <1>8, <1>9, <1>10, <1>11, QuietStep

LEMMA ReadHeadInv ==
  ASSUME Inv, NEW s \in Session, ReadHead(s)
  PROVE  Inv'
<1>1. ~At(s, "idle")
  BY DEF ReadHead, At
<1>2. PICK i \in Job : /\ i = job[s] /\ JobKnown(i) /\ i # Idle
                       /\ i.rows \subseteq i.log /\ i.left \subseteq DOMAIN i.tags
                       /\ i.stamp < clock
                       /\ i.log \subseteq Sha /\ i.copies \subseteq Sha \X Sha
  BY <1>1, InJob
<1>3. PICK base : base = heads[<<i.dest, i.branch>>]
  OBVIOUS
<1>4. PICK j : j = [i EXCEPT !.step = "write", !.stamp = clock, !.base = base]
  OBVIOUS
<1>5. /\ i.step = "copy" /\ job' = [job EXCEPT ![s] = j] /\ clock' = clock + 1
      /\ UNCHANGED <<tables, origin, forks, forkCount, retagged>>
  BY <1>2, <1>3, <1>4 DEF ReadHead, At, Set
<1>6. base \in Nat /\ clock \in Nat
  BY <1>3 DEF Job, Inv, Typed, TypeOK, TablesTypeOK, Sha, NoSha
<1>7. /\ j \in Job /\ j.step = "write" /\ j.source = i.source /\ j.dest = i.dest
      /\ j.branch = i.branch /\ j.log = i.log /\ j.rows = i.rows /\ j.copies = i.copies
      /\ j.left = i.left /\ j.tags = i.tags /\ j.stamp = clock
  BY <1>4, <1>6 DEF Job
<1>8. JobKnown(j)
  <2>1. Steps(j)
    BY <1>2, <1>5, <1>7 DEF JobKnown, Steps
  <2>2. LogKept(j)
    BY <1>2, <1>7 DEF JobKnown, LogKept
  <2>3. InOrder(j)
    <3>1. \A c \in i.copies : commits[c[2]].created_at < clock
      BY <1>2 DEF Inv, Typed
    <3> QED BY <1>2, <1>7, <3>1 DEF JobKnown, InOrder
  <2>4. /\ Copied(j.dest, j.branch, j.copies)
        /\ TagsDone(j.dest, DOMAIN j.tags \ j.left, j.tags, j.copies)
    BY <1>2, <1>7 DEF JobKnown
  <2> QED BY <2>1, <2>2, <2>3, <2>4 DEF JobKnown
<1>9. Created(s) /\ j.dest = job[s].dest
  BY <1>2, <1>5, <1>7 DEF Created
<1>10. clock' \in Nat /\ clock <= clock' /\ j.stamp < clock'
  BY <1>5, <1>6, <1>7
<1>11. /\ j.rows \subseteq j.log /\ j.left \subseteq DOMAIN j.tags
       /\ j.log \subseteq Sha /\ j.copies \subseteq Sha \X Sha
  BY <1>2, <1>7
<1> QED BY <1>5, <1>7, <1>8, <1>9, <1>10, <1>11, QuietStep

LEMMA ReadTagsInv ==
  ASSUME Inv, NEW s \in Session, ReadTags(s)
  PROVE  Inv'
<1>1. ~At(s, "idle")
  BY DEF ReadTags, At
<1>2. PICK i \in Job : /\ i = job[s] /\ JobKnown(i) /\ i # Idle
                       /\ i.rows \subseteq i.log /\ i.left \subseteq DOMAIN i.tags
                       /\ i.stamp < clock
                       /\ i.log \subseteq Sha /\ i.copies \subseteq Sha \X Sha
  BY <1>1, InJob
<1>3. PICK wanted \in SUBSET Tag :
        wanted = {t \in Tag : Copy(s, tags[<<job[s].source, t>>]) # {}}
  OBVIOUS
<1>4. PICK named : named = [t \in wanted |-> tags[<<i.source, t>>]]
  OBVIOUS
<1>5. PICK j : j = [i EXCEPT !.step = "tag", !.left = wanted, !.tags = named]
  OBVIOUS
<1>6. /\ i.step = "copy" /\ i.rows = {} /\ job' = [job EXCEPT ![s] = j]
      /\ UNCHANGED <<tables, origin, forks, forkCount, clock, retagged>>
  BY <1>2, <1>3, <1>4, <1>5 DEF ReadTags, At, Set
<1>7. DOMAIN named = wanted /\ named \in UNION {[T -> Nat] : T \in SUBSET Tag}
  <2>1. \A t \in wanted : tags[<<i.source, t>>] \in Nat
    BY DEF Job, Inv, Typed, TypeOK, TablesTypeOK, Sha, NoSha
  <2>2. named \in [wanted -> Nat]
    BY <1>4, <2>1
  <2> QED BY <2>2
<1>8. /\ j \in Job /\ j.step = "tag" /\ j.source = i.source /\ j.dest = i.dest
      /\ j.branch = i.branch /\ j.log = i.log /\ j.rows = i.rows /\ j.copies = i.copies
      /\ j.left = wanted /\ j.tags = named /\ j.stamp = i.stamp
  BY <1>5, <1>7 DEF Job
<1>9. JobKnown(j)
  <2>1. Steps(j)
    BY <1>2, <1>6, <1>8 DEF JobKnown, Steps
  <2>2. LogKept(j)
    BY <1>2, <1>8 DEF JobKnown, LogKept
  <2>3. InOrder(j)
    BY <1>6, <1>8 DEF InOrder
  <2>4. Copied(j.dest, j.branch, j.copies)
    BY <1>2, <1>8 DEF JobKnown
  <2>5. TagsDone(j.dest, DOMAIN j.tags \ j.left, j.tags, j.copies)
    BY <1>7, <1>8 DEF TagsDone
  <2> QED BY <2>1, <2>2, <2>3, <2>4, <2>5 DEF JobKnown
<1>10. Created(s) /\ j.dest = job[s].dest
  BY <1>2, <1>6, <1>8 DEF Created
<1>11. clock' \in Nat /\ clock <= clock' /\ j.stamp < clock'
  BY <1>2, <1>6, <1>8 DEF Inv, Typed
<1>12. /\ j.rows \subseteq j.log /\ j.left \subseteq DOMAIN j.tags
       /\ j.log \subseteq Sha /\ j.copies \subseteq Sha \X Sha
  BY <1>2, <1>7, <1>8
<1>13. UNCHANGED <<tables, origin, forks, forkCount, retagged>>
  BY <1>6
<1> QED BY <1>6, <1>8, <1>9, <1>10, <1>11, <1>12, <1>13, QuietStep

LEMMA AbandonInv ==
  ASSUME Inv, NEW s \in Session, Abandon(s)
  PROVE  Inv'
<1>1. PICK j : j = Idle
  OBVIOUS
<1>2. /\ job' = [job EXCEPT ![s] = j]
      /\ UNCHANGED <<tables, origin, forks, forkCount, retagged>>
      /\ clock' = clock
  BY <1>1 DEF Abandon, Set
<1>3. clock' \in Nat /\ clock <= clock'
  BY <1>2 DEF Inv, Typed
<1> QED BY <1>1, <1>2, <1>3, QuietStep

(* A copy: the oldest version that is left, behind the copies of the older. *)
LEMMA WriteCopyInv ==
  ASSUME Inv, NEW s \in Session, WriteCopy(s)
  PROVE  Inv'
<1>1. Typed /\ Known /\ Counts
  BY DEF Inv
<1>2. ~At(s, "idle")
  BY DEF WriteCopy, At
<1>3. PICK i \in Job : /\ i = job[s] /\ JobKnown(i) /\ i # Idle
                       /\ i.rows \subseteq i.log /\ i.left \subseteq DOMAIN i.tags
                       /\ i.stamp < clock
                       /\ i.log \subseteq Sha /\ i.copies \subseteq Sha \X Sha
  BY <1>2, InJob
<1>4. PICK n : n = Len(commits) + 1
  OBVIOUS
<1>5. PICK v \in i.rows :
        /\ \A w \in i.rows : v = w \/ Older(v, w)
        /\ origin' = Append(origin, origin[v])
        /\ job' = [job EXCEPT ![s] = [i EXCEPT !.step = "copy", !.rows = @ \ {v},
                                        !.copies = @ \cup {<<v, n>>}]]
  BY <1>3, <1>4 DEF WriteCopy, NextCopy, Set
<1>6. PICK o : o = origin[v]
  OBVIOUS
<1>7. PICK j : j = [i EXCEPT !.step = "copy", !.rows = @ \ {v}, !.copies = @ \cup {<<v, n>>}]
  OBVIOUS
<1>8. /\ i.step = "write" /\ InsertCommit(i.dest, i.branch, i.base, i.stamp)
      /\ origin' = Append(origin, o) /\ job' = [job EXCEPT ![s] = j]
      /\ UNCHANGED <<forks, forkCount, clock, retagged>>
  BY <1>3, <1>5, <1>6, <1>7 DEF WriteCopy, At
<1>9. v \in Sha /\ o \in 1..n /\ n \in Nat /\ Len(commits) \in Nat
  <2>1. v \in Sha /\ Len(commits) \in Nat
    BY <1>1, <1>3 DEF Typed, TypeOK, TablesTypeOK
  <2>2. o \in Sha
    BY <1>1, <1>6, <2>1 DEF Typed, TypeOK, Sha
  <2> QED BY <1>4, <2>1, <2>2 DEF Sha
<1>10. /\ i.dest \in Prompt /\ i.branch \in Branch /\ i.stamp \in Nat /\ clock \in Nat
       /\ i.rows \subseteq Nat /\ i.copies \subseteq Nat \X Nat
  BY <1>1 DEF Job, Typed
<1>11. /\ TablesTypeOK' /\ Evolves /\ \A d \in Prompt : TagsKept(d)
       /\ origin' \in Seq(Sha') /\ Len(origin') = Len(commits')
       /\ \A w \in Sha' : origin'[w] <= w
       /\ Sha' = Sha \cup {n}
       /\ origin'[n] = o
       /\ commits'[n].created_at = i.stamp
       /\ n \in Stored'
       /\ versions'[n] = [prompt |-> i.dest, branch |-> i.branch]
  <2>1. o \in 1..(Len(commits) + 1) /\ retagged' = retagged
    BY <1>4, <1>8, <1>9
  <2>2. /\ TablesTypeOK' /\ Evolves /\ \A d \in Prompt : TagsKept(d)
        /\ origin' \in Seq(Sha') /\ Len(origin') = Len(commits')
        /\ \A w \in Sha' : origin'[w] <= w
        /\ Sha' = Sha \cup {Len(commits) + 1}
        /\ origin'[Len(commits) + 1] = o
        /\ commits'[Len(commits) + 1].created_at = i.stamp
        /\ Len(commits) + 1 \in Stored'
        /\ versions'[Len(commits) + 1] = [prompt |-> i.dest, branch |-> i.branch]
    BY <1>1, <1>8, <1>10, <2>1, CommitStep
  <2> QED BY <1>4, <2>2
<1>12. /\ j \in Job /\ j.step = "copy" /\ j.source = i.source /\ j.dest = i.dest
       /\ j.branch = i.branch /\ j.log = i.log
       /\ j.rows = i.rows \ {v} /\ j.copies = i.copies \cup {<<v, n>>}
       /\ j.left = i.left /\ j.tags = i.tags /\ j.stamp = i.stamp
  <2>1. i.rows \ {v} \in SUBSET Nat /\ i.copies \cup {<<v, n>>} \in SUBSET (Nat \X Nat)
    BY <1>9, <1>10
  <2> QED BY <1>7, <2>1 DEF Job
<1>13. JobKnown(i)'
  BY <1>3, <1>10, <1>11, JobStays
<1>14. \A w \in Sha :
         commits'[w].created_at = commits[w].created_at /\ commits[w].created_at \in Nat
  BY <1>1, <1>11, CreatedBefore DEF Evolves
<1>15. Copied(j.dest, j.branch, j.copies)'
  <2>1. ASSUME NEW c \in j.copies
        PROVE  /\ origin'[c[2]] = origin'[c[1]]
               /\ j.dest \in Live' => /\ c[2] \in Stored'
                                      /\ versions'[c[2]] = [prompt |-> j.dest, branch |-> j.branch]
    <3>1. CASE c \in i.copies
      BY <1>12, <1>13, <3>1 DEF JobKnown, Copied
    <3>2. CASE c = <<v, n>>
      BY <1>6, <1>9, <1>11, <1>12, <3>2 DEF Evolves
    <3> QED BY <1>12, <3>1, <3>2
  <2>2. ASSUME NEW c \in j.copies, NEW e \in j.copies, Older(c[1], e[1])'
        PROVE  Older(c[2], e[2])'
    <3>1. CASE c \in i.copies /\ e \in i.copies
      BY <1>13, <2>2, <3>1 DEF JobKnown, Copied
    <3>2. CASE c \in i.copies /\ e = <<v, n>>
      <4>1. commits'[c[2]].created_at < i.stamp
        BY <1>8, <1>13, <3>2 DEF JobKnown, InOrder
      <4> QED BY <1>11, <3>2, <4>1 DEF Older
    <3>3. CASE c = <<v, n>> /\ e \in i.copies
      BY <1>13, <2>2, <3>3 DEF JobKnown, InOrder
    <3>4. CASE c = <<v, n>> /\ e = <<v, n>>
      BY <1>9, <1>14, <2>2, <3>4 DEF Older
    <3> QED BY <1>12, <3>1, <3>2, <3>3, <3>4
  <2> QED BY <2>1, <2>2 DEF Copied
<1>16. InOrder(j)'
  <2>1. ASSUME NEW c \in j.copies, NEW w \in j.rows
        PROVE  ~Older(w, c[1])'
    <3>1. CASE c \in i.copies
      BY <1>12, <1>13, <3>1 DEF JobKnown, InOrder
    <3>2. CASE c = <<v, n>>
      <4>1. Older(v, w) /\ w \in Sha
        BY <1>3, <1>5, <1>12
      <4> QED BY <1>9, <1>14, <3>2, <4>1 DEF Older
    <3> QED BY <1>12, <3>1, <3>2
  <2> QED BY <1>12, <2>1 DEF InOrder
<1>17. LogKept(j)'
  <2>1. ASSUME j.source \in Live', NEW x \in j.log
        PROVE  /\ x \in Stored' /\ versions'[x].prompt = j.source
               /\ x \in j.rows \/ \E y \in Sha' : <<x, y>> \in j.copies
    <3>1. /\ x \in Stored' /\ versions'[x].prompt = j.source
          /\ x \in i.rows \/ \E y \in Sha' : <<x, y>> \in i.copies
      BY <1>12, <1>13, <2>1 DEF JobKnown, LogKept
    <3>2. x = v => <<x, n>> \in j.copies /\ n \in Sha'
      BY <1>11, <1>12
    <3> QED BY <1>12, <3>1, <3>2
  <2> QED BY <2>1 DEF LogKept
<1>18. JobKnown(j)'
  <2>1. Steps(j)'
    BY <1>8, <1>12, <1>13 DEF JobKnown, Steps
  <2>2. TagsDone(j.dest, DOMAIN j.tags \ j.left, j.tags, j.copies)'
    BY <1>8, <1>12, <1>13 DEF JobKnown, Steps, TagsDone
  <2> QED BY <1>15, <1>16, <1>17, <2>1, <2>2 DEF JobKnown
<1>19. Created(s) /\ j.dest = job[s].dest
  BY <1>3, <1>8, <1>12 DEF Created
<1>20. Typed'
  <2>1. \A w \in Sha' : commits'[w].created_at < clock'
    BY <1>3, <1>8, <1>10, <1>11, <1>14, <1>1 DEF Typed
  <2>2. clock' \in Nat /\ clock <= clock' /\ j.stamp < clock' /\ forkCount' \in [Prompt -> Nat]
    BY <1>1, <1>3, <1>8, <1>10, <1>12 DEF Typed, TypeOK
  <2>3. /\ j.rows \subseteq j.log /\ j.left \subseteq DOMAIN j.tags
        /\ j.log \subseteq Sha' /\ j.copies \subseteq Sha' \X Sha'
    BY <1>3, <1>9, <1>11, <1>12
  <2> QED BY <1>1, <1>8, <1>11, <1>12, <2>1, <2>2, <2>3, TypedStep
<1>21. Known'
  BY <1>1, <1>8, <1>11, <1>12, <1>18, <1>19, KnownStep
<1>22. Counts'
  BY <1>1, <1>8, <1>11, CountsStay
<1> QED BY <1>20, <1>21, <1>22 DEF Inv

LEMMA CopyTagInv ==
  ASSUME Inv, NEW s \in Session, NEW t \in Tag, CopyTag(s, t)
  PROVE  Inv'
<1>1. Typed /\ Known /\ Counts
  BY DEF Inv
<1>2. ~At(s, "idle")
  BY DEF CopyTag, At
<1>3. PICK i \in Job : /\ i = job[s] /\ JobKnown(i) /\ i # Idle
                       /\ i.rows \subseteq i.log /\ i.left \subseteq DOMAIN i.tags
                       /\ i.stamp < clock
                       /\ i.log \subseteq Sha /\ i.copies \subseteq Sha \X Sha
  BY <1>2, InJob
<1>4. PICK v : <<i.tags[t], v>> \in i.copies /\ PutTag(i.dest, t, v)
  <2>1. PICK v \in Copy(s, job[s].tags[t]) : PutTag(job[s].dest, t, v)
    BY DEF CopyTag
  <2>2. PICK y \in job[s].copies : y[1] = job[s].tags[t] /\ v = y[2]
    BY <2>1 DEF Copy
  <2>3. y = <<i.tags[t], v>>
    BY <1>3, <2>2
  <2> QED BY <1>3, <2>1, <2>2, <2>3
<1>5. PICK j : j = [i EXCEPT !.left = @ \ {t}]
  OBVIOUS
<1>6. /\ i.step = "tag" /\ t \in i.left /\ job' = [job EXCEPT ![s] = j]
      /\ UNCHANGED <<origin, forks, forkCount, clock, retagged>>
  BY <1>3, <1>5 DEF CopyTag, At, Tagged, Set
<1>7. i.dest \in Prompt
  BY DEF Job
<1>8. /\ TablesTypeOK' /\ Evolves
      /\ tags'[<<i.dest, t>>] = v
      /\ \A d \in Prompt, u \in Tag :
           <<d, u>> # <<i.dest, t>> => tags'[<<d, u>>] = tags[<<d, u>>]
  BY <1>1, <1>4, <1>6, <1>7, PutTagStep
<1>9. \A d \in Prompt : d # i.dest => TagsKept(d)
  BY <1>6, <1>8 DEF TagsKept
<1>10. /\ j \in Job /\ j.step = "tag" /\ j.source = i.source /\ j.dest = i.dest
       /\ j.branch = i.branch /\ j.log = i.log /\ j.rows = i.rows /\ j.copies = i.copies
       /\ j.left = i.left \ {t} /\ j.tags = i.tags /\ j.stamp = i.stamp
  BY <1>5, <1>6 DEF Job
<1>11. Steps(i)' /\ LogKept(i)' /\ InOrder(i)' /\ Copied(i.dest, i.branch, i.copies)'
  BY <1>3, <1>8, JobStaysButTags
<1>12. TagsDone(j.dest, DOMAIN j.tags \ j.left, j.tags, j.copies)'
  <2>1. i.dest \in Live
    BY <1>4 DEF PutTag
  <2>2. DOMAIN i.tags \subseteq Tag
    BY DEF Job
  <2>3. ASSUME NEW u \in DOMAIN j.tags \ j.left, <<j.dest, u>> \notin retagged'
        PROVE  <<j.tags[u], tags'[<<j.dest, u>>]>> \in j.copies
    <3>1. CASE u = t
      BY <1>4, <1>8, <1>10, <3>1
    <3>2. CASE u # t
      <4>1. <<i.tags[u], tags[<<i.dest, u>>]>> \in i.copies
        BY <1>3, <1>6, <1>10, <2>1, <2>3, <3>2 DEF JobKnown, TagsDone
      <4>2. tags'[<<i.dest, u>>] = tags[<<i.dest, u>>]
        BY <1>7, <1>8, <1>10, <2>2, <2>3, <3>2
      <4> QED BY <1>10, <4>1, <4>2
    <3> QED BY <3>1, <3>2
  <2> QED BY <2>3 DEF TagsDone
<1>13. JobKnown(j)'
  <2>1. Steps(j)'
    BY <1>6, <1>10, <1>11 DEF Steps
  <2>2. LogKept(j)' /\ InOrder(j)'
    BY <1>6, <1>10, <1>11 DEF LogKept, InOrder
  <2>3. Copied(j.dest, j.branch, j.copies)'
    BY <1>10, <1>11
  <2> QED BY <1>12, <2>1, <2>2, <2>3 DEF JobKnown
<1>14. Created(s) /\ i.dest = job[s].dest
  BY <1>3, <1>6 DEF Created
<1>15. Typed'
  <2>1. UNCHANGED commits /\ Sha' = Sha
    BY <1>4 DEF PutTag, Sha
  <2>2. /\ origin' \in Seq(Sha') /\ Len(origin') = Len(commits')
        /\ \A w \in Sha' : origin'[w] <= w
        /\ forkCount' \in [Prompt -> Nat]
    BY <1>1, <1>6, <2>1 DEF Typed, TypeOK
  <2>3. clock' \in Nat /\ clock <= clock' /\ \A w \in Sha' : commits'[w].created_at < clock'
    BY <1>1, <1>6, <2>1 DEF Typed
  <2>4. /\ j.rows \subseteq j.log /\ j.left \subseteq DOMAIN j.tags /\ j.stamp < clock'
        /\ j.log \subseteq Sha' /\ j.copies \subseteq Sha' \X Sha'
    BY <1>3, <1>6, <1>10, <2>1
  <2> QED BY <1>1, <1>6, <1>8, <1>10, <2>2, <2>3, <2>4, TypedStep
<1>16. Known'
  BY <1>1, <1>6, <1>8, <1>9, <1>10, <1>13, <1>14, KnownStep
<1>17. Counts'
  BY <1>1, <1>6, <1>8, CountsStay
<1> QED BY <1>15, <1>16, <1>17 DEF Inv

(* The row is new, since nobody else has the destination, and it is counted *)
(* when the source is there to count it.                                    *)
LEMMA RecordInv ==
  ASSUME Inv, NEW s \in Session, Record(s)
  PROVE  Inv'
<1>1. Typed /\ Known /\ Counts
  BY DEF Inv
<1>2. ~At(s, "idle")
  BY DEF Record, At
<1>3. PICK i \in Job : /\ i = job[s] /\ JobKnown(i) /\ i # Idle
                       /\ i.rows \subseteq i.log /\ i.left \subseteq DOMAIN i.tags
                       /\ i.stamp < clock
                       /\ i.log \subseteq Sha /\ i.copies \subseteq Sha \X Sha
  BY <1>2, InJob
<1>4. PICK r : r = ForkRow(i)
  OBVIOUS
<1>5. PICK j : j = Idle
  OBVIOUS
<1>6. /\ i.step = "tag" /\ i.left = {} /\ job' = [job EXCEPT ![s] = j]
      /\ forks' = forks \cup {r} /\ forkCount' = Counted(i.source)
      /\ UNCHANGED <<tables, origin, clock, retagged>>
  BY <1>3, <1>4, <1>5 DEF Record, At, Set
<1>7. /\ r.source = i.source /\ r.fork = i.dest /\ r.branch = i.branch
      /\ r.log = i.log /\ r.copies = i.copies /\ r.tags = i.tags
  BY <1>4 DEF ForkRow
<1>8. /\ UNCHANGED <<commits, versions, heads, tags, prompts>>
      /\ Sha' = Sha /\ Stored' = Stored /\ Live' = Live
  BY <1>6 DEF tables, Sha, Stored, Live
<1>9. TablesTypeOK'
  BY <1>1, <1>8 DEF Typed, TypeOK, TablesTypeOK
<1>10. Evolves
  BY <1>6, <1>8 DEF Evolves
<1>11. \A d \in Prompt : TagsKept(d)
  BY <1>6, <1>8 DEF TagsKept
<1>12. /\ i.source \in Prompt /\ prompts[i.source] # "absent"
       /\ i.dest \in Prompt /\ prompts[i.dest] # "absent"
  BY <1>3, <1>6 DEF JobKnown, Steps, Job
<1>13. RowKnown(r)
  <2>1. r.source \in Live => \A v \in r.log : \E x \in Sha : <<v, x>> \in r.copies
    BY <1>3, <1>6, <1>7 DEF JobKnown, Steps, LogKept
  <2>2. DOMAIN r.tags \subseteq Tag
    BY <1>7 DEF Job
  <2>3. Copied(r.fork, r.branch, r.copies)
    BY <1>3, <1>7 DEF JobKnown
  <2>4. TagsDone(r.fork, DOMAIN r.tags, r.tags, r.copies)
    <3>1. DOMAIN i.tags \ i.left = DOMAIN i.tags
      BY <1>6
    <3> QED BY <1>3, <1>7, <3>1 DEF JobKnown
  <2> QED BY <1>3, <1>7, <1>12, <2>1, <2>2, <2>3, <2>4 DEF RowKnown
<1>14. /\ \A q \in forks : q.fork # r.fork
       /\ \A u \in Session \ {s} : Created(u) => job[u].dest # r.fork
  <2>1. Created(s)
    BY <1>3, <1>6 DEF Created
  <2> QED BY <1>1, <1>3, <1>7, <2>1 DEF Known, Owners
<1>15. /\ job'[s] = Idle /\ \A u \in Session \ {s} : job'[u] = job[u]
  BY <1>1, <1>5, <1>6 DEF Typed
<1>16. Typed'
  <2>1. /\ origin' \in Seq(Sha') /\ Len(origin') = Len(commits')
        /\ \A v \in Sha' : origin'[v] <= v
    BY <1>1, <1>6, <1>8 DEF Typed, TypeOK
  <2>2. forkCount' \in [Prompt -> Nat]
    BY <1>1, <1>6, <1>12 DEF Counted, Typed, TypeOK
  <2>3. clock' \in Nat /\ clock <= clock' /\ \A v \in Sha' : commits'[v].created_at < clock'
    BY <1>1, <1>6, <1>8 DEF Typed
  <2> QED BY <1>1, <1>5, <1>6, <1>9, <1>10, <2>1, <2>2, <2>3, TypedStep
<1>17. Known'
  <2>1. ASSUME NEW u \in Session, job'[u] # Idle
        PROVE  JobKnown(job[u])'
    <3>1. PICK k \in Job : /\ k = job[u] /\ k = job'[u] /\ JobKnown(k) /\ k.rows \subseteq k.log
                           /\ k.log \subseteq Sha /\ k.copies \subseteq Sha \X Sha
      BY <1>1, <1>15, <2>1, JobIs
    <3>2. TagsKept(k.dest)
      BY <1>11 DEF Job
    <3>3. JobKnown(k)'
      BY <1>10, <3>1, <3>2, JobStays
    <3>4. job'[u] = k
      BY <3>1
    <3> QED BY <3>3, <3>4, JobPrimed
  <2>2. ASSUME NEW q \in forks'
        PROVE  RowKnown(q)'
    <3>1. RowKnown(q)
      BY <1>1, <1>6, <1>13 DEF Known
    <3>2. TagsKept(q.fork)
      BY <1>11, <3>1 DEF RowKnown
    <3> QED BY <1>10, <3>1, <3>2, RowStays
  <2>3. \A u \in Session : Created(u)' => u # s /\ Created(u)
    BY <1>15 DEF Created
  <2>4. Owners'
    BY <1>1, <1>6, <1>14, <1>15, <2>3 DEF Known, Owners
  <2> QED BY <2>1, <2>2, <2>4 DEF Known
<1>18. Counts'
  <2>1. IsFiniteSet(forks) /\ r \notin forks
    BY <1>1, <1>14 DEF Counts
  <2>2. IsFiniteSet(forks')
    BY <1>6, <2>1, FS_AddElement
  <2>3. forkCount \in [Prompt -> Nat]
    BY <1>1 DEF Typed, TypeOK
  <2>4. ASSUME NEW p \in Prompt, prompts'[p] = "absent"
        PROVE  forkCount'[p] = 0
    BY <1>1, <1>6, <1>8, <1>12, <2>3, <2>4 DEF Counts, Counted
  <2>5. ASSUME NEW p \in Live
        PROVE  forkCount'[p] = Cardinality({q \in forks' : q.source = p})
    <3>1. forkCount[p] = Cardinality({q \in forks : q.source = p})
      BY <1>1 DEF Counts, ForkCountIsForks
    <3>2. p \in Prompt
      BY DEF Live
    <3>3. CASE p = i.source
      <4>1. {q \in forks' : q.source = p} = {q \in forks : q.source = p} \cup {r}
        BY <1>6, <1>7, <3>3
      <4>2. IsFiniteSet({q \in forks : q.source = p})
        BY <2>1, FS_Subset
      <4>3. Cardinality({q \in forks' : q.source = p})
              = Cardinality({q \in forks : q.source = p}) + 1
        BY <2>1, <4>1, <4>2, FS_AddElement
      <4> QED BY <1>6, <2>3, <3>1, <3>2, <3>3, <4>3 DEF Counted
    <3>4. CASE p # i.source
      <4>1. {q \in forks' : q.source = p} = {q \in forks : q.source = p}
        BY <1>6, <1>7, <3>4
      <4>2. forkCount'[p] = forkCount[p]
        BY <1>6, <2>3, <3>2, <3>4 DEF Counted
      <4> QED BY <3>1, <4>1, <4>2
    <3> QED BY <3>3, <3>4
  <2>6. ForkCountIsForks'
    BY <1>8, <2>5 DEF ForkCountIsForks
  <2> QED BY <2>2, <2>4, <2>6 DEF Counts
<1> QED BY <1>16, <1>17, <1>18 DEF Inv

-----------------------------------------------------------------------------
(* What others do meanwhile.                                                *)

LEMMA OthersInv ==
  ASSUME Inv, Others
  PROVE  Inv'
<1>1. Typed /\ Known /\ Counts /\ clock \in Nat
  BY DEF Inv, Typed
<1>2. SUFFICES /\ UNCHANGED <<job, forks, forkCount>>
               /\ TablesTypeOK' /\ Evolves /\ \A d \in Prompt : TagsKept(d)
               /\ origin' \in Seq(Sha') /\ Len(origin') = Len(commits')
               /\ \A v \in Sha' : origin'[v] <= v
               /\ clock' \in Nat /\ clock <= clock'
               /\ \A v \in Sha' : commits'[v].created_at < clock'
  BY <1>1, TypedOthers, KnownOthers, CountsStay DEF Inv
<1>3. ASSUME UNCHANGED <<commits, origin, clock>>
      PROVE  /\ origin' \in Seq(Sha') /\ Len(origin') = Len(commits')
             /\ \A v \in Sha' : origin'[v] <= v
             /\ clock' \in Nat /\ clock <= clock'
             /\ \A v \in Sha' : commits'[v].created_at < clock'
  <2>1. Sha' = Sha
    BY <1>3 DEF Sha
  <2> QED BY <1>1, <1>3, <2>1 DEF Typed, TypeOK
<1>4. ASSUME NEW p \in Prompt, Create(p)
      PROVE  /\ UNCHANGED <<job, forks, forkCount, commits, origin, clock>>
             /\ TablesTypeOK' /\ Evolves /\ \A d \in Prompt : TagsKept(d)
  BY <1>1, <1>4, NewPromptStep DEF Create, NewPrompt
<1>5. ASSUME NEW p \in Prompt, Delete(p)
      PROVE  /\ UNCHANGED <<job, forks, forkCount, commits, origin, clock>>
             /\ TablesTypeOK' /\ Evolves /\ \A d \in Prompt : TagsKept(d)
  BY <1>1, <1>5, RemovePromptStep DEF Delete, RemovePrompt
<1>6. ASSUME NEW p \in Prompt, NEW t \in Tag, NEW v \in Sha, TagVersion(p, t, v)
      PROVE  /\ UNCHANGED <<job, forks, forkCount, commits, origin, clock>>
             /\ TablesTypeOK' /\ Evolves /\ \A d \in Prompt : TagsKept(d)
  <2>1. PutTag(p, t, v) /\ retagged' = retagged \cup {<<p, t>>}
        /\ UNCHANGED <<job, forks, forkCount, commits, origin, clock>>
    BY <1>6 DEF TagVersion, PutTag
  <2>2. /\ TablesTypeOK' /\ Evolves
        /\ \A d \in Prompt, u \in Tag : <<d, u>> # <<p, t>> => tags'[<<d, u>>] = tags[<<d, u>>]
    BY <1>1, <2>1, PutTagStep
  <2>3. \A d \in Prompt : TagsKept(d)
    BY <2>1, <2>2 DEF TagsKept
  <2> QED BY <2>1, <2>2, <2>3
<1>7. ASSUME NEW p \in Prompt, NEW b \in Branch, Commit1(p, b)
      PROVE  /\ UNCHANGED <<job, forks, forkCount>>
             /\ TablesTypeOK' /\ Evolves /\ \A d \in Prompt : TagsKept(d)
             /\ origin' \in Seq(Sha') /\ Len(origin') = Len(commits')
             /\ \A v \in Sha' : origin'[v] <= v
             /\ clock' \in Nat /\ clock <= clock'
             /\ \A v \in Sha' : commits'[v].created_at < clock'
  <2>1. PICK base : base = heads[<<p, b>>]
    OBVIOUS
  <2>2. PICK o : o = Len(origin) + 1
    OBVIOUS
  <2>3. /\ InsertCommit(p, b, base, clock) /\ origin' = Append(origin, o) /\ clock' = clock + 1
        /\ UNCHANGED <<job, forks, forkCount, retagged>>
    BY <1>7, <2>1, <2>2 DEF Commit1
  <2>4. o \in 1..(Len(commits) + 1) /\ retagged' = retagged
    BY <1>1, <2>2, <2>3 DEF Typed, TypeOK, TablesTypeOK
  <2>5. PICK t \in Nat : t = clock
    BY <1>1
  <2>6. /\ TablesTypeOK' /\ Evolves /\ \A d \in Prompt : TagsKept(d)
        /\ origin' \in Seq(Sha') /\ Len(origin') = Len(commits')
        /\ \A v \in Sha' : origin'[v] <= v
        /\ Sha' = Sha \cup {Len(commits) + 1}
        /\ commits'[Len(commits) + 1].created_at = t
    BY <1>1, <2>3, <2>4, <2>5, CommitStep
  <2>7. ASSUME NEW v \in Sha
        PROVE  commits'[v].created_at < clock'
    <3>1. commits[v].created_at \in Nat /\ commits[v].created_at < clock
      BY <1>1, CreatedBefore
    <3>2. commits'[v] = commits[v]
      BY <2>6 DEF Evolves
    <3> QED BY <1>1, <2>3, <3>1, <3>2
  <2>8. \A v \in Sha' : commits'[v].created_at < clock'
    BY <1>1, <2>3, <2>5, <2>6, <2>7
  <2>9. clock' \in Nat /\ clock <= clock' /\ UNCHANGED <<job, forks, forkCount>>
    BY <1>1, <2>3
  <2> QED BY <2>6, <2>8, <2>9, Zenon
<1> QED BY <1>3, <1>4, <1>5, <1>6, <1>7 DEF Others

-----------------------------------------------------------------------------
LEMMA InitInv == Init => Inv
<1> SUFFICES ASSUME Init PROVE Inv
  OBVIOUS
<1>1. Sha = {} /\ Live = {} /\ Stored = {}
  BY DEF Init, TablesInit, Sha, Live, Stored
<1>2. \A s \in Session : job[s] = Idle
  BY DEF Init
<1>3. TablesTypeOK
  BY <1>1 DEF Init, TablesInit, TablesTypeOK, Stored, NoSha, Row
<1>4. TypeOK
  BY <1>1, <1>2, <1>3 DEF Init, TablesInit, TypeOK, At, Idle
<1>5. Typed
  BY <1>1, <1>2, <1>4 DEF Init, Typed
<1>6. Known
  BY <1>2 DEF Init, Known, Owners, Created
<1>7. Counts
  BY <1>1, FS_EmptySet DEF Init, Counts, ForkCountIsForks
<1> QED BY <1>5, <1>6, <1>7 DEF Inv

LEMMA NextInv == Inv /\ [Next]_vars => Inv'
<1> SUFFICES ASSUME Inv, [Next]_vars PROVE Inv'
  OBVIOUS
<1>1. CASE Others
  BY <1>1, OthersInv
<1>2. ASSUME NEW s \in Session, NEW p \in Prompt, NEW d \in Prompt, NEW b \in Branch,
             Begin(s, p, d, b)
      PROVE  Inv'
  BY <1>2, BeginInv
<1>3. ASSUME NEW s \in Session, Forking(s)
      PROVE  Inv'
  <2>1. CASE CreateDest(s)
    BY <2>1, CreateDestInv
  <2>2. CASE SelectLog(s)
    BY <2>2, SelectLogInv
  <2>3. CASE FetchLog(s)
    BY <2>3, FetchLogInv
  <2>4. CASE ReadHead(s)
    BY <2>4, ReadHeadInv
  <2>5. CASE WriteCopy(s)
    BY <2>5, WriteCopyInv
  <2>6. CASE ReadTags(s)
    BY <2>6, ReadTagsInv
  <2>7. CASE \E t \in Tag : CopyTag(s, t)
    BY <2>7, CopyTagInv
  <2>8. CASE Record(s)
    BY <2>8, RecordInv
  <2>9. CASE Abandon(s)
    BY <2>9, AbandonInv
  <2> QED BY <1>3, <2>1, <2>2, <2>3, <2>4, <2>5, <2>6, <2>7, <2>8, <2>9 DEF Forking
<1>4. CASE UNCHANGED vars
  <2>1. UNCHANGED <<job, forks, forkCount, origin, clock, retagged,
                    commits, versions, heads, tags, prompts>>
    BY <1>4 DEF vars, tables
  <2>2. Sha' = Sha /\ Live' = Live /\ Stored' = Stored
    BY <2>1 DEF Sha, Live, Stored
  <2>3. Evolves /\ \A d \in Prompt : TagsKept(d)
    BY <2>1, <2>2 DEF Evolves, TagsKept
  <2>4. Typed'
    <3>1. TablesTypeOK'
      BY <2>1, <2>2 DEF Inv, Typed, TypeOK, TablesTypeOK
    <3>2. /\ origin' \in Seq(Sha') /\ Len(origin') = Len(commits')
          /\ \A v \in Sha' : origin'[v] <= v
          /\ clock' \in Nat /\ clock <= clock'
          /\ \A v \in Sha' : commits'[v].created_at < clock'
      BY <2>1, <2>2 DEF Inv, Typed, TypeOK
    <3> QED BY <2>1, <2>3, <3>1, <3>2, TypedOthers DEF Inv
  <2> QED BY <2>1, <2>3, <2>4, KnownOthers, CountsStay DEF Inv
<1> QED BY <1>1, <1>2, <1>3, <1>4 DEF Next

LEMMA InvHolds == Spec => []Inv
BY InitInv, NextInv, PTL DEF Spec

-----------------------------------------------------------------------------
(* The tables keep their types, and a fork under way copies only what it    *)
(* has selected, whatever is committed, tagged and deleted meanwhile.       *)
THEOREM ForkTypeCorrect == Spec => []TypeOK
<1>1. Inv => TypeOK
  BY DEF Inv, Typed
<1> QED BY <1>1, InvHolds, PTL

(* A fork that is recorded has a copy, in order, of every version that it   *)
(* read and of every tag on one, as long as source and fork are there: fork()*)
(* commits many times, and writes its row last.                             *)
THEOREM RecordedForksAlwaysComplete == Spec => []RecordedForksComplete
<1>1. ASSUME Inv, NEW r \in forks, r.source \in Live, r.fork \in Live
      PROVE  VersionsCopied(r) /\ TagsCopied(r)
  <2>1. RowKnown(r)
    BY <1>1 DEF Inv, Known
  <2>2. \A c \in r.copies :
          /\ origin[c[2]] = origin[c[1]]
          /\ c[2] \in Stored /\ versions[c[2]] = [prompt |-> r.fork, branch |-> r.branch]
          /\ \A e \in r.copies : Older(c[1], e[1]) => Older(c[2], e[2])
    BY <1>1, <2>1 DEF RowKnown, Copied
  <2>3. \A v \in r.log : \E x \in Stored : <<v, x>> \in r.copies
    <3>1. ASSUME NEW v \in r.log
          PROVE  \E x \in Stored : <<v, x>> \in r.copies
      <4>1. PICK x \in Sha : <<v, x>> \in r.copies
        BY <1>1, <2>1 DEF RowKnown
      <4>2. x \in Stored
        BY <2>2, <4>1
      <4> QED BY <4>1, <4>2
    <3> QED BY <3>1
  <2>4. VersionsCopied(r)
    BY <2>2, <2>3 DEF VersionsCopied
  <2>5. TagsCopied(r)
    BY <1>1, <2>1 DEF RowKnown, TagsDone, TagsCopied
  <2> QED BY <2>4, <2>5
<1>2. Inv => RecordedForksComplete
  BY <1>1 DEF RecordedForksComplete
<1> QED BY <1>2, InvHolds, PTL

(* fork_count is the number of rows in forks that were recorded of this very*)
(* prompt, whichever forks race, stop or lose their source, and whoever had *)
(* its slug before or has it now.                                           *)
THEOREM ForkCountAlwaysForks == Spec => []ForkCountIsForks
<1>1. Inv => ForkCountIsForks
  BY DEF Inv, Counts
<1> QED BY <1>1, InvHolds, PTL
=============================================================================
