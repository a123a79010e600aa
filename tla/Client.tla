--------------------------------- MODULE Client ---------------------------------
(***************************************************************************)
(* The commands of cli.py that speak to another server: push and pull of a *)
(* branch of a prompt, lock and install of the versions that URIs name.    *)
(*                                                                         *)
(* A command is a sequence of HTTP requests to the remote and of calls of  *)
(* the local store; other clients use the remote between any two.  When an *)
(* answer fails or does not come the command ends with what it has done so *)
(* far, and is at best run again; a POST it has given up on may still be   *)
(* carried out later.  One user owns the local vault and runs one command  *)
(* at a time.  The two clocks need not agree: a commit has any timestamp.  *)
(* Prompts are not deleted here (VersionStore does).                       *)
(***************************************************************************)
EXTENDS Naturals, Sequences, FiniteSets

CONSTANTS
  Slug,        (* namespace/name of the prompt, the same on both sides     *)
  Branch, Tag, (* names; one may be both a branch and a tag                *)
  Default,     (* default_branch of the prompt                             *)
  Uris,        (* what lock is run with: refs, local or of a host          *)
  MaxCommits,  (* bound on the commit objects of a behaviour               *)
  MaxClock,    (* bound on their timestamps                                *)
  MaxRuns,     (* bound on the commands that are run                       *)
  MaxLate      (* bound on the POSTs that are on their way unattended      *)

ASSUME BoundsAssumption == {MaxCommits, MaxClock, MaxRuns, MaxLate} \subseteq Nat
ASSUME DefaultAssumption == Default \in Branch
ASSUME UrisAssumption == Uris \subseteq [remote : BOOLEAN, ref : Branch \cup Tag \cup {"latest"}]

VARIABLES
  commits,                                (* commit objects, as in         *)
                                          (* VersionTables                 *)
  lversions, lheads, ltags, lprompts,     (* tables of the local vault     *)
  rversions, rheads, rtags, rprompts,     (* tables of the remote          *)
  cmd,        (* the command under way and what it has read                *)
  late,       (* POSTs given up on by a client that has timed out          *)
  lock,       (* cantica.lock: URI and SHA of each entry                   *)
  runs,       (* how many commands have been run                           *)
  (* History, read by the properties only.                                 *)
  done,       (* what the last command that reported no trouble covered    *)
  seenAbsent  (* tags that the push, or one whose POST is still on its way,*)
              (* has seen missing on the remote                            *)

Local == INSTANCE VersionTables
           WITH Prompt <- {Slug},
                versions <- lversions, heads <- lheads, tags <- ltags, prompts <- lprompts
Remote == INSTANCE VersionTables
            WITH Prompt <- {Slug},
                 versions <- rversions, heads <- rheads, tags <- rtags, prompts <- rprompts

local == <<lversions, lheads, ltags, lprompts>>
remote == <<rversions, rheads, rtags, rprompts>>
history == <<done, seenAbsent>>
vars == <<commits, local, remote, cmd, late, lock, runs, history>>

Sha == 1..Len(commits)

(* rows: the versions listed; left: those still to be sent or stored; tags: *)
(* <<name, SHA>> pairs, due: those still to be put.                         *)
Idle == [op |-> "idle"]
Transfer ==
  [op : {"push", "pull"}, step : {"prompt", "create", "list", "versions", "tag_list", "tags"},
   branch : Branch, rows : SUBSET Sha, left : SUBSET Sha,
   tags : SUBSET (Tag \X Sha), due : SUBSET (Tag \X Sha)]
Entry == [uri : Uris, sha : Sha]
Locking == [op : {"lock"}, left : SUBSET Uris, entries : SUBSET Entry]
Installing == [op : {"install"}, left : SUBSET Entry, quiet : BOOLEAN]

Post == [kind : {"version"}, sha : Sha, branch : Branch]
        \cup [kind : {"tag"}, tag : Tag, sha : Sha] \cup [kind : {"prompt"}]
Report == [op : {"none", "push", "pull", "install"}, shas : SUBSET Sha, tags : SUBSET Tag]

Init ==
  /\ Local!TablesInit
  /\ Remote!TablesInit
  /\ cmd = Idle /\ late = {} /\ lock = {} /\ runs = 0
  /\ done = [op |-> "none", shas |-> {}, tags |-> {}] /\ seenAbsent = {}

-----------------------------------------------------------------------------
(* Other clients of the remote, and the local commands, which run alone.    *)

Others(action) ==
  /\ action
  /\ UNCHANGED <<local, cmd, late, lock, runs, history>>

OtherCreates == Others(Remote!NewPrompt(Slug))
OtherCommits(b, t) == Others(Remote!InsertCommit(Slug, b, rheads[<<Slug, b>>], t))
OtherTags(t, v) == Others(Remote!PutTag(Slug, t, v))
(* create_branch(), rollback() and merge().                                 *)
OtherPoints(b, v) == Others(Remote!PutBranch(Slug, b, v))

User(action) ==
  /\ cmd = Idle
  /\ action
  /\ UNCHANGED <<remote, cmd, late, lock, runs, history>>

CreatePrompt == User(Local!NewPrompt(Slug))
Commit1(b, t) == User(Local!InsertCommit(Slug, b, lheads[<<Slug, b>>], t))
TagVersion(t, v) == User(Local!PutTag(Slug, t, v))
PointBranch(b, v) == User(Local!PutBranch(Slug, b, v))

-----------------------------------------------------------------------------
(* What all commands do.                                                    *)

Run(c) == cmd = Idle /\ runs < MaxRuns /\ runs' = runs + 1 /\ cmd' = c
Goto(step) == cmd' = [cmd EXCEPT !.step = step]
At(op, step) == cmd.op = op /\ cmd.step = step

(* The command ends, with no error and nothing to warn of.                  *)
Finish(shas, tags) ==
  /\ cmd' = Idle
  /\ done' = [op |-> cmd.op, shas |-> shas, tags |-> tags]

(* raise_for_status() and any exception, a time-out, ^C.                    *)
Abort ==
  /\ cmd # Idle
  /\ cmd' = Idle
  /\ UNCHANGED <<commits, local, remote, late, lock, runs, history>>

(* The 30 seconds are over before the answer to this POST.                  *)
GiveUp(post) ==
  /\ post \notin late
  /\ Cardinality(late) < MaxLate
  /\ late' = late \cup {post}
  /\ cmd' = Idle
  /\ UNCHANGED <<commits, local, remote, lock, runs, history>>

(* log(): the versions whose row names the branch.                          *)
OnBranch(rows, b) == {v \in DOMAIN rows : rows[v].branch = b}
TagPairs(tags) == {x \in Tag \X Sha : tags[<<Slug, x[1]>>] = x[2]}
Names(pairs) == {x[1] : x \in pairs}

(* The oldest that is left; the order of equal timestamps is not defined.   *)
Oldest(left) == {v \in left : \A w \in left : commits[v].created_at <= commits[w].created_at}

(* get_prompt(), then import_version() unless the version is there; it      *)
(* raises when the parent is not.                                           *)
RemoteTakes(v, b) ==
  /\ Slug \in Remote!Live
  /\ \/ v \in Remote!Stored /\ UNCHANGED <<commits, remote>>
     \/ Remote!InsertImport(Slug, b, v)

-----------------------------------------------------------------------------
(* push.                                                                    *)

Push(b) ==
  /\ Slug \in Local!Live
  /\ Run([op |-> "push", step |-> "prompt", branch |-> b, rows |-> OnBranch(lversions, b),
          left |-> {}, tags |-> TagPairs(ltags), due |-> {}])
  /\ UNCHANGED <<commits, local, remote, late, lock, history>>

PushGetPrompt ==
  /\ At("push", "prompt")
  /\ Goto(IF Slug \in Remote!Live THEN "list" ELSE "create")
  /\ UNCHANGED <<commits, local, remote, late, lock, runs, history>>

(* 409, and the end, when another client has created it meanwhile.          *)
PushCreatePrompt ==
  /\ At("push", "create")
  /\ \/ Remote!NewPrompt(Slug) /\ Goto("list") /\ UNCHANGED <<local, late, lock, runs, history>>
     \/ GiveUp([kind |-> "prompt"])

PushListVersions ==
  /\ At("push", "list")
  /\ cmd' = [cmd EXCEPT !.step = "versions", !.left = cmd.rows \ OnBranch(rversions, cmd.branch)]
  /\ UNCHANGED <<commits, local, remote, late, lock, runs, history>>

(* Mutant: a version the remote refuses is left out.                        *)
PushVersionOrSkip ==
  /\ At("push", "versions")
  /\ \E v \in Oldest(cmd.left) :
       \/ /\ IF Remote!Resolvable(commits[v].parent)
             THEN RemoteTakes(v, cmd.branch) ELSE UNCHANGED <<commits, remote>>
          /\ cmd' = [cmd EXCEPT !.left = @ \ {v}]
          /\ UNCHANGED <<local, late, lock, runs, history>>
       \/ GiveUp([kind |-> "version", sha |-> v, branch |-> cmd.branch])

(* A refusal leaves only Abort.                                             *)
PushVersion ==
  /\ At("push", "versions")
  /\ \E v \in Oldest(cmd.left) :
       \/ /\ RemoteTakes(v, cmd.branch)
          /\ cmd' = [cmd EXCEPT !.left = @ \ {v}]
          /\ UNCHANGED <<local, late, lock, runs, history>>
       \/ GiveUp([kind |-> "version", sha |-> v, branch |-> cmd.branch])

LateTags == {post.tag : post \in {x \in late : x.kind = "tag"}}

(* Mutant: every local tag is put.                                          *)
PushListTagsAll ==
  /\ At("push", "versions") /\ cmd.left = {}
  /\ cmd' = [cmd EXCEPT !.step = "tags", !.due = cmd.tags]
  /\ seenAbsent' = {t \in Tag : rtags[<<Slug, t>>] = 0} \cup LateTags
  /\ UNCHANGED <<commits, local, remote, late, lock, runs, done>>

(* Only the names the remote does not have yet are put.                     *)
PushListTags ==
  /\ At("push", "versions") /\ cmd.left = {}
  /\ cmd' = [cmd EXCEPT !.step = "tags",
               !.due = {x \in cmd.tags : rtags[<<Slug, x[1]>>] = 0}]
  /\ seenAbsent' = {t \in Tag : rtags[<<Slug, t>>] = 0} \cup LateTags
  /\ UNCHANGED <<commits, local, remote, late, lock, runs, done>>

(* An upsert; 404, and the end, for a version of a branch never pushed.     *)
PushTag ==
  /\ At("push", "tags")
  /\ \E x \in cmd.due :
       \/ /\ Remote!PutTag(Slug, x[1], x[2])
          /\ cmd' = [cmd EXCEPT !.due = @ \ {x}]
          /\ UNCHANGED <<local, late, lock, runs, history>>
       \/ GiveUp([kind |-> "tag", tag |-> x[1], sha |-> x[2]])

PushEnds ==
  /\ At("push", "tags") /\ cmd.due = {}
  /\ Finish(cmd.rows, Names(cmd.tags))
  /\ UNCHANGED <<commits, local, remote, late, lock, runs, seenAbsent>>

(* The server comes to a POST nobody waits for, or it never does.           *)
LatePost(post) ==
  /\ late' = late \ {post}
  /\ \/ post.kind = "prompt" /\ Remote!NewPrompt(Slug)
     \/ post.kind = "version" /\ RemoteTakes(post.sha, post.branch)
     \/ post.kind = "tag" /\ Remote!PutTag(Slug, post.tag, post.sha)
     \/ UNCHANGED <<commits, remote>>
  /\ UNCHANGED <<local, cmd, lock, runs, history>>

-----------------------------------------------------------------------------
(* pull.                                                                    *)

Pull(b) ==
  /\ Run([op |-> "pull", step |-> "list", branch |-> b, rows |-> {}, left |-> {},
          tags |-> {}, due |-> {}])
  /\ Slug \in Remote!Live
  /\ UNCHANGED <<commits, local, remote, late, lock, history>>

PullListVersions ==
  LET rows == OnBranch(rversions, cmd.branch) IN
  /\ At("pull", "list")
  /\ cmd' = [cmd EXCEPT !.step = "tag_list", !.rows = rows, !.left = rows]
  /\ UNCHANGED <<commits, local, remote, late, lock, runs, history>>

PullListTags ==
  /\ At("pull", "tag_list")
  /\ cmd' = [cmd EXCEPT !.step = "create", !.tags = TagPairs(rtags), !.due = TagPairs(rtags)]
  /\ UNCHANGED <<commits, local, remote, late, lock, runs, history>>

PullCreatePrompt ==
  /\ At("pull", "create")
  /\ IF Slug \in Local!Live THEN UNCHANGED <<commits, local>> ELSE Local!NewPrompt(Slug)
  /\ Goto("versions")
  /\ UNCHANGED <<remote, late, lock, runs, history>>

PullVersion ==
  /\ At("pull", "versions")
  /\ \E v \in Oldest(cmd.left) :
       /\ \/ v \in Local!Stored /\ UNCHANGED <<commits, local>>
          \/ Local!InsertImport(Slug, cmd.branch, v)
       /\ cmd' = [cmd EXCEPT !.left = @ \ {v}]
  /\ UNCHANGED <<remote, late, lock, runs, history>>

(* An upsert too: it moves a local tag to where the remote has it.          *)
PullTag ==
  /\ At("pull", "versions") /\ cmd.left = {}
  /\ \E x \in cmd.due :
       /\ IF x[2] \in Local!Stored THEN Local!PutTag(Slug, x[1], x[2]) ELSE UNCHANGED <<commits, local>>
       /\ cmd' = [cmd EXCEPT !.due = @ \ {x}]
  /\ UNCHANGED <<remote, late, lock, runs, history>>

(* create_tag() fails, on a lock that is not released in time say: the      *)
(* exception is passed over and the next tag is tried.                      *)
PullTagFails ==
  /\ At("pull", "versions") /\ cmd.left = {}
  /\ \E x \in cmd.due : x[2] \in Local!Stored /\ cmd' = [cmd EXCEPT !.due = @ \ {x}]
  /\ UNCHANGED <<commits, local, remote, late, lock, runs, history>>

(* The report has the tags of the versions listed, stored or not.           *)
PullEnds ==
  /\ At("pull", "versions") /\ cmd.left = {} /\ cmd.due = {}
  /\ Finish(cmd.rows, Names({x \in cmd.tags : x[2] \in cmd.rows}))
  /\ UNCHANGED <<commits, local, remote, late, lock, runs, seenAbsent>>

-----------------------------------------------------------------------------
(* lock and install.                                                        *)

(* resolve(): the default branch, a tag, a branch, in this order.           *)
Named(heads, tags, ref) ==
  LET branch == IF ref = "latest" THEN Default ELSE ref IN
  IF branch # Default /\ ref \in Tag /\ tags[<<Slug, ref>>] # 0 THEN tags[<<Slug, ref>>]
  ELSE IF branch \in Branch THEN heads[<<Slug, branch>>] ELSE 0

(* resolve_uri(): of the remote when the URI has a host; 0 is an error.     *)
Resolved(uri) == IF uri.remote THEN Named(rheads, rtags, uri.ref) ELSE Named(lheads, ltags, uri.ref)

Lock ==
  /\ Run([op |-> "lock", left |-> Uris, entries |-> {}])
  /\ UNCHANGED <<commits, local, remote, late, lock, history>>

(* A URI that does not resolve leaves only Abort: no file is written.       *)
LockUri ==
  /\ cmd.op = "lock"
  /\ \E u \in cmd.left :
       /\ Resolved(u) # 0
       /\ cmd' = [cmd EXCEPT !.left = @ \ {u},
                    !.entries = @ \cup {[uri |-> u, sha |-> Resolved(u)]}]
  /\ UNCHANGED <<commits, local, remote, late, lock, runs, history>>

WriteLock ==
  /\ cmd.op = "lock" /\ cmd.left = {}
  /\ lock' = cmd.entries
  /\ cmd' = Idle
  /\ UNCHANGED <<commits, local, remote, late, runs, history>>

Install ==
  /\ lock # {}
  /\ Run([op |-> "install", left |-> lock, quiet |-> TRUE])
  /\ UNCHANGED <<commits, local, remote, late, lock, history>>

Next1(e, quiet) == cmd' = [cmd EXCEPT !.left = @ \ {e}, !.quiet = @ /\ quiet]

InstallPresent ==
  /\ cmd.op = "install"
  /\ \E e \in cmd.left : e.sha \in Local!Stored /\ Next1(e, TRUE)
  /\ UNCHANGED <<commits, local, remote, late, lock, runs, history>>

(* "Error fetching": the next entry is tried.                               *)
InstallUnresolved ==
  /\ cmd.op = "install"
  /\ \E e \in cmd.left : e.sha \notin Local!Stored /\ Next1(e, FALSE)
  /\ UNCHANGED <<commits, local, remote, late, lock, runs, history>>

(* Mutant: nothing is said when the URI names another version by now.       *)
WarnsNever(e, v) == FALSE

Warns(e, v) == v # e.sha

(* What the URI names now is imported, on the branch it has where it comes  *)
(* from; a missing parent leaves only Abort.                                *)
InstallFetch ==
  /\ cmd.op = "install"
  /\ \E e \in cmd.left :
       LET v == Resolved(e.uri) IN
       /\ e.sha \notin Local!Stored
       /\ v # 0
       /\ Slug \in Local!Live
       /\ \/ v \in Local!Stored /\ UNCHANGED <<commits, local>>
          \/ e.uri.remote /\ Local!InsertImport(Slug, rversions[v].branch, v)
       /\ Next1(e, ~Warns(e, v))
  /\ UNCHANGED <<remote, late, lock, runs, history>>

InstallCreatePrompt ==
  /\ cmd.op = "install"
  /\ \E e \in cmd.left : e.sha \notin Local!Stored /\ Resolved(e.uri) # 0
  /\ Local!NewPrompt(Slug)
  /\ UNCHANGED <<remote, cmd, late, lock, runs, history>>

InstallEnds ==
  /\ cmd.op = "install" /\ cmd.left = {}
  /\ IF cmd.quiet
     THEN Finish({e.sha : e \in lock}, {})
     ELSE cmd' = Idle /\ UNCHANGED done
  /\ UNCHANGED <<commits, local, remote, late, lock, runs, seenAbsent>>

-----------------------------------------------------------------------------
Elsewhere ==
  \/ OtherCreates \/ CreatePrompt
  \/ \E b \in Branch, t \in 1..MaxClock : OtherCommits(b, t) \/ Commit1(b, t)
  \/ \E t \in Tag, v \in Sha : OtherTags(t, v) \/ TagVersion(t, v)
  \/ \E b \in Branch, v \in Sha : OtherPoints(b, v) \/ PointBranch(b, v)

Start == (\E b \in Branch : Push(b) \/ Pull(b)) \/ Lock \/ Install

PushSteps ==
  PushGetPrompt \/ PushCreatePrompt \/ PushListVersions \/ PushVersion \/ PushListTags
  \/ PushTag \/ PushEnds
PullSteps ==
  PullListVersions \/ PullListTags \/ PullCreatePrompt \/ PullVersion \/ PullTag
  \/ PullTagFails \/ PullEnds
LockSteps ==
  LockUri \/ WriteLock \/ InstallPresent \/ InstallUnresolved \/ InstallFetch
  \/ InstallCreatePrompt \/ InstallEnds

Next ==
  \/ Elsewhere
  \/ Start \/ PushSteps \/ PullSteps \/ LockSteps
  \/ Abort
  \/ \E post \in late : LatePost(post)

Spec == Init /\ [][Next]_vars

-----------------------------------------------------------------------------
(* Type invariant.                                                          *)
TypeOK ==
  /\ Local!TablesTypeOK /\ Remote!TablesTypeOK
  /\ cmd \in {Idle} \cup Transfer \cup Locking \cup Installing
  /\ late \subseteq Post
  /\ lock \subseteq Entry
  /\ runs \in 0..MaxRuns
  /\ done \in Report
  /\ seenAbsent \subseteq Tag

(* The tables a report is about: those of the side it was sent to.          *)
Arrived(v) == v \in (IF done.op = "push" THEN Remote!Stored ELSE Local!Stored)

(* A push that ends without an error has brought every version of the       *)
(* branch, its full history and every tag name to the remote, whatever      *)
(* earlier runs had left behind, what others did meanwhile and which POSTs  *)
(* arrive late; a pull has brought the versions and their history to the    *)
(* local vault.  Of the tags of a pull it says nothing: see PullTagFails.   *)
DoneMeansThere ==
  /\ done.op \in {"push", "pull"} =>
       \A v \in done.shas, x \in Sha : Local!IsAncestor(x, v) => Arrived(x)
  /\ done.op = "push" => \A t \in done.tags : rtags[<<Slug, t>>] # 0

(* An install that neither fails nor warns has stored every pinned version, *)
(* although it asks the remote for refs that may have moved since.          *)
CleanInstallPinned ==
  done.op = "install" => \A v \in done.shas : Arrived(v)

(* A push moves no tag that was on the remote when it looked: tags are put  *)
(* by an upsert, and nothing but the list read before keeps one from being  *)
(* moved.  (A tag another client puts between the list and the POST is.)    *)
RemoteTagsKept ==
  [][\A t \in Tag :
       rtags[<<Slug, t>>] \notin {0, rtags'[<<Slug, t>>]} =>
         t \in seenAbsent \/ UNCHANGED <<cmd, late>>]_vars
=============================================================================
