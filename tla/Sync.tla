---------------------------------- MODULE Sync ----------------------------------
(***************************************************************************)
(* Push: _Export.to_json() of shim.py reads a vault and streams its        *)
(* records, /push (endpoints/push.py) or _Export.ingest() imports them one *)
(* by one into another vault.                                              *)
(*                                                                         *)
(* The locks exclude less than their comments say.  The sender's lock is   *)
(* taken by push() and ingest() only, so commits go on while an export     *)
(* reads; the server makes a new lock for each request (api/deps.py 41),   *)
(* so two streams interleave record by record.                             *)
(***************************************************************************)
EXTENDS Naturals, Sequences

CONSTANTS
  Prompt, Branch, Tag, MaxCommits, MaxClock,   (* as in VersionTables        *)
  Writer,    (* sessions that commit to the sending vault                    *)
  Push,      (* callers that push it, each one push at a time                *)
  Scope      (* Push -> the prompts in the namespace it pushes               *)

ASSUME ScopeAssumption == Scope \in [Push -> SUBSET Prompt]

VARIABLES
  commits,                            (* the commit objects, as VersionTables *)
  sversions, sheads, stags, sprompts, (* the tables of the sender           *)
  rversions, rheads, rtags, rprompts, (* the tables of the receiver         *)
  clock,     (* the next timestamp _utcnow() returns to a writer             *)
  stamp,     (* what a writer inside commit() holds                          *)
  push,      (* the stream of each caller                                    *)
  since      (* the checkpoint each caller passes to its next push, 0 = None *)

Sender == INSTANCE VersionTables
            WITH versions <- sversions, heads <- sheads, tags <- stags, prompts <- sprompts
Receiver == INSTANCE VersionTables
            WITH versions <- rversions, heads <- rheads, tags <- rtags, prompts <- rprompts

sender == <<sversions, sheads, stags, sprompts>>
receiver == <<rversions, rheads, rtags, rprompts>>
vars == <<commits, sender, receiver, clock, stamp, push, since>>

NoStamp == [created_at |-> 0]
Stamp == {NoStamp} \cup [created_at : Nat \ {0}, prompt : Prompt, branch : Branch]

(* A record that has been looked up and is about to be imported.            *)
NoRecord == [type |-> "none"]
Record ==
  {NoRecord} \cup [type : {"prompt"}, prompt : Prompt]
             \cup [type : {"version"}, sha : Sender!Sha]
             \cup [type : {"tag"}, sha : Sender!Sha, tag : Tag]

(* prompts, rows and tags are the records still to come; upto is the        *)
(* created_at of the checkpoint record; failed says that errors is not [].  *)
Closed == [phase |-> "closed", prompts |-> {}, rows |-> {}, tags |-> {}, upto |-> 0,
           record |-> NoRecord, failed |-> FALSE]
Stream ==
  [phase : {"closed", "listed", "selected", "open"}, prompts : SUBSET Prompt,
   rows : SUBSET Sender!Sha, tags : SUBSET (Sender!Sha \X Tag), upto : Nat,
   record : Record, failed : BOOLEAN]

Init ==
  /\ Sender!TablesInit
  /\ Receiver!TablesInit
  /\ clock = 1
  /\ stamp = [w \in Writer |-> NoStamp]
  /\ push = [p \in Push |-> Closed]
  /\ since = [p \in Push |-> 0]

-----------------------------------------------------------------------------
(* The sending vault.  A commit is stamped before it reads the head; its    *)
(* read and its write are one step here (VersionStore takes them apart).    *)

CreatePrompt(q) ==
  /\ Sender!NewPrompt(q)
  /\ UNCHANGED <<receiver, clock, stamp, push, since>>

CommitStamp(w, q, b) ==
  /\ stamp[w] = NoStamp
  /\ q \in Sender!Live
  /\ clock <= MaxClock
  /\ stamp' = [stamp EXCEPT ![w] = [created_at |-> clock, prompt |-> q, branch |-> b]]
  /\ clock' = clock + 1
  /\ UNCHANGED <<commits, sender, receiver, push, since>>

CommitWrite(w) ==
  LET c == stamp[w] IN
  /\ c # NoStamp
  /\ Sender!InsertCommit(c.prompt, c.branch, sheads[<<c.prompt, c.branch>>], c.created_at)
  /\ stamp' = [stamp EXCEPT ![w] = NoStamp]
  /\ UNCHANGED <<receiver, clock, push, since>>

CommitFails(w) ==
  /\ stamp[w] # NoStamp
  /\ stamp' = [stamp EXCEPT ![w] = NoStamp]
  /\ UNCHANGED <<commits, sender, receiver, clock, push, since>>

(* create_branch(), rollback() or merge().                                  *)
PointBranch(q, b, v) ==
  /\ Sender!PutBranch(q, b, v)
  /\ UNCHANGED <<receiver, clock, stamp, push, since>>

CreateTag(q, t, v) ==
  /\ Sender!PutTag(q, t, v)
  /\ UNCHANGED <<receiver, clock, stamp, push, since>>

-----------------------------------------------------------------------------
(* to_json(): three reads, each of the tables as they are at that moment.   *)

Advance(p, fields) == push' = [push EXCEPT ![p] = fields]

ListPrompts(p) ==
  /\ push[p].phase = "closed"
  /\ Advance(p, [Closed EXCEPT !.phase = "listed", !.prompts = Scope[p] \cap Sender!Live])
  /\ UNCHANGED <<commits, sender, receiver, clock, stamp, since>>

(* The versions of the scope that are newer than the checkpoint.            *)
Exported(p) ==
  {v \in Sender!Stored : /\ sversions[v].prompt \in Scope[p]
                         /\ commits[v].created_at > since[p]}

SelectVersions(p) ==
  /\ push[p].phase = "listed"
  /\ \E upto \in {commits[v].created_at : v \in Exported(p)} \cup {since[p]} :
       /\ \A v \in Exported(p) : commits[v].created_at <= upto
       /\ Advance(p, [push[p] EXCEPT !.phase = "selected", !.rows = Exported(p), !.upto = upto])
  /\ UNCHANGED <<commits, sender, receiver, clock, stamp, since>>

(* The tags are looked up by SHA alone, whatever prompt they belong to.     *)
SelectTags(p) ==
  /\ push[p].phase = "selected"
  /\ Advance(p, [push[p] EXCEPT !.phase = "open",
                   !.tags = {x \in push[p].rows \X Tag :
                               \E q \in Prompt : stags[<<q, x[2]>>] = x[1]}])
  /\ UNCHANGED <<commits, sender, receiver, clock, stamp, since>>

-----------------------------------------------------------------------------
(* The stream: prompts, then versions oldest first, each followed by its    *)
(* tags.  _ingest_record() looks a prompt or a version up and, when it is   *)
(* not there, imports it in a later call.                                   *)

Waiting(p) == push[p].phase = "open" /\ push[p].record = NoRecord

DueTags(p) == {x \in push[p].tags : x[1] \notin push[p].rows}

LookUpPrompt(p, q) ==
  /\ Waiting(p)
  /\ q \in push[p].prompts
  /\ Advance(p, [push[p] EXCEPT !.prompts = @ \ {q},
                   !.record = IF q \in Receiver!Live THEN NoRecord
                              ELSE [type |-> "prompt", prompt |-> q]])
  /\ UNCHANGED <<commits, sender, receiver, clock, stamp, since>>

LookUpVersion(p, v) ==
  /\ Waiting(p)
  /\ push[p].prompts = {} /\ DueTags(p) = {}
  /\ v \in push[p].rows
  /\ \A x \in push[p].rows : commits[v].created_at <= commits[x].created_at
  /\ Advance(p, [push[p] EXCEPT !.rows = @ \ {v},
                   !.record = IF v \in Receiver!Stored THEN NoRecord
                              ELSE [type |-> "version", sha |-> v]])
  /\ UNCHANGED <<commits, sender, receiver, clock, stamp, since>>

(* A tag is skipped without its prompt, and when the name is taken.         *)
LookUpTag(p, v, t) ==
  LET q == sversions[v].prompt IN
  /\ Waiting(p)
  /\ push[p].prompts = {} /\ <<v, t>> \in DueTags(p)
  /\ Advance(p, [push[p] EXCEPT !.tags = @ \ {<<v, t>>},
                   !.record = IF q \in Receiver!Live /\ rtags[<<q, t>>] = Receiver!NoSha
                              THEN [type |-> "tag", sha |-> v, tag |-> t] ELSE NoRecord])
  /\ UNCHANGED <<commits, sender, receiver, clock, stamp, since>>

Imported(p) == Advance(p, [push[p] EXCEPT !.record = NoRecord])

ImportPrompt(p) ==
  /\ push[p].record.type = "prompt"
  /\ Receiver!NewPrompt(push[p].record.prompt)
  /\ Imported(p)
  /\ UNCHANGED <<sender, clock, stamp, since>>

(* Mutant: import_version() moves the branch without asking has_version().  *)
ImportVersionAgain(p) ==
  LET v == push[p].record.sha IN
  /\ push[p].record.type = "version"
  /\ Receiver!InsertImportReplacing(sversions[v].prompt, sversions[v].branch, v)
  /\ Imported(p)
  /\ UNCHANGED <<sender, clock, stamp, since>>

(* import_version() asks has_version() again.                               *)
ImportVersion(p) ==
  LET v == push[p].record.sha IN
  /\ push[p].record.type = "version"
  /\ \/ v \in Receiver!Stored /\ UNCHANGED <<commits, receiver>>
     \/ Receiver!InsertImport(sversions[v].prompt, sversions[v].branch, v)
  /\ Imported(p)
  /\ UNCHANGED <<sender, clock, stamp, since>>

(* create_tag() is an upsert: a tag another stream has put meanwhile moves. *)
ImportTag(p) ==
  LET r == push[p].record IN
  /\ r.type = "tag"
  /\ Receiver!PutTag(sversions[r.sha].prompt, r.tag, r.sha)
  /\ Imported(p)
  /\ UNCHANGED <<sender, clock, stamp, since>>

(* Any exception of a record is noted and the next record is taken: the     *)
(* prompt is missing, a key is violated, the database is locked.            *)
RecordFails(p) ==
  /\ push[p].record # NoRecord
  /\ Advance(p, [push[p] EXCEPT !.record = NoRecord, !.failed = TRUE])
  /\ UNCHANGED <<commits, sender, receiver, clock, stamp, since>>

Sent(p) == push[p].prompts = {} /\ push[p].rows = {} /\ push[p].tags = {}

(* Mutant: the caller goes on from the checkpoint whatever the status is.   *)
AnswerUnchecked(p) ==
  /\ Waiting(p) /\ Sent(p)
  /\ Advance(p, Closed)
  /\ since' = [since EXCEPT ![p] = push[p].upto]
  /\ UNCHANGED <<commits, sender, receiver, clock, stamp>>

(* The stream has ended: 200, and the caller keeps the checkpoint for its   *)
(* next push, or 422, and raise_for_status() raises.                        *)
Answer(p) ==
  /\ Waiting(p) /\ Sent(p)
  /\ Advance(p, Closed)
  /\ since' = IF push[p].failed THEN since ELSE [since EXCEPT ![p] = push[p].upto]
  /\ UNCHANGED <<commits, sender, receiver, clock, stamp>>

(* The connection breaks, or either process dies.                           *)
Cut(p) ==
  /\ push[p].phase # "closed"
  /\ Advance(p, Closed)
  /\ UNCHANGED <<commits, sender, receiver, clock, stamp, since>>

-----------------------------------------------------------------------------
Vault ==
  \/ \E q \in Prompt :
       \/ CreatePrompt(q)
       \/ \E w \in Writer, b \in Branch : CommitStamp(w, q, b)
       \/ \E b \in Branch, v \in Sender!Sha : PointBranch(q, b, v)
       \/ \E t \in Tag, v \in Sender!Sha : CreateTag(q, t, v)
  \/ \E w \in Writer : CommitWrite(w) \/ CommitFails(w)

Next ==
  \/ Vault
  \/ \E p \in Push :
       \/ ListPrompts(p)
       \/ SelectVersions(p)
       \/ SelectTags(p)
       \/ \E q \in Prompt : LookUpPrompt(p, q)
       \/ \E v \in Sender!Sha : LookUpVersion(p, v)
       \/ ImportPrompt(p)
       \/ ImportVersion(p)
       \/ \E v \in Sender!Sha, t \in Tag : LookUpTag(p, v, t)
       \/ ImportTag(p)
       \/ RecordFails(p)
       \/ Answer(p)
       \/ Cut(p)

Spec == Init /\ [][Next]_vars
-----------------------------------------------------------------------------
(* The type invariant: both vaults' tables are typed, and a stream holds    *)
(* records of the export.                                                   *)
TypeOK ==
  /\ Sender!TablesTypeOK
  /\ Receiver!TablesTypeOK
  /\ clock \in Nat \ {0}
  /\ stamp \in [Writer -> Stamp]
  /\ push \in [Push -> Stream]
  /\ since \in [Push -> Nat]

(* Whatever streams were cut, failed, repeated or interleaved, no row of    *)
(* the receiver dangles and the history of its branches and tags is whole:  *)
(* an import must leave nothing behind when its parent has not come.        *)
ReceiverConsistent == Receiver!ReferencesResolve /\ Receiver!HistoryComplete

(* The receiver holds only rows of the sender, as they are there, and each  *)
(* arrives after its parent (Replication).                                  *)
Promise == INSTANCE Replication
             WITH parent <- [v \in 1..Len(commits) |-> commits[v].parent],
                  sent <- sversions, received <- rversions
ReplicaSpec == Promise!Spec

(* An incremental push passes over no version that was stamped after all    *)
(* those written before it: what a caller's checkpoint covers is at the     *)
(* receiver.  (A version written out of the order of stamps can be passed   *)
(* over: an export may take a younger one first.)                           *)
StampedInOrder(v) == \A x \in 1..(v - 1) : commits[x].created_at < commits[v].created_at
NothingPassedOver ==
  \A p \in Push, v \in Sender!Stored :
    /\ sversions[v].prompt \in Scope[p]
    /\ commits[v].created_at <= since[p]
    /\ StampedInOrder(v)
    => v \in Receiver!Stored

(* A head of the receiver never moves to one of its own ancestors, though   *)
(* import_version() moves it without looking: repeated and overtaken        *)
(* streams must not set a branch back.                                      *)
NotSetBack ==
  \A x \in DOMAIN rheads :
    rheads'[x] # rheads[x] /\ rheads[x] # Receiver!NoSha => ~Receiver!IsAncestor(rheads'[x], rheads[x])
NeverSetBack == [][NotSetBack]_vars

(* The prompts and the versions of an export are of one moment: "no writes  *)
(* interleave while the export snapshot is being streamed" (shim.py 960),   *)
(* so every version of the stream follows its prompt.                       *)
ExportOfOneMoment ==
  \A p \in Push :
    push[p].phase = "selected" =>
      \A v \in push[p].rows : sversions[v].prompt \in push[p].prompts
=============================================================================
