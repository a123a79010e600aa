------------------------------- MODULE SyncProofs -------------------------------
(***************************************************************************)
(* What a push promises for any number of writers, callers, prompts,       *)
(* branches, tags and commits.                                             *)
(***************************************************************************)
EXTENDS Sync, TLAPS

(* Every commit object is a version of the sender, and the receiver's rows  *)
(* are the sender's.                                                        *)
RowsInv ==
  /\ Sender!Stored = Sender!Sha
  /\ \A v \in Receiver!Stored : v \in Sender!Stored /\ rversions[v] = sversions[v]

(* A checkpoint is a time at which some version was made.                   *)
Made(t) == t = 0 \/ \E v \in Sender!Sha : commits[v].created_at = t

Covered(p, v, t) ==
  /\ sversions[v].prompt \in Scope[p]
  /\ commits[v].created_at <= t
  /\ StampedInOrder(v)

(* v has arrived or is still to come in the stream r.                       *)
OnItsWay(r, v) ==
  \/ v \in Receiver!Stored
  \/ v \in r.rows
  \/ r.record = [type |-> "version", sha |-> v]

(* Unless a record has failed, what the checkpoint will cover is on its way *)
StreamCovers(p, r) ==
  r.phase \in {"selected", "open"} /\ ~r.failed =>
    \A v \in Sender!Stored : Covered(p, v, r.upto) => OnItsWay(r, v)

CheckpointInv ==
  \A p \in Push : Made(since[p]) /\ Made(push[p].upto) /\ StreamCovers(p, push[p])

Inv == TypeOK /\ RowsInv /\ Receiver!ReferencesResolve /\ CheckpointInv /\ NothingPassedOver

-----------------------------------------------------------------------------
(* The step that makes a version.                                           *)

LEMMA CommitFields ==
  ASSUME TypeOK, NEW v \in Sender!Sha
  PROVE  commits[v].parent \in Nat /\ commits[v].created_at \in Nat
<1>1. commits[v] \in Sender!Commit
  BY DEF TypeOK, Sender!TablesTypeOK, Sender!Sha
<1> QED BY <1>1 DEF Sender!Commit

(* w makes the version v of q on b, on top of base, with the timestamp t.   *)
Makes(w, v, q, b, base, t) ==
  /\ q \in Sender!Live
  /\ base \in Sender!Stored \cup {0}
  /\ commits' \in Seq(Sender!Commit)
  /\ v = Len(commits) + 1
  /\ v \notin Sender!Sha /\ Sender!Sha' = Sender!Sha \cup {v}
  /\ \A x \in Sender!Sha : commits'[x] = commits[x]
  /\ commits'[v] = [parent |-> base, created_at |-> t]
  /\ sversions' = [x \in Sender!Stored \cup {v} |->
                     IF x = v THEN [prompt |-> q, branch |-> b] ELSE sversions[x]]
  /\ sheads' = [sheads EXCEPT ![<<q, b>>] = v]
  /\ stamp' = [stamp EXCEPT ![w] = NoStamp]
  /\ UNCHANGED <<stags, sprompts, receiver, clock, push, since>>

LEMMA Committed ==
  ASSUME TypeOK, NEW w \in Writer, CommitWrite(w)
  PROVE  \E v \in Nat, q \in Prompt, b \in Branch, base \in Sender!Sha \cup {0}, t \in Nat \ {0} :
           Makes(w, v, q, b, base, t)
<1> DEFINE c == stamp[w]
           v == Len(commits) + 1
           base == sheads[<<c.prompt, c.branch>>]
<1>1. c.prompt \in Prompt /\ c.branch \in Branch /\ c.created_at \in Nat \ {0}
  <2>1. c \in Stamp /\ c # NoStamp
    BY DEF TypeOK, CommitWrite
  <2> QED BY <2>1 DEF Stamp
<1>2. base \in Sender!Sha \cup {0}
  BY <1>1 DEF TypeOK, Sender!TablesTypeOK, Sender!NoSha
<1>3. base \in Nat
  BY <1>2 DEF Sender!Sha
<1>4. commits' = Append(commits, [parent |-> base, created_at |-> c.created_at])
  BY DEF CommitWrite, Sender!InsertCommit
<1>5. /\ commits' \in Seq(Sender!Commit)
      /\ v \notin Sender!Sha /\ Sender!Sha' = Sender!Sha \cup {v}
      /\ \A x \in Sender!Sha : commits'[x] = commits[x]
      /\ commits'[v] = [parent |-> base, created_at |-> c.created_at]
  BY <1>1, <1>3, <1>4 DEF TypeOK, Sender!TablesTypeOK, Sender!Commit, Sender!Sha
<1>6. /\ c.prompt \in Sender!Live
      /\ base \in Sender!Stored \cup {0}
      /\ sversions' = [x \in Sender!Stored \cup {v} |->
                         IF x = v THEN [prompt |-> c.prompt, branch |-> c.branch] ELSE sversions[x]]
      /\ sheads' = [sheads EXCEPT ![<<c.prompt, c.branch>>] = v]
      /\ stamp' = [stamp EXCEPT ![w] = NoStamp]
      /\ UNCHANGED <<stags, sprompts, receiver, clock, push, since>>
  BY DEF CommitWrite, Sender!InsertCommit, Sender!InsertVersion, Sender!UpsertHead,
         Sender!Resolvable, Sender!NoSha, receiver
<1>7. v \in Nat
  BY DEF TypeOK, Sender!TablesTypeOK
<1>8. Makes(w, v, c.prompt, c.branch, base, c.created_at)
  BY <1>5, <1>6 DEF Makes
<1> HIDE DEF c, v, base
<1> QED BY <1>1, <1>2, <1>7, <1>8

-----------------------------------------------------------------------------
(* Types, action by action.                                                 *)

LEMMA InitType == Init => TypeOK
<1> SUFFICES ASSUME Init PROVE TypeOK
  OBVIOUS
<1>1. commits = <<>> /\ commits \in Seq(Sender!Commit)
  BY DEF Init, Sender!TablesInit
<1>2. Sender!TablesTypeOK
  BY <1>1 DEF Init, Sender!TablesInit, Sender!TablesTypeOK, Sender!NoSha
<1>3. Receiver!TablesTypeOK
  BY <1>1 DEF Init, Receiver!TablesInit, Receiver!TablesTypeOK, Sender!Commit, Receiver!Commit,
              Receiver!NoSha
<1>4. Closed \in Stream
  BY DEF Closed, Stream, Record, NoRecord
<1>5. clock \in Nat \ {0} /\ stamp \in [Writer -> Stamp]
      /\ push \in [Push -> Stream] /\ since \in [Push -> Nat]
  BY <1>4 DEF Init, Stamp
<1> QED BY <1>2, <1>3, <1>5 DEF TypeOK

(* A stream that is typed stays so when there are more versions.            *)
LEMMA StreamGrows ==
  ASSUME Sender!Sha \subseteq Sender!Sha'
  PROVE  Stream \subseteq Stream'
<1>1. Record \subseteq Record'
  BY DEF Record
<1>2. Sender!Sha \X Tag \subseteq Sender!Sha' \X Tag
  OBVIOUS
<1> QED BY <1>1, <1>2 DEF Stream

LEMMA CommitType ==
  ASSUME TypeOK, NEW w \in Writer, CommitWrite(w)
  PROVE  TypeOK'
<1>0. PICK v \in Nat, q \in Prompt, b \in Branch, base \in Sender!Sha \cup {0}, t \in Nat \ {0} :
        Makes(w, v, q, b, base, t)
  BY Committed
<1>1. /\ commits' \in Seq(Sender!Commit)
      /\ v \notin Sender!Sha /\ Sender!Sha' = Sender!Sha \cup {v}
      /\ sversions' = [x \in Sender!Stored \cup {v} |->
                         IF x = v THEN [prompt |-> q, branch |-> b] ELSE sversions[x]]
      /\ sheads' = [sheads EXCEPT ![<<q, b>>] = v]
      /\ stamp' = [stamp EXCEPT ![w] = NoStamp]
      /\ UNCHANGED <<stags, sprompts, receiver, clock, push, since>>
  BY <1>0 DEF Makes
<1>2. Sender!TablesTypeOK'
  <2>1. sheads' \in [Prompt \X Branch -> Sender!Sha' \cup {0}]
    BY <1>1 DEF TypeOK, Sender!TablesTypeOK, Sender!NoSha
  <2>2. stags' \in [Prompt \X Tag -> Sender!Sha' \cup {0}]
    BY <1>1 DEF TypeOK, Sender!TablesTypeOK, Sender!NoSha
  <2>3. DOMAIN sversions' \in SUBSET Sender!Sha' /\ sversions' \in [DOMAIN sversions' -> Sender!Row]
    BY <1>1 DEF TypeOK, Sender!TablesTypeOK, Sender!Stored, Sender!Row
  <2> QED BY <1>1, <2>1, <2>2, <2>3 DEF TypeOK, Sender!TablesTypeOK, Sender!NoSha, Sender!Row, Sender!Commit
<1>3. Receiver!TablesTypeOK'
  <2>1. Receiver!Sha = Sender!Sha /\ Receiver!Sha' = Sender!Sha'
    BY DEF Sender!Sha, Receiver!Sha
  <2>2. Receiver!Commit = Sender!Commit /\ commits' \in Seq(Receiver!Commit)
    BY <1>1 DEF Sender!Commit, Receiver!Commit
  <2>3. Receiver!Sha \subseteq Receiver!Sha' /\ UNCHANGED receiver
    BY <1>1, <2>1
  <2> QED BY <2>2, <2>3 DEF TypeOK, Receiver!TablesTypeOK, Receiver!NoSha, Receiver!Row, Receiver!Commit, receiver
<1>4. stamp' \in [Writer -> Stamp]
  BY <1>1 DEF TypeOK, Stamp
<1>5. push' \in [Push -> Stream']
  BY <1>1, StreamGrows DEF TypeOK
<1> QED BY <1>1, <1>2, <1>3, <1>4, <1>5 DEF TypeOK, Stamp

LEMMA VaultType ==
  ASSUME TypeOK, Vault
  PROVE  TypeOK'
<1>1. CASE \E q \in Prompt : CreatePrompt(q)
  <2>1. PICK q \in Prompt : CreatePrompt(q)
    BY <1>1
  <2> QED BY <2>1 DEF CreatePrompt, Sender!NewPrompt, TypeOK, receiver, Sender!TablesTypeOK,
                      Receiver!TablesTypeOK, Sender!Sha, Receiver!Sha, Stream, Record
<1>2. CASE \E q \in Prompt, w \in Writer, b \in Branch : CommitStamp(w, q, b)
  <2>1. PICK q \in Prompt, w \in Writer, b \in Branch : CommitStamp(w, q, b)
    BY <1>2
  <2>2. stamp' \in [Writer -> Stamp] /\ clock' \in Nat \ {0}
    BY <2>1 DEF CommitStamp, TypeOK, Stamp
  <2> QED BY <2>1, <2>2 DEF CommitStamp, TypeOK, receiver, sender, Sender!TablesTypeOK,
                      Receiver!TablesTypeOK, Sender!Sha, Receiver!Sha, Stream, Record, Stamp
<1>3. CASE \E q \in Prompt, b \in Branch, v \in Sender!Sha : PointBranch(q, b, v)
  <2>1. PICK q \in Prompt, b \in Branch, v \in Sender!Sha : PointBranch(q, b, v)
    BY <1>3
  <2>2. sheads' \in [Prompt \X Branch -> Sender!Sha \cup {0}]
    BY <2>1 DEF PointBranch, Sender!PutBranch, Sender!UpsertHead, TypeOK, Sender!TablesTypeOK, Sender!NoSha
  <2> QED BY <2>1, <2>2 DEF PointBranch, Sender!PutBranch, TypeOK, receiver, Sender!TablesTypeOK,
                      Receiver!TablesTypeOK, Sender!Sha, Receiver!Sha, Stream, Record, Sender!NoSha
<1>4. CASE \E q \in Prompt, t \in Tag, v \in Sender!Sha : CreateTag(q, t, v)
  <2>1. PICK q \in Prompt, t \in Tag, v \in Sender!Sha : CreateTag(q, t, v)
    BY <1>4
  <2>2. stags' \in [Prompt \X Tag -> Sender!Sha \cup {0}]
    BY <2>1 DEF CreateTag, Sender!PutTag, TypeOK, Sender!TablesTypeOK, Sender!NoSha
  <2> QED BY <2>1, <2>2 DEF CreateTag, Sender!PutTag, TypeOK, receiver, Sender!TablesTypeOK,
                      Receiver!TablesTypeOK, Sender!Sha, Receiver!Sha, Stream, Record, Sender!NoSha
<1>5. CASE \E w \in Writer : CommitWrite(w)
  BY <1>5, CommitType
<1>6. CASE \E w \in Writer : CommitFails(w)
  <2>1. PICK w \in Writer : CommitFails(w)
    BY <1>6
  <2>2. stamp' \in [Writer -> Stamp]
    BY <2>1 DEF CommitFails, TypeOK, Stamp
  <2> QED BY <2>1, <2>2 DEF CommitFails, TypeOK, receiver, sender, Sender!TablesTypeOK,
                      Receiver!TablesTypeOK, Sender!Sha, Receiver!Sha, Stream, Record, Stamp
<1> QED BY <1>1, <1>2, <1>3, <1>4, <1>5, <1>6 DEF Vault

(* What a step of a stream may do to the rest.                              *)
Streams(p, fields) ==
  /\ fields \in Stream
  /\ push' = [push EXCEPT ![p] = fields]
  /\ UNCHANGED <<commits, sender, clock, stamp>>

LEMMA StreamType ==
  ASSUME TypeOK, NEW p \in Push, NEW fields, Streams(p, fields),
         Receiver!TablesTypeOK', since' \in [Push -> Nat]
  PROVE  TypeOK'
<1>1. push' \in [Push -> Stream]
  BY DEF TypeOK, Streams
<1>2. Stream' = Stream /\ Stamp' = Stamp
  BY DEF Stream, Record, Sender!Sha, Streams, Stamp
<1> QED BY <1>1, <1>2 DEF TypeOK, Streams, sender, Sender!TablesTypeOK, Sender!Sha

LEMMA ReceiverSame ==
  ASSUME TypeOK, UNCHANGED <<commits, receiver>>
  PROVE  Receiver!TablesTypeOK'
BY DEF TypeOK, Receiver!TablesTypeOK, Receiver!Sha, receiver

(* The actions of a stream that leave the receiver alone.                   *)
Reads(p) ==
  \/ ListPrompts(p) \/ SelectVersions(p) \/ SelectTags(p)
  \/ \E q \in Prompt : LookUpPrompt(p, q)
  \/ \E v \in Sender!Sha : LookUpVersion(p, v)
  \/ \E v \in Sender!Sha, t \in Tag : LookUpTag(p, v, t)
  \/ RecordFails(p) \/ Answer(p) \/ Cut(p)

Imports(p) == ImportPrompt(p) \/ ImportVersion(p) \/ ImportTag(p)

LEMMA NextCases ==
  ASSUME [Next]_vars
  PROVE  Vault \/ (\E p \in Push : Reads(p) \/ Imports(p)) \/ UNCHANGED vars
BY DEF Next, Reads, Imports

LEMMA ReadsStreams ==
  ASSUME TypeOK, NEW p \in Push, Reads(p)
  PROVE  /\ \E fields : Streams(p, fields)
         /\ UNCHANGED receiver
         /\ since' \in [Push -> Nat]
<1>0. push[p] \in Stream /\ push \in [Push -> Stream] /\ since \in [Push -> Nat]
  BY DEF TypeOK
<1>a. Closed \in Stream
  BY DEF Closed, Stream, Record
<1>1. CASE ListPrompts(p)
  <2>1. [Closed EXCEPT !.phase = "listed", !.prompts = Scope[p] \cap Sender!Live] \in Stream
    BY <1>a DEF Closed, Stream, Sender!Live
  <2> QED BY <1>0, <1>1, <2>1 DEF ListPrompts, Advance, Streams
<1>2. CASE SelectVersions(p)
  <2>1. Exported(p) \subseteq Sender!Sha
    BY DEF Exported, Sender!Stored, TypeOK, Sender!TablesTypeOK
  <2>2. PICK upto \in {commits[v].created_at : v \in Exported(p)} \cup {since[p]} :
          push' = [push EXCEPT ![p] = [push[p] EXCEPT !.phase = "selected", !.rows = Exported(p), !.upto = upto]]
    BY <1>2 DEF SelectVersions, Advance
  <2>3. upto \in Nat
    BY <2>1, <1>0, CommitFields
  <2>4. [push[p] EXCEPT !.phase = "selected", !.rows = Exported(p), !.upto = upto] \in Stream
    BY <2>1, <2>3, <1>0 DEF Stream
  <2> QED BY <1>0, <1>2, <2>2, <2>4 DEF SelectVersions, Streams
<1>3. CASE SelectTags(p)
  <2> DEFINE ts == {x \in push[p].rows \X Tag : \E q \in Prompt : stags[<<q, x[2]>>] = x[1]}
  <2>1. ts \in SUBSET (Sender!Sha \X Tag)
    BY <1>0 DEF Stream
  <2> HIDE DEF ts
  <2>2. [push[p] EXCEPT !.phase = "open", !.tags = ts] \in Stream
    BY <2>1, <1>0 DEF Stream
  <2>3. push' = [push EXCEPT ![p] = [push[p] EXCEPT !.phase = "open", !.tags = ts]]
    BY <1>3 DEF SelectTags, Advance, ts
  <2> QED BY <1>0, <1>3, <2>2, <2>3 DEF SelectTags, Streams
<1>4. CASE \E q \in Prompt : LookUpPrompt(p, q)
  <2>1. PICK q \in Prompt : LookUpPrompt(p, q)
    BY <1>4
  <2> DEFINE r == IF q \in Receiver!Live THEN NoRecord ELSE [type |-> "prompt", prompt |-> q]
  <2>2. r \in Record
    BY DEF Record
  <2> HIDE DEF r
  <2>3. [push[p] EXCEPT !.prompts = @ \ {q}, !.record = r] \in Stream
    BY <1>0, <2>2 DEF Stream
  <2>4. push' = [push EXCEPT ![p] = [push[p] EXCEPT !.prompts = @ \ {q}, !.record = r]]
    BY <2>1 DEF LookUpPrompt, Advance, r
  <2> QED BY <1>0, <2>1, <2>3, <2>4 DEF LookUpPrompt, Streams
<1>5. CASE \E v \in Sender!Sha : LookUpVersion(p, v)
  <2>1. PICK v \in Sender!Sha : LookUpVersion(p, v)
    BY <1>5
  <2> DEFINE r == IF v \in Receiver!Stored THEN NoRecord ELSE [type |-> "version", sha |-> v]
  <2>2. r \in Record
    BY DEF Record
  <2> HIDE DEF r
  <2>3. [push[p] EXCEPT !.rows = @ \ {v}, !.record = r] \in Stream
    BY <1>0, <2>2 DEF Stream
  <2>4. push' = [push EXCEPT ![p] = [push[p] EXCEPT !.rows = @ \ {v}, !.record = r]]
    BY <2>1 DEF LookUpVersion, Advance, r
  <2> QED BY <1>0, <2>1, <2>3, <2>4 DEF LookUpVersion, Streams
<1>6. CASE \E v \in Sender!Sha, t \in Tag : LookUpTag(p, v, t)
  <2>1. PICK v \in Sender!Sha, t \in Tag : LookUpTag(p, v, t)
    BY <1>6
  <2> DEFINE q == sversions[v].prompt
             r == IF q \in Receiver!Live /\ rtags[<<q, t>>] = Receiver!NoSha
                  THEN [type |-> "tag", sha |-> v, tag |-> t] ELSE NoRecord
  <2>2. r \in Record
    BY DEF Record
  <2> HIDE DEF r
  <2>3. [push[p] EXCEPT !.tags = @ \ {<<v, t>>}, !.record = r] \in Stream
    BY <1>0, <2>2 DEF Stream
  <2>4. push' = [push EXCEPT ![p] = [push[p] EXCEPT !.tags = @ \ {<<v, t>>}, !.record = r]]
    BY <2>1 DEF LookUpTag, Advance, r
  <2> QED BY <1>0, <2>1, <2>3, <2>4 DEF LookUpTag, Streams
<1>7. CASE RecordFails(p)
  <2>1. [push[p] EXCEPT !.record = NoRecord, !.failed = TRUE] \in Stream
    BY <1>0 DEF Stream, Record
  <2> QED BY <1>0, <1>7, <2>1 DEF RecordFails, Advance, Streams
<1>8. CASE Answer(p)
  <2>1. push[p].upto \in Nat
    BY <1>0 DEF Stream
  <2>2. since' \in [Push -> Nat]
    BY <1>0, <1>8, <2>1 DEF Answer
  <2> QED BY <1>a, <1>8, <2>2 DEF Answer, Advance, Streams
<1>9. CASE Cut(p)
  BY <1>0, <1>a, <1>9 DEF Cut, Advance, Streams
<1> QED BY <1>1, <1>2, <1>3, <1>4, <1>5, <1>6, <1>7, <1>8, <1>9 DEF Reads

(* What an import writes: nothing, a prompt, a version on a branch, a tag.  *)
Arrives(v) ==
  /\ v \in Sender!Stored \ Receiver!Stored
  /\ sversions[v].prompt \in Receiver!Live
  /\ commits[v].parent \in Receiver!Stored \cup {0}
  /\ rversions' = [x \in Receiver!Stored \cup {v} |->
                     IF x = v THEN [prompt |-> sversions[v].prompt, branch |-> sversions[v].branch]
                     ELSE rversions[x]]
  /\ rheads' = [rheads EXCEPT ![<<sversions[v].prompt, sversions[v].branch>>] = v]
  /\ UNCHANGED <<rtags, rprompts>>

LEMMA RowOf ==
  ASSUME TypeOK, NEW v \in Sender!Stored
  PROVE  /\ sversions[v].prompt \in Prompt /\ sversions[v].branch \in Branch
         /\ sversions[v] = [prompt |-> sversions[v].prompt, branch |-> sversions[v].branch]
         /\ v \in Sender!Sha
<1>1. sversions[v] \in Sender!Row /\ v \in Sender!Sha
  BY DEF TypeOK, Sender!TablesTypeOK, Sender!Stored
<1> QED BY <1>1 DEF Sender!Row

LEMMA ImportsStreams ==
  ASSUME TypeOK, RowsInv, NEW p \in Push, Imports(p)
  PROVE  /\ Streams(p, [push[p] EXCEPT !.record = NoRecord])
         /\ since' = since
         /\ push[p].record # NoRecord
         /\ \/ UNCHANGED receiver /\ push[p].record.type = "version"
                                 /\ push[p].record.sha \in Receiver!Stored
            \/ push[p].record.type = "prompt" /\ \E q \in Prompt : Receiver!NewPrompt(q)
            \/ push[p].record.type = "version" /\ Arrives(push[p].record.sha)
            \/ /\ push[p].record.type = "tag"
               /\ \E q \in Prompt, t \in Tag, v \in Sender!Sha : Receiver!PutTag(q, t, v)
<1>0. push[p] \in Stream /\ push[p].record \in Record /\ since \in [Push -> Nat]
  BY DEF TypeOK, Stream
<1>1. [push[p] EXCEPT !.record = NoRecord] \in Stream
  BY <1>0 DEF Stream, Record
<1>2. CASE ImportPrompt(p)
  <2>1. push[p].record.prompt \in Prompt /\ push[p].record # NoRecord
    BY <1>0, <1>2 DEF ImportPrompt, Record, NoRecord
  <2>2. UNCHANGED commits
    BY <1>2 DEF ImportPrompt, Receiver!NewPrompt
  <2> QED BY <1>1, <1>2, <2>1, <2>2 DEF ImportPrompt, Imported, Advance, Streams
<1>3. CASE ImportVersion(p)
  <2> DEFINE v == push[p].record.sha
  <2>1. v \in Sender!Sha /\ push[p].record # NoRecord /\ push[p].record.type = "version"
    BY <1>0, <1>3 DEF ImportVersion, Record, NoRecord
  <2>2. v \in Sender!Stored
    BY <2>1 DEF RowsInv
  <2>3. UNCHANGED commits
    BY <1>3 DEF ImportVersion, Receiver!InsertImport
  <2>4. \/ UNCHANGED receiver /\ v \in Receiver!Stored
        \/ Arrives(v)
    BY <1>3, <2>2 DEF ImportVersion, Arrives, Receiver!InsertImport, Receiver!InsertVersion,
                      Receiver!UpsertHead, Receiver!Resolvable, Receiver!NoSha
  <2> HIDE DEF v
  <2>5. Streams(p, [push[p] EXCEPT !.record = NoRecord]) /\ since' = since
    BY <1>1, <1>3, <2>3 DEF ImportVersion, Imported, Advance, Streams
  <2> QED BY <2>1, <2>4, <2>5 DEF v
<1>4. CASE ImportTag(p)
  <2> DEFINE r == push[p].record
  <2>1. r.sha \in Sender!Sha /\ r.tag \in Tag /\ r # NoRecord /\ r.type = "tag"
    BY <1>0, <1>4 DEF ImportTag, Record, NoRecord
  <2>2. sversions[r.sha].prompt \in Prompt
    BY <2>1, RowOf DEF RowsInv
  <2>3. Receiver!PutTag(sversions[r.sha].prompt, r.tag, r.sha)
    BY <1>4 DEF ImportTag
  <2>4. UNCHANGED commits
    BY <2>3 DEF Receiver!PutTag
  <2> QED BY <1>1, <1>4, <2>1, <2>2, <2>3, <2>4 DEF ImportTag, Imported, Advance, Streams
<1> QED BY <1>2, <1>3, <1>4 DEF Imports

LEMMA SameSha == Receiver!Sha = Sender!Sha
BY DEF Sender!Sha, Receiver!Sha

LEMMA ReceiverType ==
  ASSUME TypeOK, RowsInv, NEW p \in Push, Imports(p)
  PROVE  Receiver!TablesTypeOK'
<1>0. Receiver!TablesTypeOK /\ UNCHANGED commits
  BY ImportsStreams DEF TypeOK, Streams
<1>1. CASE UNCHANGED receiver
  BY <1>0, <1>1, ReceiverSame
<1>2. CASE \E q \in Prompt : Receiver!NewPrompt(q)
  BY <1>0, <1>2 DEF Receiver!NewPrompt, Receiver!TablesTypeOK, Receiver!Sha
<1>3. CASE Arrives(push[p].record.sha)
  <2> DEFINE v == push[p].record.sha
  <2>1. /\ v \in Receiver!Sha
        /\ sversions[v].prompt \in Prompt /\ sversions[v].branch \in Branch
    BY <1>3, RowOf, SameSha DEF Arrives
  <2> HIDE DEF v
  <2>2. rheads' \in [Prompt \X Branch -> Receiver!Sha \cup {Receiver!NoSha}]
    BY <1>0, <1>3, <2>1 DEF Arrives, Receiver!TablesTypeOK, v
  <2>3. DOMAIN rversions' \in SUBSET Receiver!Sha /\ rversions' \in [DOMAIN rversions' -> Receiver!Row]
    BY <1>0, <1>3, <2>1 DEF Arrives, Receiver!TablesTypeOK, Receiver!Stored, Receiver!Row, v
  <2> QED BY <1>0, <1>3, <2>2, <2>3 DEF Arrives, Receiver!TablesTypeOK, Receiver!Sha
<1>4. CASE \E q \in Prompt, t \in Tag, v \in Sender!Sha : Receiver!PutTag(q, t, v)
  <2>1. PICK q \in Prompt, t \in Tag, v \in Sender!Sha : Receiver!PutTag(q, t, v)
    BY <1>4
  <2>2. rtags' \in [Prompt \X Tag -> Receiver!Sha \cup {Receiver!NoSha}]
    BY <1>0, <2>1, SameSha DEF Receiver!PutTag, Receiver!TablesTypeOK
  <2> QED BY <1>0, <2>1, <2>2 DEF Receiver!PutTag, Receiver!TablesTypeOK, Receiver!Sha
<1> QED BY <1>1, <1>2, <1>3, <1>4, ImportsStreams

LEMMA NextType == TypeOK /\ RowsInv /\ [Next]_vars => TypeOK'
<1> SUFFICES ASSUME TypeOK, RowsInv, [Next]_vars PROVE TypeOK'
  OBVIOUS
<1>1. CASE Vault
  BY <1>1, VaultType
<1>2. CASE \E p \in Push : Reads(p)
  <2>1. PICK p \in Push : Reads(p)
    BY <1>2
  <2>2. PICK fields : Streams(p, fields)
    BY <2>1, ReadsStreams
  <2>3. UNCHANGED <<commits, receiver>> /\ since' \in [Push -> Nat]
    BY <2>1, <2>2, ReadsStreams DEF Streams
  <2> QED BY <2>2, <2>3, ReceiverSame, StreamType
<1>3. CASE \E p \in Push : Imports(p)
  <2>1. PICK p \in Push : Imports(p)
    BY <1>3
  <2>2. Streams(p, [push[p] EXCEPT !.record = NoRecord]) /\ since' \in [Push -> Nat]
    BY <2>1, ImportsStreams DEF TypeOK
  <2>3. Receiver!TablesTypeOK'
    BY <2>1, ReceiverType
  <2> QED BY <2>2, <2>3, StreamType
<1>4. CASE UNCHANGED vars
  BY <1>4 DEF vars, sender, receiver, TypeOK, Sender!TablesTypeOK, Receiver!TablesTypeOK, Sender!Sha,
              Receiver!Sha, Stream, Record, Stamp
<1> QED BY <1>1, <1>2, <1>3, <1>4, NextCases

-----------------------------------------------------------------------------
(* The receiver's rows are the sender's, and nothing in it dangles.         *)

(* What the vault's steps leave alone.                                      *)
LEMMA VaultKeeps ==
  ASSUME TypeOK, RowsInv, Vault
  PROVE  /\ UNCHANGED <<receiver, push, since>>
         /\ \/ UNCHANGED <<commits, sversions>>
            \/ \E w \in Writer, v \in Nat, q \in Prompt, b \in Branch,
                 base \in Sender!Sha \cup {0}, t \in Nat \ {0} : Makes(w, v, q, b, base, t)
<1>1. CASE \E w \in Writer : CommitWrite(w)
  <2>1. PICK w \in Writer : CommitWrite(w)
    BY <1>1
  <2> QED BY <2>1, Committed DEF CommitWrite
<1>2. CASE ~\E w \in Writer : CommitWrite(w)
  BY <1>2 DEF Vault, CreatePrompt, CommitStamp, CommitFails, PointBranch, CreateTag, sender,
              Sender!NewPrompt, Sender!PutBranch, Sender!PutTag
<1> QED BY <1>1, <1>2

(* A version that is made is new, and the others stay as they are.          *)
LEMMA MakesOne ==
  ASSUME RowsInv, NEW w, NEW v, NEW q, NEW b, NEW base, NEW t, Makes(w, v, q, b, base, t)
  PROVE  /\ Sender!Stored' = Sender!Sha' /\ Sender!Sha' = Sender!Sha \cup {v} /\ v \notin Sender!Sha
         /\ Sender!Stored' = Sender!Stored \cup {v}
         /\ \A x \in Sender!Stored : sversions'[x] = sversions[x] /\ commits'[x] = commits[x]
         /\ \A x \in Sender!Stored : x # v
         /\ Receiver!Stored' = Receiver!Stored /\ rversions' = rversions
BY DEF Makes, RowsInv, Sender!Stored, Receiver!Stored, receiver

LEMMA NextRows == TypeOK /\ RowsInv /\ [Next]_vars => RowsInv'
<1> SUFFICES ASSUME TypeOK, RowsInv, [Next]_vars PROVE RowsInv'
  OBVIOUS
<1>1. CASE Vault
  <2>1. CASE UNCHANGED <<commits, sversions>>
    <3>1. UNCHANGED <<commits, sversions, rversions>>
      BY <1>1, <2>1, VaultKeeps DEF receiver
    <3> QED BY <3>1 DEF RowsInv, Sender!Stored, Sender!Sha, Receiver!Stored
  <2>2. CASE \E w \in Writer, v \in Nat, q \in Prompt, b \in Branch,
               base \in Sender!Sha \cup {0}, t \in Nat \ {0} : Makes(w, v, q, b, base, t)
    BY <2>2, MakesOne DEF RowsInv
  <2> QED BY <1>1, <2>1, <2>2, VaultKeeps
<1>2. CASE \E p \in Push : Reads(p)
  <2>1. UNCHANGED <<commits, sender, receiver>>
    BY <1>2, ReadsStreams DEF Streams
  <2> QED BY <2>1 DEF RowsInv, Sender!Stored, Sender!Sha, Receiver!Stored, sender, receiver
<1>3. CASE \E p \in Push : Imports(p)
  <2>1. PICK p \in Push : Imports(p)
    BY <1>3
  <2>2. UNCHANGED <<commits, sversions>>
    BY <2>1, ImportsStreams DEF Streams, sender
  <2>3. CASE Arrives(push[p].record.sha)
    <3>1. \A x \in Receiver!Stored' : x \in Sender!Stored /\ rversions'[x] = sversions[x]
      BY <2>3, RowOf DEF Arrives, RowsInv, Receiver!Stored
    <3> QED BY <2>2, <3>1 DEF RowsInv, Sender!Stored, Sender!Sha
  <2>4. CASE UNCHANGED rversions
    BY <2>2, <2>4 DEF RowsInv, Sender!Stored, Sender!Sha, Receiver!Stored
  <2> QED BY <2>1, <2>3, <2>4, ImportsStreams DEF receiver, Receiver!NewPrompt, Receiver!PutTag
<1>4. CASE UNCHANGED vars
  BY <1>4 DEF vars, sender, receiver, RowsInv, Sender!Stored, Sender!Sha, Receiver!Stored
<1> QED BY <1>1, <1>2, <1>3, <1>4, NextCases

LEMMA SameResolve ==
  ASSUME RowsInv, Receiver!ReferencesResolve, UNCHANGED receiver,
         \A v \in Sender!Stored : commits'[v] = commits[v]
  PROVE  Receiver!ReferencesResolve'
BY DEF RowsInv, receiver, Receiver!ReferencesResolve, Receiver!Stored, Receiver!Live, Receiver!NoSha

LEMMA NextResolve == TypeOK /\ RowsInv /\ Receiver!ReferencesResolve /\ [Next]_vars
                     => Receiver!ReferencesResolve'
<1> SUFFICES ASSUME TypeOK, RowsInv, Receiver!ReferencesResolve, [Next]_vars
             PROVE  Receiver!ReferencesResolve'
  OBVIOUS
<1>1. CASE Vault
  <2>1. UNCHANGED receiver
    BY <1>1, VaultKeeps
  <2>2. \A v \in Sender!Stored : commits'[v] = commits[v]
    BY <1>1, VaultKeeps, MakesOne
  <2> QED BY <2>1, <2>2, SameResolve
<1>2. CASE \E p \in Push : Reads(p)
  <2>1. UNCHANGED <<commits, receiver>>
    BY <1>2, ReadsStreams DEF Streams
  <2> QED BY <2>1, SameResolve
<1>3. CASE \E p \in Push : Imports(p)
  <2>1. PICK p \in Push : Imports(p)
    BY <1>3
  <2>2. UNCHANGED commits /\ Receiver!TablesTypeOK
    BY <2>1, ImportsStreams DEF Streams, TypeOK
  <2>3. CASE UNCHANGED receiver
    BY <2>2, <2>3, SameResolve
  <2>4. CASE \E q \in Prompt : Receiver!NewPrompt(q)
    <3>1. Receiver!Live \subseteq Receiver!Live'
      BY <2>2, <2>4 DEF Receiver!NewPrompt, Receiver!Live, Receiver!TablesTypeOK
    <3>2. UNCHANGED <<rversions, rheads, rtags>>
      BY <2>4 DEF Receiver!NewPrompt
    <3> QED BY <2>2, <3>1, <3>2 DEF Receiver!ReferencesResolve, Receiver!Stored, Receiver!NoSha
  <2>5. CASE Arrives(push[p].record.sha)
    <3> DEFINE v == push[p].record.sha
               q == sversions[v].prompt
               b == sversions[v].branch
    <3>1. /\ q \in Prompt /\ b \in Branch /\ q \in Receiver!Live /\ Receiver!Live' = Receiver!Live
          /\ Receiver!Stored' = Receiver!Stored \cup {v}
          /\ rversions'[v].prompt = q
          /\ \A x \in Receiver!Stored : x # v /\ rversions'[x] = rversions[x]
          /\ commits[v].parent \in Receiver!Stored \cup {0}
          /\ rheads' = [rheads EXCEPT ![<<q, b>>] = v]
          /\ UNCHANGED rtags
      BY <2>5, RowOf DEF Arrives, Receiver!Live, Receiver!Stored
    <3> HIDE DEF v, q, b
    <3>2. \A x \in Receiver!Stored' : /\ rversions'[x].prompt \in Receiver!Live'
                                     /\ commits'[x].parent \in Receiver!Stored' \cup {Receiver!NoSha}
      BY <2>2, <3>1 DEF Receiver!ReferencesResolve, Receiver!NoSha
    <3>3. \A r \in Prompt, c \in Branch :
            rheads'[<<r, c>>] = IF <<r, c>> = <<q, b>> THEN v ELSE rheads[<<r, c>>]
      BY <2>2, <3>1 DEF Receiver!TablesTypeOK
    <3>4. \A r \in Prompt, c \in Branch : rheads'[<<r, c>>] # Receiver!NoSha =>
            r \in Receiver!Live' /\ rheads'[<<r, c>>] \in Receiver!Stored'
      BY <3>1, <3>3 DEF Receiver!ReferencesResolve
    <3>5. \A r \in Prompt, t \in Tag : rtags'[<<r, t>>] # Receiver!NoSha =>
            r \in Receiver!Live' /\ rtags'[<<r, t>>] \in Receiver!Stored'
      BY <3>1 DEF Receiver!ReferencesResolve
    <3> QED BY <3>2, <3>4, <3>5 DEF Receiver!ReferencesResolve, Receiver!NoSha
  <2>6. CASE \E q \in Prompt, t \in Tag, v \in Sender!Sha : Receiver!PutTag(q, t, v)
    <3>1. PICK q \in Prompt, t \in Tag, v \in Sender!Sha : Receiver!PutTag(q, t, v)
      BY <2>6
    <3>2. /\ Receiver!Live' = Receiver!Live /\ Receiver!Stored' = Receiver!Stored
          /\ q \in Receiver!Live /\ v \in Receiver!Stored
          /\ UNCHANGED <<rversions, rheads>>
      BY <3>1 DEF Receiver!PutTag, Receiver!Live, Receiver!Stored
    <3>3. \A r \in Prompt, u \in Tag :
            rtags'[<<r, u>>] = IF <<r, u>> = <<q, t>> THEN v ELSE rtags[<<r, u>>]
      BY <2>2, <3>1 DEF Receiver!PutTag, Receiver!TablesTypeOK
    <3> QED BY <2>2, <3>2, <3>3 DEF Receiver!ReferencesResolve, Receiver!NoSha
  <2> QED BY <2>1, <2>3, <2>4, <2>5, <2>6, ImportsStreams
<1>4. CASE UNCHANGED vars
  BY <1>4, SameResolve DEF vars
<1> QED BY <1>1, <1>2, <1>3, <1>4, NextCases

-----------------------------------------------------------------------------
(* The checkpoints.                                                         *)

(* What is stored at the receiver stays, whatever the step.                 *)
LEMMA StoredStays ==
  ASSUME TypeOK, RowsInv, [Next]_vars
  PROVE  Receiver!Stored \subseteq Receiver!Stored'
<1>1. CASE Vault
  BY <1>1, VaultKeeps DEF receiver, Receiver!Stored
<1>2. CASE \E p \in Push : Reads(p)
  BY <1>2, ReadsStreams DEF receiver, Receiver!Stored
<1>3. CASE \E p \in Push : Imports(p)
  BY <1>3, ImportsStreams DEF receiver, Receiver!Stored, Receiver!NewPrompt, Receiver!PutTag, Arrives
<1>4. CASE UNCHANGED vars
  BY <1>4 DEF vars, receiver, Receiver!Stored
<1> QED BY <1>1, <1>2, <1>3, <1>4, NextCases

(* A version that is made now and in order is younger than any checkpoint.  *)
LEMMA NewIsYounger ==
  ASSUME TypeOK, RowsInv, NEW w, NEW v \in Nat, NEW q, NEW b, NEW base, NEW t \in Nat \ {0},
         Makes(w, v, q, b, base, t), NEW c \in Nat, Made(c), StampedInOrder(v)'
  PROVE  ~(commits'[v].created_at <= c)
<1>1. commits'[v].created_at = t /\ v = Len(commits) + 1 /\ \A x \in Sender!Sha : commits'[x] = commits[x]
  BY DEF Makes
<1>2. CASE c = 0
  BY <1>1, <1>2
<1>3. CASE \E x \in Sender!Sha : commits[x].created_at = c
  <2>1. PICK x \in Sender!Sha : commits[x].created_at = c
    BY <1>3
  <2>2. x \in 1..(v - 1)
    BY <1>1 DEF Sender!Sha, TypeOK, Sender!TablesTypeOK
  <2>3. commits'[x].created_at < commits'[v].created_at
    BY <2>2 DEF StampedInOrder
  <2> QED BY <1>1, <2>1, <2>3
<1> QED BY <1>2, <1>3 DEF Made

(* Making a version changes nothing about the others.                       *)
LEMMA CoveredBefore ==
  ASSUME TypeOK, RowsInv, NEW w, NEW v \in Nat, NEW q, NEW b, NEW base, NEW t \in Nat \ {0},
         Makes(w, v, q, b, base, t), NEW p, NEW c \in Nat, Made(c),
         NEW x \in Sender!Stored', Covered(p, x, c)'
  PROVE  x \in Sender!Stored /\ Covered(p, x, c)
<1>1. x # v
  BY NewIsYounger DEF Covered
<1>2. /\ x \in Sender!Stored /\ sversions'[x] = sversions[x] /\ commits'[x] = commits[x]
      /\ \A y \in Sender!Sha : commits'[y] = commits[y]
  BY <1>1, MakesOne DEF RowsInv
<1>3. \A y \in 1..(x - 1) : y \in Sender!Sha
  BY <1>2 DEF RowsInv, Sender!Sha, TypeOK, Sender!TablesTypeOK
<1> QED BY <1>2, <1>3 DEF Covered, StampedInOrder

LEMMA SameCovered ==
  ASSUME UNCHANGED <<commits, sversions>>, NEW p, NEW c, NEW x
  PROVE  /\ Covered(p, x, c)' <=> Covered(p, x, c)
         /\ Made(c)' <=> Made(c)
         /\ Sender!Stored' = Sender!Stored
BY DEF Covered, StampedInOrder, Made, Sender!Stored, Sender!Sha

LEMMA PassedOver ==
  NothingPassedOver <=>
    \A p \in Push, v \in Sender!Stored : Covered(p, v, since[p]) => v \in Receiver!Stored
BY DEF NothingPassedOver, Covered

Checkpoints == CheckpointInv /\ NothingPassedOver

LEMMA VaultCheckpoints ==
  ASSUME TypeOK, RowsInv, Checkpoints, Vault
  PROVE  Checkpoints'
<1>0. UNCHANGED <<push, since>> /\ Receiver!Stored' = Receiver!Stored
  BY VaultKeeps DEF receiver, Receiver!Stored
<1>1. ASSUME NEW p \in Push, NEW c \in Nat, Made(c)
      PROVE  /\ Made(c)'
             /\ \A x \in Sender!Stored' : Covered(p, x, c)' => x \in Sender!Stored /\ Covered(p, x, c)
  <2>1. CASE UNCHANGED <<commits, sversions>>
    BY <1>1, <2>1, SameCovered
  <2>2. CASE \E w \in Writer, v \in Nat, q \in Prompt, b \in Branch,
               base \in Sender!Sha \cup {0}, t \in Nat \ {0} : Makes(w, v, q, b, base, t)
    <3>1. PICK w \in Writer, v \in Nat, q \in Prompt, b \in Branch,
               base \in Sender!Sha \cup {0}, t \in Nat \ {0} : Makes(w, v, q, b, base, t)
      BY <2>2
    <3>2. Made(c)'
      BY <1>1, <3>1, MakesOne DEF Made, RowsInv
    <3> QED BY <1>1, <3>1, <3>2, CoveredBefore
  <2> QED BY <2>1, <2>2, VaultKeeps
<1>2. ASSUME NEW p \in Push
      PROVE  /\ since[p] \in Nat /\ Made(since[p])
             /\ push[p].upto \in Nat /\ Made(push[p].upto) /\ StreamCovers(p, push[p])
  <2>1. since[p] \in Nat /\ push[p] \in Stream
    BY DEF TypeOK
  <2> QED BY <2>1 DEF Stream, Checkpoints, CheckpointInv
<1>3. CheckpointInv'
  <2> SUFFICES ASSUME NEW p \in Push
               PROVE  /\ Made(since[p])' /\ Made(push[p].upto)' /\ StreamCovers(p, push[p])'
    BY DEF CheckpointInv
  <2>1. Made(since[p])' /\ Made(push[p].upto)'
    BY <1>0, <1>1, <1>2 DEF Made
  <2>2. StreamCovers(p, push[p])'
    <3> SUFFICES ASSUME push[p].phase \in {"selected", "open"}, ~push[p].failed,
                        NEW v \in Sender!Stored', Covered(p, v, push[p].upto)'
                 PROVE  OnItsWay(push[p], v)'
      BY <1>0 DEF StreamCovers
    <3>1. v \in Sender!Stored /\ Covered(p, v, push[p].upto)
      BY <1>0, <1>1, <1>2 DEF Covered
    <3>2. OnItsWay(push[p], v)
      BY <1>2, <3>1 DEF StreamCovers
    <3> QED BY <1>0, <3>2 DEF OnItsWay
  <2> QED BY <2>1, <2>2
<1>4. NothingPassedOver'
  <2> SUFFICES ASSUME NEW p \in Push, NEW v \in Sender!Stored', Covered(p, v, since[p])'
               PROVE  v \in Receiver!Stored'
    BY DEF NothingPassedOver, Covered
  <2>1. v \in Sender!Stored /\ Covered(p, v, since[p])
    BY <1>0, <1>1, <1>2 DEF Covered
  <2> QED BY <1>0, <2>1, PassedOver DEF Checkpoints
<1> QED BY <1>3, <1>4 DEF Checkpoints

(* A step of one stream: the others have only more at the receiver.         *)
LEMMA StreamCheckpoints ==
  ASSUME TypeOK, Checkpoints, NEW p \in Push, NEW fields, Streams(p, fields),
         Receiver!Stored \subseteq Receiver!Stored',
         NEW c, since' = [since EXCEPT ![p] = c],
         Made(c), Made(fields.upto),
         \A v \in Sender!Stored : Covered(p, v, c) => v \in Receiver!Stored',
         fields.phase \in {"selected", "open"} /\ ~fields.failed =>
           \A v \in Sender!Stored : Covered(p, v, fields.upto) =>
             v \in Receiver!Stored' \/ v \in fields.rows
               \/ fields.record = [type |-> "version", sha |-> v]
  PROVE  Checkpoints'
<1>0. /\ UNCHANGED <<commits, sversions>> /\ Sender!Stored' = Sender!Stored
      /\ push'[p] = fields /\ since'[p] = c
      /\ \A o \in Push \ {p} : push'[o] = push[o] /\ since'[o] = since[o]
  BY DEF Streams, sender, TypeOK, Sender!Stored
<1>1. CheckpointInv'
  <2> SUFFICES ASSUME NEW o \in Push
               PROVE  /\ Made(since[o])' /\ Made(push[o].upto)' /\ StreamCovers(o, push[o])'
    BY DEF CheckpointInv
  <2>1. CASE o = p
    <3>1. Made(since[o])' /\ Made(push[o].upto)'
      BY <1>0, <2>1 DEF Made, Sender!Sha
    <3>2. StreamCovers(o, push[o])'
      BY <1>0, <2>1 DEF StreamCovers, OnItsWay, Covered, StampedInOrder
    <3> QED BY <3>1, <3>2
  <2>2. CASE o # p
    <3>1. Made(since[o])' /\ Made(push[o].upto)'
      BY <1>0, <2>2 DEF Made, Sender!Sha, Checkpoints, CheckpointInv
    <3>2. StreamCovers(o, push[o])
      BY DEF Checkpoints, CheckpointInv
    <3>3. StreamCovers(o, push[o])'
      BY <1>0, <2>2, <3>2 DEF StreamCovers, OnItsWay, Covered, StampedInOrder
    <3> QED BY <3>1, <3>3
  <2> QED BY <2>1, <2>2
<1>2. NothingPassedOver'
  <2> SUFFICES ASSUME NEW o \in Push, NEW v \in Sender!Stored, Covered(o, v, since'[o])
               PROVE  v \in Receiver!Stored'
    BY <1>0 DEF NothingPassedOver, Covered, StampedInOrder
  <2> QED BY <1>0, PassedOver DEF Checkpoints
<1> QED BY <1>1, <1>2 DEF Checkpoints

LEMMA ReadsCheckpoints ==
  ASSUME TypeOK, RowsInv, Checkpoints, NEW p \in Push, Reads(p)
  PROVE  Checkpoints'
<1>0. /\ UNCHANGED receiver /\ Receiver!Stored' = Receiver!Stored
      /\ push[p] \in Stream /\ since \in [Push -> Nat] /\ since[p] \in Nat /\ push \in [Push -> Stream]
  BY ReadsStreams DEF receiver, Receiver!Stored, TypeOK
<1>1. /\ Made(since[p]) /\ Made(push[p].upto) /\ StreamCovers(p, push[p])
      /\ \A v \in Sender!Stored : Covered(p, v, since[p]) => v \in Receiver!Stored
  BY PassedOver DEF Checkpoints, CheckpointInv
<1>2. PICK fields : Streams(p, fields)
  BY ReadsStreams
<1>3. push'[p] = fields
  BY <1>0, <1>2 DEF Streams
<1>4. ASSUME since' = since, Made(fields.upto), StreamCovers(p, fields)
      PROVE  Checkpoints'
  <2>1. since' = [since EXCEPT ![p] = since[p]]
    BY <1>0, <1>4
  <2>2. fields.phase \in {"selected", "open"} /\ ~fields.failed =>
          \A v \in Sender!Stored : Covered(p, v, fields.upto) =>
            v \in Receiver!Stored' \/ v \in fields.rows
              \/ fields.record = [type |-> "version", sha |-> v]
    BY <1>0, <1>4 DEF StreamCovers, OnItsWay
  <2> QED BY <1>0, <1>1, <1>2, <1>4, <2>1, <2>2, StreamCheckpoints
<1>5. CASE ListPrompts(p)
  <2>1. fields = [Closed EXCEPT !.phase = "listed", !.prompts = Scope[p] \cap Sender!Live]
    BY <1>0, <1>3, <1>5 DEF ListPrompts, Advance
  <2>2. fields.upto = 0 /\ fields.phase = "listed" /\ since' = since
    BY <1>5, <2>1 DEF Closed, ListPrompts
  <2> QED BY <2>2, <1>4 DEF Made, StreamCovers
<1>6. CASE SelectVersions(p)
  <2>1. PICK upto \in {commits[v].created_at : v \in Exported(p)} \cup {since[p]} :
          /\ \A v \in Exported(p) : commits[v].created_at <= upto
          /\ push' = [push EXCEPT ![p] = [push[p] EXCEPT !.phase = "selected", !.rows = Exported(p), !.upto = upto]]
          /\ since' = since
    BY <1>6 DEF SelectVersions, Advance
  <2>2. fields.rows = Exported(p) /\ fields.upto = upto
    BY <1>0, <1>3, <2>1 DEF Stream
  <2>3. Exported(p) \subseteq Sender!Sha /\ Sender!Stored = Sender!Sha
    BY DEF Exported, RowsInv
  <2>4. Made(upto)
    BY <1>1, <2>1, <2>3 DEF Made
  <2>5. ASSUME NEW v \in Sender!Stored, Covered(p, v, upto)
        PROVE  v \in Receiver!Stored \/ v \in Exported(p)
    <3>1. commits[v].created_at \in Nat
      BY <2>3, CommitFields
    <3>2. CASE commits[v].created_at <= since[p]
      BY <1>1, <2>5, <3>2 DEF Covered
    <3>3. CASE commits[v].created_at > since[p]
      BY <2>5, <3>3 DEF Covered, Exported
    <3> QED BY <1>0, <3>1, <3>2, <3>3
  <2>6. StreamCovers(p, fields)
    BY <2>2, <2>5 DEF StreamCovers, OnItsWay
  <2> QED BY <1>4, <2>1, <2>2, <2>4, <2>6
<1>7. ASSUME since' = since,
             fields.upto = push[p].upto,
             push[p].phase \in {"selected", "open"},
             ~fields.failed => ~push[p].failed,
             ~fields.failed => \A v \in Sender!Stored : OnItsWay(push[p], v) => OnItsWay(fields, v)
      PROVE  Checkpoints'
  <2>1. StreamCovers(p, fields)
    BY <1>1, <1>7 DEF StreamCovers
  <2> QED BY <1>1, <1>4, <1>7, <2>1
<1>8. CASE SelectTags(p)
  <2> DEFINE ts == {x \in push[p].rows \X Tag : \E q \in Prompt : stags[<<q, x[2]>>] = x[1]}
  <2>1. fields = [push[p] EXCEPT !.phase = "open", !.tags = ts] /\ since' = since
    BY <1>0, <1>3, <1>8 DEF SelectTags, Advance
  <2> HIDE DEF ts
  <2>2. /\ fields.upto = push[p].upto /\ fields.failed = push[p].failed
        /\ fields.rows = push[p].rows /\ fields.record = push[p].record
    BY <1>0, <2>1 DEF Stream
  <2>3. push[p].phase = "selected"
    BY <1>8 DEF SelectTags
  <2> QED BY <1>7, <2>1, <2>2, <2>3 DEF OnItsWay
<1>9. CASE \E q \in Prompt : LookUpPrompt(p, q)
  <2>1. PICK q \in Prompt : LookUpPrompt(p, q)
    BY <1>9
  <2> DEFINE r == IF q \in Receiver!Live THEN NoRecord ELSE [type |-> "prompt", prompt |-> q]
  <2>2. fields = [push[p] EXCEPT !.prompts = @ \ {q}, !.record = r] /\ since' = since
    BY <1>0, <1>3, <2>1 DEF LookUpPrompt, Advance
  <2> HIDE DEF r
  <2>3. /\ fields.upto = push[p].upto /\ fields.failed = push[p].failed /\ fields.rows = push[p].rows
    BY <1>0, <2>2 DEF Stream
  <2>4. push[p].phase = "open" /\ push[p].record = NoRecord
    BY <2>1 DEF LookUpPrompt, Waiting
  <2>5. \A v : push[p].record # [type |-> "version", sha |-> v]
    BY <2>4 DEF NoRecord
  <2> QED BY <1>7, <2>2, <2>3, <2>4, <2>5 DEF OnItsWay
<1>10. CASE \E v \in Sender!Sha : LookUpVersion(p, v)
  <2>1. PICK v \in Sender!Sha : LookUpVersion(p, v)
    BY <1>10
  <2> DEFINE r == IF v \in Receiver!Stored THEN NoRecord ELSE [type |-> "version", sha |-> v]
  <2>2. fields = [push[p] EXCEPT !.rows = @ \ {v}, !.record = r] /\ since' = since
    BY <1>0, <1>3, <2>1 DEF LookUpVersion, Advance
  <2>3. v \in Receiver!Stored \/ r = [type |-> "version", sha |-> v]
    OBVIOUS
  <2> HIDE DEF r
  <2>4. /\ fields.upto = push[p].upto /\ fields.failed = push[p].failed
        /\ fields.rows = push[p].rows \ {v} /\ fields.record = r
    BY <1>0, <2>2 DEF Stream
  <2>5. push[p].phase = "open" /\ push[p].record = NoRecord
    BY <2>1 DEF LookUpVersion, Waiting
  <2>6. \A x : push[p].record # [type |-> "version", sha |-> x]
    BY <2>5 DEF NoRecord
  <2>7. \A x \in Sender!Stored : OnItsWay(push[p], x) => OnItsWay(fields, x)
    BY <2>3, <2>4, <2>6 DEF OnItsWay
  <2> QED BY <1>7, <2>2, <2>4, <2>5, <2>7
<1>11. CASE \E v \in Sender!Sha, t \in Tag : LookUpTag(p, v, t)
  <2>1. PICK v \in Sender!Sha, t \in Tag : LookUpTag(p, v, t)
    BY <1>11
  <2> DEFINE q == sversions[v].prompt
             r == IF q \in Receiver!Live /\ rtags[<<q, t>>] = Receiver!NoSha
                  THEN [type |-> "tag", sha |-> v, tag |-> t] ELSE NoRecord
  <2>2. fields = [push[p] EXCEPT !.tags = @ \ {<<v, t>>}, !.record = r] /\ since' = since
    BY <1>0, <1>3, <2>1 DEF LookUpTag, Advance
  <2> HIDE DEF r
  <2>3. /\ fields.upto = push[p].upto /\ fields.failed = push[p].failed /\ fields.rows = push[p].rows
    BY <1>0, <2>2 DEF Stream
  <2>4. push[p].phase = "open" /\ push[p].record = NoRecord
    BY <2>1 DEF LookUpTag, Waiting
  <2>5. \A x : push[p].record # [type |-> "version", sha |-> x]
    BY <2>4 DEF NoRecord
  <2> QED BY <1>7, <2>2, <2>3, <2>4, <2>5 DEF OnItsWay
<1>12. CASE RecordFails(p)
  <2>1. fields.failed /\ fields.upto = push[p].upto /\ since' = since
    BY <1>0, <1>3, <1>12 DEF RecordFails, Advance, Stream
  <2> QED BY <1>1, <1>4, <2>1 DEF StreamCovers
<1>13. CASE Cut(p)
  <2>1. fields = Closed /\ since' = since
    BY <1>0, <1>3, <1>13 DEF Cut, Advance
  <2> QED BY <1>4, <2>1 DEF Closed, StreamCovers, Made
<1>14. CASE Answer(p)
  <2>1. fields = Closed
    BY <1>0, <1>3, <1>14 DEF Answer, Advance
  <2>2. fields.upto = 0 /\ fields.phase = "closed"
    BY <2>1 DEF Closed
  <2>3. CASE push[p].failed
    <3>1. since' = since
      BY <1>14, <2>3 DEF Answer
    <3> QED BY <1>4, <2>2, <3>1 DEF StreamCovers, Made
  <2>4. CASE ~push[p].failed
    <3>1. since' = [since EXCEPT ![p] = push[p].upto]
      BY <1>14, <2>4 DEF Answer
    <3>2. push[p].phase = "open" /\ push[p].rows = {} /\ push[p].record = NoRecord
      BY <1>14 DEF Answer, Waiting, Sent
    <3>3. \A v : push[p].record # [type |-> "version", sha |-> v]
      BY <3>2 DEF NoRecord
    <3>4. \A v \in Sender!Stored : Covered(p, v, push[p].upto) => v \in Receiver!Stored'
      BY <1>0, <1>1, <2>4, <3>2, <3>3 DEF StreamCovers, OnItsWay
    <3>5. Made(fields.upto)
      BY <2>2 DEF Made
    <3>6. ~(fields.phase \in {"selected", "open"})
      BY <2>2
    <3> QED BY <1>0, <1>1, <1>2, <3>1, <3>4, <3>5, <3>6, StreamCheckpoints
  <2> QED BY <2>3, <2>4
<1> QED BY <1>5, <1>6, <1>8, <1>9, <1>10, <1>11, <1>12, <1>13, <1>14 DEF Reads

LEMMA ImportsCheckpoints ==
  ASSUME TypeOK, RowsInv, Checkpoints, NEW p \in Push, Imports(p), Receiver!Stored \subseteq Receiver!Stored'
  PROVE  Checkpoints'
<1> DEFINE fields == [push[p] EXCEPT !.record = NoRecord]
<1>0. push[p] \in Stream /\ since \in [Push -> Nat]
  BY DEF TypeOK
<1>1. Streams(p, fields) /\ since' = [since EXCEPT ![p] = since[p]]
  BY <1>0, ImportsStreams
<1>2. /\ fields.upto = push[p].upto /\ fields.failed = push[p].failed
      /\ fields.rows = push[p].rows /\ fields.phase = push[p].phase
  BY <1>0 DEF Stream
<1>3. ASSUME NEW v, push[p].record = [type |-> "version", sha |-> v]
      PROVE  v \in Receiver!Stored'
  <2>1. push[p].record.type = "version" /\ push[p].record.sha = v
    BY <1>3
  <2>2. \/ v \in Receiver!Stored
        \/ Arrives(v)
    BY <2>1, ImportsStreams
  <2> QED BY <2>2 DEF Arrives, Receiver!Stored
<1>4. fields.phase \in {"selected", "open"} /\ ~fields.failed =>
        \A v \in Sender!Stored : Covered(p, v, fields.upto) =>
          v \in Receiver!Stored' \/ v \in fields.rows
  BY <1>2, <1>3 DEF Checkpoints, CheckpointInv, StreamCovers, OnItsWay
<1>5. /\ Made(since[p]) /\ Made(fields.upto)
      /\ \A v \in Sender!Stored : Covered(p, v, since[p]) => v \in Receiver!Stored'
  BY <1>2, PassedOver DEF Checkpoints, CheckpointInv
<1> HIDE DEF fields
<1> QED BY <1>1, <1>4, <1>5, StreamCheckpoints

-----------------------------------------------------------------------------
LEMMA InitInv == Init => Inv
<1> SUFFICES ASSUME Init PROVE Inv
  OBVIOUS
<1>1. Sender!Stored = {} /\ Receiver!Stored = {} /\ Sender!Sha = {}
  BY DEF Init, Sender!TablesInit, Receiver!TablesInit, Sender!Stored, Receiver!Stored, Sender!Sha
<1>2. TypeOK
  BY InitType
<1>3. RowsInv
  BY <1>1 DEF RowsInv
<1>4. Receiver!ReferencesResolve
  BY <1>1 DEF Init, Receiver!TablesInit, Receiver!ReferencesResolve
<1>5. CheckpointInv
  BY DEF Init, CheckpointInv, Made, StreamCovers, Closed
<1>6. NothingPassedOver
  BY <1>1 DEF NothingPassedOver
<1> QED BY <1>2, <1>3, <1>4, <1>5, <1>6 DEF Inv

LEMMA NextInv == Inv /\ [Next]_vars => Inv'
<1> SUFFICES ASSUME Inv, [Next]_vars PROVE Inv'
  OBVIOUS
<1>1. TypeOK /\ RowsInv /\ Receiver!ReferencesResolve /\ Checkpoints
  BY DEF Inv, Checkpoints
<1>2. TypeOK' /\ RowsInv' /\ Receiver!ReferencesResolve'
  BY <1>1, NextType, NextRows, NextResolve
<1>3. Checkpoints'
  <2>1. CASE Vault
    BY <1>1, <2>1, VaultCheckpoints
  <2>2. CASE \E p \in Push : Reads(p)
    BY <1>1, <2>2, ReadsCheckpoints
  <2>3. CASE \E p \in Push : Imports(p)
    BY <1>1, <2>3, StoredStays, ImportsCheckpoints
  <2>4. CASE UNCHANGED vars
    BY <1>1, <2>4 DEF vars, sender, receiver, Checkpoints, CheckpointInv, NothingPassedOver, Made,
       StreamCovers, OnItsWay, Covered, StampedInOrder, Sender!Stored, Sender!Sha, Receiver!Stored
  <2> QED BY <2>1, <2>2, <2>3, <2>4, NextCases
<1> QED BY <1>2, <1>3 DEF Inv, Checkpoints

(* The tables of both vaults and the streams keep their types.              *)
THEOREM TypeCorrect == Spec => []TypeOK
<1>1. Inv => TypeOK
  BY DEF Inv
<1> QED BY InitInv, NextInv, <1>1, PTL DEF Spec

(* The stored versions of the receiver are closed under parents.            *)
LEMMA ReceiverClosed ==
  ASSUME Inv, NEW v \in Receiver!Stored, NEW x, Receiver!IsAncestor(x, v)
  PROVE  x \in Receiver!Stored
<1>1. Receiver!Stored \in SUBSET Receiver!Sha
  BY DEF Inv, TypeOK, Receiver!TablesTypeOK, Receiver!Stored
<1>2. Receiver!ParentClosed(Receiver!Stored)
  BY DEF Inv, Receiver!ReferencesResolve, Receiver!ParentClosed
<1> QED BY <1>1, <1>2 DEF Receiver!IsAncestor

(* However streams fail, are cut or overtake each other, no row of the      *)
(* receiver dangles and every ancestor of a head or a tag has arrived.      *)
THEOREM ReceiverAlwaysConsistent == Spec => []ReceiverConsistent
<1>1. Inv => ReceiverConsistent
  <2> SUFFICES ASSUME Inv PROVE Receiver!HistoryComplete
    BY DEF Inv, ReceiverConsistent
  <2> SUFFICES ASSUME NEW v \in Receiver!Sha, NEW x \in Receiver!Sha,
                      \/ \E p \in Prompt, b \in Branch : rheads[<<p, b>>] = v
                      \/ \E p \in Prompt, t \in Tag : rtags[<<p, t>>] = v,
                      Receiver!IsAncestor(x, v)
               PROVE  x \in Receiver!Stored
    BY DEF Receiver!HistoryComplete
  <2>1. v # Receiver!NoSha
    BY DEF Receiver!Sha, Receiver!NoSha
  <2>2. v \in Receiver!Stored
    <3>1. Receiver!ReferencesResolve
      BY DEF Inv
    <3>2. CASE \E p \in Prompt, b \in Branch : rheads[<<p, b>>] = v
      <4>1. PICK p \in Prompt, b \in Branch : rheads[<<p, b>>] = v
        BY <3>2
      <4> QED BY <2>1, <3>1, <4>1 DEF Receiver!ReferencesResolve
    <3>3. CASE \E p \in Prompt, t \in Tag : rtags[<<p, t>>] = v
      <4>1. PICK p \in Prompt, t \in Tag : rtags[<<p, t>>] = v
        BY <3>3
      <4> QED BY <2>1, <3>1, <4>1 DEF Receiver!ReferencesResolve
    <3> QED BY <3>2, <3>3
  <2> QED BY <2>2, ReceiverClosed
<1> QED BY InitInv, NextInv, <1>1, PTL DEF Spec

(* What a caller's checkpoint covers has arrived, whatever was lost before. *)
THEOREM NothingIsPassedOver == Spec => []NothingPassedOver
<1>1. Inv => NothingPassedOver
  BY DEF Inv
<1> QED BY InitInv, NextInv, <1>1, PTL DEF Spec

(* A head that moves, moves to a version that has just arrived.             *)
LEMMA StepNotSetBack == Inv /\ [Next]_vars => NotSetBack
<1> SUFFICES ASSUME Inv, [Next]_vars, NEW x \in DOMAIN rheads,
                    rheads'[x] # rheads[x], rheads[x] # Receiver!NoSha
             PROVE  ~Receiver!IsAncestor(rheads'[x], rheads[x])
  BY DEF NotSetBack
<1>1. TypeOK /\ RowsInv
  BY DEF Inv
<1>2. PICK p \in Push : Arrives(push[p].record.sha)
  <2>1. CASE Vault
    BY <1>1, <2>1, VaultKeeps DEF receiver
  <2>2. CASE \E p \in Push : Reads(p)
    BY <1>1, <2>2, ReadsStreams DEF receiver
  <2>3. CASE \E p \in Push : Imports(p)
    BY <1>1, <2>3, ImportsStreams DEF receiver, Receiver!NewPrompt, Receiver!PutTag
  <2>4. CASE UNCHANGED vars
    BY <2>4 DEF vars, receiver
  <2> QED BY <2>1, <2>2, <2>3, <2>4, NextCases
<1>3. rheads'[x] \notin Receiver!Stored
  BY <1>2 DEF Arrives
<1>4. rheads[x] \in Receiver!Stored
  <2>1. x \in Prompt \X Branch
    BY <1>1 DEF TypeOK, Receiver!TablesTypeOK
  <2>2. PICK q \in Prompt, b \in Branch : x = <<q, b>>
    BY <2>1
  <2> QED BY <2>2 DEF Inv, Receiver!ReferencesResolve
<1> QED BY <1>3, <1>4, ReceiverClosed

(* No push sets a branch of the receiver back to an ancestor of its head.   *)
THEOREM HeadsNeverSetBack == Spec => NeverSetBack
<1>1. Inv /\ [Next]_vars => [NotSetBack]_vars
  BY StepNotSetBack
<1> QED BY InitInv, NextInv, <1>1, PTL DEF Spec, NeverSetBack

-----------------------------------------------------------------------------
(* Every step is a step of Replication or leaves its variables alone.       *)
LEMMA StepReplicates == Inv /\ [Next]_vars => [Promise!Next]_<<[v \in 1..Len(commits) |-> commits[v].parent], sversions, rversions>>
<1> SUFFICES ASSUME Inv, [Next]_vars
             PROVE  \/ Promise!Make \/ Promise!Receive
                    \/ UNCHANGED <<commits, sversions, rversions>>
  BY DEF Promise!Next
<1>1. TypeOK /\ RowsInv
  BY DEF Inv
<1>2. CASE Vault
  <2>1. CASE UNCHANGED <<commits, sversions>>
    BY <1>1, <1>2, <2>1, VaultKeeps DEF receiver
  <2>2. CASE \E w \in Writer, v \in Nat, q \in Prompt, b \in Branch,
               base \in Sender!Sha \cup {0}, t \in Nat \ {0} : Makes(w, v, q, b, base, t)
    <3>1. PICK w \in Writer, v \in Nat, q \in Prompt, b \in Branch,
               base \in Sender!Sha \cup {0}, t \in Nat \ {0} : Makes(w, v, q, b, base, t)
      BY <2>2
    <3>2. \A x \in Sender!Sha : x \in Sender!Sha' /\ commits'[x] = commits[x]
      BY <3>1 DEF Makes
    <3>3. \A x \in DOMAIN sversions : x \in DOMAIN sversions' /\ sversions'[x] = sversions[x]
      BY <1>1, <3>1, MakesOne DEF Sender!Stored
    <3>4. rversions' = rversions
      BY <1>1, <3>1, MakesOne
    <3>5. Promise!Make
      BY <3>2, <3>3, <3>4 DEF Promise!Make, Promise!Extends, Sender!Sha
    <3> QED BY <3>5
  <2> QED BY <1>1, <1>2, <2>1, <2>2, VaultKeeps
<1>3. CASE \E p \in Push : Reads(p)
  BY <1>1, <1>3, ReadsStreams DEF Streams, sender, receiver
<1>4. CASE \E p \in Push : Imports(p)
  <2>1. PICK p \in Push : Imports(p)
    BY <1>4
  <2>2. UNCHANGED <<commits, sversions>>
    BY <1>1, <2>1, ImportsStreams DEF Streams, sender
  <2>3. CASE Arrives(push[p].record.sha)
    <3> DEFINE v == push[p].record.sha
    <3>1. /\ v \in DOMAIN sversions \ DOMAIN rversions /\ v \in Sender!Sha
          /\ sversions[v] = [prompt |-> sversions[v].prompt, branch |-> sversions[v].branch]
          /\ commits[v].parent \in DOMAIN rversions \cup {0}
          /\ rversions' = [x \in DOMAIN rversions \cup {v} |->
                             IF x = v THEN [prompt |-> sversions[v].prompt, branch |-> sversions[v].branch]
                             ELSE rversions[x]]
      BY <1>1, <2>3, RowOf DEF Arrives, Sender!Stored, Receiver!Stored
    <3> HIDE DEF v
    <3>2. rversions' = [x \in DOMAIN rversions \cup {v} |-> IF x = v THEN sversions[v] ELSE rversions[x]]
      BY <3>1
    <3>3. Promise!Receive
      BY <2>2, <3>1, <3>2 DEF Promise!Receive, Sender!Sha
    <3> QED BY <3>3
  <2>4. CASE UNCHANGED rversions
    BY <2>2, <2>4
  <2> QED BY <1>1, <2>1, <2>3, <2>4, ImportsStreams DEF receiver, Receiver!NewPrompt, Receiver!PutTag
<1>5. CASE UNCHANGED vars
  BY <1>5 DEF vars, sender, receiver
<1> QED BY <1>2, <1>3, <1>4, <1>5, NextCases

(* Pushing implements Replication: the receiver only ever gains rows of the *)
(* sender, as they are there, each after its parent.                        *)
THEOREM ImplementsReplication == Spec => ReplicaSpec
<1>1. Init => Promise!Init
  BY DEF Init, Promise!Init, Sender!TablesInit, Receiver!TablesInit
<1> QED BY InitInv, NextInv, StepReplicates, <1>1, PTL DEF Spec, ReplicaSpec, Promise!Spec
=============================================================================
