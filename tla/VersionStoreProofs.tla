-------------------------- MODULE VersionStoreProofs --------------------------
(***************************************************************************)
(* What holds of VersionStore for any number of sessions, prompts,         *)
(* branches, tags and commits.                                             *)
(***************************************************************************)
EXTENDS VersionStore, TLAPS

(* A version that InsertVersion adds: the others keep their rows.           *)
LEMMA InsertVersionType ==
  ASSUME TablesTypeOK, NEW v, NEW p \in Prompt, NEW b \in Branch,
         InsertVersion(v, p, b)
  PROVE  /\ Stored' = Stored \cup {v}
         /\ versions' \in [Stored \cup {v} -> Row]
         /\ versions'[v] = [prompt |-> p, branch |-> b]
         /\ \A x \in Stored \ {v} : versions'[x] = versions[x]
  BY DEF InsertVersion, Stored, Row, TablesTypeOK

(* A commit object appended to the others leaves them as they are.          *)
LEMMA AppendCommit ==
  ASSUME TablesTypeOK, NEW parent \in Nat, NEW t \in Nat,
         commits' = Append(commits, [parent |-> parent, created_at |-> t])
  PROVE  /\ commits' \in Seq(Commit)
         /\ Sha' = Sha \cup {Len(commits) + 1}
         /\ Len(commits) + 1 \notin Sha
         /\ \A v \in Sha : commits'[v] = commits[v]
         /\ commits'[Len(commits) + 1] = [parent |-> parent, created_at |-> t]
  BY DEF TablesTypeOK, Commit, Sha

-----------------------------------------------------------------------------
(* Every table operation keeps the types of the tables and leaves no row    *)
(* that points at a missing one.                                            *)

TablesInv == TablesTypeOK /\ ReferencesResolve

LEMMA NewPromptInv ==
  ASSUME TablesInv, NEW p \in Prompt, NewPrompt(p)
  PROVE  TablesInv'
<1>1. prompts' \in [Prompt -> {"absent", "live", "deleted"}] /\ Live \subseteq Live'
  BY DEF TablesInv, TablesTypeOK, NewPrompt, Live
<1>2. TablesTypeOK'
  BY <1>1 DEF TablesInv, TablesTypeOK, NewPrompt, Sha
<1>3. ReferencesResolve'
  BY <1>1 DEF TablesInv, ReferencesResolve, NewPrompt, Stored
<1> QED BY <1>2, <1>3 DEF TablesInv

LEMMA RemovePromptInv ==
  ASSUME TablesInv, NEW p \in Prompt, RemovePrompt(p)
  PROVE  TablesInv'
<1>1. /\ Stored' = {v \in Stored : versions[v].prompt # p}
      /\ \A v \in Stored' : versions'[v] = versions[v]
  BY DEF RemovePrompt, Stored
<1>2. /\ \A q \in Prompt, b \in Branch : heads'[<<q, b>>] = IF q = p THEN NoSha ELSE heads[<<q, b>>]
      /\ \A q \in Prompt, t \in Tag : tags'[<<q, t>>] = IF q = p THEN NoSha ELSE tags[<<q, t>>]
  BY DEF RemovePrompt
<1>3. prompts' \in [Prompt -> {"absent", "live", "deleted"}] /\ Live' = Live \ {p}
  BY DEF TablesInv, TablesTypeOK, RemovePrompt, Live
<1>4. TablesTypeOK'
  <2>1. heads' \in [Prompt \X Branch -> Sha \cup {NoSha}]
    BY DEF TablesInv, TablesTypeOK, RemovePrompt
  <2>2. tags' \in [Prompt \X Tag -> Sha \cup {NoSha}]
    BY DEF TablesInv, TablesTypeOK, RemovePrompt
  <2>3. DOMAIN versions' \in SUBSET Sha /\ versions' \in [DOMAIN versions' -> Row]
    BY DEF TablesInv, TablesTypeOK, RemovePrompt, Stored
  <2> QED BY <2>1, <2>2, <2>3, <1>3 DEF TablesInv, TablesTypeOK, RemovePrompt, Sha
<1>5. ReferencesResolve'
  <2>1. ASSUME NEW v \in Stored'
        PROVE  versions'[v].prompt \in Live' /\ commits'[v].parent \in Stored' \cup {NoSha}
    <3>1. v \in Stored /\ versions[v].prompt # p /\ versions[v].prompt \in Live
      BY <1>1 DEF TablesInv, ReferencesResolve
    <3>2. commits'[v].parent = commits[v].parent
      BY DEF RemovePrompt
    <3>3. CASE commits[v].parent = NoSha
      BY <3>1, <3>2, <3>3, <1>1, <1>3
    <3>4. CASE commits[v].parent # NoSha
      <4>1. commits[v].parent \in Stored
        BY <3>1, <3>4 DEF TablesInv, ReferencesResolve
      <4>2. versions[commits[v].parent].prompt # p
        BY <3>1, <4>1 DEF RemovePrompt, PointedAtFromOutside
      <4> QED BY <3>1, <3>2, <4>1, <4>2, <1>1, <1>3
    <3> QED BY <3>3, <3>4
  <2>2. ASSUME NEW q \in Prompt, NEW b \in Branch, heads'[<<q, b>>] # NoSha
        PROVE  q \in Live' /\ heads'[<<q, b>>] \in Stored'
    <3>1. q # p /\ heads'[<<q, b>>] = heads[<<q, b>>]
      BY <1>2, <2>2
    <3>2. q \in Live /\ heads[<<q, b>>] \in Stored
      BY <3>1, <2>2 DEF TablesInv, ReferencesResolve
    <3>3. versions[heads[<<q, b>>]].prompt # p
      BY <3>1, <3>2 DEF RemovePrompt, PointedAtFromOutside
    <3> QED BY <3>1, <3>2, <3>3, <1>1, <1>3
  <2>3. ASSUME NEW q \in Prompt, NEW t \in Tag, tags'[<<q, t>>] # NoSha
        PROVE  q \in Live' /\ tags'[<<q, t>>] \in Stored'
    <3>1. q # p /\ tags'[<<q, t>>] = tags[<<q, t>>]
      BY <1>2, <2>3
    <3>2. q \in Live /\ tags[<<q, t>>] \in Stored
      BY <3>1, <2>3 DEF TablesInv, ReferencesResolve
    <3>3. versions[tags[<<q, t>>]].prompt # p
      BY <3>1, <3>2 DEF RemovePrompt, PointedAtFromOutside
    <3> QED BY <3>1, <3>2, <3>3, <1>1, <1>3
  <2> QED BY <2>1, <2>2, <2>3 DEF ReferencesResolve
<1> QED BY <1>4, <1>5 DEF TablesInv

(* The rows of a new version and of the branch that now points at it.       *)
LEMMA InsertHeadInv ==
  ASSUME TablesInv,
         NEW v \in Sha', NEW p \in Prompt, NEW b \in Branch,
         p \in Live,
         commits' \in Seq(Commit), Sha \subseteq Sha',
         \A x \in Sha : commits'[x] = commits[x],
         commits'[v].parent \in Stored \cup {NoSha},
         InsertVersion(v, p, b), UpsertHead(p, b, v), UNCHANGED <<tags, prompts>>
  PROVE  TablesInv'
<1>1. /\ Stored' = Stored \cup {v}
      /\ versions' \in [Stored \cup {v} -> Row]
      /\ versions'[v] = [prompt |-> p, branch |-> b]
      /\ \A x \in Stored \ {v} : versions'[x] = versions[x]
  BY InsertVersionType DEF TablesInv
<1>2. Stored \subseteq Sha
  BY DEF TablesInv, TablesTypeOK, Stored
<1>3. TablesTypeOK'
  <2>1. heads' \in [Prompt \X Branch -> Sha' \cup {NoSha}]
    BY DEF TablesInv, TablesTypeOK, UpsertHead
  <2>2. tags' \in [Prompt \X Tag -> Sha' \cup {NoSha}]
    BY DEF TablesInv, TablesTypeOK
  <2>3. DOMAIN versions' \in SUBSET Sha' /\ versions' \in [DOMAIN versions' -> Row]
    BY <1>1, <1>2 DEF Stored
  <2> QED BY <2>1, <2>2, <2>3 DEF TablesInv, TablesTypeOK, NoSha, Row
<1>4. Live' = Live
  BY DEF Live
<1>5. ReferencesResolve'
  <2>1. ASSUME NEW x \in Stored'
        PROVE  versions'[x].prompt \in Live' /\ commits'[x].parent \in Stored' \cup {NoSha}
    <3>1. CASE x = v
      BY <3>1, <1>1, <1>4
    <3>2. CASE x # v
      BY <3>2, <1>1, <1>2, <1>4 DEF TablesInv, ReferencesResolve
    <3> QED BY <3>1, <3>2
  <2>2. ASSUME NEW q \in Prompt, NEW c \in Branch, heads'[<<q, c>>] # NoSha
        PROVE  q \in Live' /\ heads'[<<q, c>>] \in Stored'
    <3>1. heads'[<<q, c>>] = IF <<q, c>> = <<p, b>> THEN v ELSE heads[<<q, c>>]
      BY DEF UpsertHead, TablesInv, TablesTypeOK
    <3> QED BY <3>1, <2>2, <1>1, <1>4 DEF TablesInv, ReferencesResolve
  <2>3. ASSUME NEW q \in Prompt, NEW t \in Tag, tags'[<<q, t>>] # NoSha
        PROVE  q \in Live' /\ tags'[<<q, t>>] \in Stored'
    BY <2>3, <1>1, <1>4 DEF TablesInv, ReferencesResolve
  <2> QED BY <2>1, <2>2, <2>3 DEF ReferencesResolve
<1> QED BY <1>3, <1>5 DEF TablesInv

LEMMA InsertCommitInv ==
  ASSUME TablesInv, NEW p \in Prompt, NEW b \in Branch,
         NEW base \in Sha \cup {NoSha}, NEW t \in Nat,
         InsertCommit(p, b, base, t)
  PROVE  TablesInv'
<1> DEFINE v == Len(commits) + 1
<1>1. base \in Nat
  BY DEF Sha, NoSha
<1>a. commits' = Append(commits, [parent |-> base, created_at |-> t])
  BY DEF InsertCommit
<1>2. /\ commits' \in Seq(Commit)
      /\ Sha' = Sha \cup {v}
      /\ \A x \in Sha : commits'[x] = commits[x]
      /\ commits'[v] = [parent |-> base, created_at |-> t]
  BY <1>1, <1>a, AppendCommit DEF TablesInv
<1>3. /\ p \in Live /\ base \in Stored \cup {NoSha}
      /\ InsertVersion(v, p, b) /\ UpsertHead(p, b, v) /\ UNCHANGED <<tags, prompts>>
  BY DEF InsertCommit, Resolvable
<1> HIDE DEF v
<1> QED BY <1>2, <1>3, InsertHeadInv

LEMMA InsertImportInv ==
  ASSUME TablesInv, NEW p \in Prompt, NEW b \in Branch, NEW v \in Sha,
         InsertImport(p, b, v)
  PROVE  TablesInv'
<1>1. /\ p \in Live /\ commits[v].parent \in Stored \cup {NoSha}
      /\ commits' = commits
      /\ InsertVersion(v, p, b) /\ UpsertHead(p, b, v) /\ UNCHANGED <<tags, prompts>>
  BY DEF InsertImport, Resolvable
<1>2. Sha' = Sha /\ commits' \in Seq(Commit)
  BY <1>1 DEF Sha, TablesInv, TablesTypeOK
<1> QED BY <1>1, <1>2, InsertHeadInv

LEMMA ForeignCommitInv ==
  ASSUME TablesInv, NEW parent \in Nat, NEW t \in Nat, ForeignCommit(parent, t)
  PROVE  TablesInv'
<1>1. /\ commits' \in Seq(Commit)
      /\ Sha \subseteq Sha'
      /\ \A x \in Sha : commits'[x] = commits[x]
  BY AppendCommit DEF TablesInv, ForeignCommit
<1>2. Stored' = Stored /\ Live' = Live /\ Stored \subseteq Sha
  BY DEF ForeignCommit, Stored, Live, TablesInv, TablesTypeOK
<1>3. TablesTypeOK'
  BY <1>1 DEF TablesInv, TablesTypeOK, ForeignCommit, NoSha, Row
<1>4. ReferencesResolve'
  BY <1>1, <1>2 DEF TablesInv, ReferencesResolve, ForeignCommit
<1> QED BY <1>3, <1>4 DEF TablesInv

LEMMA PutTagInv ==
  ASSUME TablesInv, NEW p \in Prompt, NEW t \in Tag, NEW v, PutTag(p, t, v)
  PROVE  TablesInv'
<1>1. Stored' = Stored /\ Live' = Live /\ Sha' = Sha /\ Stored \subseteq Sha /\ v \in Stored
  BY DEF PutTag, Stored, Live, Sha, TablesInv, TablesTypeOK
<1>2. \A q \in Prompt, u \in Tag : tags'[<<q, u>>] = IF <<q, u>> = <<p, t>> THEN v ELSE tags[<<q, u>>]
  BY DEF PutTag, TablesInv, TablesTypeOK
<1>3. TablesTypeOK'
  BY <1>1 DEF TablesInv, TablesTypeOK, PutTag, NoSha, Row
<1>4. ReferencesResolve'
  BY <1>1, <1>2 DEF TablesInv, ReferencesResolve, PutTag
<1> QED BY <1>3, <1>4 DEF TablesInv

(* A branch that is created at, or moved to, a stored version.              *)
LEMMA UpsertHeadInv ==
  ASSUME TablesInv, NEW p \in Prompt, NEW b \in Branch, NEW v \in Stored,
         p \in Live, UpsertHead(p, b, v), UNCHANGED <<commits, versions, tags, prompts>>
  PROVE  TablesInv'
<1>1. Stored' = Stored /\ Live' = Live /\ Sha' = Sha /\ Stored \subseteq Sha
  BY DEF Stored, Live, Sha, TablesInv, TablesTypeOK
<1>2. \A q \in Prompt, c \in Branch : heads'[<<q, c>>] = IF <<q, c>> = <<p, b>> THEN v ELSE heads[<<q, c>>]
  BY DEF UpsertHead, TablesInv, TablesTypeOK
<1>3. TablesTypeOK'
  BY <1>1 DEF TablesInv, TablesTypeOK, UpsertHead, NoSha, Row
<1>4. ReferencesResolve'
  BY <1>1, <1>2 DEF TablesInv, ReferencesResolve
<1> QED BY <1>3, <1>4 DEF TablesInv

LEMMA PutBranchInv ==
  ASSUME TablesInv, NEW p \in Prompt, NEW b \in Branch, NEW v, PutBranch(p, b, v)
  PROVE  TablesInv'
BY UpsertHeadInv DEF PutBranch

LEMMA MoveBranchInv ==
  ASSUME TablesInv, NEW p \in Prompt, NEW b \in Branch, NEW v, MoveBranch(p, b, v)
  PROVE  TablesInv'
<1>1. CASE heads[<<p, b>>] = NoSha
  <2>1. UNCHANGED tables
    BY <1>1 DEF MoveBranch, UpdateHead, tables
  <2> QED BY <2>1 DEF tables, TablesInv, TablesTypeOK, ReferencesResolve, Sha, Stored, Live
<1>2. CASE heads[<<p, b>>] # NoSha
  <2>1. p \in Live /\ v \in Stored /\ UpsertHead(p, b, v)
    BY <1>2 DEF MoveBranch, UpdateHead, UpsertHead, TablesInv, ReferencesResolve
  <2> QED BY <2>1, UpsertHeadInv DEF MoveBranch
<1> QED BY <1>1, <1>2

-----------------------------------------------------------------------------
(* The sessions.  What a session has read stays a SHA while other sessions  *)
(* add commits, so each write step is one of the table operations above.    *)

Inv == TypeOK /\ ReferencesResolve

LEMMA RequestGrows ==
  ASSUME Sha \subseteq Sha'
  PROVE  Request \subseteq Request'
BY DEF Request, Idle, NoSha

LEMMA ReturnType ==
  ASSUME NEW s \in Session, req \in [Session -> Request], Sha \subseteq Sha', Return(s)
  PROVE  req' \in [Session -> Request']
BY RequestGrows DEF Return, Request

LEMMA TypeOfRequest ==
  ASSUME TypeOK, NEW s \in Session
  PROVE  /\ req[s].op = "commit_stamped" =>
              /\ req[s].prompt \in Prompt /\ req[s].branch \in Branch
              /\ req[s].created_at \in Nat
         /\ req[s].op = "commit_read" =>
              /\ req[s].prompt \in Prompt /\ req[s].branch \in Branch
              /\ req[s].created_at \in Nat /\ req[s].base \in Sha \cup {NoSha}
         /\ req[s].op \in {"import", "rollback", "merge_source"} =>
              /\ req[s].prompt \in Prompt /\ req[s].branch \in Branch
              /\ req[s].sha \in Sha
         /\ req[s].op = "merge_target" =>
              /\ req[s].prompt \in Prompt /\ req[s].branch \in Branch
              /\ req[s].sha \in Sha /\ req[s].base \in Sha \cup {NoSha}
<1>1. req[s] \in Request
  BY DEF TypeOK
<1> QED BY <1>1 DEF Request, Idle

(* A step that leaves the tables alone.                                     *)
LEMMA SameTablesInv ==
  ASSUME TablesInv, UNCHANGED tables
  PROVE  TablesInv' /\ Sha' = Sha
BY DEF tables, TablesInv, TablesTypeOK, ReferencesResolve, Sha, Stored, Live

LEMMA InitInv == Init => Inv
<1> SUFFICES ASSUME Init PROVE Inv
  OBVIOUS
<1>1. commits = <<>> /\ commits \in Seq(Commit)
  BY DEF Init, TablesInit
<1>2. TablesTypeOK
  BY <1>1 DEF Init, TablesInit, TablesTypeOK
<1>3. Stored = {}
  BY DEF Init, TablesInit, Stored
<1>4. ReferencesResolve
  BY <1>3 DEF Init, TablesInit, ReferencesResolve
<1>5. clock \in Nat /\ req \in [Session -> Request]
  BY DEF Init, Request
<1> QED BY <1>2, <1>4, <1>5 DEF Inv, TypeOK

(* One step per action; the rows come from the lemma of the table operation *)
(* and the request from what the session has read.                          *)
LEMMA NextInv == Inv /\ [Next]_vars => Inv'
<1> SUFFICES ASSUME Inv, [Next]_vars
             PROVE  Inv'
  OBVIOUS
<1> USE DEF TablesInv
<1>1. TypeOK /\ TablesInv /\ TablesTypeOK /\ ReferencesResolve
  BY DEF Inv, TypeOK
<1>2. clock \in Nat /\ req \in [Session -> Request]
  BY <1>1 DEF TypeOK
<1>3. ASSUME TablesInv', clock' \in Nat, req' \in [Session -> Request']
      PROVE  Inv'
  BY <1>3 DEF Inv, TypeOK
<1>4. ASSUME NEW s \in Session, NEW p \in Prompt, CreatePrompt(s, p)
      PROVE  Inv'
  <2>1. NewPrompt(p) /\ Sha' = Sha /\ UNCHANGED <<clock, req>>
    BY <1>4 DEF CreatePrompt, NewPrompt, Sha
  <2>2. TablesInv'
    BY <1>1, <2>1, NewPromptInv
  <2> QED BY <1>2, <1>3, <2>1, <2>2, RequestGrows
<1>5. ASSUME NEW s \in Session, NEW p \in Prompt, DeletePrompt(s, p)
      PROVE  Inv'
  <2>1. RemovePrompt(p) /\ Sha' = Sha /\ UNCHANGED <<clock, req>>
    BY <1>5 DEF DeletePrompt, RemovePrompt, Sha
  <2>2. TablesInv'
    BY <1>1, <2>1, RemovePromptInv
  <2> QED BY <1>2, <1>3, <2>1, <2>2, RequestGrows
<1>6. ASSUME NEW s \in Session, NEW p \in Prompt, NEW t \in Tag, NEW v \in Sha,
             CreateTag(s, p, t, v)
      PROVE  Inv'
  <2>1. PutTag(p, t, v) /\ Sha' = Sha /\ UNCHANGED <<clock, req>>
    BY <1>6 DEF CreateTag, PutTag, Sha
  <2>2. TablesInv'
    BY <1>1, <2>1, PutTagInv
  <2> QED BY <1>2, <1>3, <2>1, <2>2, RequestGrows
<1>7. ASSUME NEW s \in Session, NEW p \in Prompt, NEW b \in Branch, NEW v \in Sha,
             CreateBranch(s, p, b, v)
      PROVE  Inv'
  <2>1. PutBranch(p, b, v) /\ Sha' = Sha /\ UNCHANGED <<clock, req>>
    BY <1>7 DEF CreateBranch, PutBranch, Sha
  <2>2. TablesInv'
    BY <1>1, <2>1, PutBranchInv
  <2> QED BY <1>2, <1>3, <2>1, <2>2, RequestGrows
<1>8. ASSUME NEW s \in Session, NEW p \in Prompt, NEW b \in Branch, CommitStamp(s, p, b)
      PROVE  Inv'
  <2>1. TablesInv' /\ Sha' = Sha
    BY <1>1, <1>8, SameTablesInv DEF CommitStamp
  <2>2. clock' \in Nat /\ req' \in [Session -> Request]
    BY <1>2, <1>8 DEF CommitStamp, Begin, Request
  <2> QED BY <1>3, <2>1, <2>2, RequestGrows
<1>9. ASSUME NEW s \in Session, CommitRead(s)
      PROVE  Inv'
  <2>1. TablesInv' /\ Sha' = Sha /\ UNCHANGED clock
    BY <1>1, <1>9, SameTablesInv DEF CommitRead
  <2>2. /\ req[s].prompt \in Prompt /\ req[s].branch \in Branch
        /\ req[s].created_at \in Nat
        /\ heads[<<req[s].prompt, req[s].branch>>] \in Sha \cup {NoSha}
    BY <1>1, <1>9, TypeOfRequest DEF CommitRead, TablesTypeOK
  <2>3. req' \in [Session -> Request]
    BY <1>2, <1>9, <2>2 DEF CommitRead, Continue, Request
  <2> QED BY <1>2, <1>3, <2>1, <2>3, RequestGrows
<1>10. ASSUME NEW s \in Session, CommitWrite(s)
       PROVE  Inv'
  <2>1. /\ req[s].prompt \in Prompt /\ req[s].branch \in Branch
        /\ req[s].created_at \in Nat /\ req[s].base \in Sha \cup {NoSha}
        /\ InsertCommit(req[s].prompt, req[s].branch, req[s].base, req[s].created_at)
        /\ Return(s) /\ UNCHANGED clock
    BY <1>1, <1>10, TypeOfRequest DEF CommitWrite
  <2>2. TablesInv'
    BY <1>1, <2>1, InsertCommitInv
  <2>3. Sha \subseteq Sha'
    <3>1. req[s].base \in Nat
      BY <2>1 DEF Sha, NoSha
    <3>2. commits' = Append(commits, [parent |-> req[s].base, created_at |-> req[s].created_at])
      BY <2>1 DEF InsertCommit
    <3> QED BY <1>1, <2>1, <3>1, <3>2, AppendCommit
  <2> QED BY <1>2, <1>3, <2>1, <2>2, <2>3, ReturnType
<1>11. ASSUME NEW parent \in Sha \cup {NoSha}, CommitElsewhere(parent)
       PROVE  Inv'
  <2>1. /\ parent \in Nat /\ clock \in Nat /\ clock' \in Nat /\ UNCHANGED req
        /\ ForeignCommit(parent, clock)
    BY <1>2, <1>11 DEF CommitElsewhere, Sha, NoSha
  <2>2. TablesInv'
    BY <1>1, <2>1, ForeignCommitInv
  <2>3. Sha \subseteq Sha'
    BY <1>1, <2>1, AppendCommit DEF ForeignCommit
  <2> QED BY <1>2, <1>3, <2>1, <2>2, <2>3, RequestGrows
<1>12. ASSUME NEW s \in Session, NEW p \in Prompt, NEW b \in Branch, NEW v \in Sha,
              ImportCheck(s, p, b, v)
       PROVE  Inv'
  <2>1. TablesInv' /\ Sha' = Sha /\ UNCHANGED clock
    BY <1>1, <1>12, SameTablesInv DEF ImportCheck
  <2>2. req' \in [Session -> Request]
    BY <1>2, <1>12 DEF ImportCheck, Begin, Request
  <2> QED BY <1>2, <1>3, <2>1, <2>2, RequestGrows
<1>13. ASSUME NEW s \in Session, ImportWrite(s)
       PROVE  Inv'
  <2>1. /\ req[s].prompt \in Prompt /\ req[s].branch \in Branch /\ req[s].sha \in Sha
        /\ InsertImport(req[s].prompt, req[s].branch, req[s].sha)
        /\ Return(s) /\ UNCHANGED clock
    BY <1>1, <1>13, TypeOfRequest DEF ImportWrite
  <2>2. TablesInv'
    BY <1>1, <2>1, InsertImportInv
  <2>3. Sha' = Sha
    BY <2>1 DEF InsertImport, Sha
  <2> QED BY <1>2, <1>3, <2>1, <2>2, <2>3, ReturnType
<1>14. ASSUME NEW s \in Session, NEW p \in Prompt, NEW b \in Branch, NEW v \in Sha,
              RollbackResolve(s, p, b, v)
       PROVE  Inv'
  <2>1. TablesInv' /\ Sha' = Sha /\ UNCHANGED clock
    BY <1>1, <1>14, SameTablesInv DEF RollbackResolve
  <2>2. req' \in [Session -> Request]
    BY <1>2, <1>14 DEF RollbackResolve, Begin, Request
  <2> QED BY <1>2, <1>3, <2>1, <2>2, RequestGrows
<1>15. ASSUME NEW s \in Session, RollbackWrite(s)
       PROVE  Inv'
  <2>1. /\ req[s].prompt \in Prompt /\ req[s].branch \in Branch
        /\ MoveBranch(req[s].prompt, req[s].branch, req[s].sha)
        /\ Return(s) /\ UNCHANGED clock
    BY <1>1, <1>15, TypeOfRequest DEF RollbackWrite
  <2>2. TablesInv' /\ Sha' = Sha
    BY <1>1, <2>1, MoveBranchInv DEF MoveBranch, Sha
  <2> QED BY <1>2, <1>3, <2>1, <2>2, ReturnType
<1>16. ASSUME NEW s \in Session, NEW p \in Prompt, NEW from \in Branch, NEW into \in Branch,
              MergeReadSource(s, p, from, into)
       PROVE  Inv'
  <2>1. TablesInv' /\ Sha' = Sha /\ UNCHANGED clock
    BY <1>1, <1>16, SameTablesInv DEF MergeReadSource
  <2>2. heads[<<p, from>>] \in Sha
    BY <1>1, <1>16 DEF MergeReadSource, TablesTypeOK
  <2>3. req' \in [Session -> Request]
    BY <1>2, <1>16, <2>2 DEF MergeReadSource, Begin, Request
  <2> QED BY <1>2, <1>3, <2>1, <2>3, RequestGrows
<1>17. ASSUME NEW s \in Session, MergeReadTarget(s)
       PROVE  Inv'
  <2>1. TablesInv' /\ Sha' = Sha /\ UNCHANGED clock
    BY <1>1, <1>17, SameTablesInv DEF MergeReadTarget
  <2>2. /\ req[s].prompt \in Prompt /\ req[s].branch \in Branch /\ req[s].sha \in Sha
        /\ heads[<<req[s].prompt, req[s].branch>>] \in Sha \cup {NoSha}
    BY <1>1, <1>17, TypeOfRequest DEF MergeReadTarget, TablesTypeOK
  <2>3. req' \in [Session -> Request]
    BY <1>2, <1>17, <2>2 DEF MergeReadTarget, Continue, Return, Request
  <2> QED BY <1>2, <1>3, <2>1, <2>3, RequestGrows
<1>18. ASSUME NEW s \in Session, MergeWrite(s)
       PROVE  Inv'
  <2>1. /\ req[s].prompt \in Prompt /\ req[s].branch \in Branch
        /\ \/ PutBranch(req[s].prompt, req[s].branch, req[s].sha)
           \/ MoveBranch(req[s].prompt, req[s].branch, req[s].sha)
        /\ Return(s) /\ UNCHANGED clock
    BY <1>1, <1>18, TypeOfRequest DEF MergeWrite
  <2>2. TablesInv' /\ Sha' = Sha
    BY <1>1, <2>1, PutBranchInv, MoveBranchInv DEF PutBranch, MoveBranch, Sha
  <2> QED BY <1>2, <1>3, <2>1, <2>2, ReturnType
<1>19. ASSUME NEW s \in Session, Abandon(s)
       PROVE  Inv'
  <2>1. TablesInv' /\ Sha' = Sha /\ UNCHANGED clock /\ Return(s)
    BY <1>1, <1>19, SameTablesInv DEF Abandon
  <2> QED BY <1>2, <1>3, <2>1, ReturnType
<1>20. CASE UNCHANGED vars
  <2>1. TablesInv' /\ Sha' = Sha /\ UNCHANGED <<clock, req>>
    BY <1>1, <1>20, SameTablesInv DEF vars
  <2> QED BY <1>2, <1>3, <2>1, RequestGrows
<1> QED
  BY <1>4, <1>5, <1>6, <1>7, <1>8, <1>9, <1>10, <1>11, <1>12, <1>13, <1>14, <1>15,
     <1>16, <1>17, <1>18, <1>19, <1>20 DEF Next, Call, Resume

-----------------------------------------------------------------------------
(* The tables keep their types, whatever the sessions overlap.              *)
THEOREM TypeCorrect == Spec => []TypeOK
<1>1. Inv => TypeOK
  BY DEF Inv
<1> QED BY InitInv, NextInv, <1>1, PTL DEF Spec

(* No reachable row of the vault points at a missing row: commit, import,   *)
(* merge, rollback and delete_prompt may overlap in any order.              *)
THEOREM ReferencesAlwaysResolve == Spec => []ReferencesResolve
<1>1. Inv => ReferencesResolve
  BY DEF Inv
<1> QED BY InitInv, NextInv, <1>1, PTL DEF Spec

(* The stored versions are closed under parents, so everything below a head *)
(* or a tag is stored: merge() never walks off the end of a chain.          *)
THEOREM HistoryAlwaysComplete == Spec => []HistoryComplete
<1>1. Inv => HistoryComplete
  <2> SUFFICES ASSUME Inv, NEW v \in Sha, NEW x \in Sha,
                      \/ \E p \in Prompt, b \in Branch : heads[<<p, b>>] = v
                      \/ \E p \in Prompt, t \in Tag : tags[<<p, t>>] = v,
                      IsAncestor(x, v)
               PROVE  x \in Stored
    BY DEF HistoryComplete
  <2>1. v # NoSha /\ Stored \in SUBSET Sha
    <3>1. v # NoSha
      BY DEF Sha, NoSha
    <3>2. Stored \in SUBSET Sha
      BY DEF Inv, TypeOK, TablesTypeOK, Stored
    <3> QED BY <3>1, <3>2
  <2>2. v \in Stored
    <3>1. CASE \E p \in Prompt, b \in Branch : heads[<<p, b>>] = v
      <4>1. PICK p \in Prompt, b \in Branch : heads[<<p, b>>] = v
        BY <3>1
      <4> QED BY <2>1, <4>1 DEF Inv, ReferencesResolve
    <3>2. CASE \E p \in Prompt, t \in Tag : tags[<<p, t>>] = v
      <4>1. PICK p \in Prompt, t \in Tag : tags[<<p, t>>] = v
        BY <3>2
      <4> QED BY <2>1, <4>1 DEF Inv, ReferencesResolve
    <3> QED BY <3>1, <3>2
  <2>3. ParentClosed(Stored)
    BY DEF Inv, ReferencesResolve, ParentClosed
  <2> QED BY <2>1, <2>2, <2>3 DEF IsAncestor
<1> QED BY InitInv, NextInv, <1>1, PTL DEF Spec

-----------------------------------------------------------------------------
LEMMA SameVersionsKept ==
  ASSUME UNCHANGED versions
  PROVE  VersionsKept
BY DEF VersionsKept, Stored

LEMMA RemovePromptKeeps ==
  ASSUME TablesTypeOK, NEW p \in Prompt, RemovePrompt(p)
  PROVE  VersionsKept
<1>1. prompts'[p] = "deleted"
  BY DEF RemovePrompt, TablesTypeOK
<1>2. /\ Stored' = {v \in Stored : versions[v].prompt # p}
      /\ \A v \in Stored' : versions'[v] = versions[v]
  BY DEF RemovePrompt, Stored
<1> QED BY <1>1, <1>2 DEF VersionsKept

LEMMA InsertVersionKeeps ==
  ASSUME TablesTypeOK, NEW v, v \notin Stored, NEW p \in Prompt, NEW b \in Branch,
         InsertVersion(v, p, b)
  PROVE  VersionsKept
BY InsertVersionType DEF VersionsKept

(* A version is immutable: a commit or an import of any session leaves the  *)
(* rows of the others alone, and a row goes only with its prompt.           *)
THEOREM VersionsAlwaysImmutable == Spec => VersionsImmutable
<1>1. Inv /\ [Next]_vars => [VersionsKept]_vars
  <2> SUFFICES ASSUME Inv, [Next]_vars
               PROVE  VersionsKept
    OBVIOUS
  <2>1. TypeOK /\ TablesTypeOK /\ Stored \subseteq Sha
    BY DEF Inv, TypeOK, TablesTypeOK, Stored
  <2>2. ASSUME NEW s \in Session, NEW p \in Prompt, DeletePrompt(s, p)
        PROVE  VersionsKept
    BY <2>1, <2>2, RemovePromptKeeps DEF DeletePrompt
  <2>3. ASSUME NEW s \in Session, CommitWrite(s)
        PROVE  VersionsKept
    <3>1. /\ req[s].prompt \in Prompt /\ req[s].branch \in Branch
          /\ InsertVersion(Len(commits) + 1, req[s].prompt, req[s].branch)
      BY <2>1, <2>3, TypeOfRequest DEF CommitWrite, InsertCommit
    <3>2. Len(commits) + 1 \notin Stored
      <4>1. Len(commits) \in Nat
        BY <2>1 DEF TablesTypeOK
      <4> QED BY <2>1, <4>1 DEF Sha
    <3> QED BY <2>1, <3>1, <3>2, InsertVersionKeeps
  <2>4. ASSUME NEW s \in Session, ImportWrite(s)
        PROVE  VersionsKept
    <3>1. /\ req[s].prompt \in Prompt /\ req[s].branch \in Branch
          /\ InsertVersion(req[s].sha, req[s].prompt, req[s].branch)
          /\ req[s].sha \notin Stored
      BY <2>1, <2>4, TypeOfRequest DEF ImportWrite, InsertImport
    <3> QED BY <2>1, <3>1, InsertVersionKeeps
  <2>5. \/ \E s \in Session, p \in Prompt : DeletePrompt(s, p)
        \/ \E s \in Session : CommitWrite(s) \/ ImportWrite(s)
        \/ UNCHANGED versions
    BY DEF Next, Call, Resume, vars, tables, CreatePrompt, CreateTag, CreateBranch, CommitStamp, CommitRead,
           CommitElsewhere, ImportCheck, RollbackResolve, RollbackWrite, MergeReadSource,
           MergeReadTarget, MergeWrite, Abandon, NewPrompt, PutTag, PutBranch, MoveBranch,
           ForeignCommit
  <2> QED BY <2>2, <2>3, <2>4, <2>5, SameVersionsKept
<1> QED BY InitInv, NextInv, <1>1, PTL DEF Spec, VersionsImmutable

-----------------------------------------------------------------------------
(* No two sessions at work on one prompt: VersionStore implements           *)
(* AtomicVersionStore.  With two it does not: see the run stale_commit.     *)

(* A commit object names as parent one that was made before it, and was     *)
(* made before now.                                                         *)
MadeInOrder ==
  \A v \in Sha : /\ commits[v].parent \in Sha \cup {NoSha}
                 /\ commits[v].created_at < clock

(* What a session has read for request r is still so when it writes.        *)
Current(r) ==
  /\ r.op = "commit_stamped" =>
       /\ r.created_at \in 1..MaxClock /\ r.created_at < clock
       /\ heads[<<r.prompt, r.branch>>] # NoSha =>
            commits[heads[<<r.prompt, r.branch>>]].created_at < r.created_at
  /\ r.op = "commit_read" =>
       /\ r.created_at \in 1..MaxClock /\ r.created_at < clock
       /\ r.base = heads[<<r.prompt, r.branch>>]
       /\ r.base # NoSha => commits[r.base].created_at < r.created_at
  /\ r.op = "rollback" => r.prompt \in Live /\ r.sha \in RefTargets(r.prompt)
  /\ r.op \in {"merge_source", "merge_target"} =>
       /\ r.prompt \in Live
       /\ \E from \in Branch : heads[<<r.prompt, from>>] = r.sha
  /\ r.op = "merge_target" =>
       /\ r.base = heads[<<r.prompt, r.branch>>]
       /\ CanFastForward(r.base, r.sha)

ReadsCurrent == \A s \in Session : Current(req[s])

(* Callers keep apart, or there is one only.                                *)
Apart == Exclusive \/ \A s, t \in Session : s = t

(* A prompt has one session at work on it at most.                          *)
OneEach == \A s, t \in Session, p \in Prompt : Busy(s, p) /\ Busy(t, p) => s = t

ApartInv == Inv /\ clock \in Nat \ {0} /\ MadeInOrder /\ OneEach /\ ReadsCurrent

-----------------------------------------------------------------------------
(* Ancestry does not change when commit objects are added.                  *)
LEMMA AncestryKept ==
  ASSUME MadeInOrder, Sha \subseteq Sha', \A v \in Sha : commits'[v] = commits[v],
         NEW x, NEW v \in Sha, IsAncestor(x, v)
  PROVE  IsAncestor(x, v)'
<1> SUFFICES ASSUME NEW S \in SUBSET Sha', v \in S, ParentClosed(S)'
             PROVE  x \in S
  BY DEF IsAncestor
<1>1. ParentClosed(S \cap Sha)
  BY DEF ParentClosed, MadeInOrder
<1> QED BY <1>1 DEF IsAncestor

LEMMA CommitFields ==
  ASSUME TablesTypeOK, NEW v \in Sha
  PROVE  commits[v].parent \in Nat /\ commits[v].created_at \in Nat
<1>1. commits[v] \in Commit
  BY DEF TablesTypeOK, Sha
<1> QED BY <1>1 DEF Commit

(* A commit object made now on top of an older one keeps the order.         *)
LEMMA OrderKept ==
  ASSUME TablesTypeOK, MadeInOrder, clock \in Nat, clock' \in Nat, clock <= clock',
         NEW parent \in Sha \cup {NoSha}, NEW t \in Nat, t < clock',
         commits' = Append(commits, [parent |-> parent, created_at |-> t])
  PROVE  MadeInOrder'
<1>1. parent \in Nat
  BY DEF Sha, NoSha
<1>2. /\ Sha' = Sha \cup {Len(commits) + 1}
      /\ \A v \in Sha : commits'[v] = commits[v]
      /\ commits'[Len(commits) + 1] = [parent |-> parent, created_at |-> t]
  BY <1>1, AppendCommit
<1>3. ASSUME NEW v \in Sha
      PROVE  commits'[v].parent \in Sha' \cup {NoSha} /\ commits'[v].created_at < clock'
  <2>1. /\ commits[v].parent \in Sha \cup {NoSha} /\ commits[v].created_at < clock
        /\ commits'[v] = commits[v]
    BY <1>2 DEF MadeInOrder
  <2>2. commits[v].created_at \in Nat
    BY CommitFields
  <2>3. commits[v].created_at < clock'
    BY <2>1, <2>2
  <2> QED BY <1>2, <2>1, <2>3 DEF NoSha
<1>4. commits'[Len(commits) + 1].parent = parent /\ commits'[Len(commits) + 1].created_at = t
  BY <1>2
<1>5. parent \in Sha' \cup {NoSha}
  BY <1>2
<1> QED BY <1>2, <1>3, <1>4, <1>5 DEF MadeInOrder, NoSha

LEMMA ApartInit == Init => ApartInv
<1> SUFFICES ASSUME Init PROVE ApartInv
  OBVIOUS
<1>1. Sha = {}
  BY DEF Init, TablesInit, Sha
<1>2. ReadsCurrent /\ OneEach
  BY DEF Init, ReadsCurrent, Current, Idle, OneEach, Busy
<1> QED BY <1>1, <1>2, InitInv DEF Init, ApartInv, MadeInOrder

-----------------------------------------------------------------------------
(* What a step on one prompt leaves to those at work on the others.         *)

(* The branches of q stay, and so does whatever its refs can resolve to.    *)
Keeps(q) ==
  /\ \A b \in Branch : heads'[<<q, b>>] = heads[<<q, b>>]
  /\ q \in Live => q \in Live'
  /\ RefTargets(q) \subseteq RefTargets(q)'

(* Commit objects are added and none changes; time goes on.                 *)
ObjectsKept ==
  /\ Sha \subseteq Sha' /\ \A v \in Sha : commits'[v] = commits[v]
  /\ clock' \in Nat /\ clock <= clock'

LEMMA NewPromptKeeps ==
  ASSUME TablesTypeOK, NEW p \in Prompt, NewPrompt(p), NEW q \in Prompt
  PROVE  Keeps(q)
<1>1. RefTargets(q)' = RefTargets(q)
  BY DEF NewPrompt, RefTargets, Stored
<1> QED BY <1>1 DEF Keeps, NewPrompt, TablesTypeOK, Live

(* delete_prompt fails when something of another prompt points at what it   *)
(* takes away.                                                              *)
LEMMA RemovePromptLeaves ==
  ASSUME TablesTypeOK, ReferencesResolve, NEW p \in Prompt, RemovePrompt(p),
         NEW q \in Prompt, q # p
  PROVE  Keeps(q)
<1>1. \A b \in Branch : heads'[<<q, b>>] = heads[<<q, b>>]
  BY DEF RemovePrompt
<1>2. \A t \in Tag : tags'[<<q, t>>] = tags[<<q, t>>]
  BY DEF RemovePrompt
<1>3. q \in Live => q \in Live'
  BY DEF RemovePrompt, Live, TablesTypeOK
<1>4. ASSUME NEW v \in RefTargets(q)
      PROVE  v \in RefTargets(q)'
  <2>1. v \in Stored
    BY <1>4 DEF RefTargets
  <2>2. versions[v].prompt # p
    BY <1>4, <2>1 DEF RefTargets, RemovePrompt, PointedAtFromOutside
  <2>3. v \in Stored' /\ versions'[v] = versions[v]
    BY <2>1, <2>2 DEF RemovePrompt, Stored
  <2> QED BY <1>1, <1>2, <1>4, <2>3 DEF RefTargets
<1> QED BY <1>1, <1>3, <1>4 DEF Keeps

LEMMA InsertVersionLeaves ==
  ASSUME NEW p \in Prompt, NEW b \in Branch, NEW v, v \notin Stored, InsertVersion(v, p, b),
         UpsertHead(p, b, v), UNCHANGED <<tags, prompts>>, TablesTypeOK,
         NEW q \in Prompt, q # p
  PROVE  Keeps(q)
<1>1. \A c \in Branch : heads'[<<q, c>>] = heads[<<q, c>>]
  BY DEF UpsertHead, TablesTypeOK
<1>2. q \in Live => q \in Live'
  BY DEF Live
<1>3. \A x \in Stored : x \in Stored' /\ versions'[x] = versions[x]
  BY DEF InsertVersion, Stored
<1>4. RefTargets(q) \subseteq RefTargets(q)'
  BY <1>1, <1>3 DEF RefTargets
<1> QED BY <1>1, <1>2, <1>4 DEF Keeps

LEMMA MoveLeaves ==
  ASSUME TablesTypeOK, NEW p \in Prompt, NEW q \in Prompt, q # p,
         \/ \E t \in Tag, v \in Sha : PutTag(p, t, v)
         \/ \E b \in Branch, v \in Sha : PutBranch(p, b, v) \/ MoveBranch(p, b, v)
  PROVE  Keeps(q)
<1>1. UNCHANGED <<commits, versions, prompts>>
  BY DEF PutTag, PutBranch, MoveBranch
<1>2. \A c \in Branch : heads'[<<q, c>>] = heads[<<q, c>>]
  BY DEF PutTag, PutBranch, MoveBranch, UpsertHead, UpdateHead, TablesTypeOK
<1>3. \A c \in Tag : tags'[<<q, c>>] = tags[<<q, c>>]
  BY DEF PutTag, PutBranch, MoveBranch, TablesTypeOK
<1> QED BY <1>1, <1>2, <1>3 DEF Keeps, RefTargets, Live, Stored

LEMMA NothingMovedKeeps ==
  ASSUME UNCHANGED <<versions, heads, tags, prompts>>, NEW q \in Prompt
  PROVE  Keeps(q)
BY DEF Keeps, RefTargets, Live, Stored

(* A request for a prompt that a step leaves alone stays current.           *)
LEMMA StaysCurrent ==
  ASSUME TypeOK, MadeInOrder, ReferencesResolve', clock \in Nat,
         NEW r \in Request, Current(r), ObjectsKept, r # Idle => Keeps(r.prompt)
  PROVE  Current(r)'
<1>1. CASE r = Idle
  BY <1>1 DEF Current, Idle
<1>2. CASE r.op = "commit_stamped"
  <2> DEFINE h == heads[<<r.prompt, r.branch>>]
  <2>1. /\ r.created_at \in 1..MaxClock /\ r.created_at < clock
        /\ h # NoSha => commits[h].created_at < r.created_at
    BY <1>2 DEF Current
  <2>2. r.prompt \in Prompt /\ r.branch \in Branch /\ r # Idle
    BY <1>2 DEF Request, Idle
  <2>3. h \in Sha \cup {NoSha} /\ heads'[<<r.prompt, r.branch>>] = h
    BY <2>2 DEF Keeps, TypeOK, TablesTypeOK
  <2>4. h # NoSha => commits'[h] = commits[h]
    BY <2>3 DEF ObjectsKept
  <2>5. r.created_at < clock'
    BY <2>1, BoundsAssumption DEF ObjectsKept
  <2> QED BY <1>2, <2>1, <2>3, <2>4, <2>5 DEF Current, NoSha
<1>3. CASE r.op = "commit_read"
  <2>1. /\ r.created_at \in 1..MaxClock /\ r.created_at < clock
        /\ r.base = heads[<<r.prompt, r.branch>>]
        /\ r.base # NoSha => commits[r.base].created_at < r.created_at
    BY <1>3 DEF Current
  <2>2. r.branch \in Branch /\ r.base \in Sha \cup {NoSha} /\ r # Idle
    BY <1>3 DEF Request, Idle
  <2>3. heads'[<<r.prompt, r.branch>>] = r.base
    BY <2>1, <2>2 DEF Keeps
  <2>4. r.base # NoSha => commits'[r.base] = commits[r.base]
    BY <2>2 DEF ObjectsKept
  <2>5. r.created_at < clock'
    BY <2>1, BoundsAssumption DEF ObjectsKept
  <2> QED BY <1>3, <2>1, <2>3, <2>4, <2>5 DEF Current, NoSha
<1>4. CASE r.op = "import"
  BY <1>4 DEF Current
<1>5. CASE r.op = "rollback"
  <2>1. r # Idle
    BY <1>5 DEF Idle
  <2> QED BY <1>5, <2>1 DEF Current, Keeps
<1>6. CASE r.op \in {"merge_source", "merge_target"}
  <2>1. r.prompt \in Prompt /\ r.branch \in Branch /\ r.sha \in Sha /\ r # Idle
    BY <1>6 DEF Request, Idle
  <2>2. PICK from \in Branch : heads[<<r.prompt, from>>] = r.sha
    BY <1>6 DEF Current
  <2>3. heads'[<<r.prompt, from>>] = r.sha /\ r.prompt \in Live'
    BY <1>6, <2>1, <2>2 DEF Current, Keeps
  <2>4. r.sha \in Stored'
    BY <2>1, <2>3 DEF ReferencesResolve, Sha, NoSha
  <2>5. ASSUME r.op = "merge_target"
        PROVE  /\ r.base = heads'[<<r.prompt, r.branch>>]
               /\ CanFastForward(r.base, r.sha)'
    <3>1. r.base = heads[<<r.prompt, r.branch>>] /\ CanFastForward(r.base, r.sha)
      BY <2>5 DEF Current
    <3>2. r.base = heads'[<<r.prompt, r.branch>>]
      BY <2>1, <3>1 DEF Keeps
    <3>3. CASE r.base = NoSha
      BY <3>2, <3>3 DEF CanFastForward, NoSha
    <3>4. CASE r.base # NoSha
      <4>1. r.base # r.sha /\ IsAncestor(r.base, r.sha)
        BY <3>1, <3>4 DEF CanFastForward
      <4>2. IsAncestor(r.base, r.sha)'
        BY <2>1, <4>1, AncestryKept DEF ObjectsKept
      <4> QED BY <2>4, <3>2, <4>1, <4>2 DEF CanFastForward
    <3> QED BY <3>3, <3>4
  <2> QED BY <1>6, <2>3, <2>5 DEF Current
<1> QED BY <1>1, <1>2, <1>3, <1>4, <1>5, <1>6 DEF Request

(* A session s that has prompt p to itself takes a step there.              *)
LEMMA StepApart ==
  ASSUME ApartInv, Inv', NEW s \in Session, NEW p \in Prompt,
         \A t \in Session \ {s} : ~Busy(t, p),
         \A t \in Session \ {s} : req'[t] = req[t],
         \A q \in Prompt \ {p} : Keeps(q),
         ObjectsKept, MadeInOrder', clock' \in Nat \ {0},
         req'[s] = Idle \/ req'[s].prompt = p,
         Current(req[s])'
  PROVE  ApartInv'
<1>1. /\ TypeOK /\ MadeInOrder /\ OneEach /\ ReadsCurrent /\ clock \in Nat
      /\ req \in [Session -> Request] /\ ReferencesResolve'
  BY DEF ApartInv, Inv, TypeOK
<1>2. ASSUME NEW t \in Session \ {s}
      PROVE  Current(req[t])'
  <2>1. req[t] \in Request /\ Current(req[t]) /\ req'[t] = req[t]
    BY <1>1 DEF ReadsCurrent
  <2>2. req[t] # Idle => req[t].prompt \in Prompt \ {p}
    BY <2>1 DEF Busy, Request
  <2>3. \A r \in Request : r = req[t] => Current(r)'
    BY <1>1, <2>1, <2>2, StaysCurrent
  <2>4. PICK r \in Request : r = req[t]
    BY <2>1
  <2>5. Current(r)' /\ req'[t] = r
    BY <2>1, <2>3, <2>4
  <2> QED BY <2>5 DEF Current
<1>3. ReadsCurrent'
  BY <1>2 DEF ReadsCurrent
<1>4. OneEach'
  <2> SUFFICES ASSUME NEW t \in Session, NEW u \in Session, NEW q \in Prompt,
                      Busy(t, q)', Busy(u, q)'
               PROVE  t = u
    BY DEF OneEach
  <2>1. t # s => Busy(t, q)
    BY DEF Busy
  <2>2. u # s => Busy(u, q)
    BY DEF Busy
  <2>3. t = s \/ u = s => q = p
    BY DEF Busy
  <2> QED BY <1>1, <2>1, <2>2, <2>3 DEF OneEach
<1> QED BY <1>3, <1>4 DEF ApartInv

(* The same for a step that has no more to read and makes no commit object. *)
LEMMA QuietStep ==
  ASSUME ApartInv, Inv', NEW s \in Session, NEW p \in Prompt,
         \A t \in Session \ {s} : ~Busy(t, p),
         \A t \in Session \ {s} : req'[t] = req[t],
         \A q \in Prompt \ {p} : Keeps(q),
         UNCHANGED <<commits, clock>>,
         req'[s] = Idle \/ req'[s].prompt = p,
         Current(req[s])'
  PROVE  ApartInv'
<1>1. MadeInOrder' /\ ObjectsKept /\ clock' \in Nat \ {0}
  BY DEF ApartInv, MadeInOrder, ObjectsKept, Sha
<1> QED BY <1>1, StepApart

LEMMA IdleIsCurrent ==
  ASSUME NEW s \in Session, req'[s] = Idle
  PROVE  Current(req[s])'
BY DEF Current, Idle

(* A session that resumes has had the prompt to itself since it began.      *)
LEMMA ResumesAlone ==
  ASSUME ApartInv, NEW s \in Session, req[s] # Idle
  PROVE  /\ req[s].prompt \in Prompt
         /\ \A t \in Session \ {s} : ~Busy(t, req[s].prompt)
<1>1. req[s] \in Request
  BY DEF ApartInv, Inv, TypeOK
<1>2. req[s].prompt \in Prompt
  BY <1>1 DEF Request
<1>3. Busy(s, req[s].prompt)
  BY DEF Busy
<1> QED BY <1>2, <1>3 DEF ApartInv, OneEach

(* A call on a prompt nobody else is at work on.                            *)
LEMMA CallApart ==
  ASSUME Apart, ApartInv, Inv', NEW s \in Session, NEW p \in Prompt, Call(s, p)
  PROVE  ApartInv'
<1>1. /\ TypeOK /\ TablesTypeOK /\ ReferencesResolve /\ MadeInOrder
      /\ req \in [Session -> Request] /\ clock \in Nat \ {0}
  BY DEF ApartInv, Inv, TypeOK
<1>2. Ready(s, p)
  BY DEF Call, CreatePrompt, DeletePrompt, CreateTag, CreateBranch, CommitStamp, ImportCheck,
         RollbackResolve, MergeReadSource, Begin
<1>3. \A t \in Session \ {s} : ~Busy(t, p)
  BY <1>2 DEF Ready, Apart
<1>4. CASE \/ CreatePrompt(s, p) \/ DeletePrompt(s, p)
           \/ \E t \in Tag, v \in Sha : CreateTag(s, p, t, v)
           \/ \E b \in Branch, v \in Sha : CreateBranch(s, p, b, v)
  <2>1. req'[s] = Idle /\ UNCHANGED <<commits, clock, req>>
    BY <1>4, <1>2 DEF Ready, CreatePrompt, DeletePrompt, CreateTag, CreateBranch, NewPrompt,
                RemovePrompt, PutTag, PutBranch
  <2>2. ASSUME NEW q \in Prompt \ {p}
        PROVE  Keeps(q)
    <3>1. CASE CreatePrompt(s, p)
      BY <1>1, <3>1, NewPromptKeeps DEF CreatePrompt
    <3>2. CASE DeletePrompt(s, p)
      BY <1>1, <3>2, RemovePromptLeaves DEF DeletePrompt
    <3>3. CASE \/ \E t \in Tag, v \in Sha : CreateTag(s, p, t, v)
               \/ \E b \in Branch, v \in Sha : CreateBranch(s, p, b, v)
      BY <1>1, <3>3, MoveLeaves DEF CreateTag, CreateBranch
    <3> QED BY <1>4, <3>1, <3>2, <3>3
  <2>3. Current(req[s])'
    BY <2>1, IdleIsCurrent
  <2> QED BY <1>3, <2>1, <2>2, <2>3, QuietStep
<1>5. ASSUME NEW b \in Branch, CommitStamp(s, p, b)
      PROVE  ApartInv'
  <2>1. /\ UNCHANGED tables /\ clock' = clock + 1 /\ clock \in 1..MaxClock
        /\ req' = [req EXCEPT ![s] = req'[s]]
        /\ req'[s] = [op |-> "commit_stamped", prompt |-> p, branch |-> b, created_at |-> clock]
    BY <1>1, <1>5, BoundsAssumption DEF CommitStamp, Begin
  <2>2. Sha' = Sha /\ UNCHANGED <<commits, versions, heads, tags, prompts>>
    BY <2>1 DEF tables, Sha
  <2>3. \A v \in Sha : commits[v].created_at < clock /\ commits[v].created_at < clock + 1
    BY <1>1, CommitFields DEF MadeInOrder
  <2>4. MadeInOrder' /\ ObjectsKept /\ clock' \in Nat \ {0}
    BY <1>1, <2>1, <2>2, <2>3 DEF MadeInOrder, ObjectsKept
  <2>5. heads[<<p, b>>] \in Sha \cup {NoSha}
    BY <1>1 DEF TablesTypeOK
  <2>6. Current(req[s])'
    BY <1>1, <2>1, <2>2, <2>3, <2>5 DEF Current, NoSha
  <2>7. \A q \in Prompt : Keeps(q)
    BY <2>2, NothingMovedKeeps
  <2>8. req'[s].prompt = p /\ \A t \in Session \ {s} : req'[t] = req[t]
    BY <1>1, <2>1
  <2> QED BY <1>3, <2>4, <2>6, <2>7, <2>8, StepApart
<1>6. ASSUME UNCHANGED <<tables, clock>>,
             NEW r, Begin(s, r), r.prompt = p, Current(r)'
      PROVE  ApartInv'
  <2>1. UNCHANGED <<commits, versions, heads, tags, prompts, clock>>
    BY <1>6 DEF tables
  <2>2. req'[s] = r /\ \A t \in Session \ {s} : req'[t] = req[t]
    BY <1>1, <1>6 DEF Begin
  <2>3. Current(req[s])'
    BY <1>6, <2>2 DEF Current
  <2>4. \A q \in Prompt : Keeps(q)
    BY <2>1, NothingMovedKeeps
  <2> QED BY <1>6, <1>3, <2>1, <2>2, <2>3, <2>4, QuietStep
<1>7. ASSUME NEW b \in Branch, NEW v \in Sha, ImportCheck(s, p, b, v)
      PROVE  ApartInv'
  <2> DEFINE r == [op |-> "import", prompt |-> p, branch |-> b, sha |-> v]
  <2>1. Begin(s, r) /\ UNCHANGED <<tables, clock>>
    BY <1>7 DEF ImportCheck
  <2>2. Current(r)' /\ r.prompt = p
    BY DEF Current
  <2> HIDE DEF r
  <2> QED BY <1>6, <2>1, <2>2
<1>8. ASSUME NEW b \in Branch, NEW v \in Sha, RollbackResolve(s, p, b, v)
      PROVE  ApartInv'
  <2> DEFINE r == [op |-> "rollback", prompt |-> p, branch |-> b, sha |-> v]
  <2>1. Begin(s, r) /\ UNCHANGED <<tables, clock>> /\ p \in Live /\ v \in RefTargets(p)
    BY <1>8 DEF RollbackResolve
  <2>2. Live' = Live /\ RefTargets(p)' = RefTargets(p)
    BY <2>1 DEF tables, Live, RefTargets, Stored
  <2>3. Current(r)' /\ r.prompt = p
    BY <2>1, <2>2 DEF Current
  <2> HIDE DEF r
  <2> QED BY <1>6, <2>1, <2>3
<1>9. ASSUME NEW from \in Branch, NEW into \in Branch, MergeReadSource(s, p, from, into)
      PROVE  ApartInv'
  <2> DEFINE r == [op |-> "merge_source", prompt |-> p, branch |-> into,
                   sha |-> heads[<<p, from>>]]
  <2>1. Begin(s, r) /\ UNCHANGED <<tables, clock>> /\ p \in Live
    BY <1>9 DEF MergeReadSource
  <2>2. PICK x : x = r
    OBVIOUS
  <2>3. x.op = "merge_source" /\ x.prompt = p /\ heads[<<p, from>>] = x.sha /\ Begin(s, x)
    BY <2>1, <2>2
  <2>4. Current(x)'
    BY <2>1, <2>3 DEF Current, tables, Live
  <2> QED BY <1>6, <2>1, <2>3, <2>4
<1> QED BY <1>4, <1>5, <1>7, <1>8, <1>9, <1>1 DEF Call

(* A session that goes on with its operation.                               *)
LEMMA ResumeApart ==
  ASSUME ApartInv, Inv', NEW s \in Session, Resume(s)
  PROVE  ApartInv'
<1>1. /\ TypeOK /\ TablesTypeOK /\ ReferencesResolve /\ MadeInOrder /\ ReadsCurrent
      /\ req \in [Session -> Request] /\ clock \in Nat \ {0} /\ Current(req[s])
  BY DEF ApartInv, Inv, TypeOK, ReadsCurrent
<1>2. PICK r : r = req[s]
  OBVIOUS
<1>3. r # Idle
  BY <1>2 DEF Resume, CommitRead, CommitWrite, ImportWrite, RollbackWrite, MergeReadTarget,
              MergeWrite, Abandon, Idle
<1>4. r.prompt \in Prompt /\ \A t \in Session \ {s} : ~Busy(t, r.prompt)
  BY <1>2, <1>3, ResumesAlone
<1>5. ASSUME UNCHANGED <<tables, clock>>, NEW x, Continue(s, x),
             x = Idle \/ x.prompt = r.prompt, Current(x)'
      PROVE  ApartInv'
  <2>1. UNCHANGED <<commits, versions, heads, tags, prompts, clock>>
    BY <1>5 DEF tables
  <2>2. req'[s] = x /\ \A t \in Session \ {s} : req'[t] = req[t]
    BY <1>1, <1>5 DEF Continue
  <2>3. Current(req[s])'
    BY <1>5, <2>2 DEF Current
  <2>4. \A q \in Prompt : Keeps(q)
    BY <2>1, NothingMovedKeeps
  <2> QED BY <1>4, <1>5, <2>1, <2>2, <2>3, <2>4, QuietStep
<1>6. CASE Return(s)
  <2>1. req'[s] = Idle /\ \A t \in Session \ {s} : req'[t] = req[t]
    BY <1>1, <1>6 DEF Return
  <2>2. Current(req[s])'
    BY <2>1, IdleIsCurrent
  <2>3. CASE UNCHANGED <<tables, clock>>
    BY <1>5, <1>6, <2>1, <2>2, <2>3, Zenon DEF Return, Continue
  <2>4. CASE CommitWrite(s)
    <3>1. /\ UNCHANGED clock /\ InsertCommit(r.prompt, r.branch, r.base, r.created_at)
          /\ commits' = Append(commits, [parent |-> r.base, created_at |-> r.created_at])
      BY <1>2, <2>4 DEF CommitWrite, InsertCommit
    <3>2. /\ r.base \in Sha \cup {NoSha} /\ r.created_at \in Nat /\ r.created_at < clock
          /\ r.branch \in Branch
      BY <1>1, <1>2, <2>4, TypeOfRequest DEF CommitWrite, Current
    <3>3. MadeInOrder'
      BY <1>1, <3>1, <3>2, OrderKept
    <3>4. r.base \in Nat
      BY <3>2 DEF Sha, NoSha
    <3>5. ObjectsKept /\ Len(commits) + 1 \notin Stored
      <4>1. /\ Sha' = Sha \cup {Len(commits) + 1} /\ Len(commits) + 1 \notin Sha
            /\ \A v \in Sha : commits'[v] = commits[v]
        BY <1>1, <3>1, <3>2, <3>4, AppendCommit
      <4>2. clock' \in Nat /\ clock <= clock'
        BY <1>1, <3>1
      <4>3. ObjectsKept
        BY <4>1, <4>2 DEF ObjectsKept
      <4> QED BY <1>1, <4>1, <4>3 DEF Stored, TablesTypeOK
    <3>6. /\ InsertVersion(Len(commits) + 1, r.prompt, r.branch)
          /\ UpsertHead(r.prompt, r.branch, Len(commits) + 1) /\ UNCHANGED <<tags, prompts>>
      BY <3>1 DEF InsertCommit
    <3>7. \A q \in Prompt \ {r.prompt} : Keeps(q)
      BY <1>1, <1>4, <3>2, <3>5, <3>6, InsertVersionLeaves
    <3> QED BY <1>1, <1>4, <2>1, <2>2, <3>1, <3>3, <3>5, <3>7, StepApart
  <2>5. CASE ImportWrite(s)
    <3>1. /\ InsertImport(r.prompt, r.branch, r.sha) /\ UNCHANGED <<commits, clock>>
          /\ r.branch \in Branch
      BY <1>1, <1>2, <2>5, TypeOfRequest DEF ImportWrite, InsertImport
    <3>2. \A q \in Prompt \ {r.prompt} : Keeps(q)
      BY <1>1, <1>4, <3>1, InsertVersionLeaves DEF InsertImport
    <3> QED BY <1>4, <2>1, <2>2, <3>1, <3>2, QuietStep
  <2>6. CASE RollbackWrite(s) \/ MergeWrite(s)
    <3>1. /\ \/ MoveBranch(r.prompt, r.branch, r.sha)
             \/ PutBranch(r.prompt, r.branch, r.sha)
          /\ r.branch \in Branch /\ r.sha \in Sha /\ UNCHANGED clock
      BY <1>1, <1>2, <2>6, TypeOfRequest DEF RollbackWrite, MergeWrite
    <3>2. \A q \in Prompt \ {r.prompt} : Keeps(q)
      BY <1>1, <1>4, <3>1, MoveLeaves
    <3>3. UNCHANGED commits
      BY <3>1 DEF MoveBranch, PutBranch
    <3> QED BY <1>4, <2>1, <2>2, <3>1, <3>2, <3>3, QuietStep
  <2> QED BY <2>3, <2>4, <2>5, <2>6
          DEF Resume, Abandon, CommitRead, MergeReadTarget
<1>7. CASE CommitRead(s)
  <2> DEFINE base == heads[<<r.prompt, r.branch>>]
  <2>1. PICK x : x = [op |-> "commit_read", prompt |-> r.prompt, branch |-> r.branch,
                      created_at |-> r.created_at, base |-> base]
    OBVIOUS
  <2>2. /\ UNCHANGED <<tables, clock>> /\ Continue(s, x) /\ r.op = "commit_stamped"
    BY <1>2, <1>7, <2>1 DEF CommitRead
  <2>3. /\ r.created_at \in 1..MaxClock /\ r.created_at < clock
        /\ base # NoSha => commits[base].created_at < r.created_at
    BY <1>1, <1>2, <2>2 DEF Current
  <2>4. /\ x.op = "commit_read" /\ x.prompt = r.prompt /\ x.branch = r.branch
        /\ x.created_at = r.created_at /\ x.base = base
    BY <2>1
  <2>5. UNCHANGED <<commits, heads, clock>>
    BY <2>2 DEF tables
  <2>6. Current(x)'
    BY <2>3, <2>4, <2>5 DEF Current, NoSha
  <2> QED BY <1>5, <2>2, <2>4, <2>6
<1>8. CASE MergeReadTarget(s) /\ ~Return(s)
  <2> DEFINE base == heads[<<r.prompt, r.branch>>]
  <2>1. PICK x : x = [op |-> "merge_target", prompt |-> r.prompt, branch |-> r.branch,
                      sha |-> r.sha, base |-> base]
    OBVIOUS
  <2>2. /\ UNCHANGED <<tables, clock>> /\ Continue(s, x) /\ r.op = "merge_source"
        /\ CanFastForward(base, r.sha)
    BY <1>2, <1>8, <2>1 DEF MergeReadTarget
  <2>3. r.prompt \in Live /\ \E from \in Branch : heads[<<r.prompt, from>>] = r.sha
    BY <1>1, <1>2, <2>2 DEF Current
  <2>4. /\ x.op = "merge_target" /\ x.prompt = r.prompt /\ x.branch = r.branch
        /\ x.sha = r.sha /\ x.base = base
    BY <2>1
  <2>5. Live' = Live /\ Stored' = Stored /\ Sha' = Sha /\ heads' = heads /\ commits' = commits
    BY <2>2 DEF tables, Live, Stored, Sha
  <2>6. CanFastForward(x.base, x.sha)'
    BY <2>2, <2>4, <2>5 DEF CanFastForward, IsAncestor, ParentClosed, NoSha
  <2>7. Current(x)'
    BY <2>3, <2>4, <2>5, <2>6 DEF Current
  <2> QED BY <1>5, <2>2, <2>4, <2>7
<1> QED BY <1>6, <1>7, <1>8
        DEF Resume, CommitWrite, ImportWrite, RollbackWrite, MergeWrite, Abandon

LEMMA ApartStep ==
  ASSUME Apart, ApartInv, [Next]_vars
  PROVE  ApartInv'
<1>1. /\ Inv /\ TypeOK /\ TablesTypeOK /\ MadeInOrder /\ ReadsCurrent /\ OneEach
      /\ req \in [Session -> Request] /\ clock \in Nat \ {0}
  BY DEF ApartInv, Inv, TypeOK
<1>2. Inv'
  BY <1>1, NextInv
<1>3. ASSUME UNCHANGED req, \A q \in Prompt : Keeps(q), ObjectsKept
      PROVE  ReadsCurrent' /\ OneEach'
  <2>1. ASSUME NEW t \in Session
        PROVE  Current(req[t])'
    <3>1. PICK r \in Request : r = req[t]
      BY <1>1
    <3>2. Current(r) /\ (r # Idle => Keeps(r.prompt))
      BY <1>1, <1>3, <3>1 DEF ReadsCurrent, Request
    <3>3. Current(r)'
      BY <1>1, <1>2, <1>3, <3>1, <3>2, StaysCurrent DEF Inv
    <3> QED BY <1>3, <3>1, <3>3 DEF Current
  <2> QED BY <1>1, <1>3, <2>1 DEF ReadsCurrent, OneEach, Busy
<1>4. ASSUME NEW parent \in Sha \cup {NoSha}, CommitElsewhere(parent)
      PROVE  ApartInv'
  <2>1. /\ UNCHANGED <<versions, heads, tags, prompts, req>> /\ clock' = clock + 1
        /\ commits' = Append(commits, [parent |-> parent, created_at |-> clock])
    BY <1>4 DEF CommitElsewhere, ForeignCommit
  <2>2. parent \in Nat
    BY DEF Sha, NoSha
  <2>3. Sha' = Sha \cup {Len(commits) + 1} /\ \A v \in Sha : commits'[v] = commits[v]
    BY <1>1, <2>1, <2>2, AppendCommit
  <2>6. ObjectsKept
    <3>1. clock' \in Nat /\ clock <= clock'
      BY <1>1, <2>1
    <3> QED BY <2>3, <3>1 DEF ObjectsKept
  <2>4. MadeInOrder'
    BY <1>1, <2>1, OrderKept
  <2>5. \A q \in Prompt : Keeps(q)
    BY <2>1, NothingMovedKeeps
  <2> QED BY <1>1, <1>2, <1>3, <2>1, <2>4, <2>5, <2>6 DEF ApartInv
<1>5. CASE UNCHANGED vars
  <2>1. UNCHANGED <<commits, versions, heads, tags, prompts, clock, req>> /\ Sha' = Sha
    BY <1>5 DEF vars, tables, Sha
  <2>2. ObjectsKept /\ MadeInOrder'
    BY <1>1, <2>1 DEF ObjectsKept, MadeInOrder
  <2>3. \A q \in Prompt : Keeps(q)
    BY <2>1, NothingMovedKeeps
  <2> QED BY <1>1, <1>2, <1>3, <2>1, <2>2, <2>3 DEF ApartInv
<1> QED BY <1>2, <1>4, <1>5, CallApart, ResumeApart DEF Next

-----------------------------------------------------------------------------
(* Both specifications take their operations from VersionTables.            *)
LEMMA SameReads ==
  /\ Atomic!tables = tables /\ Atomic!NoSha = NoSha /\ Atomic!Sha = Sha
  /\ Atomic!Stored = Stored /\ Atomic!Live = Live
  /\ \A v : Atomic!Resolvable(v) <=> Resolvable(v)
  /\ \A p : Atomic!RefTargets(p) = RefTargets(p)
  /\ \A p : Atomic!PointedAtFromOutside(p) <=> PointedAtFromOutside(p)
  /\ \A x, v : Atomic!CanFastForward(x, v) <=> CanFastForward(x, v)
<1>1. Atomic!tables = tables /\ Atomic!NoSha = NoSha /\ Atomic!Sha = Sha
  BY DEF Atomic!tables, tables, Atomic!NoSha, NoSha, Atomic!Sha, Sha
<1>2. Atomic!Stored = Stored /\ Atomic!Live = Live
  BY DEF Atomic!Stored, Stored, Atomic!Live, Live
<1>3. \A v : Atomic!Resolvable(v) <=> Resolvable(v)
  BY <1>1, <1>2 DEF Atomic!Resolvable, Resolvable
<1>4. \A p : Atomic!RefTargets(p) = RefTargets(p)
  BY <1>2 DEF Atomic!RefTargets, RefTargets
<1>5. \A p : Atomic!PointedAtFromOutside(p) <=> PointedAtFromOutside(p)
  BY <1>2 DEF Atomic!PointedAtFromOutside, PointedAtFromOutside
<1>6. \A x, v : Atomic!IsAncestor(x, v) <=> IsAncestor(x, v)
  BY <1>1 DEF Atomic!IsAncestor, IsAncestor, Atomic!ParentClosed, ParentClosed
<1>7. \A x, v : Atomic!CanFastForward(x, v) <=> CanFastForward(x, v)
  BY <1>1, <1>2, <1>6 DEF Atomic!CanFastForward, CanFastForward
<1> QED BY <1>1, <1>2, <1>3, <1>4, <1>5, <1>7

LEMMA SameWrites ==
  /\ \A p : Atomic!NewPrompt(p) <=> NewPrompt(p)
  /\ \A p : Atomic!RemovePrompt(p) <=> RemovePrompt(p)
  /\ \A p, b, v, t : Atomic!InsertCommit(p, b, v, t) <=> InsertCommit(p, b, v, t)
  /\ \A v, t : Atomic!ForeignCommit(v, t) <=> ForeignCommit(v, t)
  /\ \A p, b, v : Atomic!InsertImport(p, b, v) <=> InsertImport(p, b, v)
  /\ \A p, t, v : Atomic!PutTag(p, t, v) <=> PutTag(p, t, v)
  /\ \A p, b, v : Atomic!PutBranch(p, b, v) <=> PutBranch(p, b, v)
  /\ \A p, b, v : Atomic!MoveBranch(p, b, v) <=> MoveBranch(p, b, v)
<1>1. \A v, p, b : Atomic!InsertVersion(v, p, b) <=> InsertVersion(v, p, b)
  BY SameReads DEF Atomic!InsertVersion, InsertVersion
<1>2. \A p, b, v : Atomic!UpsertHead(p, b, v) <=> UpsertHead(p, b, v)
  BY DEF Atomic!UpsertHead, UpsertHead
<1>3. \A p, b, v : Atomic!UpdateHead(p, b, v) <=> UpdateHead(p, b, v)
  BY SameReads DEF Atomic!UpdateHead, UpdateHead
<1>4. \A p : Atomic!NewPrompt(p) <=> NewPrompt(p)
  BY DEF Atomic!NewPrompt, NewPrompt
<1>5. \A p : Atomic!RemovePrompt(p) <=> RemovePrompt(p)
  BY SameReads DEF Atomic!RemovePrompt, RemovePrompt
<1>6. \A p, b, v, t : Atomic!InsertCommit(p, b, v, t) <=> InsertCommit(p, b, v, t)
  BY SameReads, <1>1, <1>2 DEF Atomic!InsertCommit, InsertCommit
<1>7. \A v, t : Atomic!ForeignCommit(v, t) <=> ForeignCommit(v, t)
  BY DEF Atomic!ForeignCommit, ForeignCommit
<1>8. \A p, b, v : Atomic!InsertImport(p, b, v) <=> InsertImport(p, b, v)
  BY SameReads, <1>1, <1>2 DEF Atomic!InsertImport, InsertImport
<1>9. \A p, t, v : Atomic!PutTag(p, t, v) <=> PutTag(p, t, v)
  BY SameReads DEF Atomic!PutTag, PutTag
<1>10. \A p, b, v : Atomic!PutBranch(p, b, v) <=> PutBranch(p, b, v)
  BY SameReads, <1>2 DEF Atomic!PutBranch, PutBranch
<1>11. \A p, b, v : Atomic!MoveBranch(p, b, v) <=> MoveBranch(p, b, v)
  BY SameReads, <1>3 DEF Atomic!MoveBranch, MoveBranch
<1> QED BY <1>4, <1>5, <1>6, <1>7, <1>8, <1>9, <1>10, <1>11

-----------------------------------------------------------------------------
(* The write steps are the operations of AtomicVersionStore, done with      *)
(* arguments that are still current; the other steps change no table.       *)
LEMMA StepSimulation ==
  ASSUME ApartInv, [Next]_vars
  PROVE  [Atomic!Next]_(Atomic!tables)
<1> USE SameReads, SameWrites
<1>1. TypeOK /\ MadeInOrder /\ ReadsCurrent /\ clock \in Nat \ {0}
  BY DEF ApartInv, Inv
<1>2. ASSUME NEW s \in Session, NEW p \in Prompt,
             \/ CreatePrompt(s, p) \/ DeletePrompt(s, p)
             \/ \E t \in Tag, v \in Sha : CreateTag(s, p, t, v)
             \/ \E b \in Branch, v \in Sha : CreateBranch(s, p, b, v)
      PROVE  Atomic!Next
  BY <1>2 DEF CreatePrompt, DeletePrompt, CreateTag, CreateBranch, Atomic!Next
<1>3. ASSUME NEW s \in Session, NEW p \in Prompt,
             \/ \E b \in Branch : CommitStamp(s, p, b)
             \/ \E b \in Branch, v \in Sha : ImportCheck(s, p, b, v)
             \/ \E b \in Branch, v \in Sha : RollbackResolve(s, p, b, v)
             \/ \E from, into \in Branch : MergeReadSource(s, p, from, into)
      PROVE  UNCHANGED tables
  BY <1>3 DEF CommitStamp, ImportCheck, RollbackResolve, MergeReadSource
<1>4. ASSUME NEW s \in Session, CommitRead(s) \/ MergeReadTarget(s) \/ Abandon(s)
      PROVE  UNCHANGED tables
  BY <1>4 DEF CommitRead, MergeReadTarget, Abandon
<1>5. ASSUME NEW s \in Session, CommitWrite(s)
      PROVE  Atomic!Next
  <2> DEFINE r == req[s]
  <2>1. r.prompt \in Prompt /\ r.branch \in Branch /\ r.created_at \in 1..MaxClock
    BY <1>1, <1>5, TypeOfRequest DEF CommitWrite, ReadsCurrent, Current
  <2>2. /\ r.base = heads[<<r.prompt, r.branch>>]
        /\ r.base # NoSha => commits[r.base].created_at < r.created_at
    BY <1>1, <1>5 DEF CommitWrite, ReadsCurrent, Current
  <2>3. InsertCommit(r.prompt, r.branch, heads[<<r.prompt, r.branch>>], r.created_at)
    BY <1>5, <2>2 DEF CommitWrite
  <2>4. Atomic!CommitOn(r.prompt, r.branch, r.created_at)
    BY <2>2, <2>3 DEF Atomic!CommitOn, Atomic!Younger
  <2> QED BY <2>1, <2>4 DEF Atomic!Next, Atomic!Time
<1>6. ASSUME NEW s \in Session, ImportWrite(s)
      PROVE  Atomic!Next
  <2>1. /\ req[s].prompt \in Prompt /\ req[s].branch \in Branch /\ req[s].sha \in Sha
        /\ InsertImport(req[s].prompt, req[s].branch, req[s].sha)
    BY <1>1, <1>6, TypeOfRequest DEF ImportWrite
  <2> QED BY <2>1 DEF Atomic!Next
<1>7. ASSUME NEW s \in Session, RollbackWrite(s)
      PROVE  Atomic!Next
  <2>1. /\ req[s].prompt \in Prompt /\ req[s].branch \in Branch /\ req[s].sha \in Sha
        /\ MoveBranch(req[s].prompt, req[s].branch, req[s].sha)
        /\ req[s].prompt \in Live /\ req[s].sha \in RefTargets(req[s].prompt)
    BY <1>1, <1>7, TypeOfRequest DEF RollbackWrite, ReadsCurrent, Current
  <2>2. Atomic!Rollback(req[s].prompt, req[s].branch, req[s].sha)
    BY <2>1 DEF Atomic!Rollback
  <2> QED BY <2>1, <2>2 DEF Atomic!Next
<1>8. ASSUME NEW s \in Session, MergeWrite(s)
      PROVE  Atomic!Next
  <2> DEFINE r == req[s]
  <2>1. r.prompt \in Prompt /\ r.branch \in Branch /\ r.sha \in Sha
    BY <1>1, <1>8, TypeOfRequest DEF MergeWrite
  <2>2. /\ r.prompt \in Live
        /\ r.base = heads[<<r.prompt, r.branch>>] /\ CanFastForward(r.base, r.sha)
    BY <1>1, <1>8 DEF MergeWrite, ReadsCurrent, Current
  <2>3. PICK from \in Branch : heads[<<r.prompt, from>>] = r.sha
    BY <1>1, <1>8 DEF MergeWrite, ReadsCurrent, Current
  <2>4. PutBranch(r.prompt, r.branch, r.sha)
    <3>1. CASE r.base = NoSha
      BY <1>8, <3>1 DEF MergeWrite
    <3>2. CASE r.base # NoSha
      BY <1>8, <2>2, <3>2 DEF MergeWrite, MoveBranch, PutBranch, UpdateHead, UpsertHead
    <3> QED BY <3>1, <3>2
  <2>5. r.sha # NoSha
    BY <2>1 DEF Sha, NoSha
  <2>6. Atomic!Merge(r.prompt, from, r.branch)
    BY <2>2, <2>3, <2>4, <2>5 DEF Atomic!Merge
  <2> QED BY <2>1, <2>6 DEF Atomic!Next
<1>9. ASSUME NEW parent \in Sha \cup {NoSha}, CommitElsewhere(parent)
      PROVE  Atomic!Next
  <2>1. clock \in 1..MaxClock /\ ForeignCommit(parent, clock)
    BY <1>1, <1>9, BoundsAssumption DEF CommitElsewhere
  <2>2. parent # NoSha => commits[parent].created_at < clock
    BY <1>1 DEF MadeInOrder
  <2>3. Atomic!CommitElsewhere(parent, clock)
    BY <2>1, <2>2 DEF Atomic!CommitElsewhere, Atomic!Younger
  <2> QED BY <2>1, <2>3 DEF Atomic!Next, Atomic!Time
<1>10. UNCHANGED vars => UNCHANGED tables
  BY DEF vars
<1>11. Next => Atomic!Next \/ UNCHANGED tables
  BY <1>2, <1>3, <1>4, <1>5, <1>6, <1>7, <1>8, <1>9 DEF Next, Call, Resume
<1>12. UNCHANGED tables => UNCHANGED Atomic!tables
  BY DEF tables, Atomic!tables
<1>13. Atomic!Next \/ UNCHANGED Atomic!tables
  BY <1>10, <1>11, <1>12
<1> QED BY <1>13

(* Sessions that keep to prompts of their own implement AtomicVersionStore: *)
(* the read and write steps of commit(), import_version(), rollback() and   *)
(* merge() add up to the whole operation, whatever others do meanwhile to   *)
(* other prompts, for any number of sessions, prompts, branches and tags.   *)
THEOREM SessionsApartAreAtomic ==
  ASSUME Apart
  PROVE  Spec => AtomicSpec
<1>1. Init => Atomic!TablesInit
  BY DEF Init, TablesInit, Atomic!TablesInit, NoSha, Atomic!NoSha
<1>2. ApartInv /\ [Next]_vars => ApartInv'
  BY ApartStep
<1>3. ApartInv /\ [Next]_vars => [Atomic!Next]_(Atomic!tables)
  BY StepSimulation
<1> QED
  BY <1>1, <1>2, <1>3, ApartInit, PTL DEF Spec, AtomicSpec, Atomic!Spec

-----------------------------------------------------------------------------
(* Sessions apart: every commit object, stored or not, is younger than its  *)
(* parent.  ParentsOlder speaks of the stored ones, which is not enough     *)
(* for the step that imports one.                                           *)
AllParentsOlder ==
  \A v \in Sha :
    commits[v].parent # NoSha => commits[commits[v].parent].created_at < commits[v].created_at

LEMMA YoungerKept ==
  ASSUME TablesTypeOK, MadeInOrder, AllParentsOlder,
         NEW parent \in Sha \cup {NoSha}, NEW t \in Nat,
         parent # NoSha => commits[parent].created_at < t,
         commits' = Append(commits, [parent |-> parent, created_at |-> t])
  PROVE  AllParentsOlder'
<1>1. parent \in Nat
  BY DEF Sha, NoSha
<1>2. /\ Sha' = Sha \cup {Len(commits) + 1}
      /\ \A v \in Sha : commits'[v] = commits[v]
      /\ commits'[Len(commits) + 1] = [parent |-> parent, created_at |-> t]
  BY <1>1, AppendCommit
<1>3. ASSUME NEW v \in Sha, commits'[v].parent # NoSha
      PROVE  commits'[commits'[v].parent].created_at < commits'[v].created_at
  <2>1. commits'[v] = commits[v] /\ commits[v].parent \in Sha
    BY <1>2, <1>3 DEF MadeInOrder
  <2> QED BY <1>2, <1>3, <2>1 DEF AllParentsOlder
<1>4. commits'[Len(commits) + 1].parent = parent /\ commits'[Len(commits) + 1].created_at = t
  BY <1>2
<1>5. parent # NoSha => commits'[parent].created_at < t
  BY <1>2
<1> QED BY <1>2, <1>3, <1>4, <1>5 DEF AllParentsOlder, NoSha

LEMMA OlderNext == ApartInv /\ AllParentsOlder /\ [Next]_vars => AllParentsOlder'
<1> SUFFICES ASSUME ApartInv, AllParentsOlder, [Next]_vars
             PROVE  AllParentsOlder'
  OBVIOUS
<1>1. TypeOK /\ TablesTypeOK /\ MadeInOrder /\ ReadsCurrent /\ clock \in Nat \ {0}
  BY DEF ApartInv, Inv, TypeOK
<1>2. ASSUME UNCHANGED commits PROVE AllParentsOlder'
  BY <1>2 DEF AllParentsOlder, Sha, NoSha
<1>3. ASSUME NEW s \in Session, CommitWrite(s) PROVE AllParentsOlder'
  <2>1. commits' = Append(commits, [parent |-> req[s].base, created_at |-> req[s].created_at])
    BY <1>3 DEF CommitWrite, InsertCommit
  <2>2. /\ req[s].base \in Sha \cup {NoSha} /\ req[s].created_at \in Nat
        /\ req[s].base # NoSha => commits[req[s].base].created_at < req[s].created_at
    BY <1>1, <1>3, TypeOfRequest DEF CommitWrite, ReadsCurrent, Current
  <2> QED BY <1>1, <2>1, <2>2, YoungerKept
<1>4. ASSUME NEW parent \in Sha \cup {NoSha}, CommitElsewhere(parent) PROVE AllParentsOlder'
  <2>1. commits' = Append(commits, [parent |-> parent, created_at |-> clock])
    BY <1>4 DEF CommitElsewhere, ForeignCommit
  <2>2. parent # NoSha => commits[parent].created_at < clock
    BY <1>1 DEF MadeInOrder
  <2> QED BY <1>1, <2>1, <2>2, YoungerKept
<1>5. ASSUME NEW s \in Session, NEW p \in Prompt,
             \/ CreatePrompt(s, p) \/ DeletePrompt(s, p)
             \/ \E t \in Tag, v \in Sha : CreateTag(s, p, t, v)
             \/ \E b \in Branch, v \in Sha : CreateBranch(s, p, b, v)
             \/ \E b \in Branch : CommitStamp(s, p, b)
             \/ \E b \in Branch, v \in Sha : ImportCheck(s, p, b, v)
             \/ \E b \in Branch, v \in Sha : RollbackResolve(s, p, b, v)
             \/ \E from, into \in Branch : MergeReadSource(s, p, from, into)
      PROVE  UNCHANGED commits
  BY <1>5 DEF CreatePrompt, DeletePrompt, CreateTag, CreateBranch, NewPrompt, RemovePrompt, PutTag,
              PutBranch, CommitStamp, ImportCheck, RollbackResolve, MergeReadSource, tables
<1>6. ASSUME NEW s \in Session,
             \/ CommitRead(s) \/ ImportWrite(s) \/ RollbackWrite(s)
             \/ MergeReadTarget(s) \/ MergeWrite(s) \/ Abandon(s)
      PROVE  UNCHANGED commits
  BY <1>6 DEF CommitRead, ImportWrite, RollbackWrite, MergeReadTarget, MergeWrite, Abandon,
              InsertImport, MoveBranch, PutBranch, tables
<1>7. UNCHANGED vars => UNCHANGED commits
  BY DEF vars, tables
<1> QED BY <1>2, <1>3, <1>4, <1>5, <1>6, <1>7 DEF Next, Call, Resume

(* While no two sessions are at work on one prompt, a stored version is     *)
(* younger than its parent: an export ordered by created_at sends parents   *)
(* first (shim.py 876).                                                     *)
THEOREM SessionsApartParentsOlder ==
  ASSUME Apart
  PROVE  Spec => []ParentsOlder
<1>1. Init => AllParentsOlder
  BY DEF Init, TablesInit, AllParentsOlder, Sha
<1>2. ApartInv /\ [Next]_vars => ApartInv'
  BY ApartStep
<1>3. ApartInv /\ AllParentsOlder => ParentsOlder
  BY DEF ApartInv, Inv, TypeOK, TablesTypeOK, Stored, AllParentsOlder, ParentsOlder
<1> QED BY <1>1, <1>2, <1>3, ApartInit, OlderNext, PTL DEF Spec

(* While no two sessions are at work on one prompt, a commit is put on top  *)
(* of the head it replaces.                                                 *)
THEOREM SessionsApartCommitAppends ==
  ASSUME Apart
  PROVE  Spec => CommitAppends
<1>1. ASSUME ApartInv, NEW s \in Session, CommitWrite(s)
      PROVE  LET old == heads[<<req[s].prompt, req[s].branch>>]
                 new == heads'[<<req[s].prompt, req[s].branch>>]
             IN commits'[new].parent = old
  <2> DEFINE r == req[s]
             v == Len(commits) + 1
  <2>1. /\ r.prompt \in Prompt /\ r.branch \in Branch
        /\ r.base \in Sha \cup {NoSha} /\ r.created_at \in Nat
    BY <1>1, TypeOfRequest DEF CommitWrite, ApartInv, Inv
  <2>2. r.base = heads[<<r.prompt, r.branch>>]
    BY <1>1 DEF CommitWrite, ApartInv, ReadsCurrent, Current
  <2>3. r.base \in Nat /\ TablesTypeOK
    BY <1>1, <2>1 DEF Sha, NoSha, ApartInv, Inv, TypeOK
  <2>4. /\ commits' = Append(commits, [parent |-> r.base, created_at |-> r.created_at])
        /\ heads' = [heads EXCEPT ![<<r.prompt, r.branch>>] = v]
    BY <1>1 DEF CommitWrite, InsertCommit, UpsertHead
  <2>5. commits'[v] = [parent |-> r.base, created_at |-> r.created_at]
    BY <2>1, <2>3, <2>4, AppendCommit
  <2>6. heads'[<<r.prompt, r.branch>>] = v
    BY <2>1, <2>3, <2>4 DEF TablesTypeOK
  <2> QED BY <2>2, <2>5, <2>6
<1>2. ApartInv /\ [Next]_vars => ApartInv'
  BY ApartStep
<1>3. ApartInv => [AppendsToHead]_vars
  BY <1>1 DEF AppendsToHead
<1> QED BY <1>2, <1>3, ApartInit, PTL DEF Spec, CommitAppends

(* While no two sessions are at work on one prompt, a merge only ever moves *)
(* a branch forward.                                                        *)
THEOREM SessionsApartMergeFastForwards ==
  ASSUME Apart
  PROVE  Spec => MergeFastForwards
<1>1. ASSUME ApartInv, NEW s \in Session, MergeWrite(s)
      PROVE  LET old == heads[<<req[s].prompt, req[s].branch>>]
                 new == heads'[<<req[s].prompt, req[s].branch>>]
             IN old # NoSha => IsAncestor(old, new)
  <2> DEFINE r == req[s]
  <2>1. r.prompt \in Prompt /\ r.branch \in Branch /\ TablesTypeOK
    BY <1>1, TypeOfRequest DEF MergeWrite, ApartInv, Inv, TypeOK
  <2>2. r.base = heads[<<r.prompt, r.branch>>] /\ CanFastForward(r.base, r.sha)
    BY <1>1 DEF MergeWrite, ApartInv, ReadsCurrent, Current
  <2>3. r.base # NoSha => heads'[<<r.prompt, r.branch>>] = r.sha
    BY <1>1, <2>1, <2>2 DEF MergeWrite, MoveBranch, UpdateHead, TablesTypeOK
  <2> QED BY <2>2, <2>3 DEF CanFastForward
<1>2. ApartInv /\ [Next]_vars => ApartInv'
  BY ApartStep
<1>3. ApartInv => [MovesForward]_vars
  BY <1>1 DEF MovesForward
<1> QED BY <1>2, <1>3, ApartInit, PTL DEF Spec, MergeFastForwards
=============================================================================
