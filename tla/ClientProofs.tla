------------------------------ MODULE ClientProofs ------------------------------
(***************************************************************************)
(* What push, pull and install promise when they report no trouble, for    *)
(* any number of versions, branches, tags, commands and POSTs that come    *)
(* late.                                                                   *)
(***************************************************************************)
EXTENDS Client, TLAPS

(* The rows of neither vault point at a missing one.                        *)
Complete == Local!ReferencesResolve /\ Remote!ReferencesResolve

Put(tagTable, t) == tagTable[<<Slug, t>>] # 0

(* What a push has listed is on the remote or still to be sent, from the    *)
(* step on at which it has compared the two.                                *)
PushOnItsWay ==
  cmd.op = "push" =>
    /\ cmd.step = "versions" => cmd.rows \subseteq Remote!Stored \cup cmd.left
    /\ cmd.step = "tags" =>
         /\ cmd.rows \subseteq Remote!Stored
         /\ \A x \in cmd.tags : Put(rtags, x[1]) \/ x \in cmd.due

(* The same of the versions of a pull; a tag that it cannot store it skips. *)
PullOnItsWay ==
  cmd.op = "pull" /\ cmd.step # "list" =>
    cmd.rows \subseteq Local!Stored \cup cmd.left

(* An install that has had nothing to warn of has stored what it has been   *)
(* through.                                                                 *)
InstallOnItsWay ==
  cmd.op = "install" /\ cmd.quiet => \A e \in lock : e.sha \in Local!Stored \/ e \in cmd.left

(* The report of a command stays true.                                      *)
PushReported ==
  done.op = "push" => done.shas \subseteq Remote!Stored /\ \A t \in done.tags : Put(rtags, t)
PullReported ==
  done.op = "pull" => done.shas \subseteq Local!Stored
InstallReported ==
  done.op = "install" => done.shas \subseteq Local!Stored

(* Every tag a POST is about, to be sent or on its way, has been seen       *)
(* missing on the remote.                                                   *)
DueSeenAbsent ==
  cmd.op = "push" /\ cmd.step = "tags" => \A x \in cmd.due : x[1] \in seenAbsent
LateSeenAbsent == \A post \in late : post.kind = "tag" => post.tag \in seenAbsent

Inv ==
  /\ TypeOK /\ Complete
  /\ PushOnItsWay /\ PullOnItsWay /\ InstallOnItsWay
  /\ PushReported /\ PullReported /\ InstallReported
  /\ DueSeenAbsent /\ LateSeenAbsent

Command == {Idle} \cup Transfer \cup Locking \cup Installing

(* Commit objects are only ever added.                                      *)
CommitsGrow ==
  /\ commits' \in Seq(Local!Commit)
  /\ Sha \subseteq Sha'
  /\ \A v \in Sha : commits'[v] = commits[v]

-----------------------------------------------------------------------------
(* What the operations of the local vault leave of its tables: types, rows  *)
(* that resolve, everything that was stored, every tag name.                *)

LocalGrows ==
  /\ Local!TablesTypeOK' /\ Local!ReferencesResolve'
  /\ Local!Stored \subseteq Local!Stored'
  /\ \A t \in Tag : Put(ltags, t) => Put(ltags', t)

LEMMA LocalRests ==
  ASSUME Local!TablesTypeOK, Local!ReferencesResolve, CommitsGrow, UNCHANGED local
  PROVE  LocalGrows
<1>1. Local!TablesTypeOK'
  BY DEF CommitsGrow, Local!TablesTypeOK, Local!Sha, Local!NoSha, Local!Commit,
         Local!Row, local, Sha
<1>2. Local!ReferencesResolve'
  BY DEF CommitsGrow, Local!TablesTypeOK, Local!ReferencesResolve, Local!Sha, Local!NoSha,
         Local!Stored, Local!Live, local, Sha
<1> QED BY <1>1, <1>2 DEF LocalGrows, local, Local!Stored, Put

LEMMA LocalCreates ==
  ASSUME Local!TablesTypeOK, Local!ReferencesResolve, Local!NewPrompt(Slug)
  PROVE  LocalGrows
<1>1. lprompts' \in [{Slug} -> {"absent", "live", "deleted"}] /\ Local!Live \subseteq Local!Live'
  BY DEF Local!TablesTypeOK, Local!NewPrompt, Local!Live
<1>2. Local!TablesTypeOK'
  BY <1>1 DEF Local!TablesTypeOK, Local!NewPrompt, Local!Sha
<1>3. Local!ReferencesResolve'
  BY <1>1 DEF Local!ReferencesResolve, Local!NewPrompt, Local!Stored
<1> QED BY <1>2, <1>3 DEF LocalGrows, Local!NewPrompt, Local!Stored, Put

LEMMA LocalImports ==
  ASSUME Local!TablesTypeOK, Local!ReferencesResolve,
         NEW b \in Branch, NEW v \in Sha, Local!InsertImport(Slug, b, v)
  PROVE  LocalGrows /\ v \in Local!Stored'
<1>1. /\ Local!Stored' = Local!Stored \cup {v}
      /\ lversions' \in [Local!Stored \cup {v} -> Local!Row]
      /\ lversions'[v] = [prompt |-> Slug, branch |-> b]
      /\ \A x \in Local!Stored : lversions'[x] = lversions[x]
  BY DEF Local!InsertImport, Local!InsertVersion, Local!Stored, Local!Row, Local!TablesTypeOK
<1>2. lheads' \in [{Slug} \X Branch -> Local!Sha \cup {0}]
      /\ lheads'[<<Slug, b>>] = v
      /\ \A a \in Branch \ {b} : lheads'[<<Slug, a>>] = lheads[<<Slug, a>>]
  BY DEF Local!InsertImport, Local!UpsertHead, Local!TablesTypeOK, Local!Sha, Local!NoSha, Sha
<1>3. UNCHANGED <<commits, ltags, lprompts>> /\ Slug \in Local!Live /\ Local!Live' = Local!Live
      /\ commits[v].parent \in Local!Stored \cup {0}
  BY DEF Local!InsertImport, Local!Live, Local!Resolvable, Local!NoSha
<1>4. Local!TablesTypeOK'
  <2>1. DOMAIN lversions' \in SUBSET Local!Sha /\ lversions' \in [DOMAIN lversions' -> Local!Row]
    BY <1>1 DEF Local!TablesTypeOK, Local!Stored, Local!Sha, Sha
  <2> QED BY <1>2, <1>3, <2>1 DEF Local!TablesTypeOK, Local!Sha, Local!NoSha, Local!Row
<1>5. Local!ReferencesResolve'
  <2>1. \A x \in Local!Stored' : /\ lversions'[x].prompt \in Local!Live'
                               /\ commits'[x].parent \in Local!Stored' \cup {0}
    BY <1>1, <1>3 DEF Local!ReferencesResolve, Local!NoSha
  <2>2. \A a \in Branch : lheads'[<<Slug, a>>] # 0 =>
          Slug \in Local!Live' /\ lheads'[<<Slug, a>>] \in Local!Stored'
    BY <1>1, <1>2, <1>3 DEF Local!ReferencesResolve, Local!NoSha
  <2>3. \A t \in Tag : ltags'[<<Slug, t>>] # 0 =>
          Slug \in Local!Live' /\ ltags'[<<Slug, t>>] \in Local!Stored'
    BY <1>1, <1>3 DEF Local!ReferencesResolve, Local!NoSha
  <2> QED BY <2>1, <2>2, <2>3 DEF Local!ReferencesResolve, Local!NoSha
<1> QED BY <1>1, <1>3, <1>4, <1>5 DEF LocalGrows, Put

LEMMA LocalCommits ==
  ASSUME Local!TablesTypeOK, Local!ReferencesResolve,
         NEW b \in Branch, NEW t \in 1..MaxClock,
         Local!InsertCommit(Slug, b, lheads[<<Slug, b>>], t)
  PROVE  CommitsGrow /\ LocalGrows
<1> DEFINE base == lheads[<<Slug, b>>]
<1>0. base \in Local!Sha \cup {0} /\ base \in Nat /\ t \in Nat
  BY BoundsAssumption DEF Local!TablesTypeOK, Local!Sha, Local!NoSha
<1>1. PICK v : v = Len(commits) + 1
  OBVIOUS
<1>2. /\ commits' = Append(commits, [parent |-> base, created_at |-> t])
      /\ commits \in Seq(Local!Commit)
      /\ [parent |-> base, created_at |-> t] \in Local!Commit
  BY <1>0 DEF Local!InsertCommit, Local!TablesTypeOK, Local!Commit
<1>3. /\ commits' \in Seq(Local!Commit)
      /\ v \notin Sha /\ Sha' = Sha \cup {v}
      /\ \A x \in Sha : commits'[x] = commits[x]
      /\ commits'[v] = [parent |-> base, created_at |-> t]
  BY <1>1, <1>2 DEF Sha
<1>4. CommitsGrow
  BY <1>3 DEF CommitsGrow
<1>5. /\ lversions' = [x \in Local!Stored \cup {v} |->
                        IF x = v THEN [prompt |-> Slug, branch |-> b] ELSE lversions[x]]
      /\ lheads' = [lheads EXCEPT ![<<Slug, b>>] = v]
      /\ UNCHANGED <<ltags, lprompts>> /\ Slug \in Local!Live
      /\ base \in Local!Stored \cup {0}
  BY <1>1 DEF Local!InsertCommit, Local!InsertVersion, Local!UpsertHead, Local!Resolvable,
              Local!NoSha
<1> HIDE DEF base
<1>6. /\ Local!Stored' = Local!Stored \cup {v}
      /\ lversions' \in [Local!Stored \cup {v} -> Local!Row]
      /\ lversions'[v] = [prompt |-> Slug, branch |-> b]
      /\ \A x \in Local!Stored \ {v} : lversions'[x] = lversions[x]
  BY <1>5 DEF Local!Stored, Local!Row, Local!TablesTypeOK
<1>7. /\ lheads' \in [{Slug} \X Branch -> Sha' \cup {0}]
      /\ lheads'[<<Slug, b>>] = v
      /\ \A a \in Branch \ {b} : lheads'[<<Slug, a>>] = lheads[<<Slug, a>>]
  BY <1>3, <1>5 DEF Local!TablesTypeOK, Local!Sha, Local!NoSha, Sha
<1>8. Local!Live' = Local!Live /\ Local!Stored \subseteq Sha
  BY <1>5 DEF Local!Live, Local!TablesTypeOK, Local!Stored, Local!Sha, Sha
<1>9. Local!TablesTypeOK'
  <2>1. DOMAIN lversions' \in SUBSET Sha' /\ lversions' \in [DOMAIN lversions' -> Local!Row]
    BY <1>3, <1>6, <1>8 DEF Local!Stored
  <2>2. ltags' \in [{Slug} \X Tag -> Sha' \cup {0}]
        /\ lprompts' \in [{Slug} -> {"absent", "live", "deleted"}]
    BY <1>3, <1>5 DEF Local!TablesTypeOK, Local!Sha, Local!NoSha, Sha
  <2>3. Local!Sha' = Sha' /\ Local!Commit = Local!Commit
    BY DEF Local!Sha, Sha, Local!Commit
  <2> QED BY <1>3, <1>7, <2>1, <2>2, <2>3
          DEF Local!TablesTypeOK, Local!NoSha, Local!Row, Local!Commit
<1>10. Local!ReferencesResolve'
  <2>1. \A x \in Local!Stored' : /\ lversions'[x].prompt \in Local!Live'
                               /\ commits'[x].parent \in Local!Stored' \cup {0}
    BY <1>3, <1>5, <1>6, <1>8 DEF Local!ReferencesResolve, Local!NoSha
  <2>2. \A a \in Branch : lheads'[<<Slug, a>>] # 0 =>
          Slug \in Local!Live' /\ lheads'[<<Slug, a>>] \in Local!Stored'
    BY <1>5, <1>6, <1>7, <1>8 DEF Local!ReferencesResolve, Local!NoSha
  <2>3. \A u \in Tag : ltags'[<<Slug, u>>] # 0 =>
          Slug \in Local!Live' /\ ltags'[<<Slug, u>>] \in Local!Stored'
    BY <1>5, <1>6, <1>8 DEF Local!ReferencesResolve, Local!NoSha
  <2> QED BY <2>1, <2>2, <2>3 DEF Local!ReferencesResolve, Local!NoSha
<1> QED BY <1>4, <1>5, <1>6, <1>9, <1>10 DEF LocalGrows, Put

LEMMA LocalTags ==
  ASSUME Local!TablesTypeOK, Local!ReferencesResolve,
         NEW u \in Tag, NEW v \in Sha, Local!PutTag(Slug, u, v)
  PROVE  LocalGrows /\ Put(ltags', u)
<1>1. /\ ltags' \in [{Slug} \X Tag -> Local!Sha \cup {0}]
      /\ ltags'[<<Slug, u>>] = v
      /\ \A t \in Tag \ {u} : ltags'[<<Slug, t>>] = ltags[<<Slug, t>>]
  BY DEF Local!PutTag, Local!TablesTypeOK, Local!Sha, Local!NoSha, Sha
<1>2. UNCHANGED <<commits, lversions, lheads, lprompts>> /\ Slug \in Local!Live
      /\ v \in Local!Stored /\ Local!Live' = Local!Live /\ Local!Stored' = Local!Stored
  BY DEF Local!PutTag, Local!Live, Local!Stored
<1>3. Local!TablesTypeOK'
  BY <1>1, <1>2 DEF Local!TablesTypeOK, Local!Sha, Local!NoSha, Local!Row
<1>4. Local!ReferencesResolve'
  BY <1>1, <1>2 DEF Local!ReferencesResolve, Local!NoSha
<1>5. v # 0
  BY DEF Sha
<1> QED BY <1>1, <1>2, <1>3, <1>4, <1>5 DEF LocalGrows, Put

LEMMA LocalPoints ==
  ASSUME Local!TablesTypeOK, Local!ReferencesResolve,
         NEW b \in Branch, NEW v \in Sha, Local!PutBranch(Slug, b, v)
  PROVE  LocalGrows
<1>1. /\ lheads' \in [{Slug} \X Branch -> Local!Sha \cup {0}]
      /\ lheads'[<<Slug, b>>] = v
      /\ \A a \in Branch \ {b} : lheads'[<<Slug, a>>] = lheads[<<Slug, a>>]
  BY DEF Local!PutBranch, Local!UpsertHead, Local!TablesTypeOK, Local!Sha, Local!NoSha, Sha
<1>2. UNCHANGED <<commits, lversions, ltags, lprompts>> /\ Slug \in Local!Live
      /\ v \in Local!Stored /\ Local!Live' = Local!Live /\ Local!Stored' = Local!Stored
  BY DEF Local!PutBranch, Local!Live, Local!Stored
<1>3. Local!TablesTypeOK'
  BY <1>1, <1>2 DEF Local!TablesTypeOK, Local!Sha, Local!NoSha, Local!Row
<1>4. Local!ReferencesResolve'
  BY <1>1, <1>2 DEF Local!ReferencesResolve, Local!NoSha
<1> QED BY <1>1, <1>2, <1>3, <1>4 DEF LocalGrows, Put

-----------------------------------------------------------------------------
(* What the operations of the remote vault leave of its tables: types, rows *)
(* that resolve, everything that was stored, every tag name.                *)

RemoteGrows ==
  /\ Remote!TablesTypeOK' /\ Remote!ReferencesResolve'
  /\ Remote!Stored \subseteq Remote!Stored'
  /\ \A t \in Tag : Put(rtags, t) => Put(rtags', t)

LEMMA RemoteRests ==
  ASSUME Remote!TablesTypeOK, Remote!ReferencesResolve, CommitsGrow, UNCHANGED remote
  PROVE  RemoteGrows
<1>1. Remote!TablesTypeOK'
  BY DEF CommitsGrow, Remote!TablesTypeOK, Remote!Sha, Remote!NoSha, Remote!Commit, Local!Commit,
         Remote!Row, remote, Sha
<1>2. Remote!ReferencesResolve'
  BY DEF CommitsGrow, Remote!TablesTypeOK, Remote!ReferencesResolve, Remote!Sha, Remote!NoSha,
         Remote!Stored, Remote!Live, remote, Sha
<1> QED BY <1>1, <1>2 DEF RemoteGrows, remote, Remote!Stored, Put

LEMMA RemoteCreates ==
  ASSUME Remote!TablesTypeOK, Remote!ReferencesResolve, Remote!NewPrompt(Slug)
  PROVE  RemoteGrows
<1>1. rprompts' \in [{Slug} -> {"absent", "live", "deleted"}] /\ Remote!Live \subseteq Remote!Live'
  BY DEF Remote!TablesTypeOK, Remote!NewPrompt, Remote!Live
<1>2. Remote!TablesTypeOK'
  BY <1>1 DEF Remote!TablesTypeOK, Remote!NewPrompt, Remote!Sha
<1>3. Remote!ReferencesResolve'
  BY <1>1 DEF Remote!ReferencesResolve, Remote!NewPrompt, Remote!Stored
<1> QED BY <1>2, <1>3 DEF RemoteGrows, Remote!NewPrompt, Remote!Stored, Put

LEMMA RemoteImports ==
  ASSUME Remote!TablesTypeOK, Remote!ReferencesResolve,
         NEW b \in Branch, NEW v \in Sha, Remote!InsertImport(Slug, b, v)
  PROVE  RemoteGrows /\ v \in Remote!Stored'
<1>1. /\ Remote!Stored' = Remote!Stored \cup {v}
      /\ rversions' \in [Remote!Stored \cup {v} -> Remote!Row]
      /\ rversions'[v] = [prompt |-> Slug, branch |-> b]
      /\ \A x \in Remote!Stored : rversions'[x] = rversions[x]
  BY DEF Remote!InsertImport, Remote!InsertVersion, Remote!Stored, Remote!Row, Remote!TablesTypeOK
<1>2. rheads' \in [{Slug} \X Branch -> Remote!Sha \cup {0}]
      /\ rheads'[<<Slug, b>>] = v
      /\ \A a \in Branch \ {b} : rheads'[<<Slug, a>>] = rheads[<<Slug, a>>]
  BY DEF Remote!InsertImport, Remote!UpsertHead, Remote!TablesTypeOK, Remote!Sha, Remote!NoSha, Sha
<1>3. UNCHANGED <<commits, rtags, rprompts>> /\ Slug \in Remote!Live /\ Remote!Live' = Remote!Live
      /\ commits[v].parent \in Remote!Stored \cup {0}
  BY DEF Remote!InsertImport, Remote!Live, Remote!Resolvable, Remote!NoSha
<1>4. Remote!TablesTypeOK'
  <2>1. DOMAIN rversions' \in SUBSET Remote!Sha /\ rversions' \in [DOMAIN rversions' -> Remote!Row]
    BY <1>1 DEF Remote!TablesTypeOK, Remote!Stored, Remote!Sha, Sha
  <2> QED BY <1>2, <1>3, <2>1 DEF Remote!TablesTypeOK, Remote!Sha, Remote!NoSha, Remote!Row
<1>5. Remote!ReferencesResolve'
  <2>1. \A x \in Remote!Stored' : /\ rversions'[x].prompt \in Remote!Live'
                               /\ commits'[x].parent \in Remote!Stored' \cup {0}
    BY <1>1, <1>3 DEF Remote!ReferencesResolve, Remote!NoSha
  <2>2. \A a \in Branch : rheads'[<<Slug, a>>] # 0 =>
          Slug \in Remote!Live' /\ rheads'[<<Slug, a>>] \in Remote!Stored'
    BY <1>1, <1>2, <1>3 DEF Remote!ReferencesResolve, Remote!NoSha
  <2>3. \A t \in Tag : rtags'[<<Slug, t>>] # 0 =>
          Slug \in Remote!Live' /\ rtags'[<<Slug, t>>] \in Remote!Stored'
    BY <1>1, <1>3 DEF Remote!ReferencesResolve, Remote!NoSha
  <2> QED BY <2>1, <2>2, <2>3 DEF Remote!ReferencesResolve, Remote!NoSha
<1> QED BY <1>1, <1>3, <1>4, <1>5 DEF RemoteGrows, Put

LEMMA RemoteCommits ==
  ASSUME Remote!TablesTypeOK, Remote!ReferencesResolve,
         NEW b \in Branch, NEW t \in 1..MaxClock,
         Remote!InsertCommit(Slug, b, rheads[<<Slug, b>>], t)
  PROVE  CommitsGrow /\ RemoteGrows
<1> DEFINE base == rheads[<<Slug, b>>]
<1>0. base \in Remote!Sha \cup {0} /\ base \in Nat /\ t \in Nat
  BY BoundsAssumption DEF Remote!TablesTypeOK, Remote!Sha, Remote!NoSha
<1>1. PICK v : v = Len(commits) + 1
  OBVIOUS
<1>2. /\ commits' = Append(commits, [parent |-> base, created_at |-> t])
      /\ commits \in Seq(Local!Commit)
      /\ [parent |-> base, created_at |-> t] \in Local!Commit
  BY <1>0 DEF Remote!InsertCommit, Remote!TablesTypeOK, Remote!Commit, Local!Commit
<1>3. /\ commits' \in Seq(Local!Commit)
      /\ v \notin Sha /\ Sha' = Sha \cup {v}
      /\ \A x \in Sha : commits'[x] = commits[x]
      /\ commits'[v] = [parent |-> base, created_at |-> t]
  BY <1>1, <1>2 DEF Sha
<1>4. CommitsGrow
  BY <1>3 DEF CommitsGrow
<1>5. /\ rversions' = [x \in Remote!Stored \cup {v} |->
                        IF x = v THEN [prompt |-> Slug, branch |-> b] ELSE rversions[x]]
      /\ rheads' = [rheads EXCEPT ![<<Slug, b>>] = v]
      /\ UNCHANGED <<rtags, rprompts>> /\ Slug \in Remote!Live
      /\ base \in Remote!Stored \cup {0}
  BY <1>1 DEF Remote!InsertCommit, Remote!InsertVersion, Remote!UpsertHead, Remote!Resolvable,
              Remote!NoSha
<1> HIDE DEF base
<1>6. /\ Remote!Stored' = Remote!Stored \cup {v}
      /\ rversions' \in [Remote!Stored \cup {v} -> Remote!Row]
      /\ rversions'[v] = [prompt |-> Slug, branch |-> b]
      /\ \A x \in Remote!Stored \ {v} : rversions'[x] = rversions[x]
  BY <1>5 DEF Remote!Stored, Remote!Row, Remote!TablesTypeOK
<1>7. /\ rheads' \in [{Slug} \X Branch -> Sha' \cup {0}]
      /\ rheads'[<<Slug, b>>] = v
      /\ \A a \in Branch \ {b} : rheads'[<<Slug, a>>] = rheads[<<Slug, a>>]
  BY <1>3, <1>5 DEF Remote!TablesTypeOK, Remote!Sha, Remote!NoSha, Sha
<1>8. Remote!Live' = Remote!Live /\ Remote!Stored \subseteq Sha
  BY <1>5 DEF Remote!Live, Remote!TablesTypeOK, Remote!Stored, Remote!Sha, Sha
<1>9. Remote!TablesTypeOK'
  <2>1. DOMAIN rversions' \in SUBSET Sha' /\ rversions' \in [DOMAIN rversions' -> Remote!Row]
    BY <1>3, <1>6, <1>8 DEF Remote!Stored
  <2>2. rtags' \in [{Slug} \X Tag -> Sha' \cup {0}]
        /\ rprompts' \in [{Slug} -> {"absent", "live", "deleted"}]
    BY <1>3, <1>5 DEF Remote!TablesTypeOK, Remote!Sha, Remote!NoSha, Sha
  <2>3. Remote!Sha' = Sha' /\ Remote!Commit = Local!Commit
    BY DEF Remote!Sha, Sha, Remote!Commit, Local!Commit
  <2> QED BY <1>3, <1>7, <2>1, <2>2, <2>3
          DEF Remote!TablesTypeOK, Remote!NoSha, Remote!Row, Remote!Commit
<1>10. Remote!ReferencesResolve'
  <2>1. \A x \in Remote!Stored' : /\ rversions'[x].prompt \in Remote!Live'
                               /\ commits'[x].parent \in Remote!Stored' \cup {0}
    BY <1>3, <1>5, <1>6, <1>8 DEF Remote!ReferencesResolve, Remote!NoSha
  <2>2. \A a \in Branch : rheads'[<<Slug, a>>] # 0 =>
          Slug \in Remote!Live' /\ rheads'[<<Slug, a>>] \in Remote!Stored'
    BY <1>5, <1>6, <1>7, <1>8 DEF Remote!ReferencesResolve, Remote!NoSha
  <2>3. \A u \in Tag : rtags'[<<Slug, u>>] # 0 =>
          Slug \in Remote!Live' /\ rtags'[<<Slug, u>>] \in Remote!Stored'
    BY <1>5, <1>6, <1>8 DEF Remote!ReferencesResolve, Remote!NoSha
  <2> QED BY <2>1, <2>2, <2>3 DEF Remote!ReferencesResolve, Remote!NoSha
<1> QED BY <1>4, <1>5, <1>6, <1>9, <1>10 DEF RemoteGrows, Put

LEMMA RemoteTags ==
  ASSUME Remote!TablesTypeOK, Remote!ReferencesResolve,
         NEW u \in Tag, NEW v \in Sha, Remote!PutTag(Slug, u, v)
  PROVE  RemoteGrows /\ Put(rtags', u)
<1>1. /\ rtags' \in [{Slug} \X Tag -> Remote!Sha \cup {0}]
      /\ rtags'[<<Slug, u>>] = v
      /\ \A t \in Tag \ {u} : rtags'[<<Slug, t>>] = rtags[<<Slug, t>>]
  BY DEF Remote!PutTag, Remote!TablesTypeOK, Remote!Sha, Remote!NoSha, Sha
<1>2. UNCHANGED <<commits, rversions, rheads, rprompts>> /\ Slug \in Remote!Live
      /\ v \in Remote!Stored /\ Remote!Live' = Remote!Live /\ Remote!Stored' = Remote!Stored
  BY DEF Remote!PutTag, Remote!Live, Remote!Stored
<1>3. Remote!TablesTypeOK'
  BY <1>1, <1>2 DEF Remote!TablesTypeOK, Remote!Sha, Remote!NoSha, Remote!Row
<1>4. Remote!ReferencesResolve'
  BY <1>1, <1>2 DEF Remote!ReferencesResolve, Remote!NoSha
<1>5. v # 0
  BY DEF Sha
<1> QED BY <1>1, <1>2, <1>3, <1>4, <1>5 DEF RemoteGrows, Put

LEMMA RemotePoints ==
  ASSUME Remote!TablesTypeOK, Remote!ReferencesResolve,
         NEW b \in Branch, NEW v \in Sha, Remote!PutBranch(Slug, b, v)
  PROVE  RemoteGrows
<1>1. /\ rheads' \in [{Slug} \X Branch -> Remote!Sha \cup {0}]
      /\ rheads'[<<Slug, b>>] = v
      /\ \A a \in Branch \ {b} : rheads'[<<Slug, a>>] = rheads[<<Slug, a>>]
  BY DEF Remote!PutBranch, Remote!UpsertHead, Remote!TablesTypeOK, Remote!Sha, Remote!NoSha, Sha
<1>2. UNCHANGED <<commits, rversions, rtags, rprompts>> /\ Slug \in Remote!Live
      /\ v \in Remote!Stored /\ Remote!Live' = Remote!Live /\ Remote!Stored' = Remote!Stored
  BY DEF Remote!PutBranch, Remote!Live, Remote!Stored
<1>3. Remote!TablesTypeOK'
  BY <1>1, <1>2 DEF Remote!TablesTypeOK, Remote!Sha, Remote!NoSha, Remote!Row
<1>4. Remote!ReferencesResolve'
  BY <1>1, <1>2 DEF Remote!ReferencesResolve, Remote!NoSha
<1> QED BY <1>1, <1>2, <1>3, <1>4 DEF RemoteGrows, Put

-----------------------------------------------------------------------------
(* What a step leaves of both vaults, whoever takes it.                     *)

Grows == CommitsGrow /\ LocalGrows /\ RemoteGrows

LEMMA Rest ==
  ASSUME TypeOK, Complete, CommitsGrow, UNCHANGED <<local, remote>>
  PROVE  Grows
  BY LocalRests, RemoteRests DEF Grows, TypeOK, Complete

LEMMA CommitsRest ==
  ASSUME TypeOK, UNCHANGED commits
  PROVE  CommitsGrow
  BY DEF TypeOK, Local!TablesTypeOK, CommitsGrow, Sha

(* The user's own changes, of the local vault; others', of the remote.      *)
LEMMA ElsewhereGrows ==
  ASSUME TypeOK, Complete, Elsewhere
  PROVE  Grows
<1>1. CASE OtherCreates
  BY <1>1, CommitsRest, LocalRests, RemoteCreates
     DEF OtherCreates, Others, Remote!NewPrompt, Grows, TypeOK, Complete
<1>2. CASE CreatePrompt
  BY <1>2, CommitsRest, LocalCreates, RemoteRests
     DEF CreatePrompt, User, Local!NewPrompt, Grows, TypeOK, Complete
<1>3. ASSUME NEW b \in Branch, NEW t \in 1..MaxClock, OtherCommits(b, t)
      PROVE  Grows
  BY <1>3, LocalRests, RemoteCommits DEF OtherCommits, Others, Grows, TypeOK, Complete
<1>4. ASSUME NEW b \in Branch, NEW t \in 1..MaxClock, Commit1(b, t)
      PROVE  Grows
  BY <1>4, LocalCommits, RemoteRests DEF Commit1, User, Grows, TypeOK, Complete
<1>5. ASSUME NEW t \in Tag, NEW v \in Sha, OtherTags(t, v)
      PROVE  Grows
  BY <1>5, CommitsRest, LocalRests, RemoteTags
     DEF OtherTags, Others, Remote!PutTag, Grows, TypeOK, Complete
<1>6. ASSUME NEW t \in Tag, NEW v \in Sha, TagVersion(t, v)
      PROVE  Grows
  BY <1>6, CommitsRest, LocalTags, RemoteRests
     DEF TagVersion, User, Local!PutTag, Grows, TypeOK, Complete
<1>7. ASSUME NEW b \in Branch, NEW v \in Sha, OtherPoints(b, v)
      PROVE  Grows
  BY <1>7, CommitsRest, LocalRests, RemotePoints
     DEF OtherPoints, Others, Remote!PutBranch, Grows, TypeOK, Complete
<1>8. ASSUME NEW b \in Branch, NEW v \in Sha, PointBranch(b, v)
      PROVE  Grows
  BY <1>8, CommitsRest, LocalPoints, RemoteRests
     DEF PointBranch, User, Local!PutBranch, Grows, TypeOK, Complete
<1> QED BY <1>1, <1>2, <1>3, <1>4, <1>5, <1>6, <1>7, <1>8 DEF Elsewhere

(* A version the remote takes is there; with it the parents it needs.       *)
LEMMA RemoteTakesGrows ==
  ASSUME TypeOK, Complete, NEW v \in Sha, NEW b \in Branch, RemoteTakes(v, b), UNCHANGED local
  PROVE  Grows /\ v \in Remote!Stored'
<1>1. CASE v \in Remote!Stored /\ UNCHANGED <<commits, remote>>
  BY <1>1, CommitsRest, Rest DEF remote, Remote!Stored
<1>2. CASE Remote!InsertImport(Slug, b, v)
  BY <1>2, CommitsRest, LocalRests, RemoteImports
     DEF Remote!InsertImport, Grows, TypeOK, Complete
<1> QED BY <1>1, <1>2 DEF RemoteTakes

LEMMA RemoteTagGrows ==
  ASSUME TypeOK, Complete, NEW t \in Tag, NEW v \in Sha, Remote!PutTag(Slug, t, v), UNCHANGED local
  PROVE  Grows /\ Put(rtags', t)
  BY CommitsRest, LocalRests, RemoteTags DEF Remote!PutTag, Grows, TypeOK, Complete

LEMMA LocalTagGrows ==
  ASSUME TypeOK, Complete, NEW t \in Tag, NEW v \in Sha, Local!PutTag(Slug, t, v), UNCHANGED remote
  PROVE  Grows /\ Put(ltags', t)
  BY CommitsRest, RemoteRests, LocalTags DEF Local!PutTag, Grows, TypeOK, Complete

LEMMA LocalImportGrows ==
  ASSUME TypeOK, Complete, NEW v \in Sha, NEW b \in Branch, UNCHANGED remote,
         \/ v \in Local!Stored /\ UNCHANGED <<commits, local>>
         \/ Local!InsertImport(Slug, b, v)
  PROVE  Grows /\ v \in Local!Stored'
<1>1. CASE v \in Local!Stored /\ UNCHANGED <<commits, local>>
  BY <1>1, CommitsRest, Rest DEF local, Local!Stored
<1>2. CASE Local!InsertImport(Slug, b, v)
  BY <1>2, CommitsRest, RemoteRests, LocalImports
     DEF Local!InsertImport, Grows, TypeOK, Complete
<1> QED BY <1>1, <1>2

LEMMA CreatesGrow ==
  ASSUME TypeOK, Complete,
         \/ Local!NewPrompt(Slug) /\ UNCHANGED remote
         \/ Remote!NewPrompt(Slug) /\ UNCHANGED local
  PROVE  Grows
  BY CommitsRest, LocalRests, RemoteRests, LocalCreates, RemoteCreates
     DEF Local!NewPrompt, Remote!NewPrompt, Grows, TypeOK, Complete

-----------------------------------------------------------------------------
(* Which command a step belongs to.                                         *)

LEMMA CmdKinds ==
  ASSUME TypeOK
  PROVE  /\ cmd.op \in {"push", "pull"} => cmd \in Transfer
         /\ cmd.op = "lock" => cmd \in Locking
         /\ cmd.op = "install" => cmd \in Installing
  BY DEF TypeOK, Idle, Transfer, Locking, Installing

(* What a ref resolves to is stored where it was looked up.                 *)
LEMMA ResolvedStored ==
  ASSUME TypeOK, Complete, NEW u \in Uris, Resolved(u) # 0
  PROVE  /\ Resolved(u) \in Sha
         /\ Resolved(u) \in (IF u.remote THEN Remote!Stored ELSE Local!Stored)
<1>1. ASSUME NEW heads, NEW tags, NEW ref, NEW S,
             \A b \in Branch : heads[<<Slug, b>>] # 0 => heads[<<Slug, b>>] \in S,
             \A t \in Tag : tags[<<Slug, t>>] # 0 => tags[<<Slug, t>>] \in S,
             Named(heads, tags, ref) # 0
      PROVE  Named(heads, tags, ref) \in S
  BY <1>1, DefaultAssumption DEF Named
<1>2. Remote!Stored \subseteq Sha /\ Local!Stored \subseteq Sha
  BY DEF TypeOK, Remote!TablesTypeOK, Local!TablesTypeOK, Remote!Stored, Local!Stored, Sha,
         Remote!Sha, Local!Sha
<1>3. CASE u.remote
  <2>1. Resolved(u) \in Remote!Stored
    BY <1>1, <1>3 DEF Resolved, Complete, Remote!ReferencesResolve, Remote!NoSha
  <2> QED BY <1>2, <1>3, <2>1
<1>4. CASE ~u.remote
  <2>1. Resolved(u) \in Local!Stored
    BY <1>1, <1>4 DEF Resolved, Complete, Local!ReferencesResolve, Local!NoSha
  <2> QED BY <1>2, <1>4, <2>1
<1> QED BY <1>3, <1>4

-----------------------------------------------------------------------------
(* What of the invariant a step keeps whatever it does to the command.      *)

LEMMA Grown ==
  ASSUME Grows
  PROVE  /\ Transfer \subseteq Transfer' /\ Locking \subseteq Locking'
         /\ Installing \subseteq Installing' /\ Command \subseteq Command'
         /\ Entry \subseteq Entry' /\ Post \subseteq Post' /\ Report \subseteq Report'
<1>1. Sha \subseteq Sha'
  BY DEF Grows, CommitsGrow
<1>2. Entry \subseteq Entry' /\ Post \subseteq Post' /\ Report \subseteq Report'
  BY <1>1 DEF Entry, Post, Report
<1>3. Transfer \subseteq Transfer'
  <2>1. Tag \X Sha \subseteq Tag \X Sha'
    BY <1>1
  <2> QED BY <1>1, <2>1 DEF Transfer
<1>4. Locking \subseteq Locking' /\ Installing \subseteq Installing'
  BY <1>2 DEF Locking, Installing
<1> QED BY <1>2, <1>3, <1>4 DEF Command, Idle

(* The step moves the command on and puts no POST on its way.               *)
LEMMA Moved ==
  ASSUME Inv, Grows, UNCHANGED <<lock, done, seenAbsent>>, late' \subseteq late,
         runs' \in 0..MaxRuns, cmd' \in Command',
         PushOnItsWay', PullOnItsWay', InstallOnItsWay', DueSeenAbsent'
  PROVE  Inv'
<1>1. TypeOK'
  <2>1. lock' \subseteq Entry' /\ late' \subseteq Post' /\ done' \in Report'
    BY Grown DEF Inv, TypeOK
  <2>2. Local!TablesTypeOK' /\ Remote!TablesTypeOK'
    BY DEF Grows, LocalGrows, RemoteGrows
  <2>3. seenAbsent' \subseteq Tag
    BY DEF Inv, TypeOK
  <2> QED BY <2>1, <2>2, <2>3 DEF TypeOK, Command
<1>2. Complete'
  BY DEF Grows, LocalGrows, RemoteGrows, Complete
<1>3. PushReported'
  <2>1. done.tags \subseteq Tag
    BY DEF Inv, TypeOK, Report
  <2> QED BY <2>1 DEF Inv, PushReported, Grows, RemoteGrows
<1>4. PullReported'
  <2>1. done.tags \subseteq Tag
    BY DEF Inv, TypeOK, Report
  <2> QED BY <2>1 DEF Inv, PullReported, Grows, LocalGrows
<1>5. InstallReported'
  BY DEF Inv, InstallReported, Grows, LocalGrows
<1>6. LateSeenAbsent'
  BY DEF Inv, LateSeenAbsent
<1> QED BY <1>1, <1>2, <1>3, <1>4, <1>5, <1>6 DEF Inv

(* A step that leaves the command as it is, or is its end.                  *)
LEMMA Aside ==
  ASSUME Inv, Grows, UNCHANGED <<lock, done, seenAbsent>>, late' \subseteq late,
         runs' = runs, cmd' \in {cmd, Idle}
  PROVE  Inv'
<1>1. cmd' \in Command' /\ runs' \in 0..MaxRuns
  BY Grown DEF Inv, TypeOK, Command, Idle
<1>2. CASE cmd' = Idle
  <2>1. PushOnItsWay' /\ PullOnItsWay' /\ InstallOnItsWay' /\ DueSeenAbsent'
    BY <1>2 DEF PushOnItsWay, PullOnItsWay, InstallOnItsWay, DueSeenAbsent, Idle
  <2> QED BY <1>1, <2>1, Moved
<1>3. CASE cmd' = cmd
  <2>1. cmd.op \in {"push", "pull"} => cmd.tags \subseteq Tag \X Sha
    BY CmdKinds DEF Inv, Transfer
  <2>2. PushOnItsWay'
    <3>1. cmd.op = "push" => \A x \in cmd.tags : Put(rtags, x[1]) => Put(rtags', x[1])
      BY <2>1 DEF Grows, RemoteGrows
    <3> QED BY <1>3, <3>1 DEF Inv, PushOnItsWay, Grows, RemoteGrows
  <2>3. PullOnItsWay'
    <3>1. cmd.op = "pull" => \A x \in cmd.tags : Put(ltags, x[1]) => Put(ltags', x[1])
      BY <2>1 DEF Grows, LocalGrows
    <3> QED BY <1>3, <3>1 DEF Inv, PullOnItsWay, Grows, LocalGrows
  <2>4. InstallOnItsWay' /\ DueSeenAbsent'
    BY <1>3 DEF Inv, InstallOnItsWay, DueSeenAbsent, Grows, LocalGrows
  <2> QED BY <1>1, <2>2, <2>3, <2>4, Moved
<1> QED BY <1>2, <1>3

(* The client gives up on a POST: it is late from now on.                   *)
LEMMA GaveUp ==
  ASSUME Inv, NEW post \in Post, GiveUp(post), post.kind = "tag" => post.tag \in seenAbsent
  PROVE  Inv'
<1>1. /\ UNCHANGED <<commits, local, remote, lock, runs, done, seenAbsent>>
      /\ late' = late \cup {post} /\ cmd' = Idle
  BY DEF GiveUp, history
<1>2. Grows
  BY <1>1, CommitsRest, Rest DEF Inv
<1>3. TypeOK'
  <2>1. lock' \subseteq Entry' /\ late' \subseteq Post' /\ done' \in Report'
    BY <1>1, <1>2, Grown DEF Inv, TypeOK
  <2>2. Local!TablesTypeOK' /\ Remote!TablesTypeOK'
    BY <1>2 DEF Grows, LocalGrows, RemoteGrows
  <2> QED BY <1>1, <2>1, <2>2 DEF Inv, TypeOK
<1>4. LateSeenAbsent'
  BY <1>1 DEF Inv, LateSeenAbsent
<1>5. Complete' /\ PushReported' /\ PullReported' /\ InstallReported'
  BY <1>1, <1>2 DEF Inv, Complete, PushReported, PullReported, InstallReported, Grows,
                    LocalGrows, RemoteGrows, local, remote, Local!Stored, Remote!Stored
<1>6. PushOnItsWay' /\ PullOnItsWay' /\ InstallOnItsWay' /\ DueSeenAbsent'
  BY <1>1 DEF PushOnItsWay, PullOnItsWay, InstallOnItsWay, DueSeenAbsent, Idle
<1> QED BY <1>3, <1>4, <1>5, <1>6 DEF Inv

-----------------------------------------------------------------------------
(* push, step by step.                                                      *)

(* A transfer whose step, rows left and tags due change.                    *)
LEMMA TransferMoves ==
  ASSUME Inv, Grows, cmd \in Transfer, UNCHANGED <<lock, done, seenAbsent, runs>>, late' = late,
         NEW c \in Transfer', cmd' = c, c.op = cmd.op,
         PushOnItsWay', PullOnItsWay', DueSeenAbsent'
  PROVE  Inv'
<1>1. InstallOnItsWay'
  BY DEF InstallOnItsWay, Transfer
<1> QED BY <1>1, Moved DEF Inv, TypeOK, Command

LEMMA PushStarts ==
  ASSUME Inv, NEW b \in Branch, Push(b)
  PROVE  Inv'
<1>1. /\ UNCHANGED <<commits, local, remote, late, lock, done, seenAbsent>>
      /\ runs < MaxRuns /\ runs' = runs + 1
      /\ cmd' = [op |-> "push", step |-> "prompt", branch |-> b, rows |-> OnBranch(lversions, b),
                 left |-> {}, tags |-> TagPairs(ltags), due |-> {}]
  BY DEF Push, Run, history
<1>2. Grows
  BY <1>1, CommitsRest, Rest DEF Inv
<1>3. OnBranch(lversions, b) \subseteq Sha /\ TagPairs(ltags) \subseteq Tag \X Sha
  BY DEF Inv, TypeOK, Local!TablesTypeOK, Local!Sha, Sha, OnBranch, TagPairs
<1>4. cmd' \in Transfer'
  <2>1. cmd' \in Transfer
    BY <1>1, <1>3 DEF Transfer
  <2> QED BY <1>2, <2>1, Grown
<1>5. runs' \in 0..MaxRuns
  BY <1>1, BoundsAssumption DEF Inv, TypeOK
<1>6. PushOnItsWay' /\ PullOnItsWay' /\ InstallOnItsWay' /\ DueSeenAbsent'
  BY <1>1 DEF PushOnItsWay, PullOnItsWay, InstallOnItsWay, DueSeenAbsent
<1> QED BY <1>1, <1>2, <1>4, <1>5, <1>6, Moved DEF Command

LEMMA PushGetPromptInv ==
  ASSUME Inv, PushGetPrompt
  PROVE  Inv'
<1>1. /\ UNCHANGED <<commits, local, remote, late, lock, runs, done, seenAbsent>>
      /\ cmd.op = "push"
      /\ \/ cmd' = [cmd EXCEPT !.step = "list"]
         \/ cmd' = [cmd EXCEPT !.step = "create"]
  BY DEF PushGetPrompt, At, Goto, history
<1>2. Grows
  BY <1>1, CommitsRest, Rest DEF Inv
<1>3. cmd \in Transfer
  BY <1>1, CmdKinds DEF Inv
<1>4. PICK c : c = cmd'
  OBVIOUS
<1>5. c \in Transfer /\ c.op = "push" /\ c.step \in {"list", "create"}
  BY <1>1, <1>3, <1>4 DEF Transfer
<1>6. PushOnItsWay' /\ PullOnItsWay' /\ DueSeenAbsent'
  BY <1>4, <1>5 DEF PushOnItsWay, PullOnItsWay, DueSeenAbsent
<1> QED BY <1>1, <1>2, <1>3, <1>4, <1>5, <1>6, Grown, TransferMoves

LEMMA PushCreatePromptInv ==
  ASSUME Inv, PushCreatePrompt
  PROVE  Inv'
<1>1. CASE GiveUp([kind |-> "prompt"])
  BY <1>1, GaveUp DEF Post
<1>2. CASE Remote!NewPrompt(Slug) /\ Goto("list") /\ UNCHANGED <<local, late, lock, runs, history>>
  <2>1. Grows
    BY <1>2, CreatesGrow DEF Inv
  <2>2. cmd.op = "push" /\ cmd \in Transfer
    BY CmdKinds DEF PushCreatePrompt, At, Inv
  <2>3. PICK c : c = cmd'
    OBVIOUS
  <2>4. c \in Transfer /\ c.op = "push" /\ c.step = "list"
    BY <1>2, <2>2, <2>3 DEF Goto, Transfer
  <2>5. PushOnItsWay' /\ PullOnItsWay' /\ DueSeenAbsent'
    BY <2>3, <2>4 DEF PushOnItsWay, PullOnItsWay, DueSeenAbsent
  <2> QED BY <1>2, <2>1, <2>2, <2>3, <2>4, <2>5, Grown, TransferMoves DEF history
<1> QED BY <1>1, <1>2 DEF PushCreatePrompt

LEMMA PushListVersionsInv ==
  ASSUME Inv, PushListVersions
  PROVE  Inv'
<1>1. /\ UNCHANGED <<commits, local, remote, late, lock, runs, done, seenAbsent>>
      /\ cmd.op = "push"
      /\ cmd' = [cmd EXCEPT !.step = "versions",
                   !.left = cmd.rows \ OnBranch(rversions, cmd.branch)]
  BY DEF PushListVersions, At, history
<1>2. Grows
  BY <1>1, CommitsRest, Rest DEF Inv
<1>3. cmd \in Transfer
  BY <1>1, CmdKinds DEF Inv
<1>4. PICK c : c = cmd'
  OBVIOUS
<1>5. /\ c \in Transfer /\ c.op = "push" /\ c.step = "versions" /\ c.rows = cmd.rows
      /\ c.left = cmd.rows \ OnBranch(rversions, cmd.branch)
  BY <1>1, <1>3, <1>4 DEF Transfer
<1>6. PushOnItsWay'
  <2>1. c.rows \subseteq Remote!Stored' \cup c.left
    BY <1>1, <1>5 DEF OnBranch, Remote!Stored, remote
  <2> QED BY <1>4, <1>5, <2>1 DEF PushOnItsWay
<1>7. PullOnItsWay' /\ DueSeenAbsent'
  BY <1>4, <1>5 DEF PullOnItsWay, DueSeenAbsent
<1> QED BY <1>1, <1>2, <1>3, <1>4, <1>5, <1>6, <1>7, Grown, TransferMoves

LEMMA PushVersionInv ==
  ASSUME Inv, PushVersion
  PROVE  Inv'
<1>1. cmd.op = "push" /\ cmd.step = "versions" /\ cmd \in Transfer
  BY CmdKinds DEF PushVersion, At, Inv
<1>2. PICK v \in Oldest(cmd.left) :
        \/ /\ RemoteTakes(v, cmd.branch)
           /\ cmd' = [cmd EXCEPT !.left = @ \ {v}]
           /\ UNCHANGED <<local, late, lock, runs, history>>
        \/ GiveUp([kind |-> "version", sha |-> v, branch |-> cmd.branch])
  BY DEF PushVersion
<1>3. v \in cmd.left /\ v \in Sha /\ cmd.branch \in Branch
  BY <1>1, <1>2 DEF Oldest, Transfer
<1>4. CASE GiveUp([kind |-> "version", sha |-> v, branch |-> cmd.branch])
  BY <1>3, <1>4, GaveUp DEF Post
<1>5. CASE /\ RemoteTakes(v, cmd.branch)
           /\ cmd' = [cmd EXCEPT !.left = @ \ {v}]
           /\ UNCHANGED <<local, late, lock, runs, history>>
  <2>1. Grows /\ v \in Remote!Stored'
    BY <1>3, <1>5, RemoteTakesGrows DEF Inv
  <2>2. PICK c : c = cmd'
    OBVIOUS
  <2>3. /\ c \in Transfer /\ c.op = "push" /\ c.step = "versions" /\ c.rows = cmd.rows
        /\ c.left = cmd.left \ {v}
    BY <1>1, <1>5, <2>2 DEF Transfer
  <2>4. PushOnItsWay'
    <3>1. cmd.rows \subseteq Remote!Stored \cup cmd.left
      BY <1>1 DEF Inv, PushOnItsWay
    <3>2. c.rows \subseteq Remote!Stored' \cup c.left
      BY <2>1, <2>3, <3>1 DEF Grows, RemoteGrows
    <3> QED BY <2>2, <2>3, <3>2 DEF PushOnItsWay
  <2>5. PullOnItsWay' /\ DueSeenAbsent'
    BY <2>2, <2>3 DEF PullOnItsWay, DueSeenAbsent
  <2> QED BY <1>1, <1>5, <2>1, <2>2, <2>3, <2>4, <2>5, Grown, TransferMoves DEF history
<1> QED BY <1>2, <1>4, <1>5

(* seenAbsent is taken anew here, so what is late has to be in it again.    *)
LEMMA PushListTagsInv ==
  ASSUME Inv, PushListTags
  PROVE  Inv'
<1>1. /\ UNCHANGED <<commits, local, remote, late, lock, runs, done>>
      /\ cmd.op = "push" /\ cmd.step = "versions" /\ cmd.left = {}
      /\ cmd' = [cmd EXCEPT !.step = "tags",
                   !.due = {x \in cmd.tags : rtags[<<Slug, x[1]>>] = 0}]
      /\ seenAbsent' = {t \in Tag : rtags[<<Slug, t>>] = 0} \cup LateTags
  BY DEF PushListTags, At
<1>2. Grows
  BY <1>1, CommitsRest, Rest DEF Inv
<1>3. cmd \in Transfer
  BY <1>1, CmdKinds DEF Inv
<1>4. PICK c : c = cmd'
  OBVIOUS
<1>5. /\ c \in Transfer /\ c.op = "push" /\ c.step = "tags"
      /\ c.rows = cmd.rows /\ c.tags = cmd.tags /\ c.tags \subseteq Tag \X Sha
      /\ c.due = {x \in cmd.tags : rtags[<<Slug, x[1]>>] = 0}
  BY <1>1, <1>3, <1>4 DEF Transfer
<1>6. PushOnItsWay'
  <2>1. c.rows \subseteq Remote!Stored'
    BY <1>1, <1>2, <1>5 DEF Inv, PushOnItsWay, Grows, RemoteGrows
  <2>2. \A x \in c.tags : Put(rtags', x[1]) \/ x \in c.due
    BY <1>1, <1>5 DEF Put, remote
  <2> QED BY <1>4, <1>5, <2>1, <2>2 DEF PushOnItsWay
<1>7. PullOnItsWay' /\ InstallOnItsWay' /\ DueSeenAbsent'
  <2>1. \A x \in c.due : x[1] \in seenAbsent'
    BY <1>1, <1>5
  <2> QED BY <1>4, <1>5, <2>1 DEF PullOnItsWay, InstallOnItsWay, DueSeenAbsent
<1>8. LateSeenAbsent'
  BY <1>1 DEF LateSeenAbsent, LateTags
<1>9. TypeOK'
  <2>1. LateTags \subseteq Tag
    BY DEF Inv, TypeOK, Post, LateTags
  <2>2. lock' \subseteq Entry' /\ late' \subseteq Post' /\ done' \in Report' /\ c \in Transfer'
    BY <1>1, <1>2, <1>5, Grown DEF Inv, TypeOK
  <2>3. Local!TablesTypeOK' /\ Remote!TablesTypeOK'
    BY <1>2 DEF Grows, LocalGrows, RemoteGrows
  <2>4. seenAbsent' \subseteq Tag /\ runs' \in 0..MaxRuns
    BY <1>1, <2>1 DEF Inv, TypeOK
  <2> QED BY <1>4, <2>2, <2>3, <2>4 DEF TypeOK
<1>10. Complete' /\ PushReported' /\ PullReported' /\ InstallReported'
  BY <1>1, <1>2 DEF Inv, Complete, PushReported, PullReported, InstallReported, Grows,
                    LocalGrows, RemoteGrows, local, remote, Local!Stored, Remote!Stored
<1> QED BY <1>6, <1>7, <1>8, <1>9, <1>10 DEF Inv

LEMMA PushTagInv ==
  ASSUME Inv, PushTag
  PROVE  Inv'
<1>1. cmd.op = "push" /\ cmd.step = "tags" /\ cmd \in Transfer
  BY CmdKinds DEF PushTag, At, Inv
<1>2. PICK x \in cmd.due :
        \/ /\ Remote!PutTag(Slug, x[1], x[2])
           /\ cmd' = [cmd EXCEPT !.due = @ \ {x}]
           /\ UNCHANGED <<local, late, lock, runs, history>>
        \/ GiveUp([kind |-> "tag", tag |-> x[1], sha |-> x[2]])
  BY DEF PushTag
<1>3. x[1] \in Tag /\ x[2] \in Sha /\ x[1] \in seenAbsent /\ cmd.tags \subseteq Tag \X Sha
  BY <1>1, <1>2 DEF Transfer, Inv, DueSeenAbsent
<1>4. CASE GiveUp([kind |-> "tag", tag |-> x[1], sha |-> x[2]])
  BY <1>3, <1>4, GaveUp DEF Post
<1>5. CASE /\ Remote!PutTag(Slug, x[1], x[2])
           /\ cmd' = [cmd EXCEPT !.due = @ \ {x}]
           /\ UNCHANGED <<local, late, lock, runs, history>>
  <2>1. Grows /\ Put(rtags', x[1])
    BY <1>3, <1>5, RemoteTagGrows DEF Inv
  <2>2. PICK c : c = cmd'
    OBVIOUS
  <2>3. /\ c \in Transfer /\ c.op = "push" /\ c.step = "tags" /\ c.rows = cmd.rows
        /\ c.tags = cmd.tags /\ c.due = cmd.due \ {x}
    BY <1>1, <1>5, <2>2 DEF Transfer
  <2>4. PushOnItsWay'
    <3>1. cmd.rows \subseteq Remote!Stored
          /\ \A y \in cmd.tags : Put(rtags, y[1]) \/ y \in cmd.due
      BY <1>1 DEF Inv, PushOnItsWay
    <3>2. c.rows \subseteq Remote!Stored'
      BY <2>1, <2>3, <3>1 DEF Grows, RemoteGrows
    <3>3. \A y \in c.tags : Put(rtags', y[1]) \/ y \in c.due
      BY <1>3, <2>1, <2>3, <3>1 DEF Grows, RemoteGrows
    <3> QED BY <2>2, <2>3, <3>2, <3>3 DEF PushOnItsWay
  <2>5. PullOnItsWay' /\ DueSeenAbsent'
    BY <1>1, <1>5, <2>2, <2>3 DEF PullOnItsWay, DueSeenAbsent, Inv, history
  <2> QED BY <1>1, <1>5, <2>1, <2>2, <2>3, <2>4, <2>5, Grown, TransferMoves DEF history
<1> QED BY <1>2, <1>4, <1>5

(* A command ends with a report that is true.                               *)
LEMMA Ended ==
  ASSUME Inv, UNCHANGED <<commits, local, remote, late, lock, runs, seenAbsent>>, cmd' = Idle,
         done' \in Report, PushReported', PullReported', InstallReported'
  PROVE  Inv'
<1>1. Grows
  BY CommitsRest, Rest DEF Inv
<1>2. TypeOK'
  <2>1. lock' \subseteq Entry' /\ late' \subseteq Post' /\ done' \in Report'
    BY <1>1, Grown DEF Inv, TypeOK
  <2>2. Local!TablesTypeOK' /\ Remote!TablesTypeOK'
    BY <1>1 DEF Grows, LocalGrows, RemoteGrows
  <2> QED BY <2>1, <2>2 DEF Inv, TypeOK
<1>3. PushOnItsWay' /\ PullOnItsWay' /\ InstallOnItsWay' /\ DueSeenAbsent'
  BY DEF PushOnItsWay, PullOnItsWay, InstallOnItsWay, DueSeenAbsent, Idle
<1>4. LateSeenAbsent' /\ Complete'
  BY <1>1 DEF Inv, LateSeenAbsent, Complete, Grows, LocalGrows, RemoteGrows
<1> QED BY <1>2, <1>3, <1>4 DEF Inv

LEMMA PushEndsInv ==
  ASSUME Inv, PushEnds
  PROVE  Inv'
<1>1. /\ UNCHANGED <<commits, local, remote, late, lock, runs, seenAbsent>>
      /\ cmd.op = "push" /\ cmd.step = "tags" /\ cmd.due = {} /\ cmd' = Idle
      /\ done' = [op |-> "push", shas |-> cmd.rows, tags |-> Names(cmd.tags)]
  BY DEF PushEnds, At, Finish
<1>2. cmd \in Transfer
  BY <1>1, CmdKinds DEF Inv
<1>3. cmd.rows \subseteq Sha /\ cmd.tags \subseteq Tag \X Sha
  BY <1>2 DEF Transfer
<1>4. done' \in Report
  BY <1>1, <1>3 DEF Report, Names
<1>5. PushReported'
  <2>1. cmd.rows \subseteq Remote!Stored /\ \A x \in cmd.tags : Put(rtags, x[1])
    BY <1>1 DEF Inv, PushOnItsWay
  <2> QED BY <1>1, <2>1 DEF PushReported, Names, Remote!Stored, remote
<1>6. PullReported' /\ InstallReported'
  BY <1>1 DEF PullReported, InstallReported
<1> QED BY <1>1, <1>4, <1>5, <1>6, Ended

LEMMA LatePostInv ==
  ASSUME Inv, NEW post \in late, LatePost(post)
  PROVE  Inv'
<1>1. /\ late' = late \ {post}
      /\ \/ post.kind = "prompt" /\ Remote!NewPrompt(Slug)
         \/ post.kind = "version" /\ RemoteTakes(post.sha, post.branch)
         \/ post.kind = "tag" /\ Remote!PutTag(Slug, post.tag, post.sha)
         \/ UNCHANGED <<commits, remote>>
      /\ UNCHANGED <<local, cmd, lock, runs, done, seenAbsent>>
  BY DEF LatePost, history
<1>2. /\ post.kind = "version" => post.sha \in Sha /\ post.branch \in Branch
      /\ post.kind = "tag" => post.sha \in Sha /\ post.tag \in Tag
  <2>1. post \in Post
    BY DEF Inv, TypeOK
  <2> QED BY <2>1 DEF Post
<1>3. Grows
  BY <1>1, <1>2, CreatesGrow, RemoteTakesGrows, RemoteTagGrows, CommitsRest, Rest DEF Inv
<1> QED BY <1>1, <1>3, Aside

-----------------------------------------------------------------------------
(* pull, step by step.                                                      *)

LEMMA PullStarts ==
  ASSUME Inv, NEW b \in Branch, Pull(b)
  PROVE  Inv'
<1>1. /\ UNCHANGED <<commits, local, remote, late, lock, done, seenAbsent>>
      /\ runs < MaxRuns /\ runs' = runs + 1
      /\ cmd' = [op |-> "pull", step |-> "list", branch |-> b, rows |-> {}, left |-> {},
                 tags |-> {}, due |-> {}]
  BY DEF Pull, Run, history
<1>2. Grows
  BY <1>1, CommitsRest, Rest DEF Inv
<1>3. cmd' \in Transfer'
  BY <1>1 DEF Transfer
<1>4. runs' \in 0..MaxRuns
  BY <1>1, BoundsAssumption DEF Inv, TypeOK
<1>5. PushOnItsWay' /\ PullOnItsWay' /\ InstallOnItsWay' /\ DueSeenAbsent'
  BY <1>1 DEF PushOnItsWay, PullOnItsWay, InstallOnItsWay, DueSeenAbsent
<1> QED BY <1>1, <1>2, <1>3, <1>4, <1>5, Moved DEF Command

LEMMA PullListVersionsInv ==
  ASSUME Inv, PullListVersions
  PROVE  Inv'
<1>1. /\ UNCHANGED <<commits, local, remote, late, lock, runs, done, seenAbsent>>
      /\ cmd.op = "pull"
      /\ cmd' = [cmd EXCEPT !.step = "tag_list", !.rows = OnBranch(rversions, cmd.branch),
                            !.left = OnBranch(rversions, cmd.branch)]
  BY DEF PullListVersions, At, history
<1>2. Grows
  BY <1>1, CommitsRest, Rest DEF Inv
<1>3. cmd \in Transfer
  BY <1>1, CmdKinds DEF Inv
<1>4. PICK c : c = cmd'
  OBVIOUS
<1>5. OnBranch(rversions, cmd.branch) \subseteq Sha
  BY DEF Inv, TypeOK, Remote!TablesTypeOK, Remote!Sha, Sha, OnBranch
<1>6. c \in Transfer /\ c.op = "pull" /\ c.step = "tag_list" /\ c.left = c.rows
  BY <1>1, <1>3, <1>4, <1>5 DEF Transfer
<1>7. PushOnItsWay' /\ PullOnItsWay' /\ DueSeenAbsent'
  BY <1>4, <1>6 DEF PushOnItsWay, PullOnItsWay, DueSeenAbsent
<1> QED BY <1>1, <1>2, <1>3, <1>4, <1>6, <1>7, Grown, TransferMoves

LEMMA PullListTagsInv ==
  ASSUME Inv, PullListTags
  PROVE  Inv'
<1>1. /\ UNCHANGED <<commits, local, remote, late, lock, runs, done, seenAbsent>>
      /\ cmd.op = "pull" /\ cmd.step = "tag_list"
      /\ cmd' = [cmd EXCEPT !.step = "create", !.tags = TagPairs(rtags), !.due = TagPairs(rtags)]
  BY DEF PullListTags, At, history
<1>2. Grows
  BY <1>1, CommitsRest, Rest DEF Inv
<1>3. cmd \in Transfer
  BY <1>1, CmdKinds DEF Inv
<1>4. PICK c : c = cmd'
  OBVIOUS
<1>5. TagPairs(rtags) \subseteq Tag \X Sha
  BY DEF TagPairs
<1>6. /\ c \in Transfer /\ c.op = "pull" /\ c.step = "create" /\ c.due = c.tags
      /\ c.rows = cmd.rows /\ c.left = cmd.left
  BY <1>1, <1>3, <1>4, <1>5 DEF Transfer
<1>7. PullOnItsWay'
  <2>1. c.rows \subseteq Local!Stored' \cup c.left
    BY <1>1, <1>2, <1>6 DEF Inv, PullOnItsWay, Grows, LocalGrows
  <2> QED BY <1>4, <1>6, <2>1 DEF PullOnItsWay
<1>8. PushOnItsWay' /\ DueSeenAbsent'
  BY <1>4, <1>6 DEF PushOnItsWay, DueSeenAbsent
<1> QED BY <1>1, <1>2, <1>3, <1>4, <1>6, <1>7, <1>8, Grown, TransferMoves

(* The pull goes on with what it has listed.                                *)
LEMMA PullGoesOn ==
  ASSUME Inv, Grows, cmd \in Transfer, cmd.op = "pull", cmd.step \in {"create", "versions"},
         UNCHANGED <<late, lock, runs, done, seenAbsent>>,
         NEW left \in SUBSET cmd.left, cmd.left \ left \subseteq Local!Stored',
         NEW due \in SUBSET cmd.due,
         cmd' = [cmd EXCEPT !.step = "versions", !.left = left, !.due = due]
  PROVE  Inv'
<1>1. PICK c : c = cmd'
  OBVIOUS
<1>2. /\ c \in Transfer /\ c.op = "pull" /\ c.step = "versions"
      /\ c.rows = cmd.rows /\ c.tags = cmd.tags /\ c.left = left /\ c.due = due
  BY <1>1 DEF Transfer
<1>3. cmd.rows \subseteq Local!Stored \cup cmd.left
  BY DEF Inv, PullOnItsWay
<1>4. PullOnItsWay'
  <2>1. c.rows \subseteq Local!Stored' \cup c.left
    BY <1>2, <1>3 DEF Grows, LocalGrows
  <2> QED BY <1>1, <1>2, <2>1 DEF PullOnItsWay
<1>5. PushOnItsWay' /\ DueSeenAbsent'
  BY <1>1, <1>2 DEF PushOnItsWay, DueSeenAbsent
<1> QED BY <1>1, <1>2, <1>4, <1>5, Grown, TransferMoves

LEMMA PullCreatePromptInv ==
  ASSUME Inv, PullCreatePrompt
  PROVE  Inv'
<1>1. cmd.op = "pull" /\ cmd.step = "create" /\ cmd \in Transfer
  BY CmdKinds DEF PullCreatePrompt, At, Inv
<1>2. Grows
  BY CreatesGrow, CommitsRest, Rest DEF PullCreatePrompt, Inv
<1>3. cmd' = [cmd EXCEPT !.step = "versions", !.left = cmd.left, !.due = cmd.due]
  BY <1>1 DEF PullCreatePrompt, Goto, Transfer
<1> QED BY <1>1, <1>2, <1>3, PullGoesOn DEF PullCreatePrompt, history

LEMMA PullVersionInv ==
  ASSUME Inv, PullVersion
  PROVE  Inv'
<1>1. cmd.op = "pull" /\ cmd.step = "versions" /\ cmd \in Transfer
  BY CmdKinds DEF PullVersion, At, Inv
<1>2. PICK v \in Oldest(cmd.left) :
        /\ \/ v \in Local!Stored /\ UNCHANGED <<commits, local>>
           \/ Local!InsertImport(Slug, cmd.branch, v)
        /\ cmd' = [cmd EXCEPT !.left = @ \ {v}]
  BY DEF PullVersion
<1>3. UNCHANGED <<remote, late, lock, runs, done, seenAbsent>>
  BY DEF PullVersion, history
<1>4. v \in cmd.left /\ v \in Sha /\ cmd.branch \in Branch
  BY <1>1, <1>2 DEF Oldest, Transfer
<1>5. Grows /\ v \in Local!Stored'
  BY <1>2, <1>3, <1>4, LocalImportGrows DEF Inv
<1>6. cmd' = [cmd EXCEPT !.step = "versions", !.left = cmd.left \ {v}, !.due = cmd.due]
  BY <1>1, <1>2 DEF Transfer
<1> QED BY <1>1, <1>3, <1>4, <1>5, <1>6, PullGoesOn

LEMMA PullTagInv ==
  ASSUME Inv, PullTag
  PROVE  Inv'
<1>1. cmd.op = "pull" /\ cmd.step = "versions" /\ cmd.left = {} /\ cmd \in Transfer
  BY CmdKinds DEF PullTag, At, Inv
<1>2. PICK x \in cmd.due :
        /\ IF x[2] \in Local!Stored THEN Local!PutTag(Slug, x[1], x[2])
           ELSE UNCHANGED <<commits, local>>
        /\ cmd' = [cmd EXCEPT !.due = @ \ {x}]
  BY DEF PullTag
<1>3. UNCHANGED <<remote, late, lock, runs, done, seenAbsent>>
  BY DEF PullTag, history
<1>4. x[1] \in Tag /\ x[2] \in Sha
  BY <1>1, <1>2 DEF Transfer
<1>5. Grows
  BY <1>2, <1>3, <1>4, LocalTagGrows, CommitsRest, Rest DEF Inv
<1>6. cmd' = [cmd EXCEPT !.step = "versions", !.left = cmd.left, !.due = cmd.due \ {x}]
  BY <1>1, <1>2 DEF Transfer
<1> QED BY <1>1, <1>3, <1>5, <1>6, PullGoesOn

LEMMA PullTagFailsInv ==
  ASSUME Inv, PullTagFails
  PROVE  Inv'
<1>1. cmd.op = "pull" /\ cmd.step = "versions" /\ cmd.left = {} /\ cmd \in Transfer
  BY CmdKinds DEF PullTagFails, At, Inv
<1>2. PICK x \in cmd.due : cmd' = [cmd EXCEPT !.due = @ \ {x}]
  BY DEF PullTagFails
<1>3. UNCHANGED <<commits, local, remote, late, lock, runs, done, seenAbsent>>
  BY DEF PullTagFails, history
<1>4. Grows
  BY <1>3, CommitsRest, Rest DEF Inv
<1>5. cmd' = [cmd EXCEPT !.step = "versions", !.left = cmd.left, !.due = cmd.due \ {x}]
  BY <1>1, <1>2 DEF Transfer
<1> QED BY <1>1, <1>3, <1>4, <1>5, PullGoesOn

LEMMA PullEndsInv ==
  ASSUME Inv, PullEnds
  PROVE  Inv'
<1>1. /\ UNCHANGED <<commits, local, remote, late, lock, runs, seenAbsent>>
      /\ cmd.op = "pull" /\ cmd.step = "versions" /\ cmd.left = {} /\ cmd.due = {} /\ cmd' = Idle
      /\ done' = [op |-> "pull", shas |-> cmd.rows,
                  tags |-> Names({x \in cmd.tags : x[2] \in cmd.rows})]
  BY DEF PullEnds, At, Finish
<1>2. cmd \in Transfer
  BY <1>1, CmdKinds DEF Inv
<1>3. cmd.rows \subseteq Sha /\ cmd.tags \subseteq Tag \X Sha
  BY <1>2 DEF Transfer
<1>4. done' \in Report
  BY <1>1, <1>3 DEF Report, Names
<1>5. PullReported'
  <2>1. cmd.rows \subseteq Local!Stored
    BY <1>1 DEF Inv, PullOnItsWay
  <2> QED BY <1>1, <2>1 DEF PullReported, Local!Stored, local
<1>6. PushReported' /\ InstallReported'
  BY <1>1 DEF PushReported, InstallReported
<1> QED BY <1>1, <1>4, <1>5, <1>6, Ended

-----------------------------------------------------------------------------
(* lock and install, step by step.                                          *)

(* A command that is neither a push nor a pull moves on.                    *)
LEMMA LockMoves ==
  ASSUME Inv, Grows, UNCHANGED <<lock, done, seenAbsent, late>>, runs' \in 0..MaxRuns,
         cmd' \in Locking' \cup Installing', InstallOnItsWay'
  PROVE  Inv'
<1>1. cmd'.op \in {"lock", "install"}
  BY DEF Locking, Installing
<1>2. PushOnItsWay' /\ PullOnItsWay' /\ DueSeenAbsent'
  BY <1>1 DEF PushOnItsWay, PullOnItsWay, DueSeenAbsent
<1> QED BY <1>2, Moved DEF Command

LEMMA LockInv ==
  ASSUME Inv, Lock
  PROVE  Inv'
<1>1. /\ UNCHANGED <<commits, local, remote, late, lock, done, seenAbsent>>
      /\ runs < MaxRuns /\ runs' = runs + 1
      /\ cmd' = [op |-> "lock", left |-> Uris, entries |-> {}]
  BY DEF Lock, Run, history
<1>2. Grows
  BY <1>1, CommitsRest, Rest DEF Inv
<1>3. cmd' \in Locking' /\ runs' \in 0..MaxRuns
  BY <1>1, BoundsAssumption DEF Locking, Inv, TypeOK
<1>4. InstallOnItsWay'
  BY <1>1 DEF InstallOnItsWay
<1> QED BY <1>1, <1>2, <1>3, <1>4, LockMoves

LEMMA LockUriInv ==
  ASSUME Inv, LockUri
  PROVE  Inv'
<1>1. cmd.op = "lock" /\ cmd \in Locking
  BY CmdKinds DEF LockUri, Inv
<1>2. PICK u \in cmd.left :
        /\ Resolved(u) # 0
        /\ cmd' = [cmd EXCEPT !.left = @ \ {u},
                     !.entries = @ \cup {[uri |-> u, sha |-> Resolved(u)]}]
  BY DEF LockUri
<1>3. UNCHANGED <<commits, local, remote, late, lock, runs, done, seenAbsent>>
  BY DEF LockUri, history
<1>4. Grows
  BY <1>3, CommitsRest, Rest DEF Inv
<1>5. u \in Uris /\ Resolved(u) \in Sha
  BY <1>1, <1>2, ResolvedStored DEF Locking, Inv
<1>6. [uri |-> u, sha |-> Resolved(u)] \in Entry
  BY <1>5 DEF Entry
<1>7. cmd' \in Locking /\ cmd'.op = "lock"
  BY <1>1, <1>2, <1>6 DEF Locking
<1>8. InstallOnItsWay'
  BY <1>7 DEF InstallOnItsWay
<1>9. runs' \in 0..MaxRuns
  BY <1>3 DEF Inv, TypeOK
<1> QED BY <1>3, <1>4, <1>7, <1>8, <1>9, Grown, LockMoves

LEMMA WriteLockInv ==
  ASSUME Inv, WriteLock
  PROVE  Inv'
<1>1. /\ UNCHANGED <<commits, local, remote, late, runs, done, seenAbsent>>
      /\ cmd.op = "lock" /\ lock' = cmd.entries /\ cmd' = Idle
  BY DEF WriteLock, history
<1>2. Grows
  BY <1>1, CommitsRest, Rest DEF Inv
<1>3. TypeOK'
  <2>1. cmd \in Locking
    BY <1>1, CmdKinds DEF Inv
  <2>2. lock' \subseteq Entry
    BY <1>1, <2>1 DEF Locking
  <2>3. lock' \subseteq Entry' /\ late' \subseteq Post' /\ done' \in Report'
    BY <1>1, <1>2, <2>2, Grown DEF Inv, TypeOK
  <2>4. Local!TablesTypeOK' /\ Remote!TablesTypeOK'
    BY <1>2 DEF Grows, LocalGrows, RemoteGrows
  <2> QED BY <1>1, <2>3, <2>4 DEF Inv, TypeOK
<1>4. PushOnItsWay' /\ PullOnItsWay' /\ InstallOnItsWay' /\ DueSeenAbsent'
  BY <1>1 DEF PushOnItsWay, PullOnItsWay, InstallOnItsWay, DueSeenAbsent, Idle
<1>5. Complete' /\ PushReported' /\ PullReported' /\ InstallReported' /\ LateSeenAbsent'
  BY <1>1, <1>2 DEF Inv, Complete, PushReported, PullReported, InstallReported, Grows,
                    LocalGrows, RemoteGrows, local, remote, Local!Stored, Remote!Stored,
                    LateSeenAbsent
<1> QED BY <1>3, <1>4, <1>5 DEF Inv

LEMMA InstallInv ==
  ASSUME Inv, Install
  PROVE  Inv'
<1>1. /\ UNCHANGED <<commits, local, remote, late, lock, done, seenAbsent>>
      /\ runs < MaxRuns /\ runs' = runs + 1
      /\ cmd' = [op |-> "install", left |-> lock, quiet |-> TRUE]
  BY DEF Install, Run, history
<1>2. Grows
  BY <1>1, CommitsRest, Rest DEF Inv
<1>3. cmd' \in Installing
  BY <1>1 DEF Installing, Inv, TypeOK
<1>4. runs' \in 0..MaxRuns
  BY <1>1, BoundsAssumption DEF Inv, TypeOK
<1>5. InstallOnItsWay'
  BY <1>1 DEF InstallOnItsWay
<1> QED BY <1>1, <1>2, <1>3, <1>4, <1>5, Grown, LockMoves

(* The install is through with an entry: its version is stored, or it has   *)
(* said that it is not.                                                     *)
LEMMA InstallGoesOn ==
  ASSUME Inv, Grows, cmd.op = "install", UNCHANGED <<late, lock, runs, done, seenAbsent>>,
         NEW e \in cmd.left, NEW quiet \in BOOLEAN, Next1(e, quiet),
         quiet => e.sha \in Local!Stored'
  PROVE  Inv'
<1>1. cmd \in Installing
  BY CmdKinds DEF Inv
<1>2. PICK c : c = cmd'
  OBVIOUS
<1>3. c \in Installing /\ c.op = "install" /\ c.left = cmd.left \ {e}
  BY <1>1, <1>2 DEF Next1, Installing
<1>4. c.quiet <=> cmd.quiet /\ quiet
  BY <1>1, <1>2 DEF Next1, Installing
<1>5. InstallOnItsWay'
  <2>1. cmd.quiet => \A x \in lock : x.sha \in Local!Stored \/ x \in cmd.left
    BY DEF Inv, InstallOnItsWay
  <2>2. c.quiet => \A x \in lock : x.sha \in Local!Stored' \/ x \in c.left
    BY <1>3, <1>4, <2>1 DEF Grows, LocalGrows
  <2> QED BY <1>2, <1>3, <2>2 DEF InstallOnItsWay
<1>6. runs' \in 0..MaxRuns
  BY DEF Inv, TypeOK
<1> QED BY <1>2, <1>3, <1>5, <1>6, Grown, LockMoves

LEMMA InstallPresentInv ==
  ASSUME Inv, InstallPresent
  PROVE  Inv'
<1>1. UNCHANGED <<commits, local, remote, late, lock, runs, done, seenAbsent>>
      /\ cmd.op = "install"
  BY DEF InstallPresent, history
<1>2. Grows
  BY <1>1, CommitsRest, Rest DEF Inv
<1>3. PICK e \in cmd.left : e.sha \in Local!Stored /\ Next1(e, TRUE)
  BY DEF InstallPresent
<1>4. e.sha \in Local!Stored'
  BY <1>2, <1>3 DEF Grows, LocalGrows
<1> QED BY <1>1, <1>2, <1>3, <1>4, InstallGoesOn

LEMMA InstallUnresolvedInv ==
  ASSUME Inv, InstallUnresolved
  PROVE  Inv'
<1>1. UNCHANGED <<commits, local, remote, late, lock, runs, done, seenAbsent>>
      /\ cmd.op = "install"
  BY DEF InstallUnresolved, history
<1>2. Grows
  BY <1>1, CommitsRest, Rest DEF Inv
<1>3. PICK e \in cmd.left : Next1(e, FALSE)
  BY DEF InstallUnresolved
<1> QED BY <1>1, <1>2, <1>3, InstallGoesOn

(* The branch an import is put on is that of the version where it comes     *)
(* from, which has a row there because refs resolve.                        *)
LEMMA InstallFetchInv ==
  ASSUME Inv, InstallFetch
  PROVE  Inv'
<1>1. PICK e \in cmd.left :
        /\ Resolved(e.uri) # 0
        /\ \/ Resolved(e.uri) \in Local!Stored /\ UNCHANGED <<commits, local>>
           \/ /\ e.uri.remote
              /\ Local!InsertImport(Slug, rversions[Resolved(e.uri)].branch, Resolved(e.uri))
        /\ Next1(e, ~Warns(e, Resolved(e.uri)))
  BY DEF InstallFetch
<1>2. UNCHANGED <<remote, late, lock, runs, done, seenAbsent>> /\ cmd.op = "install"
  BY DEF InstallFetch, history
<1>3. e.uri \in Uris
  <2>1. cmd \in Installing
    BY <1>2, CmdKinds DEF Inv
  <2> QED BY <2>1 DEF Installing, Entry
<1>4. PICK v : v = Resolved(e.uri)
  OBVIOUS
<1>5. v \in Sha /\ v \in (IF e.uri.remote THEN Remote!Stored ELSE Local!Stored)
  BY <1>1, <1>3, <1>4, ResolvedStored DEF Inv
<1>6. Grows /\ v \in Local!Stored'
  <2>1. CASE v \in Local!Stored /\ UNCHANGED <<commits, local>>
    BY <1>2, <2>1, CommitsRest, Rest DEF Inv, Grows, LocalGrows
  <2>2. CASE e.uri.remote /\ Local!InsertImport(Slug, rversions[v].branch, v)
    <3>1. v \in Remote!Stored
      BY <1>5, <2>2
    <3>2. rversions[v] \in Remote!Row
      BY <3>1 DEF Inv, TypeOK, Remote!TablesTypeOK, Remote!Stored
    <3>3. rversions[v].branch \in Branch
      BY <3>2 DEF Remote!Row
    <3> QED BY <1>2, <1>5, <2>2, <3>3, LocalImportGrows DEF Inv
  <2> QED BY <1>1, <1>4, <2>1, <2>2
<1>7. Warns(e, v) \in BOOLEAN /\ (~Warns(e, v) => e.sha \in Local!Stored')
  BY <1>6 DEF Warns
<1> QED BY <1>1, <1>2, <1>4, <1>6, <1>7, InstallGoesOn

LEMMA InstallCreatePromptInv ==
  ASSUME Inv, InstallCreatePrompt
  PROVE  Inv'
<1>1. UNCHANGED <<remote, cmd, late, lock, runs, done, seenAbsent>> /\ Local!NewPrompt(Slug)
  BY DEF InstallCreatePrompt, history
<1>2. Grows
  BY <1>1, CreatesGrow DEF Inv
<1> QED BY <1>1, <1>2, Aside

LEMMA InstallEndsInv ==
  ASSUME Inv, InstallEnds
  PROVE  Inv'
<1>1. /\ UNCHANGED <<commits, local, remote, late, lock, runs, seenAbsent>>
      /\ cmd.op = "install" /\ cmd.left = {} /\ cmd' = Idle
      /\ \/ /\ cmd.quiet
            /\ done' = [op |-> "install", shas |-> {e.sha : e \in lock}, tags |-> {}]
         \/ UNCHANGED done
  BY DEF InstallEnds, Finish
<1>2. CASE UNCHANGED done
  BY <1>1, <1>2, CommitsRest, Rest, Aside DEF Inv
<1>3. CASE /\ cmd.quiet
           /\ done' = [op |-> "install", shas |-> {e.sha : e \in lock}, tags |-> {}]
  <2>1. \A e \in lock : e.sha \in Local!Stored /\ e.sha \in Sha
    BY <1>1, <1>3 DEF Inv, InstallOnItsWay, TypeOK, Entry
  <2>2. done' \in Report
    BY <1>3, <2>1 DEF Report
  <2>3. PushReported' /\ PullReported'
    BY <1>3 DEF PushReported, PullReported
  <2>4. InstallReported'
    BY <1>1, <1>3, <2>1 DEF InstallReported, Local!Stored, local
  <2> QED BY <1>1, <2>2, <2>3, <2>4, Ended
<1> QED BY <1>1, <1>2, <1>3

-----------------------------------------------------------------------------
LEMMA InitInv == Init => Inv
<1> SUFFICES ASSUME Init PROVE Inv
  OBVIOUS
<1>1. Local!TablesTypeOK
  BY DEF Init, Local!TablesInit, Local!TablesTypeOK, Local!NoSha, Local!Commit
<1>2. Remote!TablesTypeOK
  BY DEF Init, Remote!TablesInit, Remote!TablesTypeOK, Remote!NoSha, Remote!Commit
<1>3. done \in Report
  BY DEF Init, Report
<1>4. TypeOK
  BY <1>1, <1>2, <1>3, BoundsAssumption DEF Init, TypeOK
<1>5. Complete
  BY DEF Init, Complete, Local!TablesInit, Remote!TablesInit, Local!ReferencesResolve,
         Remote!ReferencesResolve, Local!Stored, Remote!Stored, Local!NoSha, Remote!NoSha
<1>6. /\ PushOnItsWay /\ PullOnItsWay /\ InstallOnItsWay
      /\ PushReported /\ PullReported /\ InstallReported
      /\ DueSeenAbsent /\ LateSeenAbsent
  BY DEF Init, Idle, PushOnItsWay, PullOnItsWay, InstallOnItsWay, PushReported, PullReported,
         InstallReported, DueSeenAbsent, LateSeenAbsent
<1> QED BY <1>4, <1>5, <1>6 DEF Inv

LEMMA NextInv == Inv /\ [Next]_vars => Inv'
<1> SUFFICES ASSUME Inv, [Next]_vars PROVE Inv'
  OBVIOUS
<1>1. CASE Elsewhere
  <2>1. Grows
    BY <1>1, ElsewhereGrows DEF Inv
  <2>2. UNCHANGED <<cmd, late, lock, runs, history>>
    BY <1>1 DEF Elsewhere, OtherCreates, CreatePrompt, OtherCommits, Commit1, OtherTags,
                TagVersion, OtherPoints, PointBranch, Others, User
  <2> QED BY <2>1, <2>2, Aside DEF history
<1>2. CASE Start
  BY <1>2, PushStarts, PullStarts, LockInv, InstallInv DEF Start
<1>3. CASE PushSteps
  BY <1>3, PushGetPromptInv, PushCreatePromptInv, PushListVersionsInv, PushVersionInv,
     PushListTagsInv, PushTagInv, PushEndsInv DEF PushSteps
<1>4. CASE PullSteps
  BY <1>4, PullListVersionsInv, PullListTagsInv, PullCreatePromptInv, PullVersionInv, PullTagInv,
     PullTagFailsInv, PullEndsInv DEF PullSteps
<1>5. CASE LockSteps
  BY <1>5, LockUriInv, WriteLockInv, InstallPresentInv, InstallUnresolvedInv, InstallFetchInv,
     InstallCreatePromptInv, InstallEndsInv DEF LockSteps
<1>6. CASE Abort
  <2>1. /\ UNCHANGED <<commits, local, remote, late, lock, runs, done, seenAbsent>>
        /\ cmd' = Idle
    BY <1>6 DEF Abort, history
  <2> QED BY <2>1, CommitsRest, Rest, Aside DEF Inv
<1>7. CASE \E post \in late : LatePost(post)
  BY <1>7, LatePostInv
<1>8. CASE UNCHANGED vars
  BY <1>8, CommitsRest, Rest, Aside DEF Inv, vars, history
<1> QED BY <1>1, <1>2, <1>3, <1>4, <1>5, <1>6, <1>7, <1>8 DEF Next

LEMMA AlwaysInv == Spec => []Inv
  BY InitInv, NextInv, PTL DEF Spec

-----------------------------------------------------------------------------
(* Variables of Client hold what they are declared for.                     *)
THEOREM ClientTypeCorrect == Spec => []TypeOK
<1>1. Inv => TypeOK
  BY DEF Inv
<1> QED BY AlwaysInv, <1>1, PTL

(* No step of any command or of another client leaves a branch, a tag or a  *)
(* version, on either side, that points at a version that is not stored:    *)
(* push and import send parents before children, and a refusal ends them.   *)
THEOREM BothVaultsResolve == Spec => [](Local!ReferencesResolve /\ Remote!ReferencesResolve)
<1>1. Inv => Local!ReferencesResolve /\ Remote!ReferencesResolve
  BY DEF Inv, Complete
<1> QED BY AlwaysInv, <1>1, PTL

(* The ancestors of a stored version are stored: the stored versions are    *)
(* closed under parents.                                                    *)
LEMMA AncestorsStored ==
  ASSUME Inv, NEW x \in Sha, NEW v, Local!IsAncestor(x, v)
  PROVE  /\ v \in Local!Stored => x \in Local!Stored
         /\ v \in Remote!Stored => x \in Remote!Stored
<1>1. Local!Stored \in SUBSET Local!Sha /\ Local!ParentClosed(Local!Stored)
  BY DEF Inv, TypeOK, Complete, Local!TablesTypeOK, Local!ReferencesResolve, Local!Stored,
         Local!ParentClosed
<1>2. Remote!Stored \in SUBSET Local!Sha /\ Local!ParentClosed(Remote!Stored)
  BY DEF Inv, TypeOK, Complete, Remote!TablesTypeOK, Remote!ReferencesResolve, Remote!Stored,
         Local!ParentClosed, Local!Sha, Remote!Sha, Local!NoSha, Remote!NoSha
<1> QED BY <1>1, <1>2 DEF Local!IsAncestor

(* However a command is cut off and whatever the other clients do, the      *)
(* history under every branch and tag of either vault is complete.          *)
THEOREM BothHistoriesComplete == Spec => [](Local!HistoryComplete /\ Remote!HistoryComplete)
<1>1. Inv => Local!HistoryComplete /\ Remote!HistoryComplete
  <2> SUFFICES ASSUME Inv PROVE Local!HistoryComplete /\ Remote!HistoryComplete
    OBVIOUS
  <2>1. \A x, v : Remote!IsAncestor(x, v) <=> Local!IsAncestor(x, v)
    BY DEF Remote!IsAncestor, Local!IsAncestor, Remote!ParentClosed, Local!ParentClosed,
           Remote!Sha, Local!Sha, Remote!NoSha, Local!NoSha
  <2>2. Local!Sha = Sha /\ Remote!Sha = Sha /\ 0 \notin Sha
    BY DEF Local!Sha, Remote!Sha, Sha
  <2>3. Local!HistoryComplete
    BY <2>2, AncestorsStored DEF Inv, Complete, Local!HistoryComplete, Local!ReferencesResolve,
                                 Local!NoSha
  <2>4. Remote!HistoryComplete
    BY <2>1, <2>2, AncestorsStored DEF Inv, Complete, Remote!HistoryComplete,
                                       Remote!ReferencesResolve, Remote!NoSha
  <2> QED BY <2>3, <2>4
<1> QED BY AlwaysInv, <1>1, PTL

(* A push that ends without an error has brought every version of the       *)
(* branch, with its full history, and every tag name to the remote, and a   *)
(* pull every version with its history to the local vault; they stay there. *)
THEOREM TransfersComplete == Spec => []DoneMeansThere
<1>1. Inv => DoneMeansThere
  <2> SUFFICES ASSUME Inv PROVE DoneMeansThere
    OBVIOUS
  <2>1. CASE done.op = "push"
    BY <2>1, AncestorsStored DEF Inv, PushReported, Arrived, Put, DoneMeansThere
  <2>2. CASE done.op = "pull"
    BY <2>2, AncestorsStored DEF Inv, PullReported, Arrived, DoneMeansThere
  <2> QED BY <2>1, <2>2 DEF DoneMeansThere
<1> QED BY AlwaysInv, <1>1, PTL

(* An install that neither fails nor warns has stored every version that    *)
(* the lock file pins, though the refs it asks for may have moved since.    *)
THEOREM CleanInstallsArePinned == Spec => []CleanInstallPinned
<1>1. Inv => CleanInstallPinned
  BY DEF Inv, InstallReported, CleanInstallPinned, Arrived
<1> QED BY AlwaysInv, <1>1, PTL

(* A push moves no tag that was on the remote when it listed the tags, nor  *)
(* does a POST of an earlier push that arrives late.                        *)
THEOREM PushesKeepRemoteTags == Spec => RemoteTagsKept
<1> DEFINE Kept ==
             \A t \in Tag :
               rtags[<<Slug, t>>] \notin {0, rtags'[<<Slug, t>>]} =>
                 t \in seenAbsent \/ UNCHANGED <<cmd, late>>
<1>1. ASSUME Inv, [Next]_vars, NEW t \in Tag, rtags[<<Slug, t>>] \notin {0, rtags'[<<Slug, t>>]}
      PROVE  t \in seenAbsent \/ UNCHANGED <<cmd, late>>
  <2>1. CASE Elsewhere
    BY <2>1 DEF Elsewhere, OtherCreates, CreatePrompt, OtherCommits, Commit1, OtherTags,
                TagVersion, OtherPoints, PointBranch, Others, User
  <2>2. CASE PushTag
    <3>1. PICK x \in cmd.due :
            \/ Remote!PutTag(Slug, x[1], x[2])
            \/ GiveUp([kind |-> "tag", tag |-> x[1], sha |-> x[2]])
      BY <2>2 DEF PushTag
    <3>2. x[1] \in seenAbsent
      BY <1>1, <2>2 DEF Inv, DueSeenAbsent, PushTag, At
    <3>3. CASE GiveUp([kind |-> "tag", tag |-> x[1], sha |-> x[2]])
      BY <1>1, <3>3 DEF GiveUp, remote
    <3>4. CASE Remote!PutTag(Slug, x[1], x[2])
      <4>1. t # x[1] => rtags'[<<Slug, t>>] = rtags[<<Slug, t>>]
        BY <3>4 DEF Remote!PutTag, Inv, TypeOK, Remote!TablesTypeOK
      <4> QED BY <1>1, <3>2, <4>1
    <3> QED BY <3>1, <3>3, <3>4
  <2>3. CASE \E post \in late : LatePost(post)
    <3>1. PICK post \in late : LatePost(post)
      BY <2>3
    <3>2. CASE post.kind = "tag" /\ Remote!PutTag(Slug, post.tag, post.sha)
      <4>1. t # post.tag => rtags'[<<Slug, t>>] = rtags[<<Slug, t>>]
        BY <3>2 DEF Remote!PutTag, Inv, TypeOK, Remote!TablesTypeOK
      <4> QED BY <1>1, <3>2, <4>1 DEF Inv, LateSeenAbsent
    <3>3. CASE \/ Remote!NewPrompt(Slug)
               \/ RemoteTakes(post.sha, post.branch)
               \/ UNCHANGED <<commits, remote>>
      BY <1>1, <3>3 DEF Remote!NewPrompt, RemoteTakes, Remote!InsertImport, remote
    <3> QED BY <3>1, <3>2, <3>3 DEF LatePost
  <2>4. CASE \/ Start \/ PullSteps \/ LockSteps \/ Abort \/ UNCHANGED vars
             \/ PushGetPrompt \/ PushCreatePrompt \/ PushListVersions \/ PushVersion
             \/ PushListTags \/ PushEnds
    <3>1. UNCHANGED rtags
      <4>1. CASE Start
        BY <4>1 DEF Start, Push, Pull, Lock, Install, remote
      <4>2. CASE PullSteps
        BY <4>2 DEF PullSteps, PullListVersions, PullListTags, PullCreatePrompt, PullVersion,
                    PullTag, PullTagFails, PullEnds, remote
      <4>3. CASE LockSteps
        BY <4>3 DEF LockSteps, LockUri, WriteLock, InstallPresent, InstallUnresolved,
                    InstallFetch, InstallCreatePrompt, InstallEnds, remote
      <4>4. CASE Abort \/ UNCHANGED vars
        BY <4>4 DEF Abort, vars, remote
      <4>5. CASE PushGetPrompt \/ PushListVersions \/ PushListTags \/ PushEnds
        BY <4>5 DEF PushGetPrompt, PushListVersions, PushListTags, PushEnds, remote
      <4>6. CASE PushCreatePrompt
        BY <4>6 DEF PushCreatePrompt, Remote!NewPrompt, GiveUp, remote
      <4>7. CASE PushVersion
        BY <4>7 DEF PushVersion, RemoteTakes, Remote!InsertImport, GiveUp, remote
      <4> QED BY <2>4, <4>1, <4>2, <4>3, <4>4, <4>5, <4>6, <4>7
    <3> QED BY <1>1, <3>1
  <2> QED BY <1>1, <2>1, <2>2, <2>3, <2>4 DEF Next, PushSteps
<1>2. Inv /\ [Next]_vars => [Kept]_vars
  BY <1>1
<1> QED BY AlwaysInv, <1>2, PTL DEF Spec, RemoteTagsKept
=============================================================================
