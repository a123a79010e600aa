---------------------------- MODULE CommunityProofs ----------------------------
(***************************************************************************)
(* What holds of Community for any number of sessions, namespaces, prompts,*)
(* actors, collections and requests, whichever of them fail.               *)
(***************************************************************************)
EXTENDS Community, FiniteSetTheorems, TLAPS

Starred(p) == {a \in Actor : <<a, p>> \in stars}

(* A request that publishes a namespace held a certificate for it, or found *)
(* it public.                                                               *)
PatchChecked ==
  \A s \in Session : req[s].op = "patch" /\ req[s].kind = "public" =>
                       req[s].shown \/ req[s].read = "public"

Inv == TypeOK /\ StarCountIsRows /\ PatchChecked

-----------------------------------------------------------------------------
(* Types.                                                                   *)

(* What a request that has begun carries.                                   *)
LEMMA RequestFields ==
  ASSUME TypeOK, NEW s \in Session
  PROVE  /\ req[s].op = "patch" =>
              req[s].ns \in Namespace /\ req[s].kind \in Kind /\ req[s].read \in Kind
         /\ req[s].op = "issue" =>
              req[s].cert \in Cert /\ req[s].ns \in Namespace /\ req[s].until \in Nat
         /\ req[s].op = "hook" => req[s].hook \in Hook
         /\ req[s].op \in {"create", "commit", "delete", "star", "unstar", "comment", "put"} =>
              req[s].prompt \in Prompt
         /\ req[s].op \in {"star", "unstar"} => req[s].actor \in Actor
         /\ req[s].op = "comment" => req[s].comment \in Comment
         /\ req[s].op \in {"collect", "put"} => req[s].collection \in Collection
         /\ req[s].op # "idle" => s \notin broken
BY DEF TypeOK, Request, Idle

LEMMA GotoType ==
  ASSUME TypeOK, NEW s \in Session, NEW r \in Request \cup {Idle}, Goto(s, r), s \notin broken,
         broken' = broken
  PROVE  /\ req' \in [Session -> Request \cup {Idle}]
         /\ \A x \in Session : req'[x] # Idle => x \notin broken'
BY DEF TypeOK, Goto

LEMMA AskType == ASSUME TypeOK, Ask PROVE asks' \in 0..MaxAsks
BY BoundsAssumption DEF TypeOK, Ask

LEMMA EnsureType ==
  ASSUME TypeOK, NEW n \in Namespace, NEW kind \in Kind, Ensure(n, kind)
  PROVE  ns' \in [Namespace -> Kind \cup {"absent"}]
BY DEF TypeOK, Ensure

(* The tables of this module as they were.                                  *)
LEMMA TablesSame ==
  ASSUME TypeOK, UNCHANGED <<prompts, versions, social, hooks, nextVersion>>,
         ns' \in [Namespace -> Kind \cup {"absent"}],
         certs' \in [Cert -> [ns : Namespace, until : Nat, revoked : BOOLEAN, issued : BOOLEAN]],
         broken' \subseteq Session, req' \in [Session -> Request \cup {Idle}],
         \A x \in Session : req'[x] # Idle => x \notin broken',
         clock' \in 0..MaxTime, asks' \in 0..MaxAsks
  PROVE  TypeOK'
BY DEF TypeOK, social, Standing, Live

LEMMA BeginType ==
  ASSUME TypeOK, NEW s \in Session, NEW r \in Request, Begin(s, r)
  PROVE  TypeOK'
<1>1. /\ UNCHANGED <<clock, ns, certs, prompts, versions, social, hooks, broken, nextVersion>>
      /\ s \notin broken /\ Ask /\ Goto(s, r)
  BY DEF Begin, Ready, access
<1>2. asks' \in 0..MaxAsks
  BY <1>1, AskType
<1>3. /\ req' \in [Session -> Request \cup {Idle}]
      /\ \A x \in Session : req'[x] # Idle => x \notin broken'
  BY <1>1, GotoType
<1> QED BY <1>1, <1>2, <1>3, TablesSame DEF TypeOK

(* What Finish() leaves of a request.                                       *)
LEMMA FinishType ==
  ASSUME TypeOK, NEW s \in Session, req[s].op # "idle", Finish(s)
  PROVE  /\ req' \in [Session -> Request \cup {Idle}]
         /\ \A x \in Session : req'[x] # Idle => x \notin broken'
         /\ UNCHANGED <<clock, broken, asks>>
<1>1. Goto(s, Idle) /\ UNCHANGED <<clock, broken, asks>> /\ s \notin broken
  BY RequestFields DEF Finish
<1> QED BY <1>1, GotoType

LEMMA BeginsType ==
  ASSUME TypeOK, NEW s \in Session, NEW t \in Cert \cup {NoCert},
         \/ \E n \in Namespace, kind \in Kind : PatchBegin(s, n, kind, t)
         \/ \E c \in Cert, n \in Namespace, life \in Lives : IssueBegin(s, c, n, life)
         \/ \E h \in Hook : HookBegin(s, h)
         \/ \E p \in Prompt : CommitBegin(s, p, t) \/ DeleteBegin(s, p, t)
         \/ \E p \in Prompt, a \in Actor : StarBegin(s, a, p, t) \/ UnstarBegin(s, a, p, t)
         \/ \E p \in Prompt, c \in Comment : CommentBegin(s, c, p, t)
         \/ \E p \in Prompt : PutBegin(s, p, t)
  PROVE  TypeOK'
<1>1. ASSUME NEW n \in Namespace, NEW kind \in Kind, PatchBegin(s, n, kind, t)
      PROVE  TypeOK'
  <2>1. ns[n] \in Kind /\ Verified(t, n) \in BOOLEAN
    BY <1>1 DEF TypeOK, PatchBegin, Verified
  <2>2. [op |-> "patch", ns |-> n, kind |-> kind, read |-> ns[n], shown |-> Verified(t, n)]
          \in Request
    BY <2>1 DEF Request
  <2> QED BY <1>1, <2>2, BeginType DEF PatchBegin
<1>2. ASSUME NEW c \in Cert, NEW n \in Namespace, NEW life \in Lives, IssueBegin(s, c, n, life)
      PROVE  TypeOK'
  <2>1. clock + life \in Nat
    BY BoundsAssumption DEF TypeOK
  <2>2. [op |-> "issue", cert |-> c, ns |-> n, until |-> clock + life] \in Request
    BY <2>1 DEF Request
  <2> QED BY <1>2, <2>2, BeginType DEF IssueBegin
<1>3. ASSUME NEW h \in Hook, HookBegin(s, h)
      PROVE  TypeOK'
  <2>1. [op |-> "hook", hook |-> h] \in Request
    BY DEF Request
  <2> QED BY <1>3, <2>1, BeginType DEF HookBegin
<1>4. ASSUME NEW p \in Prompt, CommitBegin(s, p, t) \/ DeleteBegin(s, p, t)
      PROVE  TypeOK'
  <2>1. [op |-> "commit", prompt |-> p] \in Request /\ [op |-> "delete", prompt |-> p] \in Request
    BY DEF Request
  <2> QED BY <1>4, <2>1, BeginType DEF CommitBegin, DeleteBegin
<1>5. ASSUME NEW p \in Prompt, NEW a \in Actor, StarBegin(s, a, p, t) \/ UnstarBegin(s, a, p, t)
      PROVE  TypeOK'
  <2>1. /\ [op |-> "star", actor |-> a, prompt |-> p] \in Request
        /\ [op |-> "unstar", actor |-> a, prompt |-> p] \in Request
    BY DEF Request
  <2> QED BY <1>5, <2>1, BeginType DEF StarBegin, UnstarBegin
<1>6. ASSUME NEW p \in Prompt, NEW c \in Comment, CommentBegin(s, c, p, t)
      PROVE  TypeOK'
  <2>1. [op |-> "comment", comment |-> c, prompt |-> p] \in Request
    BY DEF Request
  <2> QED BY <1>6, <2>1, BeginType DEF CommentBegin
<1>7. ASSUME NEW p \in Prompt, PutBegin(s, p, t)
      PROVE  TypeOK'
  <2>1. PICK c \in Collection : Begin(s, [op |-> "put", collection |-> c, prompt |-> p])
    BY <1>7 DEF PutBegin, Standing
  <2>2. [op |-> "put", collection |-> c, prompt |-> p] \in Request
    BY DEF Request
  <2> QED BY <2>1, <2>2, BeginType
<1> QED BY <1>1, <1>2, <1>3, <1>4, <1>5, <1>6, <1>7

(* The steps of one transaction each.                                       *)
LEMMA AtOnceType ==
  ASSUME TypeOK, NEW s \in Session, NEW t \in Cert \cup {NoCert},
         \/ \E n \in Namespace, kind \in Kind : CreateNamespace(s, n, kind)
         \/ \E c \in Cert : Revoke(s, c)
         \/ \E h \in Hook : DeleteHook(s, h)
         \/ \E p \in Prompt : CreateBegin(s, p, t) \/ TakeOut(s, p, t)
         \/ \E c \in Comment, n \in Namespace : DeleteComment(s, c, n, t)
         \/ \E c \in Collection : CollectBegin(s, c, t)
         \/ DeleteCollection(s, t)
  PROVE  TypeOK'
<1>1. ASSUME NEW n \in Namespace, NEW kind \in Kind, CreateNamespace(s, n, kind)
      PROVE  TypeOK'
  <2>1. asks' \in 0..MaxAsks
    BY <1>1, AskType DEF CreateNamespace, Ready
  <2> QED BY <1>1, <2>1, EnsureType, TablesSame DEF CreateNamespace, TypeOK
<1>2. ASSUME NEW c \in Cert, Revoke(s, c)
      PROVE  TypeOK'
  <2>1. asks' \in 0..MaxAsks
    BY <1>2, AskType DEF Revoke, Ready
  <2> QED BY <1>2, <2>1, TablesSame DEF Revoke, TypeOK
<1>3. ASSUME NEW h \in Hook, DeleteHook(s, h)
      PROVE  TypeOK'
  <2>1. asks' \in 0..MaxAsks
    BY <1>3, AskType DEF DeleteHook, Ready
  <2> QED BY <1>3, <2>1 DEF DeleteHook, TypeOK, access, social, Standing, Live
<1>4. ASSUME NEW p \in Prompt, CreateBegin(s, p, t)
      PROVE  TypeOK'
  <2>1. Home[p] \in Namespace /\ "public" \in Kind
    BY HomeAssumption DEF Kind
  <2>2. asks' \in 0..MaxAsks /\ s \notin broken /\ Ensure(Home[p], "public")
    BY <1>4, AskType DEF CreateBegin, Ready
  <2>3. ns' \in [Namespace -> Kind \cup {"absent"}]
    BY <2>1, <2>2, EnsureType
  <2>4. [op |-> "create", prompt |-> p] \in Request
    BY DEF Request
  <2>5. /\ req' \in [Session -> Request \cup {Idle}]
        /\ \A x \in Session : req'[x] # Idle => x \notin broken'
    BY <1>4, <2>2, <2>4, GotoType DEF CreateBegin
  <2> QED BY <1>4, <2>2, <2>3, <2>5, TablesSame DEF CreateBegin, TypeOK
<1>5. ASSUME NEW p \in Prompt, TakeOut(s, p, t)
      PROVE  TypeOK'
  <2>1. asks' \in 0..MaxAsks
    BY <1>5, AskType DEF TakeOut, Ready
  <2> QED BY <1>5, <2>1 DEF TakeOut, TypeOK, access, Standing, Live
<1>6. ASSUME NEW c \in Comment, NEW n \in Namespace, DeleteComment(s, c, n, t)
      PROVE  TypeOK'
  <2>1. asks' \in 0..MaxAsks
    BY <1>6, AskType DEF DeleteComment, Ready
  <2> QED BY <1>6, <2>1 DEF DeleteComment, TypeOK, access, Standing, Live
<1>7. ASSUME NEW c \in Collection, CollectBegin(s, c, t)
      PROVE  TypeOK'
  <2>1. Shelf \in Namespace /\ "public" \in Kind
    BY HomeAssumption DEF Kind
  <2>2. asks' \in 0..MaxAsks /\ s \notin broken /\ Ensure(Shelf, "public")
    BY <1>7, AskType DEF CollectBegin, Ready
  <2>3. ns' \in [Namespace -> Kind \cup {"absent"}]
    BY <2>1, <2>2, EnsureType
  <2>4. [op |-> "collect", collection |-> c] \in Request
    BY DEF Request
  <2>5. /\ req' \in [Session -> Request \cup {Idle}]
        /\ \A x \in Session : req'[x] # Idle => x \notin broken'
    BY <1>7, <2>2, <2>4, GotoType DEF CollectBegin
  <2> QED BY <1>7, <2>2, <2>3, <2>5, TablesSame DEF CollectBegin, TypeOK
<1>8. ASSUME DeleteCollection(s, t)
      PROVE  TypeOK'
  <2>1. asks' \in 0..MaxAsks
    BY <1>8, AskType DEF DeleteCollection, Ready
  <2>2. PICK c \in Standing :
          /\ items' = {x \in items : x[1] # c}
          /\ collections' = [collections EXCEPT ![c] = "deleted"]
    BY <1>8 DEF DeleteCollection
  <2>3. collections' \in Row(Collection) /\ Standing' = Standing \ {c}
    BY <2>2 DEF TypeOK, Row, Standing
  <2>4. items' \subseteq Standing' \X {p \in Prompt : Live(p)}
    BY <2>2, <2>3 DEF TypeOK
  <2> QED BY <1>8, <2>1, <2>3, <2>4 DEF DeleteCollection, TypeOK, access, Live
<1> QED BY <1>1, <1>2, <1>3, <1>4, <1>5, <1>6, <1>7, <1>8

(* The steps that end a request.                                            *)
LEMMA ProceedType ==
  ASSUME TypeOK, NEW s \in Session, Proceed(s),
         UnstarWrite(s) => starCount' \in [Prompt -> Nat]
  PROVE  TypeOK'
<1>1. CASE PatchWrite(s)
  <2>1. ns' \in [Namespace -> Kind \cup {"absent"}]
    BY <1>1, RequestFields DEF PatchWrite, TypeOK
  <2> QED BY <1>1, <2>1, FinishType, TablesSame DEF PatchWrite, TypeOK
<1>2. CASE IssueWrite(s)
  <2>1. certs' \in [Cert -> [ns : Namespace, until : Nat, revoked : BOOLEAN, issued : BOOLEAN]]
    BY <1>2, RequestFields DEF IssueWrite, TypeOK
  <2> QED BY <1>2, <2>1, FinishType, TablesSame DEF IssueWrite, TypeOK
<1>3. CASE HookWrite(s)
  <2>1. hooks' \subseteq Hook
    BY <1>3, RequestFields DEF HookWrite, TypeOK
  <2> QED BY <1>3, <2>1, FinishType DEF HookWrite, TypeOK, access, social, Standing, Live
<1>4. CASE CreateWrite(s)
  <2>1. req[s].prompt \in Prompt /\ req[s].op # "idle"
    BY <1>4, RequestFields DEF CreateWrite
  <2>2. prompts' \in Row(Prompt) /\ \A p \in Prompt : Live(p) => Live(p)'
    BY <1>4, <2>1 DEF CreateWrite, TypeOK, Row, Live
  <2>3. /\ req' \in [Session -> Request \cup {Idle}]
        /\ \A x \in Session : req'[x] # Idle => x \notin broken'
        /\ UNCHANGED <<clock, broken, asks, ns, certs, versions, hooks, nextVersion>>
        /\ UNCHANGED <<starCount, stars, comments, collections, items>>
    BY <1>4, <2>1, FinishType DEF CreateWrite, access, social
  <2> QED BY <2>2, <2>3 DEF TypeOK, Standing
<1>5. CASE CommitWrite(s)
  <2>1. req[s].prompt \in Prompt /\ req[s].op # "idle" /\ Live(req[s].prompt)
    BY <1>5, RequestFields DEF CommitWrite
  <2>2. /\ nextVersion' \in 1..(MaxVersions + 1)
        /\ versions' \subseteq (1..(nextVersion' - 1)) \X {p \in Prompt : Live(p)}
    BY <1>5, <2>1, BoundsAssumption DEF CommitWrite, TypeOK
  <2>3. /\ req' \in [Session -> Request \cup {Idle}]
        /\ \A x \in Session : req'[x] # Idle => x \notin broken'
        /\ UNCHANGED <<clock, broken, asks, ns, certs, prompts, hooks>>
        /\ UNCHANGED <<starCount, stars, comments, collections, items>>
    BY <1>5, <2>1, FinishType DEF CommitWrite, access, social
  <2> QED BY <2>2, <2>3 DEF TypeOK, Standing, Live
<1>6. CASE DeleteWrite(s)
  <2>1. req[s].prompt \in Prompt /\ req[s].op # "idle"
    BY <1>6, RequestFields DEF DeleteWrite
  <2> DEFINE q == req[s].prompt
  <2>2. /\ prompts' \in Row(Prompt)
        /\ \A p \in Prompt : Live(p) /\ p # q => Live(p)'
    BY <1>6, <2>1 DEF DeleteWrite, TypeOK, Row, Live
  <2>3. /\ req' \in [Session -> Request \cup {Idle}]
        /\ \A x \in Session : req'[x] # Idle => x \notin broken'
        /\ UNCHANGED <<clock, broken, asks, ns, certs, nextVersion, hooks>>
        /\ UNCHANGED <<starCount, stars, comments, collections, items>>
        /\ versions' = {x \in versions : x[2] # q} /\ ~Held(q)
    BY <1>6, <2>1, FinishType DEF DeleteWrite, access, social
  <2>4. /\ \A x \in stars : x[2] # q
        /\ \A x \in comments : x[2] # q
        /\ \A x \in items : x[2] # q
    <3>1. /\ \A a \in Actor : <<a, q>> \notin stars
          /\ \A c \in Comment : <<c, q>> \notin comments
          /\ \A c \in Collection : <<c, q>> \notin items
      BY <2>3 DEF Held
    <3>2. /\ \A x \in stars : x[1] \in Actor /\ x = <<x[1], x[2]>>
          /\ \A x \in comments : x[1] \in Comment /\ x = <<x[1], x[2]>>
          /\ \A x \in items : x[1] \in Collection /\ x = <<x[1], x[2]>>
      BY DEF TypeOK, Standing
    <3> QED BY <3>1, <3>2
  <2> HIDE DEF q
  <2>5. /\ versions' \subseteq (1..(nextVersion - 1)) \X {p \in Prompt : Live(p)'}
        /\ stars \subseteq Actor \X {p \in Prompt : Live(p)'}
        /\ comments \subseteq Comment \X {p \in Prompt : Live(p)'}
        /\ items \subseteq Standing \X {p \in Prompt : Live(p)'}
    BY <2>2, <2>3, <2>4 DEF TypeOK
  <2> QED BY <2>2, <2>3, <2>5 DEF TypeOK, Standing
<1>7. CASE StarWrite(s)
  <2>1. req[s].prompt \in Prompt /\ req[s].actor \in Actor /\ req[s].op # "idle"
    BY <1>7, RequestFields DEF StarWrite
  <2>2. /\ stars' \subseteq Actor \X {p \in Prompt : Live(p)}
        /\ starCount' \in [Prompt -> Nat]
    BY <1>7, <2>1 DEF StarWrite, TypeOK
  <2> QED BY <1>7, <2>1, <2>2, FinishType DEF StarWrite, TypeOK, access, Standing, Live
<1>8. CASE UnstarWrite(s)
  <2>1. req[s].op # "idle"
    BY <1>8 DEF UnstarWrite
  <2>2. stars' \subseteq Actor \X {p \in Prompt : Live(p)}
    BY <1>8 DEF UnstarWrite, TypeOK
  <2> QED BY <1>8, <2>1, <2>2, FinishType DEF UnstarWrite, TypeOK, access, Standing, Live
<1>9. CASE CommentWrite(s)
  <2>1. req[s].prompt \in Prompt /\ req[s].comment \in Comment /\ req[s].op # "idle"
    BY <1>9, RequestFields DEF CommentWrite
  <2>2. comments' \subseteq Comment \X {p \in Prompt : Live(p)}
    BY <1>9, <2>1 DEF CommentWrite, TypeOK
  <2> QED BY <1>9, <2>1, <2>2, FinishType DEF CommentWrite, TypeOK, access, Standing, Live
<1>10. CASE CollectWrite(s)
  <2>1. req[s].collection \in Collection /\ req[s].op # "idle" /\ Standing = {}
    BY <1>10, RequestFields DEF CollectWrite
  <2>2. collections' \in Row(Collection) /\ \A c \in Standing' : c = req[s].collection
    BY <1>10, <2>1 DEF CollectWrite, TypeOK, Row, Standing
  <2>3. items = {}
    BY <2>1 DEF TypeOK
  <2>4. /\ req' \in [Session -> Request \cup {Idle}]
        /\ \A x \in Session : req'[x] # Idle => x \notin broken'
        /\ UNCHANGED <<clock, broken, asks, ns, certs, prompts, versions, nextVersion, hooks>>
        /\ UNCHANGED <<starCount, stars, comments, items>>
    BY <1>10, <2>1, FinishType DEF CollectWrite, access
  <2> QED BY <2>2, <2>3, <2>4 DEF TypeOK, Live
<1>11. CASE PutWrite(s)
  <2>1. req[s].prompt \in Prompt /\ req[s].op # "idle"
    BY <1>11, RequestFields DEF PutWrite
  <2>2. items' \subseteq Standing \X {p \in Prompt : Live(p)}
    BY <1>11, <2>1 DEF PutWrite, TypeOK
  <2> QED BY <1>11, <2>1, <2>2, FinishType DEF PutWrite, TypeOK, access, Standing, Live
<1>12. CASE FlushFails(s) \/ Abandon(s)
  <2>1. /\ req' = [req EXCEPT ![s] = Idle]
        /\ broken' \in {broken \cup {s}, broken \ {s}}
        /\ UNCHANGED <<clock, access, prompts, versions, social, hooks, asks, nextVersion>>
    BY <1>12 DEF FlushFails, Abandon, Goto
  <2>2. /\ req' \in [Session -> Request \cup {Idle}]
        /\ \A x \in Session : req'[x] # Idle => x \notin broken'
        /\ broken' \subseteq Session
    BY <2>1 DEF TypeOK
  <2> QED BY <2>1, <2>2, TablesSame DEF TypeOK, access
<1>13. CASE Refuse(s)
  <2>1. asks' \in 0..MaxAsks
    BY <1>13, AskType DEF Refuse
  <2>2. /\ broken' \subseteq Session /\ \A x \in Session : req'[x] # Idle => x \notin broken'
        /\ UNCHANGED <<clock, access, prompts, versions, social, hooks, req, nextVersion>>
    BY <1>13 DEF Refuse, TypeOK
  <2> QED BY <2>1, <2>2, TablesSame DEF TypeOK, access
<1> QED
  BY <1>1, <1>2, <1>3, <1>4, <1>5, <1>6, <1>7, <1>8, <1>9, <1>10, <1>11, <1>12, <1>13
  DEF Proceed

-----------------------------------------------------------------------------
(* The cached counter.                                                      *)

LEMMA StarredFinite ==
  ASSUME NEW p
  PROVE  IsFiniteSet(Starred(p)) /\ Cardinality(Starred(p)) \in Nat
<1>1. Starred(p) \in SUBSET Actor
  BY DEF Starred
<1>2. IsFiniteSet(Starred(p))
  BY <1>1, ActorAssumption, FS_Subset
<1> QED BY <1>2, FS_CardinalityType

LEMMA StarWriteCount ==
  ASSUME Inv, NEW s \in Session, StarWrite(s)
  PROVE  StarCountIsRows'
<1> DEFINE q == req[s].prompt
           a == req[s].actor
<1>1. q \in Prompt /\ a \in Actor
  BY RequestFields DEF StarWrite, Inv
<1>2. /\ a \notin Starred(q)
      /\ stars' = stars \cup {<<a, q>>} /\ starCount' = [starCount EXCEPT ![q] = @ + 1]
  BY DEF StarWrite, Starred
<1> HIDE DEF q, a
<1>3. ASSUME NEW p \in Prompt
      PROVE  starCount'[p] = Cardinality({b \in Actor : <<b, p>> \in stars'})
  <2>1. starCount[p] = Cardinality(Starred(p))
    BY DEF Inv, StarCountIsRows, Starred
  <2>2. CASE p = q
    <3>1. {b \in Actor : <<b, p>> \in stars'} = Starred(p) \cup {a}
      BY <1>1, <1>2, <2>2 DEF Starred
    <3>2. Cardinality(Starred(p) \cup {a}) = Cardinality(Starred(p)) + 1
      BY <1>2, <2>2, StarredFinite, FS_AddElement
    <3>3. starCount'[p] = starCount[p] + 1
      BY <1>1, <1>2, <2>2 DEF Inv, TypeOK
    <3> QED BY <2>1, <3>1, <3>2, <3>3
  <2>3. CASE p # q
    <3>1. {b \in Actor : <<b, p>> \in stars'} = Starred(p)
      BY <1>2, <2>3 DEF Starred
    <3>2. starCount'[p] = starCount[p]
      BY <1>2, <2>3 DEF Inv, TypeOK
    <3> QED BY <2>1, <3>1, <3>2
  <2> QED BY <2>2, <2>3
<1> QED BY <1>3 DEF StarCountIsRows

LEMMA UnstarWriteCount ==
  ASSUME Inv, NEW s \in Session, UnstarWrite(s)
  PROVE  StarCountIsRows' /\ starCount' \in [Prompt -> Nat]
<1> DEFINE q == req[s].prompt
           a == req[s].actor
<1>1. q \in Prompt /\ a \in Actor
  BY RequestFields DEF UnstarWrite, Inv
<1>2. /\ stars' = stars \ {<<a, q>>}
      /\ starCount' = IF <<a, q>> \in stars THEN [starCount EXCEPT ![q] = @ - 1] ELSE starCount
  BY DEF UnstarWrite
<1> HIDE DEF q, a
<1>3. ASSUME NEW p \in Prompt
      PROVE  starCount'[p] = Cardinality({b \in Actor : <<b, p>> \in stars'})
  <2>1. starCount[p] = Cardinality(Starred(p))
    BY DEF Inv, StarCountIsRows, Starred
  <2>2. CASE p = q /\ <<a, q>> \in stars
    <3>1. {b \in Actor : <<b, p>> \in stars'} = Starred(p) \ {a} /\ a \in Starred(p)
      BY <1>1, <1>2, <2>2 DEF Starred
    <3>2. Cardinality(Starred(p) \ {a}) = Cardinality(Starred(p)) - 1
      BY <3>1, StarredFinite, FS_RemoveElement
    <3>3. starCount'[p] = starCount[p] - 1
      BY <1>1, <1>2, <2>2 DEF Inv, TypeOK
    <3> QED BY <2>1, <3>1, <3>2, <3>3
  <2>3. CASE ~(p = q /\ <<a, q>> \in stars)
    <3>1. {b \in Actor : <<b, p>> \in stars'} = Starred(p)
      BY <1>2, <2>3 DEF Starred
    <3>2. starCount'[p] = starCount[p]
      BY <1>2, <2>3 DEF Inv, TypeOK
    <3> QED BY <2>1, <3>1, <3>2
  <2> QED BY <2>2, <2>3
<1>4. \A p \in Prompt : starCount'[p] \in Nat
  <2> SUFFICES ASSUME NEW p \in Prompt
               PROVE  starCount'[p] \in Nat
    OBVIOUS
  <2>1. {b \in Actor : <<b, p>> \in stars'} \in SUBSET Actor
    OBVIOUS
  <2>2. IsFiniteSet({b \in Actor : <<b, p>> \in stars'})
    BY <2>1, ActorAssumption, FS_Subset
  <2> QED BY <2>2, <1>3, FS_CardinalityType
<1>5. starCount' \in [Prompt -> Nat]
  BY <1>2, <1>4 DEF Inv, TypeOK
<1> QED BY <1>3, <1>5 DEF StarCountIsRows

(* All other steps leave stars and their counters alone.                    *)
LEMMA NextStars ==
  ASSUME Next
  PROVE  \/ UNCHANGED <<stars, starCount>>
         \/ \E s \in Session : StarWrite(s) \/ UnstarWrite(s)
<1>1. CASE Tick
  BY <1>1 DEF Tick, social
<1>2. ASSUME NEW s, NEW r, Begin(s, r)
      PROVE  UNCHANGED <<stars, starCount>>
  BY <1>2 DEF Begin, social
<1>3. ASSUME NEW s \in Session, NEW t \in Cert \cup {NoCert}, Administer(s, t)
      PROVE  UNCHANGED <<stars, starCount>>
  BY <1>2, <1>3 DEF Administer, CreateNamespace, PatchBegin, IssueBegin, Revoke, HookBegin,
                    DeleteHook, social
<1>4. ASSUME NEW s \in Session, NEW t \in Cert \cup {NoCert}, Use(s, t)
      PROVE  UNCHANGED <<stars, starCount>>
  <2>1. ASSUME NEW p \in Prompt, CreateBegin(s, p, t) \/ TakeOut(s, p, t)
        PROVE  UNCHANGED <<stars, starCount>>
    BY <2>1 DEF CreateBegin, TakeOut, social
  <2>2. ASSUME NEW p \in Prompt, CommitBegin(s, p, t) \/ DeleteBegin(s, p, t) \/ PutBegin(s, p, t)
        PROVE  UNCHANGED <<stars, starCount>>
    BY <1>2, <2>2 DEF CommitBegin, DeleteBegin, PutBegin
  <2>3. ASSUME NEW p, NEW a, StarBegin(s, a, p, t) \/ UnstarBegin(s, a, p, t) \/ CommentBegin(s, a, p, t)
        PROVE  UNCHANGED <<stars, starCount>>
    BY <1>2, <2>3 DEF StarBegin, UnstarBegin, CommentBegin
  <2>4. ASSUME NEW c, NEW n, \/ DeleteComment(s, c, n, t) \/ CollectBegin(s, c, t)
                             \/ DeleteCollection(s, t)
        PROVE  UNCHANGED <<stars, starCount>>
    BY <2>4 DEF DeleteComment, CollectBegin, DeleteCollection, social
  <2> QED BY <1>4, <2>1, <2>2, <2>3, <2>4 DEF Use
<1>5. ASSUME NEW s \in Session, Proceed(s)
      PROVE  UNCHANGED <<stars, starCount>> \/ StarWrite(s) \/ UnstarWrite(s)
  BY <1>5 DEF Proceed, PatchWrite, IssueWrite, HookWrite, CreateWrite, CommitWrite, DeleteWrite,
              CommentWrite, CollectWrite, PutWrite, FlushFails, Abandon, Refuse, social
<1> QED BY <1>1, <1>3, <1>4, <1>5 DEF Next

-----------------------------------------------------------------------------
(* Who publishes a namespace.                                               *)

(* The steps but PatchBegin() of a request that is not idle afterwards.     *)
LEMMA NextPatch ==
  ASSUME TypeOK, Next, NEW x \in Session, req'[x] # req[x], req'[x].op = "patch"
  PROVE  \E n \in Namespace, kind \in Kind, t \in Cert \cup {NoCert} : PatchBegin(x, n, kind, t)
<1>1. ASSUME NEW s \in Session, NEW r, Goto(s, r)
      PROVE  s = x /\ r.op = "patch"
  BY <1>1 DEF Goto, TypeOK
<1>2. Idle.op # "patch"
  BY DEF Idle
<1>3. CASE Tick
  BY <1>3 DEF Tick
<1>4. ASSUME NEW s \in Session, NEW t \in Cert \cup {NoCert}, Administer(s, t)
      PROVE  \E n \in Namespace, kind \in Kind : s = x /\ PatchBegin(x, n, kind, t)
  <2>1. ASSUME NEW c \in Cert, NEW n \in Namespace, NEW life \in Lives, IssueBegin(s, c, n, life)
        PROVE  FALSE
    <3>1. Goto(s, [op |-> "issue", cert |-> c, ns |-> n, until |-> clock + life])
      BY <2>1 DEF IssueBegin, Begin
    <3> QED BY <3>1, <1>1
  <2>2. ASSUME NEW h \in Hook, HookBegin(s, h)
        PROVE  FALSE
    <3>1. Goto(s, [op |-> "hook", hook |-> h])
      BY <2>2 DEF HookBegin, Begin
    <3> QED BY <3>1, <1>1
  <2>3. \A n, kind : ~CreateNamespace(s, n, kind)
    BY DEF CreateNamespace
  <2>4. \A c : ~Revoke(s, c) /\ ~DeleteHook(s, c)
    BY DEF Revoke, DeleteHook
  <2>5. ASSUME NEW n \in Namespace, NEW kind \in Kind, PatchBegin(s, n, kind, t)
        PROVE  s = x
    <3>1. \E r : Goto(s, r)
      BY <2>5 DEF PatchBegin, Begin
    <3> QED BY <3>1, <1>1
  <2> QED BY <1>4, <2>1, <2>2, <2>3, <2>4, <2>5 DEF Administer
<1>5. ASSUME NEW s \in Session, NEW t \in Cert \cup {NoCert}
      PROVE  ~Use(s, t)
  <2>1. ASSUME NEW p \in Prompt, CreateBegin(s, p, t) \/ CommitBegin(s, p, t) \/ DeleteBegin(s, p, t)
        PROVE  FALSE
    <3>1. \/ Goto(s, [op |-> "create", prompt |-> p]) \/ Goto(s, [op |-> "commit", prompt |-> p])
          \/ Goto(s, [op |-> "delete", prompt |-> p])
      BY <2>1 DEF CreateBegin, CommitBegin, DeleteBegin, Begin
    <3> QED BY <3>1, <1>1
  <2>2. ASSUME NEW p \in Prompt, NEW a, StarBegin(s, a, p, t) \/ UnstarBegin(s, a, p, t)
        PROVE  FALSE
    <3>1. \/ Goto(s, [op |-> "star", actor |-> a, prompt |-> p])
          \/ Goto(s, [op |-> "unstar", actor |-> a, prompt |-> p])
      BY <2>2 DEF StarBegin, UnstarBegin, Begin
    <3> QED BY <3>1, <1>1
  <2>3. ASSUME NEW p \in Prompt, NEW c, CommentBegin(s, c, p, t)
        PROVE  FALSE
    <3>1. Goto(s, [op |-> "comment", comment |-> c, prompt |-> p])
      BY <2>3 DEF CommentBegin, Begin
    <3> QED BY <3>1, <1>1
  <2>4. ASSUME NEW p \in Prompt, PutBegin(s, p, t)
        PROVE  FALSE
    <3>1. PICK c : Goto(s, [op |-> "put", collection |-> c, prompt |-> p])
      BY <2>4 DEF PutBegin, Begin
    <3> QED BY <3>1, <1>1
  <2>5. ASSUME NEW c, CollectBegin(s, c, t)
        PROVE  FALSE
    <3>1. Goto(s, [op |-> "collect", collection |-> c])
      BY <2>5 DEF CollectBegin
    <3> QED BY <3>1, <1>1
  <2>6. /\ \A p : ~TakeOut(s, p, t)
        /\ \A c, n : ~DeleteComment(s, c, n, t)
        /\ ~DeleteCollection(s, t)
    BY DEF TakeOut, DeleteComment, DeleteCollection
  <2> QED BY <2>1, <2>2, <2>3, <2>4, <2>5, <2>6 DEF Use
<1>6. ASSUME NEW s \in Session
      PROVE  ~Proceed(s)
  <2>1. Proceed(s) => Goto(s, Idle) \/ req' = req
    BY DEF Proceed, PatchWrite, IssueWrite, HookWrite, CreateWrite, CommitWrite, DeleteWrite,
           StarWrite, UnstarWrite, CommentWrite, CollectWrite, PutWrite, FlushFails, Abandon,
           Refuse, Finish
  <2> QED BY <2>1, <1>1, <1>2
<1> QED BY <1>3, <1>4, <1>5, <1>6 DEF Next

LEMMA NextPatchChecked == TypeOK /\ PatchChecked /\ [Next]_vars => PatchChecked'
<1> SUFFICES ASSUME TypeOK, PatchChecked, [Next]_vars, NEW x \in Session,
                    req'[x].op = "patch", req'[x].kind = "public"
             PROVE  req'[x].shown \/ req'[x].read = "public"
  BY DEF PatchChecked
<1>1. CASE req'[x] = req[x]
  BY <1>1 DEF PatchChecked
<1>2. CASE req'[x] # req[x]
  <2>1. Next
    BY <1>2 DEF vars
  <2>2. PICK n \in Namespace, kind \in Kind, t \in Cert \cup {NoCert} : PatchBegin(x, n, kind, t)
    BY <1>2, <2>1, NextPatch
  <2>3. /\ req'[x] = [op |-> "patch", ns |-> n, kind |-> kind, read |-> ns[n],
                      shown |-> Verified(t, n)]
        /\ ns[n] # "absent"
    BY <2>2 DEF PatchBegin, Begin, Goto, TypeOK
  <2>4. kind = "public" /\ Admitted(n, t)
    BY <2>2, <2>3 DEF PatchBegin
  <2>5. ns[n] \in {"public", "proprietary"}
    BY <2>3 DEF TypeOK, Kind
  <2>6. CASE ns[n] = "public"
    BY <2>3, <2>6
  <2>7. CASE ns[n] = "proprietary"
    <3>1. Verified(t, n)
      BY <2>4, <2>7 DEF Admitted
    <3> QED BY <2>3, <3>1
  <2> QED BY <2>5, <2>6, <2>7
<1> QED BY <1>1, <1>2

-----------------------------------------------------------------------------
LEMMA InitInv == Init => Inv
<1> SUFFICES ASSUME Init
             PROVE  Inv
  OBVIOUS
<1>1. TypeOK
  BY HomeAssumption, BoundsAssumption
  DEF Init, TypeOK, Row, Standing, NotIssued, Idle, Live
<1>2. StarCountIsRows
  BY FS_EmptySet DEF Init, StarCountIsRows
<1>3. PatchChecked
  BY DEF Init, PatchChecked, Idle
<1> QED BY <1>1, <1>2, <1>3 DEF Inv

LEMMA NextType == Inv /\ [Next]_vars => TypeOK'
<1> SUFFICES ASSUME Inv, [Next]_vars
             PROVE  TypeOK'
  OBVIOUS
<1>1. TypeOK
  BY DEF Inv
<1>2. CASE Tick
  BY <1>1, <1>2, TablesSame, BoundsAssumption DEF Tick, TypeOK, access
<1>3. ASSUME NEW s \in Session, NEW t \in Cert \cup {NoCert}, Administer(s, t)
      PROVE  TypeOK'
  BY <1>1, <1>3, BeginsType, AtOnceType DEF Administer
<1>4. ASSUME NEW s \in Session, NEW t \in Cert \cup {NoCert}, Use(s, t)
      PROVE  TypeOK'
  BY <1>1, <1>4, BeginsType, AtOnceType DEF Use
<1>5. ASSUME NEW s \in Session, Proceed(s)
      PROVE  TypeOK'
  BY <1>1, <1>5, ProceedType, UnstarWriteCount
<1>6. CASE UNCHANGED vars
  BY <1>1, <1>6, TablesSame DEF vars, TypeOK, access, social
<1> QED BY <1>2, <1>3, <1>4, <1>5, <1>6 DEF Next

LEMMA NextStarCount == Inv /\ [Next]_vars => StarCountIsRows'
<1> SUFFICES ASSUME Inv, [Next]_vars
             PROVE  StarCountIsRows'
  OBVIOUS
<1>1. CASE UNCHANGED <<stars, starCount>>
  BY <1>1 DEF Inv, StarCountIsRows
<1>2. CASE UNCHANGED vars
  BY <1>1, <1>2 DEF vars, social
<1> QED BY <1>1, <1>2, NextStars, StarWriteCount, UnstarWriteCount

LEMMA InvHolds == Spec => []Inv
<1>1. Inv /\ [Next]_vars => Inv'
  BY NextType, NextStarCount, NextPatchChecked DEF Inv
<1> QED BY InitInv, <1>1, PTL DEF Spec

-----------------------------------------------------------------------------
(* The tables keep their types, their foreign keys and their unique names,  *)
(* whichever requests race, fail or break their session.                    *)
THEOREM CommunityTypeCorrect == Spec => []TypeOK
<1>1. Inv => TypeOK
  BY DEF Inv
<1> QED BY <1>1, InvHolds, PTL

(* prompts.star_count never drifts from the rows of table stars.            *)
THEOREM StarCountAlwaysRows == Spec => []StarCountIsRows
<1>1. Inv => StarCountIsRows
  BY DEF Inv
<1> QED BY <1>1, InvHolds, PTL

LEMMA StepVersionsGo ==
  Inv /\ Next => \A x \in versions \ versions' : prompts'[x[2]] = "deleted" /\ ~Held(x[2])
<1> SUFFICES ASSUME Inv, Next, NEW x \in versions \ versions'
             PROVE  prompts'[x[2]] = "deleted" /\ ~Held(x[2])
  OBVIOUS
<1>1. x[2] \in Prompt
  BY DEF Inv, TypeOK
<1>2. CASE \E s \in Session : DeleteWrite(s)
  BY <1>1, <1>2 DEF DeleteWrite, Inv, TypeOK, Row
<1>3. CASE \E s \in Session : CommitWrite(s)
  BY <1>3 DEF CommitWrite
<1>4. CASE UNCHANGED versions
  BY <1>4
<1>5. ASSUME NEW s, NEW r, Begin(s, r)
      PROVE  UNCHANGED versions
  BY <1>5 DEF Begin
<1>6. ASSUME NEW s \in Session, NEW t \in Cert \cup {NoCert}, Administer(s, t)
      PROVE  UNCHANGED versions
  BY <1>5, <1>6 DEF Administer, CreateNamespace, PatchBegin, IssueBegin, Revoke, HookBegin, DeleteHook
<1>7. ASSUME NEW s \in Session, NEW t \in Cert \cup {NoCert}, Use(s, t)
      PROVE  UNCHANGED versions
  <2>1. ASSUME NEW p \in Prompt, CommitBegin(s, p, t) \/ DeleteBegin(s, p, t) \/ PutBegin(s, p, t)
        PROVE  UNCHANGED versions
    BY <1>5, <2>1 DEF CommitBegin, DeleteBegin, PutBegin
  <2>2. ASSUME NEW p, NEW a, StarBegin(s, a, p, t) \/ UnstarBegin(s, a, p, t) \/ CommentBegin(s, a, p, t)
        PROVE  UNCHANGED versions
    BY <1>5, <2>2 DEF StarBegin, UnstarBegin, CommentBegin
  <2>3. ASSUME NEW p, NEW n, \/ CreateBegin(s, p, t) \/ TakeOut(s, p, t)
                             \/ DeleteComment(s, p, n, t) \/ CollectBegin(s, p, t)
                             \/ DeleteCollection(s, t)
        PROVE  UNCHANGED versions
    BY <2>3 DEF CreateBegin, TakeOut, DeleteComment, CollectBegin, DeleteCollection
  <2> QED BY <1>7, <2>1, <2>2, <2>3 DEF Use
<1>8. ASSUME NEW s \in Session, Proceed(s)
      PROVE  UNCHANGED versions \/ DeleteWrite(s) \/ CommitWrite(s)
  BY <1>8 DEF Proceed, PatchWrite, IssueWrite, HookWrite, CreateWrite, StarWrite, UnstarWrite,
              CommentWrite, CollectWrite, PutWrite, FlushFails, Abandon, Refuse
<1>9. CASE Tick
  BY <1>9 DEF Tick
<1> QED BY <1>2, <1>3, <1>4, <1>6, <1>7, <1>8, <1>9 DEF Next

(* delete_prompt() takes the versions together with the prompt or not at    *)
(* all, and not those of a prompt that stars, comments or items refer to.   *)
THEOREM VersionsAlwaysGoWithPrompt == Spec => VersionsGoWithPrompt
<1>1. Inv /\ [Next]_vars =>
        [\A x \in versions \ versions' : prompts'[x[2]] = "deleted" /\ ~Held(x[2])]_vars
  BY StepVersionsGo
<1> QED BY <1>1, InvHolds, PTL DEF Spec, VersionsGoWithPrompt

LEMMA StepPublished ==
  Inv /\ Next =>
    \A n \in Namespace :
      ns[n] = "proprietary" /\ ns'[n] = "public" =>
        \E s \in Session :
          /\ req[s].op = "patch" /\ req[s].ns = n /\ req'[s] = Idle
          /\ req[s].shown \/ req[s].read = "public"
<1> SUFFICES ASSUME Inv, Next, NEW n \in Namespace, ns[n] = "proprietary", ns'[n] = "public"
             PROVE  \E s \in Session :
                      /\ req[s].op = "patch" /\ req[s].ns = n /\ req'[s] = Idle
                      /\ req[s].shown \/ req[s].read = "public"
  OBVIOUS
<1>1. ns' # ns
  OBVIOUS
<1>2. ASSUME NEW m, NEW kind, Ensure(m, kind)
      PROVE  FALSE
  BY <1>2 DEF Ensure, Inv, TypeOK
<1>3. ASSUME NEW s, NEW r, Begin(s, r)
      PROVE  FALSE
  BY <1>1, <1>3 DEF Begin, access
<1>4. ASSUME NEW s \in Session, PatchWrite(s)
      PROVE  /\ req[s].op = "patch" /\ req[s].ns = n /\ req'[s] = Idle
             /\ req[s].shown \/ req[s].read = "public"
  <2>1. req[s].op = "patch" /\ ns' = [ns EXCEPT ![req[s].ns] = req[s].kind] /\ req'[s] = Idle
    BY <1>4 DEF PatchWrite, Finish, Goto, Inv, TypeOK
  <2>2. req[s].ns = n /\ req[s].kind = "public"
    BY <2>1 DEF Inv, TypeOK
  <2>3. req[s].shown \/ req[s].read = "public"
    BY <2>1, <2>2 DEF Inv, PatchChecked
  <2> QED BY <2>1, <2>2, <2>3
<1>5. ASSUME NEW s \in Session, NEW t \in Cert \cup {NoCert}, Administer(s, t)
      PROVE  FALSE
  <2>1. \A c : ~Revoke(s, c) /\ ~DeleteHook(s, c)
    BY <1>1 DEF Revoke, DeleteHook, access
  <2> QED BY <1>2, <1>3, <1>5, <2>1 DEF Administer, CreateNamespace, PatchBegin, IssueBegin, HookBegin
<1>6. ASSUME NEW s \in Session, NEW t \in Cert \cup {NoCert}, Use(s, t)
      PROVE  FALSE
  <2>1. \A p : ~CommitBegin(s, p, t) /\ ~DeleteBegin(s, p, t) /\ ~PutBegin(s, p, t)
    BY <1>3 DEF CommitBegin, DeleteBegin, PutBegin
  <2>2. \A p, a : ~StarBegin(s, a, p, t) /\ ~UnstarBegin(s, a, p, t) /\ ~CommentBegin(s, a, p, t)
    BY <1>3 DEF StarBegin, UnstarBegin, CommentBegin
  <2>3. \A p, m : /\ ~CreateBegin(s, p, t) /\ ~TakeOut(s, p, t) /\ ~DeleteComment(s, p, m, t)
                  /\ ~CollectBegin(s, p, t) /\ ~DeleteCollection(s, t)
    BY <1>1, <1>2 DEF CreateBegin, TakeOut, DeleteComment, CollectBegin, DeleteCollection, access
  <2> QED BY <1>6, <2>1, <2>2, <2>3 DEF Use
<1>7. ASSUME NEW s \in Session, Proceed(s)
      PROVE  PatchWrite(s)
  BY <1>1, <1>7 DEF Proceed, IssueWrite, HookWrite, CreateWrite, CommitWrite, DeleteWrite, StarWrite,
              UnstarWrite, CommentWrite, CollectWrite, PutWrite, FlushFails, Abandon, Refuse, access
<1>8. CASE Tick
  BY <1>1, <1>8 DEF Tick, access
<1> QED BY <1>4, <1>5, <1>6, <1>7, <1>8 DEF Next

(* A proprietary namespace is published only by a request that showed a     *)
(* certificate for it, or found it public when it was checked.              *)
THEOREM PublishedOnlyByHolder == Spec => PublishedByHolder
<1>1. Inv /\ [Next]_vars =>
        [\A n \in Namespace :
           ns[n] = "proprietary" /\ ns'[n] = "public" =>
             \E s \in Session :
               /\ req[s].op = "patch" /\ req[s].ns = n /\ req'[s] = Idle
               /\ req[s].shown \/ req[s].read = "public"]_vars
  BY StepPublished
<1> QED BY <1>1, InvHolds, PTL DEF Spec, PublishedByHolder
=============================================================================
