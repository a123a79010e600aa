--------------------------- MODULE FederationProofs ---------------------------
(***************************************************************************)
(* What holds of Federation for any number of servers, peers, federations, *)
(* threads, rows and requests, whatever is lost, late or out of date.      *)
(***************************************************************************)
EXTENDS Federation, TLAPS

(* An entry that is not accepted was signed by the member, or brought in by *)
(* a submitted table.                                                       *)
Claim(f, e) == e.accepted \/ <<f, e.key>> \in left \cup denied

(* An entry that names the server which stores it is of a founder, or of a  *)
(* member that its founder has stored before.                               *)
OwnAdmitted(s, f, e) == e.key = s => <<f, s>> \in admitted

(* Row ids are given once, whatever is deleted.                             *)
IdsUnique ==
  \A s \in Servers :
    /\ \A r \in rows[s] : r.id < nextId
    /\ \A q, r \in rows[s] : q.id = r.id => q = r

RowsKnown ==
  \A s \in Servers : \A r \in rows[s] : Claim(r.fed, r) /\ OwnAdmitted(s, r.fed, r)

FoundersAdmitted ==
  \A s \in Servers, f \in Feds : Readable(s, f) => <<f, s>> \in admitted

(* What is under way was said by who signed it, and an answer to a server   *)
(* comes after the founder has stored it.                                   *)
MsgKnown(m) ==
  /\ m.kind = "leave" => <<m.fed, m.from>> \in left
  /\ m.kind = "answer" => <<m.fed, m.to>> \in admitted

(* A row id that a job has read is still that of the row it was read from,  *)
(* if that is still there, and a job deletes only rows of who has left or   *)
(* was brought in as not accepted.                                          *)
JobIds(j) ==
  /\ \A i \in j.delete : i < nextId
  /\ \A x \in j.found : x.id < nextId
  /\ \A r \in rows[j.at] :
       /\ r.id \in j.delete => <<r.fed, r.key>> \in left \cup denied
       /\ \A x \in j.found : r.id = x.id => r.fed = j.fed /\ r.key = x.entry.key

JobEntries(j) ==
  /\ \A e \in j.add : Claim(j.fed, e) /\ OwnAdmitted(j.at, j.fed, e)
  /\ \A x \in j.found : Claim(j.fed, x.entry) /\ OwnAdmitted(j.at, j.fed, x.entry)

(* A join is answered only when the member is stored.                       *)
JobAnswers(j) ==
  /\ Done(j) => j.kind = "join"
  /\ j.kind = "join" =>
       /\ Readable(j.at, j.fed) /\ j.add = {}
       /\ \A x \in j.found : x.entry.key = j.for
       /\ j.found = {} => <<j.fed, j.for>> \in admitted

(* What a sync will add has the key of no row that it has to spare, so that *)
(* it neither looks up nor deletes one of those.                            *)
JobSpares(j) ==
  j.kind = "sync" =>
    /\ \A i \in j.spared : i < nextId /\ i \notin j.delete
    /\ \A x \in j.found : x.id \notin j.spared
    /\ \A r \in rows[j.at] :
         r.id \in j.spared => r.fed = j.fed /\ \A e \in j.add : e.key # r.key

JobKnown(j) == JobIds(j) /\ JobEntries(j) /\ JobAnswers(j) /\ JobSpares(j)

Known ==
  /\ IdsUnique /\ RowsKnown /\ FoundersAdmitted
  /\ \A m \in msgs : MsgKnown(m)
  /\ \A t \in Threads : job[t] # Idle => JobKnown(job[t])

Inv == TypeOK /\ Known

-----------------------------------------------------------------------------
(* Types.                                                                   *)

LEMMA NewJobType ==
  ASSUME NEW kind \in {"join", "notify", "leave", "sync", "self"}, NEW s \in Servers, NEW f \in Feds,
         NEW p \in Party
  PROVE  NewJob(kind, s, f, p) \in Job
BY DEF NewJob, Job

(* What Continue() leaves in job.                                           *)
LEMMA ContinueJob ==
  ASSUME TypeOK, NEW t \in Threads, NEW j \in Job, Continue(t, j)
  PROVE  /\ job' \in [Threads -> Job \cup {Idle}]
         /\ \A u \in Threads \ {t} : job'[u] = job[u]
         /\ \/ job'[t] = Idle
            \/ job'[t] = j /\ (Done(j) => j.kind = "join")
BY DEF TypeOK, Continue

LEMMA MatchIds ==
  ASSUME TypeOK, NEW s \in Servers, NEW f \in Feds, NEW k, NEW id \in Matches(s, f, k)
  PROVE  id = 0 \/ \E r \in rows[s] : r.id = id /\ r.fed = f /\ r.key = k
BY DEF Matches, Ids, Of

LEMMA MatchType ==
  ASSUME TypeOK, NEW s \in Servers, NEW f \in Feds, NEW k, NEW id \in Matches(s, f, k)
  PROVE  id \in 0..MaxRows
<1>1. id = 0 \/ \E r \in rows[s] : r.id = id
  BY MatchIds
<1> QED BY <1>1, BoundAssumption DEF TypeOK, Row

LEMMA JobFields ==
  ASSUME TypeOK, NEW t \in Threads, job[t] # Idle
  PROVE  job[t] \in Job
BY DEF TypeOK

(* The job that add_federation_member() of one entry starts.                *)
LEMMA EntryJob ==
  ASSUME TypeOK, NEW s \in Servers, NEW f \in Feds, NEW p \in Party,
         NEW kind \in {"join", "notify"}, NEW url \in Party \cup {NoUrl}, NEW accepted \in BOOLEAN,
         NEW id \in Matches(s, f, p)
  PROVE  [NewJob(kind, s, f, p) EXCEPT
            !.found = Found([key |-> p, url |-> url, accepted |-> accepted], id)] \in Job
<1>1. id \in 0..MaxRows
  BY MatchType
<1>2. Found([key |-> p, url |-> url, accepted |-> accepted], id) \subseteq
        [entry : Entry, id : 0..MaxRows]
  BY <1>1 DEF Found, Entry
<1> QED BY <1>2 DEF NewJob, Job

(* The job that a leave starts.                                             *)
LEMMA LeaveJob ==
  ASSUME TypeOK, NEW s \in Servers, NEW f \in Feds, NEW p \in Party, NEW id \in Matches(s, f, p)
  PROVE  [NewJob("leave", s, f, p) EXCEPT !.delete = {id} \ {0}] \in Job
<1>1. id \in 0..MaxRows
  BY MatchType
<1>2. {id} \ {0} \subseteq 1..MaxRows
  BY <1>1, BoundAssumption
<1> QED BY <1>2 DEF NewJob, Job

(* The job that a submitted table starts.                                   *)
SyncJob(p, f, s, table) ==
  [NewJob("sync", s, f, p) EXCEPT
     !.add = Unknown(s, f, table),
     !.delete = Prune(s, f, table),
     !.spared = Ids({r \in Of(s, f) : r.accepted})]

LEMMA SyncJobType ==
  ASSUME TypeOK, NEW p \in Peers, NEW f \in Feds, NEW s \in Servers, NEW table \in Tables
  PROVE  SyncJob(p, f, s, table) \in Job
<1>1. Unknown(s, f, table) \subseteq Entry
  BY TablesAssumption DEF Unknown
<1>2. Prune(s, f, table) \subseteq 1..MaxRows /\ Ids({r \in Of(s, f) : r.accepted}) \subseteq 1..MaxRows
  BY DEF TypeOK, Row, Prune, Ids, Of
<1> QED BY <1>1, <1>2 DEF SyncJob, NewJob, Job, Party

LEMMA InitType == Init => TypeOK
BY BoundAssumption DEF Init, TypeOK, Entry, Idle

LEMMA NextType == TypeOK /\ [Next]_vars => TypeOK'
<1> SUFFICES ASSUME TypeOK, [Next]_vars
             PROVE  TypeOK'
  OBVIOUS
<1> USE DEF Party
<1>1. ASSUME NEW s \in Servers, NEW f \in Feds, CreateFederation(s, f)
      PROVE  TypeOK'
  <2>1. [id |-> nextId, fed |-> f, key |-> s, url |-> NoUrl, accepted |-> TRUE] \in Row
    BY <1>1, BoundAssumption DEF CreateFederation, TypeOK, Row
  <2>2. rows' \in [Servers -> SUBSET Row]
    BY <1>1, <2>1 DEF CreateFederation, TypeOK
  <2>3. fedrow' \in [Servers -> [Feds -> {"none", "own", "placeholder"}]]
    BY <1>1 DEF CreateFederation, TypeOK
  <2>4. \A x \in Servers : \A r \in rows'[x] : fedrow'[x][r.fed] # "none"
    <3> SUFFICES ASSUME NEW x \in Servers, NEW r \in rows'[x]
                 PROVE  fedrow'[x][r.fed] # "none"
      OBVIOUS
    <3>1. CASE r \in rows[x]
      BY <3>1, <1>1 DEF CreateFederation, TypeOK, Row
    <3>2. CASE r \notin rows[x]
      <4>1. x = s /\ r.fed = f
        BY <3>2, <1>1 DEF CreateFederation, TypeOK
      <4> QED BY <4>1, <1>1 DEF CreateFederation, TypeOK
    <3> QED BY <3>1, <3>2
  <2>5. nextId' \in 1..(MaxRows + 1)
    BY <1>1, BoundAssumption DEF CreateFederation, TypeOK
  <2>6. /\ admitted' \subseteq Feds \X Party
        /\ UNCHANGED <<requests, msgs, job, waiting, left, denied, ejected>>
    BY <1>1 DEF CreateFederation, TypeOK, net
  <2> QED
    BY <2>2, <2>3, <2>4, <2>5, <2>6 DEF TypeOK
<1>2. ASSUME NEW s \in Servers, NEW f \in Feds, NEW founder \in Servers, SendJoin(s, f, founder)
      PROVE  TypeOK'
  <2>1. [kind |-> "join", fed |-> f, from |-> s, to |-> founder] \in Request
    BY DEF Request
  <2> QED
    BY <1>2, <2>1, BoundAssumption DEF SendJoin, TypeOK, Ask, store, history
<1>3. ASSUME NEW s \in Servers, NEW f \in Feds, JoinTimeout(s, f)
      PROVE  TypeOK'
  BY <1>3 DEF JoinTimeout, TypeOK, store, net, history
<1>4. ASSUME NEW s \in Servers, NEW f \in Feds, NEW t \in Threads, NEW m \in msgs,
             JoinAnswered(t, s, f, m)
      PROVE  TypeOK'
  <2>1. Placeholder(s, f) \in [Servers -> [Feds -> {"none", "own", "placeholder"}]]
    BY DEF Placeholder, TypeOK
  <2>2. \A x \in Servers, g \in Feds : fedrow[x][g] # "none" => Placeholder(s, f)[x][g] # "none"
    BY DEF Placeholder, TypeOK
  <2>3. job' \in [Threads -> Job \cup {Idle}]
    <3>1. CASE <<s, f>> \in waiting /\ fedrow[s][f] # "placeholder"
      <4>1. PICK founder \in Founder(f) :
              Start(t, [NewJob("self", s, f, s) EXCEPT
                          !.add = {[key |-> s, url |-> founder, accepted |-> TRUE]}])
        BY <1>4, <3>1 DEF JoinAnswered
      <4>2. [NewJob("self", s, f, s) EXCEPT
               !.add = {[key |-> s, url |-> founder, accepted |-> TRUE]}] \in Job
        <5>1. {[key |-> s, url |-> founder, accepted |-> TRUE]} \subseteq Entry
          BY DEF Entry, Founder
        <5> QED BY <5>1 DEF NewJob, Job
      <4> QED BY <4>1, <4>2, ContinueJob DEF Start
    <3>2. CASE ~(<<s, f>> \in waiting /\ fedrow[s][f] # "placeholder")
      BY <1>4, <3>2 DEF JoinAnswered, TypeOK
    <3> QED BY <3>1, <3>2
  <2>4. /\ fedrow' \in {fedrow, Placeholder(s, f)}
        /\ UNCHANGED <<rows, nextId, requests, admitted, left, denied, ejected>>
        /\ msgs' = msgs \ {m} /\ waiting' = waiting \ {<<s, f>>}
    BY <1>4 DEF JoinAnswered, Consume, history
  <2> QED BY <2>1, <2>2, <2>3, <2>4 DEF TypeOK, Row
<1>5. ASSUME NEW s \in Servers, NEW f \in Feds, NEW t \in Threads, Leave(t, s, f)
      PROVE  TypeOK'
  <2>1. job' \in [Threads -> Job \cup {Idle}]
    BY <1>5, LeaveJob, ContinueJob DEF Leave, ReceiveLeave, Start
  <2>2. {[kind |-> "leave", fed |-> f, from |-> s, to |-> e.url] :
           e \in {x \in Accepted(s, f) : x.key # s /\ x.url \in Servers}} \subseteq Request
    BY DEF Request
  <2> QED BY <1>5, <2>1, <2>2, BoundAssumption DEF Leave, TypeOK, Ask, store
<1>6. ASSUME NEW s \in Servers, NEW f \in Feds, NEW r \in rows[s], EjectMember(s, f, r)
      PROVE  TypeOK'
  <2>1. r \in Row
    BY DEF TypeOK
  <2> QED BY <1>6, <2>1, BoundAssumption DEF EjectMember, TypeOK, Ask, Row
<1>7. ASSUME NEW t \in Threads, NEW f \in Feds, NEW s \in Servers, NEW table \in Tables,
             PeerSync(t, f, s, table)
      PROVE  TypeOK'
  <2>1. PICK p \in Peers : Start(t, SyncJob(p, f, s, table))
    BY <1>7 DEF PeerSync, SyncJob
  <2>2. job' \in [Threads -> Job \cup {Idle}]
    BY <2>1, SyncJobType, ContinueJob DEF Start
  <2>3. {<<f, e.key>> : e \in {x \in Unknown(s, f, table) : ~x.accepted}} \subseteq Feds \X Party
    BY TablesAssumption DEF Unknown, Entry
  <2> QED BY <1>7, <2>2, <2>3, BoundAssumption DEF PeerSync, TypeOK, Ask, store
<1>8. ASSUME NEW p \in Peers, NEW f \in Feds, NEW s \in Servers, NEW t \in Threads,
             \/ PeerJoin(t, p, f, s)
             \/ \E accepted \in BOOLEAN : PeerNotify(t, p, f, s, accepted)
             \/ PeerLeave(t, p, f, s)
      PROVE  TypeOK'
  <2>1. job' \in [Threads -> Job \cup {Idle}]
    BY <1>8, EntryJob, LeaveJob, ContinueJob
    DEF PeerJoin, PeerNotify, PeerLeave, ReceiveEntry, ReceiveLeave, Start
  <2>2. /\ UNCHANGED <<store, msgs, waiting, admitted, denied, ejected>>
        /\ left' \subseteq left \cup {<<f, p>>}
        /\ requests < MaxRequests /\ requests' = requests + 1
    BY <1>8 DEF PeerJoin, PeerNotify, PeerLeave, Ask, history
  <2> QED BY <2>1, <2>2, BoundAssumption DEF TypeOK, store
<1>10. ASSUME NEW t \in Threads, NEW m \in msgs, ReceiveJoin(t, m)
       PROVE  TypeOK'
  <2>1. m.from \in Servers /\ m.to \in Servers /\ m.fed \in Feds
    BY <1>10 DEF ReceiveJoin, TypeOK, Request, Answer
  <2>2. job' \in [Threads -> Job \cup {Idle}]
    BY <1>10, <2>1, EntryJob, ContinueJob DEF ReceiveJoin, ReceiveEntry, Start
  <2> QED BY <1>10, <2>2 DEF ReceiveJoin, TypeOK, Consume, store, history
<1>11. ASSUME NEW t \in Threads, NEW m \in msgs, ReceiveNotice(t, m)
       PROVE  TypeOK'
  <2>1. m.from \in Servers /\ m.to \in Servers /\ m.fed \in Feds
    BY <1>11 DEF ReceiveNotice, TypeOK, Request, Answer
  <2>2. job' \in [Threads -> Job \cup {Idle}]
    BY <1>11, <2>1, LeaveJob, ContinueJob DEF ReceiveNotice, ReceiveLeave, Start
  <2> QED BY <1>11, <2>2 DEF ReceiveNotice, TypeOK, Consume, store, history
<1>13. ASSUME NEW m \in msgs, Lose(m)
       PROVE  TypeOK'
  BY <1>13 DEF Lose, TypeOK, Consume, store, history
<1>14. ASSUME NEW t \in Threads, LookUp(t)
       PROVE  TypeOK'
  <2>1. job[t] \in Job
    BY <1>14, JobFields DEF LookUp
  <2>e. PICK e \in job[t].add : \E id \in Matches(job[t].at, job[t].fed, e.key) :
          Continue(t, [job[t] EXCEPT !.add = @ \ {e}, !.found = Found(e, id)])
    BY <1>14 DEF LookUp
  <2>2. PICK id \in Matches(job[t].at, job[t].fed, e.key) :
          Continue(t, [job[t] EXCEPT !.add = @ \ {e}, !.found = Found(e, id)])
    BY <2>e
  <2>3. id \in 0..MaxRows /\ e \in Entry
    BY <2>1, MatchType DEF Job
  <2>4. [job[t] EXCEPT !.add = @ \ {e}, !.found = Found(e, id)] \in Job
    <3>1. Found(e, id) \subseteq [entry : Entry, id : 0..MaxRows]
      BY <2>3 DEF Found
    <3> QED BY <2>1, <3>1 DEF Job
  <2>5. job' \in [Threads -> Job \cup {Idle}]
    BY <2>2, <2>4, ContinueJob
  <2> QED BY <1>14, <2>5 DEF LookUp, TypeOK, store, net, history
<1>15. ASSUME NEW t \in Threads, UpdateMember(t) \/ InsertMember(t)
       PROVE  TypeOK'
  <2>1. job[t] \in Job
    BY <1>15, JobFields DEF UpdateMember, InsertMember
  <2>2. [job[t] EXCEPT !.found = {}] \in Job
    BY <2>1 DEF Job
  <2>3. job' \in [Threads -> Job \cup {Idle}]
    BY <1>15, <2>2, ContinueJob DEF UpdateMember, InsertMember
  <2>4. \A x \in job[t].found : Admit(job[t], x.entry.key) \subseteq Feds \X (Servers \cup Peers)
    BY <2>1 DEF Admit, Job, Entry, TypeOK
  <2>5. CASE UpdateMember(t)
    <3>1. PICK x \in job[t].found :
            /\ rows' = [rows EXCEPT ![job[t].at] =
                 {IF r.id = x.id
                  THEN [r EXCEPT !.url = x.entry.url, !.accepted = x.entry.accepted]
                  ELSE r : r \in @}]
            /\ admitted' = Admit(job[t], x.entry.key)
      BY <2>5 DEF UpdateMember
    <3>2. x.entry \in Entry
      BY <2>1 DEF Job
    <3>3. \A r \in Row : [r EXCEPT !.url = x.entry.url, !.accepted = x.entry.accepted] \in Row
      BY <3>2 DEF Row, Entry
    <3>4. \A r \in Row :
            [r EXCEPT !.url = x.entry.url, !.accepted = x.entry.accepted].fed = r.fed
      BY DEF Row
    <3>5. ASSUME NEW s \in Servers, NEW r \in rows'[s]
          PROVE  r \in Row /\ \E q \in rows[s] : q.fed = r.fed
      <4>1. CASE s = job[t].at
        <5>1. rows'[s] = {IF r1.id = x.id
                          THEN [r1 EXCEPT !.url = x.entry.url, !.accepted = x.entry.accepted]
                          ELSE r1 : r1 \in rows[s]}
          BY <4>1, <3>1 DEF TypeOK
        <5>2. PICK q \in rows[s] :
                r = IF q.id = x.id
                    THEN [q EXCEPT !.url = x.entry.url, !.accepted = x.entry.accepted] ELSE q
          BY <5>1
        <5>3. q \in Row
          BY DEF TypeOK
        <5> QED BY <5>2, <5>3, <3>3, <3>4
      <4>2. CASE s # job[t].at
        <5>1. r \in rows[s]
          BY <4>2, <3>1 DEF TypeOK
        <5> QED BY <5>1 DEF TypeOK
      <4> QED BY <4>1, <4>2
    <3>6. rows' \in [Servers -> SUBSET Row]
      BY <3>1, <3>5 DEF TypeOK
    <3>7. \A s \in Servers : \A r \in rows'[s] : fedrow[s][r.fed] # "none"
      BY <3>5 DEF TypeOK
    <3>8. admitted' \subseteq Feds \X Party
      BY <3>1, <2>4
    <3>9. UNCHANGED <<fedrow, nextId, requests, msgs, waiting, left, denied, ejected>>
      BY <2>5 DEF UpdateMember, net
    <3> QED BY <2>3, <3>6, <3>7, <3>8, <3>9 DEF TypeOK
  <2>6. CASE InsertMember(t)
    <3>1. PICK x \in job[t].found :
            /\ rows' = [rows EXCEPT ![job[t].at] = @ \cup
                 {[id |-> nextId, fed |-> job[t].fed, key |-> x.entry.key, url |-> x.entry.url,
                   accepted |-> x.entry.accepted]}]
            /\ admitted' = Admit(job[t], x.entry.key)
      BY <2>6 DEF InsertMember
    <3>2. [id |-> nextId, fed |-> job[t].fed, key |-> x.entry.key, url |-> x.entry.url,
           accepted |-> x.entry.accepted] \in Row
      BY <2>1, <2>6, BoundAssumption DEF InsertMember, Job, Entry, Row, TypeOK
    <3>3. rows' \in [Servers -> SUBSET Row]
      BY <3>1, <3>2, <2>1 DEF TypeOK, Job
    <3>4. \A s \in Servers : \A r \in rows'[s] : fedrow[s][r.fed] # "none"
      BY <2>6, <3>1, <2>1 DEF TypeOK, Job, InsertMember
    <3> QED
      BY <2>6, <2>3, <2>4, <3>1, <3>3, <3>4, BoundAssumption DEF InsertMember, TypeOK, net
  <2> QED BY <1>15, <2>5, <2>6
<1>16. ASSUME NEW t \in Threads, InsertFails(t)
       PROVE  TypeOK'
  BY <1>16 DEF InsertFails, TypeOK, store, net, history
<1>17. ASSUME NEW t \in Threads, DeleteMember(t)
       PROVE  TypeOK'
  <2>1. job[t] \in Job
    BY <1>17, JobFields DEF DeleteMember
  <2>2. PICK id \in job[t].delete :
          /\ rows' = [rows EXCEPT ![job[t].at] = {r \in @ : r.id # id}]
          /\ Continue(t, [job[t] EXCEPT !.delete = @ \ {id}])
    BY <1>17 DEF DeleteMember
  <2>3. [job[t] EXCEPT !.delete = @ \ {id}] \in Job
    BY <2>1 DEF Job
  <2>4. job' \in [Threads -> Job \cup {Idle}]
    BY <2>2, <2>3, ContinueJob
  <2> QED BY <1>17, <2>1, <2>2, <2>4 DEF DeleteMember, TypeOK, Job, net, history
<1>18. ASSUME NEW t \in Threads, Return(t)
       PROVE  TypeOK'
  <2>1. job[t] \in Job
    BY <1>18, JobFields DEF Return
  <2>2. <<job[t].for, job[t].fed>> \in waiting =>
          [kind |-> "answer", fed |-> job[t].fed, to |-> job[t].for] \in Answer
    BY <2>1 DEF TypeOK, Job, Answer
  <2> QED BY <1>18, <2>2 DEF Return, TypeOK, Reply, net, store, history
<1>19. CASE UNCHANGED vars
  BY <1>19 DEF vars, TypeOK, store, net, history
<1> QED
  BY <1>1, <1>2, <1>3, <1>4, <1>5, <1>6, <1>7, <1>8, <1>10, <1>11, <1>13, <1>14,
     <1>15, <1>16, <1>17, <1>18, <1>19
  DEF Next, Operate, PeersAct, Work

-----------------------------------------------------------------------------
(* What is only ever added to, and what a row keeps.                        *)

Grows ==
  /\ denied \subseteq denied' /\ left \subseteq left' /\ admitted \subseteq admitted'
  /\ nextId <= nextId'
  /\ \A s \in Servers, f \in Feds : Readable(s, f) => fedrow'[s][f] = "own"
  /\ \A s \in Servers : \A q \in rows'[s] :
       q.id < nextId => \E r \in rows[s] : r.id = q.id /\ r.fed = q.fed /\ r.key = q.key

LEMMA ClaimKept ==
  ASSUME Grows, NEW f, NEW e, Claim(f, e)
  PROVE  Claim(f, e)'
BY DEF Grows, Claim

LEMMA MsgKept ==
  ASSUME Grows, NEW m, MsgKnown(m)
  PROVE  MsgKnown(m)'
BY DEF Grows, MsgKnown, Claim

LEMMA JobKept ==
  ASSUME TypeOK, TypeOK', Grows, NEW j \in Job, JobKnown(j)
  PROVE  JobKnown(j)'
<1>1. JobIds(j)'
  <2>1. nextId \in Nat /\ nextId' \in Nat /\ nextId <= nextId' /\ MaxRows \in Nat
    BY BoundAssumption DEF TypeOK, Grows
  <2>2. \A i \in j.delete : i \in Nat /\ i < nextId
    BY <2>1 DEF JobKnown, JobIds, Job
  <2>3. \A x \in j.found : x.id \in Nat /\ x.id < nextId
    BY <2>1 DEF JobKnown, JobIds, Job
  <2>4. ASSUME NEW q \in rows'[j.at]
        PROVE  /\ q.id \in j.delete => <<q.fed, q.key>> \in left' \cup denied'
               /\ \A x \in j.found : q.id = x.id => q.fed = j.fed /\ q.key = x.entry.key
    <3>1. CASE q.id < nextId
      <4>1. PICK r \in rows[j.at] : r.id = q.id /\ r.fed = q.fed /\ r.key = q.key
        BY <3>1 DEF Grows, Job
      <4> QED BY <4>1 DEF JobKnown, JobIds, Grows
    <3>2. CASE ~(q.id < nextId)
      BY <3>2, <2>2, <2>3
    <3> QED BY <3>1, <3>2
  <2> QED BY <2>1, <2>2, <2>3, <2>4 DEF JobIds
<1>2. JobEntries(j)'
  BY DEF JobKnown, JobEntries, Claim, OwnAdmitted, Grows
<1>3. JobAnswers(j)'
  BY DEF JobKnown, JobAnswers, Done, Readable, Grows, Job
<1>4. JobSpares(j)'
  <2> SUFFICES ASSUME j.kind = "sync"
               PROVE  /\ \A i \in j.spared : i < nextId' /\ i \notin j.delete
                      /\ \A x \in j.found : x.id \notin j.spared
                      /\ \A q \in rows'[j.at] :
                           q.id \in j.spared => q.fed = j.fed /\ \A e \in j.add : e.key # q.key
    BY DEF JobSpares
  <2>1. nextId \in Nat /\ nextId' \in Nat /\ nextId <= nextId' /\ MaxRows \in Nat
    BY BoundAssumption DEF TypeOK, Grows
  <2>2. \A i \in j.spared : i \in Nat /\ i < nextId /\ i \notin j.delete
    BY <2>1 DEF JobKnown, JobSpares, Job
  <2>3. ASSUME NEW q \in rows'[j.at], q.id \in j.spared
        PROVE  q.fed = j.fed /\ \A e \in j.add : e.key # q.key
    <3>1. PICK r \in rows[j.at] : r.id = q.id /\ r.fed = q.fed /\ r.key = q.key
      BY <2>2, <2>3 DEF Grows, Job
    <3> QED BY <2>3, <3>1 DEF JobKnown, JobSpares
  <2>4. \A x \in j.found : x.id \notin j.spared
    BY DEF JobKnown, JobSpares
  <2>5. \A i \in j.spared : i < nextId'
    BY <2>1, <2>2
  <2> QED BY <2>2, <2>3, <2>4, <2>5
<1> QED BY <1>1, <1>2, <1>3, <1>4 DEF JobKnown

(* The jobs after a step of one thread, or of none.                         *)
LEMMA JobsStep ==
  ASSUME Inv, TypeOK', Grows, NEW t,
         \A u \in Threads \ {t} : job'[u] = job[u],
         \A j \in Job : t \in Threads /\ job'[t] = j => JobKnown(j)'
  PROVE  (\A u \in Threads : job[u] # Idle => JobKnown(job[u]))'
<1> SUFFICES ASSUME NEW u \in Threads, job'[u] # Idle
             PROVE  JobKnown(job[u])'
  BY DEF Idle
<1>1. PICK j \in Job : j = job'[u]
  BY DEF TypeOK
<1>2. JobKnown(j)'
  <2>1. CASE u = t
    BY <2>1, <1>1
  <2>2. CASE u # t
    <3>1. job[u] = j /\ job[u] # Idle
      BY <2>2, <1>1
    <3>2. JobKnown(job[u])
      BY <3>1 DEF Inv, Known
    <3>3. JobKnown(j)
      BY <3>1, <3>2
    <3> QED BY <3>3, JobKept DEF Inv
  <2> QED BY <2>1, <2>2
<1> QED BY <1>1, <1>2 DEF JobKnown, JobIds, JobEntries, JobAnswers, JobSpares, Claim, OwnAdmitted, Done, Readable

(* The messages after a step.                                               *)
LEMMA MsgsStep ==
  ASSUME Inv, Grows, \A m \in msgs' \ msgs : MsgKnown(m)'
  PROVE  (\A m \in msgs : MsgKnown(m))'
<1> SUFFICES ASSUME NEW m \in msgs'
             PROVE  MsgKnown(m)'
  OBVIOUS
<1> QED BY MsgKept DEF Inv, Known

(* A step that neither stores nor drops a row.                              *)
LEMMA RowsStep ==
  ASSUME Inv, Grows, UNCHANGED <<rows, nextId>>
  PROVE  IdsUnique' /\ RowsKnown'
BY DEF Inv, Known, IdsUnique, RowsKnown, Claim, OwnAdmitted, Grows

LEMMA FoundersStep ==
  ASSUME Inv, Grows, UNCHANGED fedrow
  PROVE  FoundersAdmitted'
BY DEF Inv, Known, FoundersAdmitted, Readable, Grows

(* A step that leaves tables and histories alone, or adds to them.          *)
LEMMA SameRowsGrow ==
  ASSUME TypeOK, UNCHANGED <<rows, nextId>>,
         denied \subseteq denied', left \subseteq left', admitted \subseteq admitted',
         \A s \in Servers, f \in Feds : Readable(s, f) => fedrow'[s][f] = "own"
  PROVE  Grows
BY BoundAssumption DEF Grows, TypeOK

(* A step that drops rows.                                                  *)
LEMMA FewerRowsGrow ==
  ASSUME TypeOK, \A s \in Servers : rows'[s] \subseteq rows[s],
         UNCHANGED <<fedrow, nextId, denied, left, admitted>>
  PROVE  Grows
BY BoundAssumption DEF Grows, TypeOK, Readable

(* A row that add_federation_member() stores.                               *)
LEMMA NewRowGrows ==
  ASSUME TypeOK, NEW s \in Servers, NEW r, r.id = nextId,
         rows' = [rows EXCEPT ![s] = @ \cup {r}], nextId' = nextId + 1,
         denied \subseteq denied', left \subseteq left', admitted \subseteq admitted',
         \A x \in Servers, f \in Feds : Readable(x, f) => fedrow'[x][f] = "own"
  PROVE  Grows
<1>1. nextId \in Nat
  BY BoundAssumption DEF TypeOK
<1> QED BY <1>1 DEF Grows, TypeOK

LEMMA NewRowKnown ==
  ASSUME Inv, NEW s \in Servers, NEW r, r.id = nextId,
         rows' = [rows EXCEPT ![s] = @ \cup {r}], nextId' = nextId + 1, Grows,
         Claim(r.fed, r)', OwnAdmitted(s, r.fed, r)'
  PROVE  IdsUnique' /\ RowsKnown'
<1>1. nextId \in Nat /\ \A x \in Servers : \A q \in rows[x] : q.id \in Nat
  BY BoundAssumption DEF Inv, TypeOK, Row
<1>2. IdsUnique'
  BY <1>1 DEF Inv, Known, IdsUnique, TypeOK
<1>3. ASSUME NEW x \in Servers, NEW q \in rows'[x]
      PROVE  Claim(q.fed, q)' /\ OwnAdmitted(x, q.fed, q)'
  <2>1. CASE q \in rows[x]
    BY <2>1 DEF Inv, Known, RowsKnown, Claim, OwnAdmitted, Grows
  <2>2. CASE q \notin rows[x]
    <3>1. x = s /\ q = r
      BY <2>2 DEF Inv, TypeOK
    <3> QED BY <3>1
  <2> QED BY <2>1, <2>2
<1> QED BY <1>2, <1>3 DEF RowsKnown

LEMMA FewerRowsKnown ==
  ASSUME Inv, Grows, \A s \in Servers : rows'[s] \subseteq rows[s], UNCHANGED nextId
  PROVE  IdsUnique' /\ RowsKnown'
BY DEF Inv, Known, IdsUnique, RowsKnown, Claim, OwnAdmitted, Grows

(* What the jobs that requests start know.                                  *)
LEMMA EntryJobKnown ==
  ASSUME Inv, Grows, UNCHANGED <<rows, nextId>>,
         NEW s \in Servers, NEW f \in Feds, NEW p \in Party, NEW kind \in {"join", "notify"},
         NEW url \in Party \cup {NoUrl}, NEW accepted \in BOOLEAN, NEW id \in Matches(s, f, p),
         kind = "join" => Readable(s, f)',
         accepted \/ <<f, p>> \in left', p = s => <<f, s>> \in admitted',
         NEW j,
         j = [NewJob(kind, s, f, p) EXCEPT
                !.found = Found([key |-> p, url |-> url, accepted |-> accepted], id)]
  PROVE  JobKnown(j)'
<1> DEFINE e == [key |-> p, url |-> url, accepted |-> accepted]
<1>1. /\ j.kind = kind /\ j.at = s /\ j.fed = f /\ j.for = p /\ j.add = {} /\ j.delete = {}
      /\ j.found = {[entry |-> e, id |-> id]}
  BY DEF NewJob, Found
<1>2. /\ id < nextId'
      /\ \A r \in rows'[s] : r.id = id => r.fed = f /\ r.key = p
  <2>1. CASE id = 0
    BY <2>1, BoundAssumption DEF Inv, TypeOK, Row
  <2>2. CASE id # 0
    <3>1. PICK r \in rows[s] : r.id = id /\ r.fed = f /\ r.key = p
      BY <2>2, MatchIds DEF Inv
    <3> QED BY <3>1 DEF Inv, Known, IdsUnique
  <2> QED BY <2>1, <2>2
<1>3. JobIds(j)'
  BY <1>1, <1>2 DEF JobIds
<1>4. JobEntries(j)'
  BY <1>1 DEF JobEntries, Claim, OwnAdmitted
<1>5. JobAnswers(j)'
  <2>1. j.found # {} /\ ~Done(j) /\ j.kind # "sync"
    BY <1>1 DEF Done
  <2>2. j.kind = "join" => Readable(j.at, j.fed)' /\ j.add = {}
    BY <1>1 DEF Readable
  <2>3. \A x \in j.found : x.entry.key = j.for
    BY <1>1
  <2> QED BY <2>1, <2>2, <2>3 DEF JobAnswers, Done
<1>6. JobSpares(j)'
  BY <1>1 DEF JobSpares
<1> QED BY <1>3, <1>4, <1>5, <1>6 DEF JobKnown

LEMMA LeaveJobKnown ==
  ASSUME Inv, Grows, UNCHANGED <<rows, nextId>>,
         NEW s \in Servers, NEW f \in Feds, NEW p \in Party, NEW id \in Matches(s, f, p),
         <<f, p>> \in left',
         NEW j, j = [NewJob("leave", s, f, p) EXCEPT !.delete = {id} \ {0}], ~Done(j)
  PROVE  JobKnown(j)'
<1>1. /\ j.kind = "leave" /\ j.at = s /\ j.fed = f /\ j.add = {} /\ j.found = {}
      /\ j.delete = {id} \ {0} /\ id # 0
  BY DEF NewJob, Done
<1>2. PICK r \in rows[s] : r.id = id /\ r.fed = f /\ r.key = p
  BY <1>1, MatchIds DEF Inv
<1>3. JobIds(j)'
  BY <1>1, <1>2 DEF JobIds, Inv, Known, IdsUnique
<1>4. JobEntries(j)' /\ JobAnswers(j)' /\ JobSpares(j)'
  BY <1>1 DEF JobEntries, JobAnswers, JobSpares, Done
<1> QED BY <1>3, <1>4 DEF JobKnown

-----------------------------------------------------------------------------
LEMMA InitKnown == Init => Known
BY DEF Init, Known, IdsUnique, RowsKnown, FoundersAdmitted, Readable

(* One thread is where it was or has a job that is known.                   *)
JobsAfter(t) ==
  /\ \A u \in Threads \ {t} : job'[u] = job[u]
  /\ \A j \in Job : t \in Threads /\ job'[t] = j => JobKnown(j)'

(* The parts of Known' that most steps leave to the lemmas.                 *)
LEMMA QuietStep ==
  ASSUME Inv, TypeOK', UNCHANGED <<rows, nextId, fedrow>>,
         denied \subseteq denied', left \subseteq left', admitted \subseteq admitted',
         NEW t, Grows => JobsAfter(t),
         Grows => \A m \in msgs' \ msgs : MsgKnown(m)'
  PROVE  Grows /\ Known'
<1>1. Grows
  BY SameRowsGrow DEF Inv, Readable
<1>2. JobsAfter(t) /\ \A m \in msgs' \ msgs : MsgKnown(m)'
  BY <1>1
<1> QED
  BY <1>1, <1>2, JobsStep, MsgsStep, RowsStep, FoundersStep
  DEF Known, JobsAfter

LEMMA IdleJob == ASSUME NEW j \in Job PROVE j # Idle
BY DEF Job, Idle

(* An inbound join or notify of what p signed.                              *)
LEMMA EntryStep ==
  ASSUME Inv, UNCHANGED <<rows, nextId>>, NEW t \in Threads, NEW s \in Servers, NEW f \in Feds,
         NEW p \in Party, NEW kind \in {"join", "notify"}, NEW url \in Party \cup {NoUrl},
         NEW accepted \in BOOLEAN, ReceiveEntry(t, s, f, p, kind, url, accepted),
         accepted \/ <<f, p>> \in left', p = s => <<f, s>> \in admitted',
         UNCHANGED fedrow, Grows
  PROVE  JobsAfter(t)
<1>1. PICK id \in Matches(s, f, p) :
        Start(t, [NewJob(kind, s, f, p) EXCEPT
                    !.found = Found([key |-> p, url |-> url, accepted |-> accepted], id)])
  BY DEF ReceiveEntry
<1> DEFINE j == [NewJob(kind, s, f, p) EXCEPT
                   !.found = Found([key |-> p, url |-> url, accepted |-> accepted], id)]
<1>2. j \in Job
  BY EntryJob DEF Inv
<1>3. kind = "join" => Readable(s, f)'
  BY DEF ReceiveEntry, Readable
<1>4. JobKnown(j)'
  BY <1>3, EntryJobKnown
<1> HIDE DEF j
<1>5. Continue(t, j)
  BY <1>1 DEF Start, j
<1> QED BY <1>2, <1>4, <1>5, ContinueJob, IdleJob DEF JobsAfter, Inv

(* A leave that p signed.                                                   *)
LEMMA LeaveStep ==
  ASSUME Inv, UNCHANGED <<rows, nextId>>, NEW t \in Threads, NEW s \in Servers, NEW f \in Feds,
         NEW p \in Party, ReceiveLeave(t, s, f, p), <<f, p>> \in left', Grows
  PROVE  JobsAfter(t)
<1>1. PICK id \in Matches(s, f, p) :
        Start(t, [NewJob("leave", s, f, p) EXCEPT !.delete = {id} \ {0}])
  BY DEF ReceiveLeave
<1> DEFINE j == [NewJob("leave", s, f, p) EXCEPT !.delete = {id} \ {0}]
<1>2. j \in Job /\ j.kind = "leave"
  BY LeaveJob DEF Inv, NewJob
<1>3. ~Done(j) => JobKnown(j)'
  BY LeaveJobKnown
<1> HIDE DEF j
<1>4. Continue(t, j)
  BY <1>1 DEF Start, j
<1> QED BY <1>2, <1>3, <1>4, ContinueJob, IdleJob DEF JobsAfter, Inv

(* What peers sign of themselves.                                           *)
LEMMA PeerStep ==
  ASSUME Inv, TypeOK', NEW p \in Peers, NEW f \in Feds, NEW s \in Servers, NEW t \in Threads,
         \/ PeerJoin(t, p, f, s)
         \/ \E accepted \in BOOLEAN : PeerNotify(t, p, f, s, accepted)
         \/ PeerLeave(t, p, f, s)
  PROVE  Grows /\ Known'
<1>1. /\ UNCHANGED <<fedrow, rows, nextId, msgs, admitted, denied>>
      /\ left \subseteq left'
  BY DEF PeerJoin, PeerNotify, PeerLeave, Ask, store, history
<1>2. p \in Party /\ p # s
  BY PartyAssumption DEF Party
<1>3. ASSUME Grows
      PROVE  JobsAfter(t)
  <2>1. CASE PeerJoin(t, p, f, s)
    <3>1. ReceiveEntry(t, s, f, p, "join", p, TRUE)
      BY <2>1 DEF PeerJoin
    <3>2. TRUE \in BOOLEAN /\ p \in Party \cup {NoUrl} /\ "join" \in {"join", "notify"}
      BY <1>2
    <3> QED BY <3>1, <3>2, <1>1, <1>2, <1>3, EntryStep
  <2>2. ASSUME NEW accepted \in BOOLEAN, PeerNotify(t, p, f, s, accepted)
        PROVE  JobsAfter(t)
    <3>1. /\ accepted \/ <<f, p>> \in left'
          /\ ReceiveEntry(t, s, f, p, "notify", p, accepted)
      BY <2>2 DEF PeerNotify
    <3>2. p \in Party \cup {NoUrl} /\ "notify" \in {"join", "notify"}
      BY <1>2
    <3>3. CASE accepted = TRUE
      BY <3>1, <3>2, <3>3, <1>1, <1>2, <1>3, EntryStep
    <3>4. CASE accepted = FALSE
      BY <3>1, <3>2, <3>4, <1>1, <1>2, <1>3, EntryStep
    <3> QED BY <3>3, <3>4
  <2>3. CASE PeerLeave(t, p, f, s)
    <3>1. <<f, p>> \in left' /\ ReceiveLeave(t, s, f, p)
      BY <2>3 DEF PeerLeave
    <3> QED BY <3>1, <1>1, <1>2, <1>3, LeaveStep
  <2> QED BY <2>1, <2>2, <2>3
<1> QED BY <1>1, <1>3, QuietStep

(* A message is taken in and starts a job of what its sender signed.        *)
LEMMA ReceiveStep ==
  ASSUME Inv, TypeOK', NEW t \in Threads, NEW m \in msgs,
         ReceiveJoin(t, m) \/ ReceiveNotice(t, m)
  PROVE  Grows /\ Known'
<1>1. /\ UNCHANGED <<fedrow, rows, nextId, denied, admitted, left>>
      /\ msgs' \subseteq msgs
  BY DEF ReceiveJoin, ReceiveNotice, Consume, store, history
<1>2. MsgKnown(m)
  BY DEF Inv, Known
<1>3. m \in Request \cup Answer
  BY DEF Inv, TypeOK
<1>4. ASSUME Grows
      PROVE  JobsAfter(t)
  <2>1. CASE ReceiveJoin(t, m)
    <3>1. /\ m.from \in Party /\ m.to \in Servers /\ m.to \in Party \cup {NoUrl} /\ m.fed \in Feds
          /\ m.kind = "join" /\ ReceiveEntry(t, m.to, m.fed, m.from, "join", m.to, TRUE)
      BY <2>1, <1>3 DEF ReceiveJoin, Request, Answer, Party
    <3>2. <<m.fed, m.to>> \in admitted'
      BY <3>1, <1>1 DEF ReceiveEntry, Inv, Known, FoundersAdmitted
    <3>3. "join" \in {"join", "notify"} /\ TRUE \in BOOLEAN
      OBVIOUS
    <3> QED BY <3>1, <3>2, <3>3, <1>1, <1>4, EntryStep
  <2>2. CASE ReceiveNotice(t, m)
    <3>1. /\ m.from \in Party /\ m.to \in Servers /\ m.fed \in Feds
          /\ m.kind = "leave" /\ ReceiveLeave(t, m.to, m.fed, m.from)
      BY <2>2, <1>3 DEF ReceiveNotice, Request, Answer, Party
    <3>2. <<m.fed, m.from>> \in left'
      BY <3>1, <1>1, <1>2 DEF MsgKnown
    <3> QED BY <3>1, <3>2, <1>1, <1>4, LeaveStep
  <2> QED BY <2>1, <2>2
<1> QED BY <1>1, <1>4, QuietStep

(* A submitted table: what it brings in and what goes.                      *)
LEMMA SyncStart ==
  ASSUME Inv, TypeOK', NEW t \in Threads, NEW f \in Feds, NEW s \in Servers, NEW table \in Tables,
         PeerSync(t, f, s, table)
  PROVE  Grows /\ Known'
<1>1. /\ UNCHANGED <<fedrow, rows, nextId, msgs, admitted, left>> /\ Readable(s, f)
      /\ denied' = denied \cup {<<f, e.key>> : e \in {x \in Unknown(s, f, table) : ~x.accepted}}
  BY DEF PeerSync, Ask, store
<1>2. PICK p \in Peers : Start(t, SyncJob(p, f, s, table))
  BY DEF PeerSync, SyncJob
<1>3. PICK j \in Job : j = SyncJob(p, f, s, table)
  BY SyncJobType DEF Inv
<1>4. /\ j.kind = "sync" /\ j.at = s /\ j.fed = f /\ j.found = {}
      /\ j.add = Unknown(s, f, table)
      /\ j.delete = {r.id : r \in {q \in rows[s] : q.fed = f /\ ~q.accepted}}
      /\ j.spared = {r.id : r \in {q \in rows[s] : q.fed = f /\ q.accepted}}
  BY <1>3 DEF SyncJob, NewJob, Prune, Ids, Of
<1>5. ASSUME NEW i \in j.delete
      PROVE  \E q \in rows[s] : q.id = i /\ q.fed = f /\ ~q.accepted
  BY <1>4
<1>6. ASSUME NEW i \in j.spared
      PROVE  \E q \in rows[s] : q.id = i /\ q.fed = f /\ q.accepted
  BY <1>4
<1>7. JobIds(j)'
  <2>1. \A i \in j.delete : i < nextId
    BY <1>5 DEF Inv, Known, IdsUnique
  <2>2. ASSUME NEW r \in rows[s], r.id \in j.delete
        PROVE  <<r.fed, r.key>> \in left \cup denied
    <3>1. ~r.accepted
      BY <1>5, <2>2 DEF Inv, Known, IdsUnique
    <3> QED BY <3>1 DEF Inv, Known, RowsKnown, Claim
  <2> QED BY <2>1, <2>2, <1>1, <1>4 DEF JobIds
<1>8. JobEntries(j)'
  <2>1. \A e \in Unknown(s, f, table) : e.accepted \/ <<f, e.key>> \in denied'
    BY <1>1
  <2>2. <<f, s>> \in admitted
    BY <1>1 DEF Inv, Known, FoundersAdmitted
  <2> QED BY <2>1, <2>2, <1>1, <1>4 DEF JobEntries, Claim, OwnAdmitted
<1>9. JobSpares(j)'
  <2>1. \A i \in j.spared : i < nextId
    BY <1>6 DEF Inv, Known, IdsUnique
  <2>2. \A i \in j.spared : i \notin j.delete
    BY <1>5, <1>6 DEF Inv, Known, IdsUnique
  <2>3. ASSUME NEW r \in rows[s], r.id \in j.spared
        PROVE  r.fed = f /\ \A e \in j.add : e.key # r.key
    <3>1. r.fed = f
      BY <1>6, <2>3 DEF Inv, Known, IdsUnique
    <3> QED BY <3>1, <1>4 DEF Unknown, Keys, Of
  <2> QED BY <2>1, <2>2, <2>3, <1>1, <1>4 DEF JobSpares
<1>10. (Done(j) => j.kind = "join") => JobKnown(j)'
  BY <1>4, <1>7, <1>8, <1>9 DEF JobKnown, JobAnswers, Done
<1>11. Continue(t, j)
  BY <1>2, <1>3 DEF Start
<1>12. JobsAfter(t)
  BY <1>10, <1>11, ContinueJob, IdleJob DEF JobsAfter, Inv
<1> QED BY <1>1, <1>12, QuietStep

(* The founder's answer, and the placeholder that follows it.               *)
LEMMA AnsweredStep ==
  ASSUME Inv, TypeOK', NEW s \in Servers, NEW f \in Feds, NEW t \in Threads, NEW m \in msgs,
         JoinAnswered(t, s, f, m)
  PROVE  Grows /\ Known'
<1>1. /\ m.kind = "answer" /\ m.to = s /\ m.fed = f
      /\ fedrow' = Placeholder(s, f) \/ fedrow' = fedrow
      /\ msgs' \subseteq msgs
      /\ UNCHANGED <<rows, nextId, denied, admitted, left>>
  BY DEF JoinAnswered, Consume, history
<1>2. \A x \in Servers, g \in Feds : fedrow'[x][g] = "own" <=> fedrow[x][g] = "own"
  BY <1>1 DEF Placeholder, Inv, TypeOK
<1>3. Grows
  BY <1>1, <1>2, SameRowsGrow DEF Inv, Readable
<1>4. FoundersAdmitted'
  BY <1>1, <1>2 DEF Inv, Known, FoundersAdmitted, Readable
<1>5. JobsAfter(t)
  <2>1. CASE ~(<<s, f>> \in waiting /\ fedrow[s][f] # "placeholder")
    <3>1. job' = job
      BY <2>1 DEF JoinAnswered
    <3>2. ASSUME NEW j \in Job, job[t] = j
          PROVE  JobKnown(j)'
      <4>1. JobKnown(j)
        BY <3>2, IdleJob DEF Inv, Known
      <4> QED BY <4>1, <1>3, JobKept DEF Inv
    <3> QED BY <3>1, <3>2 DEF JobsAfter
  <2>2. CASE <<s, f>> \in waiting /\ fedrow[s][f] # "placeholder"
    <3>1. PICK founder \in Founder(f) :
            Start(t, [NewJob("self", s, f, s) EXCEPT
                        !.add = {[key |-> s, url |-> founder, accepted |-> TRUE]}])
      BY <2>2 DEF JoinAnswered
    <3> DEFINE e == [key |-> s, url |-> founder, accepted |-> TRUE]
               j == [NewJob("self", s, f, s) EXCEPT !.add = {e}]
    <3>2. /\ j.kind = "self" /\ j.at = s /\ j.fed = f /\ j.for = s /\ j.add = {e}
          /\ j.found = {} /\ j.delete = {}
      BY DEF NewJob
    <3>3. {e} \subseteq Entry
      BY DEF Entry, Party, Founder
    <3> HIDE DEF e
    <3>4. j \in Job
      BY <3>3 DEF Job, NewJob, Party
    <3> HIDE DEF j
    <3> USE DEF e
    <3>5. Continue(t, j)
      BY <3>1 DEF Start, j
    <3>6. <<f, s>> \in admitted'
      BY <1>1 DEF Inv, Known, MsgKnown
    <3>7. JobIds(j)' /\ JobAnswers(j)' /\ JobSpares(j)'
      BY <3>2 DEF JobIds, JobAnswers, JobSpares, Done
    <3>8. JobEntries(j)'
      BY <3>2, <3>6 DEF JobEntries, Claim, OwnAdmitted
    <3>9. JobKnown(j)'
      BY <3>7, <3>8 DEF JobKnown
    <3> QED BY <3>4, <3>5, <3>9, ContinueJob, IdleJob DEF JobsAfter, Inv
  <2> QED BY <2>1, <2>2
<1> QED
  BY <1>1, <1>3, <1>4, <1>5, JobsStep, MsgsStep, RowsStep
  DEF Known, JobsAfter

LEMMA CreateStep ==
  ASSUME Inv, TypeOK', NEW s \in Servers, NEW f \in Feds, CreateFederation(s, f)
  PROVE  Grows /\ Known'
<1> DEFINE r == [id |-> nextId, fed |-> f, key |-> s, url |-> NoUrl, accepted |-> TRUE]
<1>0. PICK q : q = r
  OBVIOUS
<1>1. /\ q.id = nextId /\ q.fed = f /\ q.key = s /\ q.accepted = TRUE
      /\ rows' = [rows EXCEPT ![s] = @ \cup {q}] /\ nextId' = nextId + 1
      /\ admitted' = admitted \cup {<<f, s>>}
      /\ fedrow' = [fedrow EXCEPT ![s][f] = "own"]
      /\ UNCHANGED <<msgs, job, left, denied>>
  BY <1>0 DEF CreateFederation, net
<1>2. \A x \in Servers, g \in Feds :
        fedrow'[x][g] = "own" <=> fedrow[x][g] = "own" \/ (x = s /\ g = f)
  BY <1>1 DEF Inv, TypeOK
<1>3. Grows
  <2>1. denied \subseteq denied' /\ left \subseteq left' /\ admitted \subseteq admitted'
    BY <1>1
  <2>2. \A x \in Servers, g \in Feds : Readable(x, g) => fedrow'[x][g] = "own"
    BY <1>2 DEF Readable
  <2> QED BY <1>1, <2>1, <2>2, NewRowGrows DEF Inv
<1>4. IdsUnique' /\ RowsKnown'
  BY <1>1, <1>3, NewRowKnown DEF Claim, OwnAdmitted
<1>5. FoundersAdmitted'
  BY <1>1, <1>2 DEF Inv, Known, FoundersAdmitted, Readable
<1>6. (\A u \in Threads : job[u] # Idle => JobKnown(job[u]))'
  <2>1. ASSUME NEW t
        PROVE  \A j \in Job : t \in Threads /\ job'[t] = j => JobKnown(j)'
    BY <1>1, <1>3, IdleJob, JobKept DEF Inv, Known
  <2> QED BY <2>1, <1>1, <1>3, JobsStep
<1> QED
  BY <1>1, <1>3, <1>4, <1>5, <1>6, MsgsStep DEF Known

(* Nothing that changes a job or a row.                                     *)
LEMMA JobsSame ==
  ASSUME Inv, TypeOK', Grows, UNCHANGED job, NEW t
  PROVE  JobsAfter(t)
<1>1. ASSUME NEW j \in Job, t \in Threads, job[t] = j
      PROVE  JobKnown(j)'
  BY <1>1, IdleJob, JobKept DEF Inv, Known
<1> QED BY <1>1 DEF JobsAfter

LEMMA SendStep ==
  ASSUME Inv, TypeOK',
         \/ \E s \in Servers, f \in Feds : (\E founder \in Servers : SendJoin(s, f, founder))
                                           \/ JoinTimeout(s, f)
         \/ \E m \in msgs : Lose(m)
  PROVE  Grows /\ Known'
<1>1. /\ UNCHANGED <<rows, nextId, fedrow, job, denied, admitted, left>>
      /\ \A m \in msgs' \ msgs : m.kind = "join"
  <2>1. ASSUME NEW s \in Servers, NEW f \in Feds, NEW founder \in Servers, SendJoin(s, f, founder)
        PROVE  /\ UNCHANGED <<rows, nextId, fedrow, job, denied, admitted, left>>
               /\ \A m \in msgs' \ msgs : m.kind = "join"
    BY <2>1 DEF SendJoin, Ask, store, history
  <2>2. ASSUME NEW s \in Servers, NEW f \in Feds, JoinTimeout(s, f)
        PROVE  UNCHANGED <<rows, nextId, fedrow, job, denied, admitted, left, msgs>>
    BY <2>2 DEF JoinTimeout, store, net, history
  <2>3. ASSUME NEW m \in msgs, Lose(m)
        PROVE  /\ UNCHANGED <<rows, nextId, fedrow, job, denied, admitted, left>>
               /\ msgs' \subseteq msgs
    BY <2>3 DEF Lose, Consume, store, history
  <2> QED BY <2>1, <2>2, <2>3
<1>2. \A m \in msgs' \ msgs : MsgKnown(m)'
  BY <1>1 DEF MsgKnown
<1> QED BY <1>1, <1>2, JobsSame, QuietStep

LEMMA LeaveStepKnown ==
  ASSUME Inv, TypeOK', NEW s \in Servers, NEW f \in Feds, NEW t \in Threads, Leave(t, s, f)
  PROVE  Grows /\ Known'
<1>1. /\ UNCHANGED <<rows, nextId, fedrow, denied, admitted>>
      /\ left' = left \cup {<<f, s>>} /\ ReceiveLeave(t, s, f, s)
      /\ msgs' = msgs \cup {[kind |-> "leave", fed |-> f, from |-> s, to |-> e.url] :
                              e \in {x \in Accepted(s, f) : x.key # s /\ x.url \in Servers}}
  BY DEF Leave, Ask, store
<1>2. \A m \in msgs' \ msgs : MsgKnown(m)'
  BY <1>1 DEF MsgKnown
<1>3. Grows => JobsAfter(t)
  BY <1>1, LeaveStep DEF Party
<1> QED BY <1>1, <1>2, <1>3, QuietStep

(* Steps that drop rows.                                                    *)
LEMMA DropStep ==
  ASSUME Inv, TypeOK', \A s \in Servers : rows'[s] \subseteq rows[s],
         UNCHANGED <<fedrow, nextId, msgs, denied, left, admitted>>,
         NEW t, Grows => JobsAfter(t)
  PROVE  Grows /\ Known'
<1>1. Grows
  BY FewerRowsGrow DEF Inv
<1> QED
  BY <1>1, FewerRowsKnown, JobsStep, MsgsStep, FoundersStep
  DEF Known, JobsAfter

LEMMA EjectStep ==
  ASSUME Inv, TypeOK', NEW s \in Servers, NEW f \in Feds, NEW r \in rows[s], EjectMember(s, f, r)
  PROVE  Grows /\ Known'
<1>1. /\ UNCHANGED <<fedrow, nextId, msgs, denied, left, admitted, job>>
      /\ \A x \in Servers : rows'[x] \subseteq rows[x]
  BY DEF EjectMember, Ask, Inv, TypeOK
<1> QED BY <1>1, DropStep, JobsSame

(* The steps of a job.                                                      *)
LEMMA LookUpStep ==
  ASSUME Inv, TypeOK', NEW t \in Threads, LookUp(t)
  PROVE  Grows /\ Known'
<1>1. UNCHANGED <<fedrow, rows, nextId, msgs, denied, admitted, left>>
  BY DEF LookUp, store, net, history
<1>2. Grows
  BY <1>1, SameRowsGrow DEF Inv, Readable
<1>3. PICK j \in Job : j = job[t]
  BY JobFields DEF LookUp, Inv
<1>4. JobKnown(j)
  BY <1>3 DEF LookUp, Inv, Known
<1>5. PICK e \in j.add : \E id \in Matches(j.at, j.fed, e.key) :
        Continue(t, [j EXCEPT !.add = @ \ {e}, !.found = Found(e, id)])
  BY <1>3 DEF LookUp
<1>6. PICK id \in Matches(j.at, j.fed, e.key) :
        Continue(t, [j EXCEPT !.add = @ \ {e}, !.found = Found(e, id)])
  BY <1>5
<1>7. id \in 0..MaxRows /\ e \in Entry
  BY MatchType DEF Inv, Job
<1>8. Found(e, id) = {[entry |-> e, id |-> id]}
  BY DEF Found
<1>9. [j EXCEPT !.add = @ \ {e}, !.found = Found(e, id)] \in Job
  <2>1. Found(e, id) \subseteq [entry : Entry, id : 0..MaxRows]
    BY <1>7 DEF Found
  <2> QED BY <2>1 DEF Job
<1>10. PICK new \in Job : new = [j EXCEPT !.add = @ \ {e}, !.found = Found(e, id)]
  BY <1>9
<1>11. /\ new.kind = j.kind /\ new.at = j.at /\ new.fed = j.fed /\ new.for = j.for
       /\ new.add = j.add \ {e} /\ new.delete = j.delete /\ new.spared = j.spared
       /\ new.found = {[entry |-> e, id |-> id]}
  BY <1>8, <1>10 DEF Job
<1>12. JobIds(new)'
  <2>1. id < nextId /\ \A r \in rows[j.at] : r.id = id => r.fed = j.fed /\ r.key = e.key
    <3>1. CASE id = 0
      BY <3>1, BoundAssumption DEF Inv, TypeOK, Row, Job
    <3>2. CASE id # 0
      <4>1. PICK r \in rows[j.at] : r.id = id /\ r.fed = j.fed /\ r.key = e.key
        BY <3>2, MatchIds DEF Inv, Job
      <4> QED BY <4>1 DEF Inv, Known, IdsUnique, Job
    <3> QED BY <3>1, <3>2
  <2> QED BY <2>1, <1>1, <1>4, <1>11 DEF JobKnown, JobIds
<1>13. JobEntries(new)'
  <2>1. Claim(j.fed, e) /\ OwnAdmitted(j.at, j.fed, e)
    BY <1>4 DEF JobKnown, JobEntries
  <2>2. \A x \in new.add : Claim(new.fed, x) /\ OwnAdmitted(new.at, new.fed, x)
    BY <1>4, <1>11 DEF JobKnown, JobEntries
  <2>3. \A x \in new.found : Claim(new.fed, x.entry) /\ OwnAdmitted(new.at, new.fed, x.entry)
    BY <2>1, <1>11
  <2>4. \A f, x : (Claim(f, x) => Claim(f, x)')
    BY <1>2, ClaimKept
  <2>5. \A s, f, x : (OwnAdmitted(s, f, x) => OwnAdmitted(s, f, x)')
    BY <1>1 DEF OwnAdmitted
  <2> QED BY <2>2, <2>3, <2>4, <2>5 DEF JobEntries
<1>14. JobAnswers(new)'
  BY <1>4, <1>11 DEF JobKnown, JobAnswers, Done
<1>15. JobSpares(new)'
  <2>1. j.kind = "sync" => id \notin j.spared
    <3>1. CASE id = 0
      BY <3>1, BoundAssumption DEF Job
    <3>2. CASE id # 0
      <4>1. PICK r \in rows[j.at] : r.id = id /\ r.fed = j.fed /\ r.key = e.key
        BY <3>2, MatchIds DEF Inv, Job
      <4> QED BY <4>1, <1>4 DEF JobKnown, JobSpares
    <3> QED BY <3>1, <3>2
  <2> QED BY <2>1, <1>1, <1>4, <1>11 DEF JobKnown, JobSpares
<1>16. JobKnown(new)'
  BY <1>12, <1>13, <1>14, <1>15 DEF JobKnown
<1>17. JobsAfter(t)
  BY <1>6, <1>10, <1>16, ContinueJob, IdleJob DEF JobsAfter, Inv
<1> QED BY <1>1, <1>17, QuietStep

(* The job of a step that has stored its entry.                             *)
LEMMA StoredJob ==
  ASSUME Inv, TypeOK', Grows, NEW t \in Threads, NEW j \in Job, JobKnown(j), NEW x \in j.found,
         UNCHANGED fedrow, Continue(t, [j EXCEPT !.found = {}]),
         j.kind = "join" => <<j.fed, x.entry.key>> \in admitted'
  PROVE  JobsAfter(t)
<1>1. PICK new \in Job : new = [j EXCEPT !.found = {}]
  BY DEF Job
<1>2. /\ new.kind = j.kind /\ new.at = j.at /\ new.fed = j.fed /\ new.for = j.for
      /\ new.add = j.add /\ new.delete = j.delete /\ new.spared = j.spared /\ new.found = {}
  BY <1>1 DEF Job
<1>3. JobKnown(j)'
  BY JobKept DEF Inv
<1>4. JobIds(new)' /\ JobEntries(new)' /\ JobSpares(new)'
  BY <1>2, <1>3 DEF JobKnown, JobIds, JobEntries, JobSpares
<1>5. ASSUME Done(new) => new.kind = "join"
      PROVE  JobKnown(new)'
  <2>1. JobAnswers(new)'
    BY <1>2, <1>3, <1>5 DEF JobKnown, JobAnswers, Done, Readable
  <2> QED BY <2>1, <1>4 DEF JobKnown
<1> QED BY <1>1, <1>5, ContinueJob, IdleJob DEF JobsAfter, Inv

LEMMA AdmitGrows ==
  ASSUME NEW j, NEW k
  PROVE  /\ admitted \subseteq Admit(j, k)
         /\ Readable(j.at, j.fed) => <<j.fed, k>> \in Admit(j, k)
BY DEF Admit

LEMMA InsertStep ==
  ASSUME Inv, TypeOK', NEW t \in Threads, InsertMember(t)
  PROVE  Grows /\ Known'
<1>1. PICK j \in Job : j = job[t]
  BY JobFields DEF InsertMember, Inv
<1>2. JobKnown(j)
  BY <1>1 DEF InsertMember, Inv, Known
<1>3. PICK x \in j.found :
        /\ rows' = [rows EXCEPT ![j.at] = @ \cup
             {[id |-> nextId, fed |-> j.fed, key |-> x.entry.key, url |-> x.entry.url,
               accepted |-> x.entry.accepted]}]
        /\ admitted' = Admit(j, x.entry.key)
  BY <1>1 DEF InsertMember
<1>4. PICK r : r = [id |-> nextId, fed |-> j.fed, key |-> x.entry.key, url |-> x.entry.url,
                    accepted |-> x.entry.accepted]
  OBVIOUS
<1>5. /\ r.id = nextId /\ r.fed = j.fed /\ r.key = x.entry.key /\ r.accepted = x.entry.accepted
      /\ rows' = [rows EXCEPT ![j.at] = @ \cup {r}]
  BY <1>3, <1>4
<1>6. /\ nextId' = nextId + 1 /\ UNCHANGED <<fedrow, msgs, denied, left>>
      /\ Continue(t, [j EXCEPT !.found = {}])
  BY <1>1 DEF InsertMember, net
<1>7. admitted \subseteq admitted'
  BY <1>3, AdmitGrows
<1>8. j.at \in Servers
  BY DEF Job
<1>9. Grows
  BY <1>5, <1>6, <1>7, <1>8, NewRowGrows DEF Inv, Readable
<1>10. Claim(r.fed, r)' /\ OwnAdmitted(j.at, r.fed, r)'
  <2>1. Claim(j.fed, x.entry)' /\ OwnAdmitted(j.at, j.fed, x.entry)'
    BY <1>2, <1>9, ClaimKept DEF JobKnown, JobEntries, OwnAdmitted, Grows
  <2> QED BY <2>1, <1>5 DEF Claim, OwnAdmitted
<1>11. IdsUnique' /\ RowsKnown'
  BY <1>5, <1>6, <1>8, <1>9, <1>10, NewRowKnown
<1>12. j.kind = "join" => <<j.fed, x.entry.key>> \in admitted'
  BY <1>2, <1>3, AdmitGrows DEF JobKnown, JobAnswers
<1>13. JobsAfter(t)
  BY <1>2, <1>6, <1>9, <1>12, StoredJob
<1> QED
  BY <1>6, <1>9, <1>11, <1>13, JobsStep, MsgsStep, FoundersStep
  DEF Known, JobsAfter

LEMMA UpdateStep ==
  ASSUME Inv, TypeOK', NEW t \in Threads, UpdateMember(t)
  PROVE  Grows /\ Known'
<1>1. PICK j \in Job : j = job[t]
  BY JobFields DEF UpdateMember, Inv
<1>2. JobKnown(j)
  BY <1>1 DEF UpdateMember, Inv, Known
<1>3. PICK x \in j.found :
        /\ rows' = [rows EXCEPT ![j.at] =
             {IF r.id = x.id
              THEN [r EXCEPT !.url = x.entry.url, !.accepted = x.entry.accepted]
              ELSE r : r \in @}]
        /\ admitted' = Admit(j, x.entry.key)
  BY <1>1 DEF UpdateMember
<1>4. /\ UNCHANGED <<fedrow, nextId, msgs, denied, left>>
      /\ Continue(t, [j EXCEPT !.found = {}]) /\ j.at \in Servers
  BY <1>1 DEF UpdateMember, net, Job
<1>5. admitted \subseteq admitted'
  BY <1>3, AdmitGrows
<1>6. ASSUME NEW s \in Servers, NEW q \in rows'[s]
      PROVE  \E r \in rows[s] :
               /\ r.id = q.id /\ r.fed = q.fed /\ r.key = q.key
               /\ q = r \/ (s = j.at /\ r.id = x.id /\ q.accepted = x.entry.accepted)
  <2>1. CASE s # j.at
    BY <2>1, <1>3 DEF Inv, TypeOK
  <2>2. CASE s = j.at
    <3>1. rows'[s] = {IF r.id = x.id
                      THEN [r EXCEPT !.url = x.entry.url, !.accepted = x.entry.accepted]
                      ELSE r : r \in rows[s]}
      BY <2>2, <1>3 DEF Inv, TypeOK
    <3>2. PICK r \in rows[s] :
            q = IF r.id = x.id
                THEN [r EXCEPT !.url = x.entry.url, !.accepted = x.entry.accepted] ELSE r
      BY <3>1
    <3>3. r \in Row
      BY DEF Inv, TypeOK
    <3> QED BY <3>2, <3>3, <2>2 DEF Row
  <2> QED BY <2>1, <2>2
<1>7. Grows
  <2>1. nextId \in Nat
    BY BoundAssumption DEF Inv, TypeOK
  <2> QED BY <2>1, <1>4, <1>5, <1>6 DEF Grows, Readable
<1>8. IdsUnique'
  <2>1. ASSUME NEW s \in Servers, NEW p \in rows'[s], NEW q \in rows'[s], p.id = q.id
        PROVE  p = q
    <3>1. CASE s # j.at
      BY <3>1, <2>1, <1>3 DEF Inv, TypeOK, Known, IdsUnique
    <3>2. CASE s = j.at
      <4>1. rows'[s] = {IF r.id = x.id
                        THEN [r EXCEPT !.url = x.entry.url, !.accepted = x.entry.accepted]
                        ELSE r : r \in rows[s]}
        BY <3>2, <1>3 DEF Inv, TypeOK
      <4>2. PICK r \in rows[s] :
              p = IF r.id = x.id
                  THEN [r EXCEPT !.url = x.entry.url, !.accepted = x.entry.accepted] ELSE r
        BY <4>1
      <4>3. PICK z \in rows[s] :
              q = IF z.id = x.id
                  THEN [z EXCEPT !.url = x.entry.url, !.accepted = x.entry.accepted] ELSE z
        BY <4>1
      <4>4. r \in Row /\ z \in Row
        BY DEF Inv, TypeOK
      <4>5. r.id = p.id /\ z.id = q.id
        BY <4>2, <4>3, <4>4 DEF Row
      <4>6. r = z
        BY <4>5, <2>1 DEF Inv, Known, IdsUnique
      <4> QED BY <4>2, <4>3, <4>6
    <3> QED BY <3>1, <3>2
  <2>2. \A s \in Servers : \A q \in rows'[s] : q.id < nextId
    BY <1>6 DEF Inv, Known, IdsUnique
  <2> QED BY <2>1, <2>2, <1>4 DEF IdsUnique
<1>9. RowsKnown'
  <2>1. ASSUME NEW s \in Servers, NEW q \in rows'[s]
        PROVE  Claim(q.fed, q)' /\ OwnAdmitted(s, q.fed, q)'
    <3>1. PICK r \in rows[s] :
            /\ r.id = q.id /\ r.fed = q.fed /\ r.key = q.key
            /\ q = r \/ (s = j.at /\ r.id = x.id /\ q.accepted = x.entry.accepted)
      BY <1>6
    <3>2. Claim(r.fed, r)' /\ OwnAdmitted(s, r.fed, r)'
      BY <1>7, ClaimKept DEF Inv, Known, RowsKnown, OwnAdmitted, Grows
    <3>3. CASE q = r
      BY <3>2, <3>3
    <3>4. CASE s = j.at /\ r.id = x.id /\ q.accepted = x.entry.accepted
      <4>1. r.fed = j.fed /\ r.key = x.entry.key
        BY <3>4, <1>2 DEF JobKnown, JobIds
      <4>2. Claim(j.fed, x.entry)'
        BY <1>2, <1>7, ClaimKept DEF JobKnown, JobEntries
      <4>3. Claim(q.fed, q)'
        BY <4>1, <4>2, <3>1, <3>4 DEF Claim
      <4>4. OwnAdmitted(s, q.fed, q)'
        BY <3>1, <3>2 DEF OwnAdmitted
      <4> QED BY <4>3, <4>4
    <3> QED BY <3>1, <3>3, <3>4
  <2> QED BY <2>1 DEF RowsKnown
<1>10. j.kind = "join" => <<j.fed, x.entry.key>> \in admitted'
  BY <1>2, <1>3, AdmitGrows DEF JobKnown, JobAnswers
<1>11. JobsAfter(t)
  BY <1>2, <1>4, <1>7, <1>10, StoredJob
<1> QED
  BY <1>4, <1>7, <1>8, <1>9, <1>11, JobsStep, MsgsStep, FoundersStep
  DEF Known, JobsAfter

LEMMA FailStep ==
  ASSUME Inv, TypeOK', NEW t \in Threads, InsertFails(t)
  PROVE  Grows /\ Known'
<1>1. /\ UNCHANGED <<fedrow, rows, nextId, msgs, denied, admitted, left>>
      /\ job' = [job EXCEPT ![t] = Idle]
  BY DEF InsertFails, store, net, history
<1>2. JobsAfter(t)
  BY <1>1, IdleJob DEF JobsAfter, Inv, TypeOK
<1> QED BY <1>1, <1>2, QuietStep

LEMMA DeleteStep ==
  ASSUME Inv, TypeOK', NEW t \in Threads, DeleteMember(t)
  PROVE  Grows /\ Known'
<1>1. PICK j \in Job : j = job[t]
  BY JobFields DEF DeleteMember, Inv
<1>2. JobKnown(j) /\ j.found = {} /\ j.add = {}
  BY <1>1 DEF DeleteMember, Inv, Known
<1>3. PICK id \in j.delete :
        /\ rows' = [rows EXCEPT ![j.at] = {r \in @ : r.id # id}]
        /\ Continue(t, [j EXCEPT !.delete = @ \ {id}])
  BY <1>1 DEF DeleteMember
<1>4. UNCHANGED <<fedrow, nextId, msgs, denied, left, admitted>>
  BY DEF DeleteMember, net, history
<1>5. \A s \in Servers : rows'[s] \subseteq rows[s]
  BY <1>3 DEF Inv, TypeOK
<1>6. PICK new \in Job : new = [j EXCEPT !.delete = @ \ {id}]
  BY DEF Job
<1>7. /\ new.kind = j.kind /\ new.at = j.at /\ new.fed = j.fed /\ new.for = j.for
      /\ new.add = {} /\ new.found = {} /\ new.delete \subseteq j.delete /\ new.spared = j.spared
  BY <1>2, <1>6 DEF Job
<1>8. ASSUME Grows
      PROVE  JobsAfter(t)
  <2>1. JobKnown(j)'
    BY <1>2, <1>8, JobKept DEF Inv
  <2>2. JobIds(new)' /\ JobEntries(new)' /\ JobSpares(new)'
    BY <1>7, <2>1, <1>2 DEF JobKnown, JobIds, JobEntries, JobSpares
  <2>3. ASSUME Done(new) => new.kind = "join"
        PROVE  JobKnown(new)'
    <3>1. JobAnswers(new)'
      BY <1>2, <1>7, <2>1, <2>3 DEF JobKnown, JobAnswers, Done, Readable
    <3> QED BY <3>1, <2>2 DEF JobKnown
  <2> QED BY <1>3, <1>6, <2>3, ContinueJob, IdleJob DEF JobsAfter, Inv
<1> QED BY <1>4, <1>5, <1>8, DropStep

LEMMA ReturnStep ==
  ASSUME Inv, TypeOK', NEW t \in Threads, Return(t)
  PROVE  Grows /\ Known'
<1>1. PICK j \in Job : j = job[t]
  BY JobFields DEF Return, Inv
<1>2. JobKnown(j) /\ Done(j)
  BY <1>1 DEF Return, Inv, Known
<1>3. /\ UNCHANGED <<fedrow, rows, nextId, denied, left, admitted>>
      /\ job' = [job EXCEPT ![t] = Idle]
      /\ \A m \in msgs' \ msgs : m.kind = "answer" /\ m.fed = j.fed /\ m.to = j.for
  BY <1>1 DEF Return, Reply, net, store, history
<1>4. JobsAfter(t)
  BY <1>3, IdleJob DEF JobsAfter, Inv, TypeOK
<1>5. <<j.fed, j.for>> \in admitted
  BY <1>2 DEF JobKnown, JobAnswers, Done
<1>6. \A m \in msgs' \ msgs : MsgKnown(m)'
  BY <1>3, <1>5 DEF MsgKnown
<1> QED BY <1>3, <1>4, <1>6, QuietStep

LEMMA NextKnown == Inv /\ Next => Grows /\ Known'
<1> SUFFICES ASSUME Inv, Next
             PROVE  Grows /\ Known'
  OBVIOUS
<1>1. TypeOK'
  BY NextType DEF Inv
<1>2. CASE Operate
  BY <1>1, <1>2, CreateStep, SendStep, AnsweredStep, LeaveStepKnown, EjectStep DEF Operate
<1>3. CASE PeersAct
  BY <1>1, <1>3, SyncStart, PeerStep DEF PeersAct
<1>4. CASE \E t \in Threads, m \in msgs : ReceiveJoin(t, m) \/ ReceiveNotice(t, m)
  BY <1>1, <1>4, ReceiveStep
<1>5. CASE \E m \in msgs : Lose(m)
  BY <1>1, <1>5, SendStep
<1>6. CASE \E t \in Threads : Work(t)
  BY <1>1, <1>6, LookUpStep, UpdateStep, InsertStep, FailStep, DeleteStep, ReturnStep DEF Work
<1> QED BY <1>2, <1>3, <1>4, <1>5, <1>6 DEF Next

LEMMA StutterKnown == Inv /\ UNCHANGED vars => Known'
BY DEF vars, store, net, history, Inv, Known, IdsUnique, RowsKnown,
       FoundersAdmitted, Readable, Claim, OwnAdmitted, MsgKnown, JobKnown, JobIds,
       JobEntries, JobAnswers, JobSpares

LEMMA InvInductive == Inv /\ [Next]_vars => Inv'
BY NextType, NextKnown, StutterKnown DEF Inv

LEMMA InvHolds == Spec => []Inv
<1>1. Init => Inv
  BY InitType, InitKnown DEF Inv
<1> QED BY <1>1, InvInductive, PTL DEF Spec

-----------------------------------------------------------------------------
(* The tables keep their types and their foreign key, whatever is inserted, *)
(* dropped or refused.                                                      *)
THEOREM FederationTypeCorrect == Spec => []TypeOK
<1>1. Inv => TypeOK
  BY DEF Inv
<1> QED BY <1>1, InvHolds, PTL

(* A server believes that it is a member only of a federation that stored   *)
(* it: join_federation() writes its own row after the answer, never after a *)
(* time-out.                                                                *)
THEOREM JoinedAreAdmitted == Spec => []JoinedWasAdmitted
<1>1. Inv => JoinedWasAdmitted
  BY DEF Inv, Known, RowsKnown, OwnAdmitted, JoinedWasAdmitted
<1> QED BY <1>1, InvHolds, PTL

LEMMA RequestsKeepRows ==
  ASSUME \/ PeersAct
         \/ \E t \in Threads, m \in msgs : ReceiveJoin(t, m) \/ ReceiveNotice(t, m)
         \/ \E m \in msgs : Lose(m)
  PROVE  UNCHANGED rows
<1>1. \A t, p, f, s, accepted :
        PeerJoin(t, p, f, s) \/ PeerNotify(t, p, f, s, accepted) \/ PeerLeave(t, p, f, s)
          => UNCHANGED rows
  BY DEF PeerJoin, PeerNotify, PeerLeave, store
<1>2. \A t, f, s, table : PeerSync(t, f, s, table) => UNCHANGED rows
  BY DEF PeerSync, store
<1>3. \A t, m : ReceiveJoin(t, m) \/ ReceiveNotice(t, m) \/ Lose(m) => UNCHANGED rows
  BY DEF ReceiveJoin, ReceiveNotice, Lose, store
<1>4. CASE PeersAct
  BY <1>4, <1>1, <1>2, Zenon DEF PeersAct
<1> QED BY <1>3, <1>4, Zenon

LEMMA StepRemovesWanted ==
  Inv /\ Next => \A s \in Servers : \A r \in rows[s] :
                   r.id \notin Ids(rows'[s]) => <<r.fed, r.key>> \in left' \cup denied' \cup ejected'
<1> SUFFICES ASSUME Inv, Next, NEW s \in Servers, NEW r \in rows[s],
                    \A q \in rows'[s] : q.id # r.id
             PROVE  <<r.fed, r.key>> \in left' \cup denied' \cup ejected'
  BY DEF Ids
<1>1. TypeOK
  BY DEF Inv
<1>2. rows'[s] # rows[s]
  OBVIOUS
<1>3. ASSUME NEW x \in Servers, NEW f \in Feds, CreateFederation(x, f)
      PROVE  FALSE
  BY <1>1, <1>3 DEF CreateFederation, TypeOK
<1>4. ASSUME NEW x \in Servers, NEW f \in Feds, NEW q \in rows[x], EjectMember(x, f, q)
      PROVE  <<r.fed, r.key>> \in ejected'
  <2>1. x = s /\ r = q
    BY <1>1, <1>4 DEF EjectMember, TypeOK
  <2> QED BY <1>4, <2>1 DEF EjectMember
<1>5. ASSUME NEW t \in Threads, DeleteMember(t)
      PROVE  <<r.fed, r.key>> \in left' \cup denied'
  <2>1. PICK j \in Job : j = job[t]
    BY <1>1, <1>5, JobFields DEF DeleteMember
  <2>2. PICK id \in j.delete : rows' = [rows EXCEPT ![j.at] = {q \in @ : q.id # id}]
    BY <1>5, <2>1 DEF DeleteMember
  <2>3. s = j.at /\ r.id = id
    BY <1>1, <2>2 DEF TypeOK
  <2>4. JobKnown(j)
    BY <1>5, <2>1 DEF DeleteMember, Inv, Known
  <2> QED BY <1>5, <2>3, <2>4 DEF JobKnown, JobIds, DeleteMember, history
<1>6. ASSUME NEW t \in Threads, InsertMember(t)
      PROVE  FALSE
  <2>1. \E q : rows' = [rows EXCEPT ![job[t].at] = @ \cup {q}]
    BY <1>6 DEF InsertMember
  <2>2. rows[s] \subseteq rows'[s]
    BY <1>1, <2>1 DEF TypeOK
  <2> QED BY <2>2
<1>7. ASSUME NEW t \in Threads, UpdateMember(t)
      PROVE  FALSE
  <2>1. PICK x \in job[t].found :
          rows' = [rows EXCEPT ![job[t].at] =
            {IF q.id = x.id
             THEN [q EXCEPT !.url = x.entry.url, !.accepted = x.entry.accepted]
             ELSE q : q \in @}]
    BY <1>7 DEF UpdateMember
  <2>2. rows'[s] = {IF q.id = x.id
                    THEN [q EXCEPT !.url = x.entry.url, !.accepted = x.entry.accepted]
                    ELSE q : q \in rows[s]}
    BY <1>1, <1>2, <2>1 DEF TypeOK
  <2>3. PICK q \in rows'[s] :
          q = IF r.id = x.id
              THEN [r EXCEPT !.url = x.entry.url, !.accepted = x.entry.accepted] ELSE r
    BY <2>2
  <2>4. q.id = r.id
    BY <1>1, <2>3 DEF TypeOK, Row
  <2> QED BY <2>4
<1>8. ASSUME UNCHANGED rows
      PROVE  FALSE
  BY <1>2, <1>8
<1>9. CASE Operate
  <2>1. ASSUME NEW x \in Servers, NEW f \in Feds,
               \/ \E founder \in Servers : SendJoin(x, f, founder)
               \/ JoinTimeout(x, f)
               \/ \E t \in Threads, m \in msgs : JoinAnswered(t, x, f, m)
               \/ \E t \in Threads : Leave(t, x, f)
        PROVE  UNCHANGED rows
    BY <2>1 DEF SendJoin, JoinTimeout, JoinAnswered, Leave, store
  <2> QED BY <1>9, <2>1, <1>3, <1>4, <1>8 DEF Operate
<1>10. CASE \/ PeersAct
            \/ \E t \in Threads, m \in msgs : ReceiveJoin(t, m) \/ ReceiveNotice(t, m)
            \/ \E m \in msgs : Lose(m)
  BY <1>8, <1>10, RequestsKeepRows
<1>13. ASSUME NEW t \in Threads, LookUp(t) \/ InsertFails(t) \/ Return(t)
       PROVE  FALSE
  <2>1. UNCHANGED rows
    BY <1>13 DEF LookUp, InsertFails, Return, store
  <2> QED BY <2>1, <1>8
<1> QED BY <1>5, <1>6, <1>7, <1>9, <1>10, <1>13 DEF Next, Work

(* A row goes only of a member that has left, that a table brought in as    *)
(* not accepted, or that the operator ejected: a row id that a request read *)
(* before deletes no other row, and a table that misses members, or a sync  *)
(* that races a join, prunes none of them.                                  *)
THEOREM RemovalsAlwaysWanted == Spec => RemovalsWanted
<1>1. Inv /\ [Next]_vars =>
        [\A s \in Servers : \A r \in rows[s] :
           r.id \notin Ids(rows'[s]) =>
             <<r.fed, r.key>> \in left' \cup denied' \cup ejected']_vars
  BY StepRemovesWanted
<1> QED BY <1>1, InvHolds, PTL DEF Spec, RemovalsWanted

LEMMA StepSpares ==
  Inv /\ Next => \A t \in Threads : SyncStep(t) =>
    \A r \in rows[job[t].at] : r.id \in job[t].spared => r \in rows'[job[t].at]
<1> SUFFICES ASSUME Inv, Next, NEW t \in Threads, SyncStep(t),
                    NEW r \in rows[job[t].at], r.id \in job[t].spared
             PROVE  r \in rows'[job[t].at]
  OBVIOUS
<1>1. PICK j \in Job : j = job[t]
  BY DEF Inv, TypeOK, SyncStep, Idle
<1>2. JobKnown(j) /\ j.kind = "sync" /\ j # Idle /\ j.at \in Servers
  BY <1>1, IdleJob DEF Inv, Known, SyncStep, Job
<1>3. ASSUME UNCHANGED rows
      PROVE  r \in rows'[job[t].at]
  BY <1>3
<1>4. ASSUME NEW u \in Threads \ {t}, NEW q, Continue(u, q)
      PROVE  FALSE
  BY <1>4 DEF Continue, SyncStep, Inv, TypeOK
<1>5. CASE Operate
  <2>1. ASSUME NEW x \in Servers, NEW f \in Feds, CreateFederation(x, f)
        PROVE  FALSE
    BY <2>1 DEF CreateFederation, SyncStep
  <2>2. ASSUME NEW x \in Servers, NEW f \in Feds, NEW q \in rows[x], EjectMember(x, f, q)
        PROVE  FALSE
    BY <2>2 DEF EjectMember, SyncStep
  <2>3. ASSUME NEW x \in Servers, NEW f \in Feds,
               \/ \E founder \in Servers : SendJoin(x, f, founder)
               \/ JoinTimeout(x, f)
               \/ \E u \in Threads, m \in msgs : JoinAnswered(u, x, f, m)
               \/ \E u \in Threads : Leave(u, x, f)
        PROVE  UNCHANGED rows
    BY <2>3 DEF SendJoin, JoinTimeout, JoinAnswered, Leave, store
  <2> QED BY <1>5, <2>1, <2>2, <2>3, <1>3 DEF Operate
<1>6. CASE \/ PeersAct
           \/ \E u \in Threads, m \in msgs : ReceiveJoin(u, m) \/ ReceiveNotice(u, m)
           \/ \E m \in msgs : Lose(m)
  BY <1>3, <1>6, RequestsKeepRows
<1>7. ASSUME NEW u \in Threads, LookUp(u) \/ InsertFails(u) \/ Return(u)
      PROVE  r \in rows'[job[t].at]
  <2>1. UNCHANGED rows
    BY <1>7 DEF LookUp, InsertFails, Return, store
  <2> QED BY <2>1, <1>3
<1>8. ASSUME NEW u \in Threads, InsertMember(u)
      PROVE  r \in rows'[job[t].at]
  <2>1. \E q : rows' = [rows EXCEPT ![job[u].at] = @ \cup {q}]
    BY <1>8 DEF InsertMember
  <2> QED BY <2>1, <1>1, <1>2 DEF Inv, TypeOK
<1>9. ASSUME NEW u \in Threads, UpdateMember(u)
      PROVE  r \in rows'[job[t].at]
  <2>1. u = t
    BY <1>9, <1>4 DEF UpdateMember
  <2>2. PICK x \in j.found :
          rows' = [rows EXCEPT ![j.at] =
            {IF q.id = x.id
             THEN [q EXCEPT !.url = x.entry.url, !.accepted = x.entry.accepted]
             ELSE q : q \in @}]
    BY <1>9, <2>1, <1>1 DEF UpdateMember
  <2>3. r.id # x.id
    BY <1>1, <1>2 DEF JobKnown, JobSpares
  <2>4. rows'[j.at] = {IF q.id = x.id
                       THEN [q EXCEPT !.url = x.entry.url, !.accepted = x.entry.accepted]
                       ELSE q : q \in rows[j.at]}
    BY <2>2, <1>2 DEF Inv, TypeOK
  <2> QED BY <2>3, <2>4, <1>1
<1>10. ASSUME NEW u \in Threads, DeleteMember(u)
       PROVE  r \in rows'[job[t].at]
  <2>1. u = t
    BY <1>10, <1>4 DEF DeleteMember
  <2>2. PICK id \in j.delete : rows' = [rows EXCEPT ![j.at] = {q \in @ : q.id # id}]
    BY <1>10, <2>1, <1>1 DEF DeleteMember
  <2>3. r.id # id
    BY <1>1, <1>2 DEF JobKnown, JobSpares
  <2> QED BY <2>2, <2>3, <1>1, <1>2 DEF Inv, TypeOK
<1> QED BY <1>5, <1>6, <1>7, <1>8, <1>9, <1>10 DEF Next, Work

(* reconcile_members_table() skips the keys it knows: a sync neither        *)
(* changes nor removes a row that was accepted when it read the table,      *)
(* although it looks every entry up again and deletes by id, later, while   *)
(* other requests write.                                                    *)
THEOREM SyncAlwaysSpares == Spec => SyncSparesMembers
<1>1. Inv /\ [Next]_vars =>
        [\A t \in Threads : SyncStep(t) =>
           \A r \in rows[job[t].at] : r.id \in job[t].spared => r \in rows'[job[t].at]]_vars
  BY StepSpares
<1> QED BY <1>1, InvHolds, PTL DEF Spec, SyncSparesMembers
=============================================================================
