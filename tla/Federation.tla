------------------------------ MODULE Federation ------------------------------
(***************************************************************************)
(* Federation membership: api/v1/endpoints/federate.py on the tables       *)
(* federations and federation_members of services/version_store.py.        *)
(*                                                                         *)
(* Servers run the code of this repository.  It leaves no server but the   *)
(* founder with a federation row that it can read, so whoever notifies or  *)
(* submits a member table runs other software: the Peers, which speak the  *)
(* same protocol.  A table that they submit is any of Tables, old or new,  *)
(* with whatever keys and is_accepted flags.                               *)
(* A request is handled by a thread of the server's pool: it reads the     *)
(* member rows, and writes by row id what it has decided from them, one    *)
(* transaction per row, while other threads do the same.                   *)
(*                                                                         *)
(* Every message is signed by the server whose key it carries; a party's   *)
(* key and its URL are written as the party itself.                        *)
(***************************************************************************)
EXTENDS Naturals, FiniteSets

CONSTANTS
  Servers,   (* servers that run this code                                 *)
  Peers,     (* members of their federations that run other software       *)
  Feds,      (* federation ids; a founder gives each a name of its own     *)
  Threads,   (* request handlers that may run at a time                    *)
  MaxRows,   (* how many member rows are ever inserted                     *)
  MaxRequests, (* how many times an operator or a peer asks for anything   *)
  Tables,    (* the member tables that peers submit                        *)
  NoUrl      (* the empty federate_url                                     *)

Party == Servers \cup Peers
Entry == [key : Party, url : Party \cup {NoUrl}, accepted : BOOLEAN]

ASSUME PartyAssumption == Servers \cap Peers = {} /\ NoUrl \notin Party
ASSUME TablesAssumption == Tables \subseteq SUBSET Entry
ASSUME BoundAssumption == MaxRows \in Nat /\ MaxRequests \in Nat

VARIABLES
  fedrow,    (* table federations of a server: no row, its own federation, *)
             (* or the placeholder join_federation() inserts               *)
  rows,      (* table federation_members of a server                       *)
  nextId,    (* the next uuid4 of a member row                             *)
  requests,  (* how many times one has                                     *)
  msgs,      (* requests and answers under way                             *)
  job,       (* what each thread still has to do for its request           *)
  waiting,   (* <<s, f>>: join_federation() of s awaits the founder        *)
  (* History, read by the properties only: <<f, k>> pairs.                 *)
  admitted,  (* a founder stored k as a member of f                        *)
  left,      (* k signed a leave, or a notify with is_accepted = False     *)
  denied,    (* a submitted table brought k in as not accepted             *)
  ejected    (* the operator of a founder ejected k from f                 *)

store == <<fedrow, rows, nextId>>
history == <<admitted, left, denied, ejected>>
net == <<requests, msgs>>
vars == <<store, net, job, waiting, history>>

Row == [id : 1..MaxRows, fed : Feds, key : Party, url : Party \cup {NoUrl}, accepted : BOOLEAN]

Request == [kind : {"join", "leave"}, fed : Feds, from : Servers, to : Servers]
Answer == [kind : {"answer"}, fed : Feds, to : Servers]

(* A job adds entries, one by one (found is the one it has looked up and    *)
(* the id of its row, 0 for none), then deletes rows by id, then answers.   *)
(* Of a sync, spared is history: the rows that were accepted when it read   *)
(* the table.                                                               *)
Idle == [kind |-> "idle"]
Job == [kind : {"join", "notify", "leave", "sync", "self"}, at : Servers, fed : Feds, for : Party,
        add : SUBSET Entry, found : SUBSET [entry : Entry, id : 0..MaxRows],
        delete : SUBSET (1..MaxRows), spared : SUBSET (1..MaxRows)]

Init ==
  /\ fedrow = [s \in Servers |-> [f \in Feds |-> "none"]]
  /\ rows = [s \in Servers |-> {}]
  /\ nextId = 1
  /\ requests = 0 /\ msgs = {}
  /\ job = [t \in Threads |-> Idle]
  /\ waiting = {}
  /\ admitted = {} /\ left = {} /\ denied = {} /\ ejected = {}

Of(s, f) == {r \in rows[s] : r.fed = f}
Keys(rs) == {r.key : r \in rs}
Ids(rs) == {r.id : r \in rs}
AsEntry(r) == [key |-> r.key, url |-> r.url, accepted |-> r.accepted]

(* list_federation_members(f, accepted_only=True)                           *)
Accepted(s, f) == {AsEntry(r) : r \in {x \in Of(s, f) : x.accepted}}

(* get_federation() decrypts the founder's key; it raises on a placeholder. *)
Readable(s, f) == fedrow[s][f] = "own"
Founder(f) == {s \in Servers : Readable(s, f)}

Ask(ms) ==
  /\ requests < MaxRequests
  /\ requests' = requests + 1
  /\ msgs' = msgs \cup ms
Reply(m) == msgs' = msgs \cup {m} /\ UNCHANGED requests
Consume(m) == m \in msgs /\ msgs' = msgs \ {m} /\ UNCHANGED requests

(* get_member_by_key(): the id of the first row with the key, 0 for none.   *)
Matches(s, f, k) ==
  LET ids == Ids({r \in Of(s, f) : r.key = k}) IN IF ids = {} THEN {0} ELSE ids

NewJob(kind, s, f, p) ==
  [kind |-> kind, at |-> s, fed |-> f, for |-> p, add |-> {}, found |-> {}, delete |-> {},
   spared |-> {}]
Found(e, id) == {[entry |-> e, id |-> id]}

Done(j) == j.add = {} /\ j.found = {} /\ j.delete = {}

(* A join still has to answer; any other request ends with its last write,  *)
(* and what a sync answers stays with a peer.                               *)
Continue(t, j) ==
  job' = [job EXCEPT ![t] =
            IF Done(j) /\ j.kind # "join" THEN Idle ELSE j]
Start(t, j) == job[t] = Idle /\ Continue(t, j)

-----------------------------------------------------------------------------
(* Inbound requests, up to their first write.                               *)

(* federate(), join and notify: add_federation_member() of what the sender  *)
(* signed; a join needs a federation this server can read.                  *)
ReceiveEntry(t, s, f, from, kind, url, accepted) ==
  /\ kind = "join" => Readable(s, f)
  /\ \E id \in Matches(s, f, from) :
       Start(t, [NewJob(kind, s, f, from) EXCEPT
                   !.found = Found([key |-> from, url |-> url, accepted |-> accepted], id)])

(* federate(), leave: the first row with the sender's key, if any.          *)
ReceiveLeave(t, s, f, from) ==
  \E id \in Matches(s, f, from) :
    Start(t, [NewJob("leave", s, f, from) EXCEPT !.delete = {id} \ {0}])

(* Mutant: the submitted table is the newer one, whatever differs is taken. *)
Differing(s, f, submitted) == submitted \ {AsEntry(r) : r \in Of(s, f)}

(* reconcile_members_table(): only keys that are not known are added ...    *)
Unknown(s, f, submitted) == {e \in submitted : e.key \notin Keys(Of(s, f))}

(* Mutant: whoever the submitted table does not list has left.              *)
PruneUnlisted(s, f, submitted) == Ids({r \in Of(s, f) : r.key \notin Keys(submitted)})

(* ... and the rows that are not accepted are pruned.                       *)
Prune(s, f, submitted) == Ids({r \in Of(s, f) : ~r.accepted})

(* A server's join carries the URL it was given, the founder's, as its own. *)
ReceiveJoin(t, m) ==
  /\ m.kind = "join"
  /\ Consume(m)
  /\ ReceiveEntry(t, m.to, m.fed, m.from, "join", m.to, TRUE)
  /\ UNCHANGED <<store, waiting, history>>

ReceiveNotice(t, m) ==
  /\ m.kind = "leave"
  /\ Consume(m)
  /\ ReceiveLeave(t, m.to, m.fed, m.from)
  /\ UNCHANGED <<store, waiting, history>>

-----------------------------------------------------------------------------
(* What the operators of the servers ask for.                               *)

(* create_federation(): the founder is its first member, with no URL.       *)
CreateFederation(s, f) ==
  /\ Founder(f) = {} /\ fedrow[s][f] = "none"
  /\ nextId <= MaxRows
  /\ fedrow' = [fedrow EXCEPT ![s][f] = "own"]
  /\ rows' = [rows EXCEPT ![s] = @ \cup
       {[id |-> nextId, fed |-> f, key |-> s, url |-> NoUrl, accepted |-> TRUE]}]
  /\ nextId' = nextId + 1
  /\ admitted' = admitted \cup {<<f, s>>}
  /\ UNCHANGED <<net, job, waiting, left, denied, ejected>>

(* join_federation(), up to the await: the payload carries the URL of the   *)
(* founder, which the founder will store as the member's.                   *)
SendJoin(s, f, founder) ==
  /\ founder \in Founder(f)
  /\ <<s, f>> \notin waiting
  /\ Ask({[kind |-> "join", fed |-> f, from |-> s, to |-> founder]})
  /\ waiting' = waiting \cup {<<s, f>>}
  /\ UNCHANGED <<store, job, history>>

(* The placeholder: on_conflict_do_nothing() on the unique name "unknown".  *)
Placeholder(s, f) ==
  IF fedrow[s][f] = "none" /\ (\A g \in Feds : fedrow[s][g] # "placeholder")
  THEN [fedrow EXCEPT ![s][f] = "placeholder"]
  ELSE fedrow

(* join_federation(), from the answer on: the placeholder, then the member  *)
(* row of this server.  A placeholder that is there already ends it in an   *)
(* error, after the founder has stored the member again.                    *)
JoinAnswered(t, s, f, m) ==
  /\ m.kind = "answer" /\ m.to = s /\ m.fed = f
  /\ Consume(m)
  /\ waiting' = waiting \ {<<s, f>>}
  /\ IF <<s, f>> \in waiting /\ fedrow[s][f] # "placeholder"
     THEN /\ fedrow' = Placeholder(s, f)
          /\ \E founder \in Founder(f) :
               Start(t, [NewJob("self", s, f, s) EXCEPT
                           !.add = {[key |-> s, url |-> founder, accepted |-> TRUE]}])
     ELSE UNCHANGED <<fedrow, job>>
  /\ UNCHANGED <<rows, nextId, history>>

(* Mutant: a time-out is not told from an answer.                           *)
JoinTimeoutAsAnswer(s, f) ==
  /\ <<s, f>> \in waiting
  /\ waiting' = waiting \ {<<s, f>>}
  /\ fedrow' = Placeholder(s, f)
  /\ nextId <= MaxRows
  /\ rows' = [rows EXCEPT ![s] = @ \cup
       {[id |-> nextId, fed |-> f, key |-> s, url |-> NoUrl, accepted |-> TRUE]}]
  /\ nextId' = nextId + 1
  /\ UNCHANGED <<net, job, history>>

(* The founder cannot be reached, answers with an error, or too late.       *)
JoinTimeout(s, f) ==
  /\ <<s, f>> \in waiting
  /\ waiting' = waiting \ {<<s, f>>}
  /\ UNCHANGED <<store, net, job, history>>

(* leave_federation() works on a readable row only, so at the founder: a    *)
(* signed notice to the URL of every other accepted member, errors ignored, *)
(* and then the own row goes.                                               *)
Leave(t, s, f) ==
  /\ Readable(s, f)
  /\ ReceiveLeave(t, s, f, s)
  /\ Ask({[kind |-> "leave", fed |-> f, from |-> s, to |-> e.url] :
            e \in {x \in Accepted(s, f) : x.key # s /\ x.url \in Servers}})
  /\ left' = left \cup {<<f, s>>}
  /\ UNCHANGED <<store, waiting, admitted, denied, ejected>>

(* eject_member(): any row the path names, of whatever federation.  The     *)
(* notices need an event loop, which a thread of the pool does not have:    *)
(* get_event_loop() raises and none is ever sent.                           *)
EjectMember(s, f, r) ==
  /\ Readable(s, f)
  /\ r \in rows[s]
  /\ Ask({})
  /\ rows' = [rows EXCEPT ![s] = @ \ {r}]
  /\ ejected' = ejected \cup {<<r.fed, r.key>>}
  /\ UNCHANGED <<fedrow, nextId, job, waiting, admitted, left, denied>>

-----------------------------------------------------------------------------
(* Requests of the peers.  What they sign does not depend on when they do:  *)
(* a message that is late is one that is sent later, and one that is lost   *)
(* never was.                                                               *)

PeerJoin(t, p, f, s) ==
  /\ Ask({})
  /\ ReceiveEntry(t, s, f, p, "join", p, TRUE)
  /\ UNCHANGED <<store, waiting, history>>

PeerNotify(t, p, f, s, accepted) ==
  /\ Ask({})
  /\ ReceiveEntry(t, s, f, p, "notify", p, accepted)
  /\ left' = IF accepted THEN left ELSE left \cup {<<f, p>>}
  /\ UNCHANGED <<store, waiting, admitted, denied, ejected>>

PeerLeave(t, p, f, s) ==
  /\ Ask({})
  /\ ReceiveLeave(t, s, f, p)
  /\ left' = left \cup {<<f, p>>}
  /\ UNCHANGED <<store, waiting, admitted, denied, ejected>>

(* federate_sync() of the table a peer submits, up to the read of the       *)
(* founder's own: what will be added and what deleted is settled by it.     *)
PeerSync(t, f, s, table) ==
  /\ Readable(s, f)
  /\ Ask({})
  /\ \E p \in Peers :
       Start(t, [NewJob("sync", s, f, p) EXCEPT
                   !.add = Unknown(s, f, table),
                   !.delete = Prune(s, f, table),
                   !.spared = Ids({r \in Of(s, f) : r.accepted})])
  /\ denied' = denied \cup {<<f, e.key>> : e \in {x \in Unknown(s, f, table) : ~x.accepted}}
  /\ UNCHANGED <<store, waiting, admitted, left, ejected>>

Lose(m) ==
  /\ Consume(m)
  /\ UNCHANGED <<store, job, waiting, history>>

-----------------------------------------------------------------------------
(* The rest of a request, a step per statement and transaction.             *)

(* add_federation_member() of one entry: get_member_by_key() ...            *)
LookUp(t) ==
  LET j == job[t] IN
  /\ j # Idle /\ j.found = {}
  /\ \E e \in j.add : \E id \in Matches(j.at, j.fed, e.key) :
       Continue(t, [j EXCEPT !.add = @ \ {e}, !.found = Found(e, id)])
  /\ UNCHANGED <<store, net, waiting, history>>

Admit(j, k) == IF Readable(j.at, j.fed) THEN admitted \cup {<<j.fed, k>>} ELSE admitted

(* ... an UPDATE of the row it found, which may be gone by now ...          *)
UpdateMember(t) ==
  LET j == job[t] IN
  /\ j # Idle
  /\ \E x \in j.found :
       /\ x.id # 0
       /\ rows' = [rows EXCEPT ![j.at] =
            {IF r.id = x.id
             THEN [r EXCEPT !.url = x.entry.url, !.accepted = x.entry.accepted]
             ELSE r : r \in @}]
       /\ admitted' = Admit(j, x.entry.key)
  /\ Continue(t, [j EXCEPT !.found = {}])
  /\ UNCHANGED <<fedrow, nextId, net, waiting, left, denied, ejected>>

(* Mutant: the rows go in without the foreign key to federations.           *)
InsertMemberUnchecked(t) ==
  LET j == job[t] IN
  /\ j # Idle
  /\ nextId <= MaxRows
  /\ \E x \in j.found :
       /\ x.id = 0
       /\ rows' = [rows EXCEPT ![j.at] = @ \cup
            {[id |-> nextId, fed |-> j.fed, key |-> x.entry.key, url |-> x.entry.url,
              accepted |-> x.entry.accepted]}]
       /\ admitted' = Admit(j, x.entry.key)
  /\ nextId' = nextId + 1
  /\ Continue(t, [j EXCEPT !.found = {}])
  /\ UNCHANGED <<fedrow, net, waiting, left, denied, ejected>>

(* ... or _insert_member(), whose federation must exist.                    *)
InsertMember(t) ==
  LET j == job[t] IN
  /\ j # Idle
  /\ fedrow[j.at][j.fed] # "none"
  /\ nextId <= MaxRows
  /\ \E x \in j.found :
       /\ x.id = 0
       /\ rows' = [rows EXCEPT ![j.at] = @ \cup
            {[id |-> nextId, fed |-> j.fed, key |-> x.entry.key, url |-> x.entry.url,
              accepted |-> x.entry.accepted]}]
       /\ admitted' = Admit(j, x.entry.key)
  /\ nextId' = nextId + 1
  /\ Continue(t, [j EXCEPT !.found = {}])
  /\ UNCHANGED <<fedrow, net, waiting, left, denied, ejected>>

(* The foreign key fails: the second federation a server joins has no       *)
(* placeholder, its own row cannot be stored, and the request ends.         *)
InsertFails(t) ==
  LET j == job[t] IN
  /\ j # Idle
  /\ fedrow[j.at][j.fed] = "none"
  /\ \E x \in j.found : x.id = 0
  /\ job' = [job EXCEPT ![t] = Idle]
  /\ UNCHANGED <<store, net, waiting, history>>

(* remove_federation_member(), by the id that was read before.              *)
DeleteMember(t) ==
  LET j == job[t] IN
  /\ j # Idle /\ j.found = {} /\ j.add = {}
  /\ \E id \in j.delete :
       /\ rows' = [rows EXCEPT ![j.at] = {r \in @ : r.id # id}]
       /\ Continue(t, [j EXCEPT !.delete = @ \ {id}])
  /\ UNCHANGED <<fedrow, nextId, net, waiting, history>>

(* The answer to a join, unless whoever sent it has given up or is a peer,  *)
(* whose tables are not followed.                                           *)
Return(t) ==
  LET j == job[t] IN
  /\ j # Idle /\ Done(j)
  /\ job' = [job EXCEPT ![t] = Idle]
  /\ IF <<j.for, j.fed>> \in waiting
     THEN Reply([kind |-> "answer", fed |-> j.fed, to |-> j.for])
     ELSE UNCHANGED net
  /\ UNCHANGED <<store, waiting, history>>

Work(t) ==
  \/ LookUp(t) \/ UpdateMember(t) \/ InsertMember(t) \/ InsertFails(t)
  \/ DeleteMember(t) \/ Return(t)

Operate ==
  \E s \in Servers, f \in Feds :
    \/ CreateFederation(s, f)
    \/ \E founder \in Servers : SendJoin(s, f, founder)
    \/ JoinTimeout(s, f)
    \/ \E t \in Threads, m \in msgs : JoinAnswered(t, s, f, m)
    \/ \E t \in Threads : Leave(t, s, f)
    \/ \E r \in rows[s] : EjectMember(s, f, r)

PeersAct ==
  \E t \in Threads, f \in Feds, s \in Servers :
    \/ \E p \in Peers :
         \/ PeerJoin(t, p, f, s)
         \/ \E accepted \in BOOLEAN : PeerNotify(t, p, f, s, accepted)
         \/ PeerLeave(t, p, f, s)
    \/ \E table \in Tables : PeerSync(t, f, s, table)

Next ==
  \/ Operate
  \/ PeersAct
  \/ \E t \in Threads, m \in msgs : ReceiveJoin(t, m) \/ ReceiveNotice(t, m)
  \/ \E m \in msgs : Lose(m)
  \/ \E t \in Threads : Work(t)

Spec == Init /\ [][Next]_vars

-----------------------------------------------------------------------------
(* Type invariant, with the foreign key: every member row has its           *)
(* federation, also where the placeholder could not be inserted.            *)
TypeOK ==
  /\ fedrow \in [Servers -> [Feds -> {"none", "own", "placeholder"}]]
  /\ rows \in [Servers -> SUBSET Row]
  /\ \A s \in Servers : \A r \in rows[s] : fedrow[s][r.fed] # "none"
  /\ nextId \in 1..(MaxRows + 1)
  /\ msgs \subseteq Request \cup Answer
  /\ job \in [Threads -> Job \cup {Idle}]
  /\ requests \in 0..MaxRequests
  /\ waiting \subseteq Servers \X Feds
  /\ \A h \in {admitted, left, denied, ejected} : h \subseteq Feds \X Party

(* A row disappears only of a member that has left, that a submitted table  *)
(* brought in as not accepted, or that the operator has ejected: a table    *)
(* that misses a known member, or says of it that it is not accepted, never *)
(* removes it, and no row id read before removes somebody else's row.       *)
RemovalsWanted ==
  [][\A s \in Servers : \A r \in rows[s] :
       r.id \notin Ids(rows'[s]) => <<r.fed, r.key>> \in left' \cup denied' \cup ejected']_vars

SyncStep(t) == job[t].kind = "sync" /\ job'[t] # job[t]

(* A sync leaves alone whom the founder had accepted when it read its       *)
(* table: neither what the submitted table says of that member, nor a row   *)
(* that has come, gone or changed since, makes it change or remove the row. *)
SyncSparesMembers ==
  [][\A t \in Threads : SyncStep(t) =>
       \A r \in rows[job[t].at] : r.id \in job[t].spared => r \in rows'[job[t].at]]_vars

(* A server lists itself in a federation of another only after that founder *)
(* has stored it, however many joins time out or are answered late.         *)
JoinedWasAdmitted ==
  \A s \in Servers : \A r \in rows[s] : r.key = s => <<r.fed, s>> \in admitted
=============================================================================
