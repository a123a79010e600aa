------------------------------ MODULE Community ------------------------------
(***************************************************************************)
(* Namespaces, certificates, stars, comments, collections and webhooks:    *)
(* the endpoints of these names, core/certificates.py and the part of      *)
(* services/version_store.py behind them, with the life of the prompts     *)
(* that their rows refer to.                                               *)
(*                                                                         *)
(* A request first checks its certificate and reads (Begin), then writes   *)
(* in one transaction.  Requests are served by several sessions of one     *)
(* database.  A session whose flush has failed is broken: its next         *)
(* execute() fails once more and resets it (_ResettingSession).            *)
(***************************************************************************)
EXTENDS Naturals, FiniteSets

CONSTANTS
  Session,     (* processes that serve requests                            *)
  Namespace, Prompt, Collection, Comment, Cert, Hook,   (* ids, used once  *)
  Home,        (* Prompt -> its namespace                                  *)
  Shelf,       (* the namespace of the collections, which share one name   *)
  Actor,       (* users who star                                           *)
  NoCert,      (* a request without X-Cantica-Certificate                  *)
  Lives,       (* how long certificates are issued for                     *)
  MaxTime, MaxVersions, MaxAsks   (* how long, how many commits, requests  *)

ASSUME HomeAssumption == Home \in [Prompt -> Namespace] /\ Shelf \in Namespace
ASSUME CertAssumption == NoCert \notin Cert
ASSUME ActorAssumption == IsFiniteSet(Actor)
ASSUME BoundsAssumption == Lives \subseteq Nat /\ {MaxTime, MaxVersions, MaxAsks} \subseteq Nat

VARIABLES
  clock,
  ns,          (* table namespaces: absent, public or proprietary          *)
  certs,       (* table namespace_certs, with what the token says          *)
  prompts,     (* table prompts: absent, live or deleted                   *)
  starCount,   (* prompts.star_count                                       *)
  versions,    (* table versions: <<version, prompt>>                      *)
  nextVersion, (* the next version's SHA                                   *)
  stars,       (* table stars: <<actor, prompt>>                           *)
  comments,    (* table comments: <<comment, prompt>>                      *)
  collections, (* table collections: absent, live or deleted               *)
  items,       (* table collection_items: <<collection, prompt>>           *)
  hooks,       (* table webhooks                                           *)
  broken,      (* sessions whose flush has failed                          *)
  req,         (* what each session has read and is about to write         *)
  asks         (* how many requests there have been                        *)

access == <<ns, certs>>
social == <<starCount, stars, comments, collections, items>>
vars == <<clock, access, prompts, versions, nextVersion, social, hooks, broken, req, asks>>

Row(ids) == [ids -> {"absent", "live", "deleted"}]
Kind == {"public", "proprietary"}
NotIssued == [ns |-> Shelf, until |-> 0, revoked |-> FALSE, issued |-> FALSE]
Idle == [op |-> "idle"]
Request ==
  [op : {"patch"}, ns : Namespace, kind : Kind, read : Kind, shown : BOOLEAN]
  \cup [op : {"issue"}, cert : Cert, ns : Namespace, until : Nat]
  \cup [op : {"hook"}, hook : Hook]
  \cup [op : {"create", "commit", "delete"}, prompt : Prompt]
  \cup [op : {"star", "unstar"}, actor : Actor, prompt : Prompt]
  \cup [op : {"comment"}, comment : Comment, prompt : Prompt]
  \cup [op : {"collect"}, collection : Collection]
  \cup [op : {"put"}, collection : Collection, prompt : Prompt]

Init ==
  /\ clock = 0
  /\ ns = [n \in Namespace |-> "absent"]
  /\ certs = [c \in Cert |-> NotIssued]
  /\ prompts = [p \in Prompt |-> "absent"] /\ nextVersion = 1
  /\ starCount = [p \in Prompt |-> 0]
  /\ collections = [c \in Collection |-> "absent"]
  /\ versions = {} /\ stars = {} /\ comments = {} /\ items = {} /\ hooks = {}
  /\ broken = {}
  /\ req = [s \in Session |-> Idle]
  /\ asks = 0

Tick ==
  /\ clock < MaxTime
  /\ clock' = clock + 1
  /\ UNCHANGED <<access, prompts, versions, social, hooks, broken, req, asks, nextVersion>>

-----------------------------------------------------------------------------
(* Access.                                                                  *)

(* _verify_cert_token(): the signature stands for what certs holds of the   *)
(* token; expired is expires_at < now.                                      *)
Verified(t, n) ==
  /\ t \in Cert
  /\ certs[t].issued /\ ~certs[t].revoked /\ clock <= certs[t].until
  /\ certs[t].ns = n

(* check_namespace_access(): a namespace that is not there is open, too.    *)
Admitted(n, t) == ns[n] = "proprietary" => Verified(t, n)

Ask == asks < MaxAsks /\ asks' = asks + 1

(* A request of a session that has none under way, and is not broken.       *)
Ready(s) == req[s] = Idle /\ s \notin broken /\ Ask

Goto(s, r) == req' = [req EXCEPT ![s] = r]

(* What a request does that needs no more than it reads at its end.         *)
Begin(s, r) ==
  /\ Ready(s)
  /\ Goto(s, r)
  /\ UNCHANGED <<clock, access, prompts, versions, social, hooks, broken, nextVersion>>

Finish(s) == Goto(s, Idle) /\ UNCHANGED <<clock, broken, asks>>

(* The first statement raises PendingRollbackError and execute() resets the *)
(* session.  (A request that only adds and commits, as create_webhook(),    *)
(* fails and leaves it broken.)                                             *)
Refuse(s) ==
  /\ s \in broken /\ Ask
  /\ broken' = broken \ {s}
  /\ UNCHANGED <<clock, access, prompts, versions, social, hooks, req, nextVersion>>

(* The INSERT that commit() flushes fails: a key is violated, the database  *)
(* is locked.  The transaction is rolled back, the session is not reset.    *)
Flushed == {"star", "comment", "collect", "put", "issue", "hook"}
FlushFails(s) ==
  /\ req[s].op \in Flushed
  /\ broken' = broken \cup {s}
  /\ Goto(s, Idle)
  /\ UNCHANGED <<clock, access, prompts, versions, social, hooks, asks, nextVersion>>

(* An execute() fails, which rolls back, or the process is restarted.       *)
Abandon(s) ==
  /\ req[s] # Idle
  /\ broken' = broken \ {s}
  /\ Goto(s, Idle)
  /\ UNCHANGED <<clock, access, prompts, versions, social, hooks, asks, nextVersion>>

-----------------------------------------------------------------------------
(* Namespaces and certificates.                                             *)

(* create_namespace(): INSERT ... ON CONFLICT DO NOTHING.                   *)
Ensure(n, kind) == ns' = IF ns[n] = "absent" THEN [ns EXCEPT ![n] = kind] ELSE ns

CreateNamespace(s, n, kind) ==
  /\ Ready(s)
  /\ Ensure(n, kind)
  /\ UNCHANGED <<clock, certs, prompts, versions, social, hooks, broken, req, nextVersion>>

(* Mutant: to publish a namespace takes no certificate.                     *)
PatchBeginUnchecked(s, n, kind, t) ==
  /\ ns[n] # "absent"
  /\ Begin(s, [op |-> "patch", ns |-> n, kind |-> kind, read |-> ns[n], shown |-> Verified(t, n)])

(* update_namespace() of the endpoint: making a proprietary namespace public*)
(* takes a certificate for it.  (read and shown are history.)               *)
PatchBegin(s, n, kind, t) ==
  /\ ns[n] # "absent"
  /\ kind = "public" => Admitted(n, t)
  /\ Begin(s, [op |-> "patch", ns |-> n, kind |-> kind, read |-> ns[n], shown |-> Verified(t, n)])

PatchWrite(s) ==
  /\ req[s].op = "patch"
  /\ ns' = [ns EXCEPT ![req[s].ns] = req[s].kind]
  /\ Finish(s)
  /\ UNCHANGED <<certs, prompts, versions, social, hooks, nextVersion>>

IssueBegin(s, c, n, life) ==
  /\ ns[n] = "proprietary"
  /\ Begin(s, [op |-> "issue", cert |-> c, ns |-> n, until |-> clock + life])

IssueWrite(s) ==
  /\ req[s].op = "issue" /\ ~certs[req[s].cert].issued
  /\ certs' = [certs EXCEPT ![req[s].cert] =
                 [ns |-> req[s].ns, until |-> req[s].until, revoked |-> FALSE, issued |-> TRUE]]
  /\ Finish(s)
  /\ UNCHANGED <<ns, prompts, versions, social, hooks, nextVersion>>

Revoke(s, c) ==
  /\ Ready(s)
  /\ certs[c].issued
  /\ certs' = [certs EXCEPT ![c].revoked = TRUE]
  /\ UNCHANGED <<clock, ns, prompts, versions, social, hooks, broken, req, nextVersion>>

-----------------------------------------------------------------------------
(* Prompts and their versions.                                              *)

Live(p) == prompts[p] = "live"

(* get_prompt() after the check of its namespace.                           *)
Reach(p, t) == Live(p) /\ Admitted(Home[p], t)

(* create_prompt(): a transaction for the namespace, one for the prompt.    *)
CreateBegin(s, p, t) ==
  /\ prompts[p] = "absent" /\ Admitted(Home[p], t)
  /\ Ready(s)
  /\ Ensure(Home[p], "public")
  /\ Goto(s, [op |-> "create", prompt |-> p])
  /\ UNCHANGED <<clock, certs, prompts, versions, social, hooks, broken, nextVersion>>

CreateWrite(s) ==
  /\ req[s].op = "create" /\ prompts[req[s].prompt] = "absent"
  /\ prompts' = [prompts EXCEPT ![req[s].prompt] = "live"]
  /\ Finish(s)
  /\ UNCHANGED <<access, versions, social, hooks, nextVersion>>

CommitBegin(s, p, t) ==
  /\ Reach(p, t) /\ nextVersion <= MaxVersions
  /\ Begin(s, [op |-> "commit", prompt |-> p])

(* commit(); the webhooks it fires at its end change no row.                *)
CommitWrite(s) ==
  LET v == nextVersion IN
  /\ req[s].op = "commit" /\ Live(req[s].prompt)
  /\ v <= MaxVersions
  /\ versions' = versions \cup {<<v, req[s].prompt>>}
  /\ nextVersion' = v + 1
  /\ Finish(s)
  /\ UNCHANGED <<access, prompts, social, hooks>>

Held(p) ==
  \/ \E a \in Actor : <<a, p>> \in stars
  \/ \E c \in Comment : <<c, p>> \in comments
  \/ \E c \in Collection : <<c, p>> \in items

DeleteBegin(s, p, t) == Reach(p, t) /\ Begin(s, [op |-> "delete", prompt |-> p])

(* Mutant: delete_prompt() commits what it has deleted before the prompt.   *)
DeleteWriteInTwo(s) ==
  LET p == req[s].prompt IN
  /\ req[s].op = "delete"
  /\ prompts' = IF Held(p) THEN prompts ELSE [prompts EXCEPT ![p] = "deleted"]
  /\ versions' = {x \in versions : x[2] # p}
  /\ Finish(s)
  /\ UNCHANGED <<access, social, hooks, nextVersion>>

(* delete_prompt(): the foreign keys of stars, comments and items fail the  *)
(* last of its statements, and all of them are rolled back (Abandon).       *)
DeleteWrite(s) ==
  LET p == req[s].prompt IN
  /\ req[s].op = "delete" /\ ~Held(p)
  /\ prompts' = [prompts EXCEPT ![p] = "deleted"]
  /\ versions' = {x \in versions : x[2] # p}
  /\ Finish(s)
  /\ UNCHANGED <<access, social, hooks, nextVersion>>

-----------------------------------------------------------------------------
(* Stars, comments, collections, webhooks.                                  *)

(* star_prompt(): a star that is there already ends it.                     *)
StarBegin(s, a, p, t) ==
  /\ Reach(p, t) /\ <<a, p>> \notin stars
  /\ Begin(s, [op |-> "star", actor |-> a, prompt |-> p])

(* Mutant: the row is inserted with ON CONFLICT DO NOTHING.                 *)
StarWriteIgnoring(s) ==
  LET p == req[s].prompt IN
  /\ req[s].op = "star" /\ Live(p)
  /\ stars' = stars \cup {<<req[s].actor, p>>}
  /\ starCount' = [starCount EXCEPT ![p] = @ + 1]
  /\ Finish(s)
  /\ UNCHANGED <<access, prompts, versions, comments, collections, items, hooks, nextVersion>>

(* The row and the counter are written in one transaction, which a second   *)
(* row of the same star or the deletion of the prompt fails (FlushFails).   *)
StarWrite(s) ==
  LET p == req[s].prompt IN
  /\ req[s].op = "star" /\ Live(p) /\ <<req[s].actor, p>> \notin stars
  /\ stars' = stars \cup {<<req[s].actor, p>>}
  /\ starCount' = [starCount EXCEPT ![p] = @ + 1]
  /\ Finish(s)
  /\ UNCHANGED <<access, prompts, versions, comments, collections, items, hooks, nextVersion>>

UnstarBegin(s, a, p, t) == Reach(p, t) /\ Begin(s, [op |-> "unstar", actor |-> a, prompt |-> p])

(* unstar_prompt(): the counter goes by the rowcount of the DELETE.         *)
UnstarWrite(s) ==
  LET row == <<req[s].actor, req[s].prompt>> IN
  /\ req[s].op = "unstar"
  /\ stars' = stars \ {row}
  /\ starCount' = IF row \in stars THEN [starCount EXCEPT ![row[2]] = @ - 1] ELSE starCount
  /\ Finish(s)
  /\ UNCHANGED <<access, prompts, versions, comments, collections, items, hooks, nextVersion>>

CommentBegin(s, c, p, t) == Reach(p, t) /\ Begin(s, [op |-> "comment", comment |-> c, prompt |-> p])

CommentWrite(s) ==
  /\ req[s].op = "comment" /\ Live(req[s].prompt)
  /\ \A p \in Prompt : <<req[s].comment, p>> \notin comments
  /\ comments' = comments \cup {<<req[s].comment, req[s].prompt>>}
  /\ Finish(s)
  /\ UNCHANGED <<access, prompts, versions, starCount, stars, collections, items, hooks, nextVersion>>

(* delete_comment() goes by the id; n is the namespace of the URL.          *)
DeleteComment(s, c, n, t) ==
  /\ Ready(s) /\ Admitted(n, t)
  /\ comments' = {x \in comments : x[1] # c}
  /\ UNCHANGED <<clock, access, prompts, versions, starCount, stars, collections, items, hooks,
                 broken, req, nextVersion>>

Standing == {c \in Collection : collections[c] = "live"}

(* create_collection(): a transaction for the namespace, one for the row.   *)
CollectBegin(s, c, t) ==
  /\ Standing = {} /\ Admitted(Shelf, t)
  /\ Ready(s)
  /\ Ensure(Shelf, "public")
  /\ Goto(s, [op |-> "collect", collection |-> c])
  /\ UNCHANGED <<clock, certs, prompts, versions, social, hooks, broken, nextVersion>>

(* Mutant: the table has no unique key on namespace and name.               *)
CollectWriteAgain(s) ==
  /\ req[s].op = "collect" /\ collections[req[s].collection] = "absent"
  /\ collections' = [collections EXCEPT ![req[s].collection] = "live"]
  /\ Finish(s)
  /\ UNCHANGED <<access, prompts, versions, starCount, stars, comments, items, hooks, nextVersion>>

(* The name is unique in its namespace.                                     *)
CollectWrite(s) ==
  /\ req[s].op = "collect" /\ Standing = {} /\ collections[req[s].collection] = "absent"
  /\ collections' = [collections EXCEPT ![req[s].collection] = "live"]
  /\ Finish(s)
  /\ UNCHANGED <<access, prompts, versions, starCount, stars, comments, items, hooks, nextVersion>>

(* delete_collection(): its items go with it.                               *)
DeleteCollection(s, t) ==
  /\ Ready(s) /\ Admitted(Shelf, t)
  /\ \E c \in Standing :
       /\ items' = {x \in items : x[1] # c}
       /\ collections' = [collections EXCEPT ![c] = "deleted"]
  /\ UNCHANGED <<clock, access, prompts, versions, starCount, stars, comments, hooks, broken,
                 req, nextVersion>>

(* add_to_collection(): the certificate is for the collection's namespace.  *)
PutBegin(s, p, t) ==
  /\ Admitted(Shelf, t) /\ Live(p)
  /\ \E c \in Standing :
       /\ <<c, p>> \notin items
       /\ Begin(s, [op |-> "put", collection |-> c, prompt |-> p])

PutWrite(s) ==
  LET row == <<req[s].collection, req[s].prompt>> IN
  /\ req[s].op = "put" /\ row[1] \in Standing /\ Live(row[2]) /\ row \notin items
  /\ items' = items \cup {row}
  /\ Finish(s)
  /\ UNCHANGED <<access, prompts, versions, starCount, stars, comments, collections, hooks, nextVersion>>

TakeOut(s, p, t) ==
  /\ Ready(s) /\ Admitted(Shelf, t)
  /\ Standing # {}
  /\ items' = items \ (Standing \X {p})
  /\ UNCHANGED <<clock, access, prompts, versions, starCount, stars, comments, collections, hooks,
                 broken, req, nextVersion>>

HookBegin(s, h) == Begin(s, [op |-> "hook", hook |-> h])

HookWrite(s) ==
  /\ req[s].op = "hook" /\ req[s].hook \notin hooks
  /\ hooks' = hooks \cup {req[s].hook}
  /\ Finish(s)
  /\ UNCHANGED <<access, prompts, versions, social, nextVersion>>

DeleteHook(s, h) ==
  /\ Ready(s)
  /\ hooks' = hooks \ {h}
  /\ UNCHANGED <<clock, access, prompts, versions, social, broken, req, nextVersion>>

-----------------------------------------------------------------------------
Administer(s, t) ==
  \/ \E n \in Namespace, kind \in Kind :
       CreateNamespace(s, n, kind) \/ PatchBegin(s, n, kind, t)
  \/ \E c \in Cert :
       \/ \E n \in Namespace, life \in Lives : IssueBegin(s, c, n, life)
       \/ Revoke(s, c)
  \/ \E h \in Hook : HookBegin(s, h) \/ DeleteHook(s, h)

Use(s, t) ==
  \/ \E p \in Prompt :
       \/ CreateBegin(s, p, t) \/ CommitBegin(s, p, t) \/ DeleteBegin(s, p, t)
       \/ \E a \in Actor : StarBegin(s, a, p, t) \/ UnstarBegin(s, a, p, t)
       \/ \E c \in Comment : CommentBegin(s, c, p, t)
       \/ PutBegin(s, p, t) \/ TakeOut(s, p, t)
  \/ \E c \in Comment, n \in Namespace : DeleteComment(s, c, n, t)
  \/ \E c \in Collection : CollectBegin(s, c, t)
  \/ DeleteCollection(s, t)

Proceed(s) ==
  \/ PatchWrite(s) \/ IssueWrite(s) \/ HookWrite(s)
  \/ CreateWrite(s) \/ CommitWrite(s) \/ DeleteWrite(s)
  \/ StarWrite(s) \/ UnstarWrite(s) \/ CommentWrite(s)
  \/ CollectWrite(s) \/ PutWrite(s)
  \/ FlushFails(s) \/ Abandon(s) \/ Refuse(s)

Next ==
  \/ Tick
  \/ \E s \in Session :
       \/ \E t \in Cert \cup {NoCert} : Administer(s, t) \/ Use(s, t)
       \/ Proceed(s)

Spec == Init /\ [][Next]_vars
-----------------------------------------------------------------------------
(* Type invariant: the tables, with what their foreign and unique keys say, *)
(* and the requests.                                                        *)
TypeOK ==
  /\ ns \in [Namespace -> Kind \cup {"absent"}]
  /\ certs \in [Cert -> [ns : Namespace, until : Nat, revoked : BOOLEAN, issued : BOOLEAN]]
  /\ prompts \in Row(Prompt) /\ collections \in Row(Collection)
  /\ \A c, d \in Standing : c = d
  /\ nextVersion \in 1..(MaxVersions + 1)
  /\ versions \subseteq (1..(nextVersion - 1)) \X {p \in Prompt : Live(p)}
  /\ stars \subseteq Actor \X {p \in Prompt : Live(p)}
  /\ comments \subseteq Comment \X {p \in Prompt : Live(p)}
  /\ items \subseteq Standing \X {p \in Prompt : Live(p)}
  /\ hooks \subseteq Hook
  /\ starCount \in [Prompt -> Nat]
  /\ broken \subseteq Session
  /\ req \in [Session -> Request \cup {Idle}]
  /\ \A s \in Session : req[s] # Idle => s \notin broken
  /\ clock \in 0..MaxTime /\ asks \in 0..MaxAsks

(* star_count is the number of stars, whichever requests race, fail at      *)
(* their flush or find their work done: the cached counter of star_prompt() *)
(* and unstar_prompt() never drifts from the rows.                          *)
StarCountIsRows ==
  \A p \in Prompt : starCount[p] = Cardinality({a \in Actor : <<a, p>> \in stars})

(* A version goes only together with its prompt, and never while a star, a  *)
(* comment or a collection item refers to the prompt: a delete_prompt() that*)
(* fails half way has deleted nothing.                                      *)
VersionsGoWithPrompt ==
  [][\A x \in versions \ versions' : prompts'[x[2]] = "deleted" /\ ~Held(x[2])]_vars

(* A proprietary namespace becomes public only by a request that held a     *)
(* certificate for it when it was checked ("Publishing a proprietary        *)
(* namespace requires presenting a valid certificate", namespaces.py), or   *)
(* that found it public then: made proprietary in between, it is published  *)
(* again without one.                                                       *)
PublishedByHolder ==
  [][\A n \in Namespace :
       ns[n] = "proprietary" /\ ns'[n] = "public" =>
         \E s \in Session :
           /\ req[s].op = "patch" /\ req[s].ns = n /\ req'[s] = Idle
           /\ req[s].shown \/ req[s].read = "public"]_vars
=============================================================================
