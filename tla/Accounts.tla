------------------------------- MODULE Accounts -------------------------------
(***************************************************************************)
(* Invites, users, enrolled keys and sessions: endpoints/invites.py,       *)
(* admin.py, keyauth.py, sessions.py and auth.py, the gate of api/deps.py, *)
(* and the tables they keep through services/version_store.py.             *)
(*                                                                         *)
(* Every method of the store is a transaction of its own; an endpoint that *)
(* calls several is a request in as many steps, and requests interleave.   *)
(* The clock may pass between any two (see Tick).                          *)
(*                                                                         *)
(* auth_enabled is True and the built-in provider is the one in use.       *)
(***************************************************************************)
EXTENDS Naturals, FiniteSets

CONSTANTS
  Name, Email, Token, ApiKey,   (* usernames, addresses, invites, API keys *)
  Jti,           (* jti claims; a client signs each of them once           *)
  Worker,        (* requests the server handles at a time                  *)
  Admin,         (* the username the bootstrap seeds                       *)
  NoToken,       (* in place of an invite: an account an admin creates     *)
  AutoActivate,  (* settings.auto_activate_users                           *)
  MaxAge,        (* settings.assertion_max_age_seconds                     *)
  MaxHold,       (* how long a request may be held up between two steps    *)
  Leeway,        (* how far in the future an iat may lie                   *)
  JwtLife,       (* settings.jwt_expire_minutes                            *)
  InviteLife,    (* expires_in_hours of an invite                          *)
  MaxTime, MaxUsers, MaxAsks    (* how long, how many rows and requests    *)

ASSUME NamesAssumption == Admin \in Name /\ NoToken \notin Token
ASSUME TimesAssumption ==
  {MaxAge, MaxHold, Leeway, JwtLife, InviteLife, MaxTime, MaxAsks} \subseteq Nat
ASSUME UsersAssumption == MaxUsers \in Nat \ {0}

VARIABLES
  clock,
  users,     (* table users                                                *)
  nextUser,  (* the next uuid4 of a user                                   *)
  flags,     (* table user_flags                                           *)
  invites,   (* table user_invites                                         *)
  keys,      (* table jwt_keys: no code revokes one                        *)
  jtis,      (* table used_jtis                                            *)
  apikeys,   (* table api_keys                                             *)
  session,   (* until when a user holds a JWT                              *)
  signed,    (* the assertions that have been presented                    *)
  req,       (* what each request has read and has still to do             *)
  asks,      (* how many requests have begun                               *)
  (* History, read by the properties only.                                 *)
  made,      (* <<t, u>>: account u was created through invite t           *)
  reviewed,  (* accounts an admin has set active                           *)
  stranded,  (* accounts whose request died or failed half way             *)
  bought,    (* how many sessions an assertion has bought                  *)
  buyers,    (* and for whom                                               *)
  early,     (* assertions that were accepted before their iat             *)
  servedLate (* a request was served that began when it should not be      *)

rowvars == <<users, nextUser, flags, invites, keys, jtis, apikeys>>
history == <<made, reviewed, stranded, bought, buyers, early, servedLate>>
vars == <<clock, rowvars, session, signed, req, asks, history>>

Id == 1..MaxUsers
Time == 0..(MaxTime + MaxAge + Leeway + JwtLife + InviteLife)
User == [id : Id, name : Name, email : Email, active : BOOLEAN]
Flag == [user : Id, flag : {"newbie", "blocked"}]
Key == [user : Id, sub : Email, by : Worker]
Assertion == [jti : Jti, by : Id, sub : Email, iat : Time]
Burnt == [jti : Jti, expires : Time]
NoInvite == [expires |-> 0, used |-> 0, made |-> FALSE]

(* What a request still has to do, and what it has read for it.             *)
OfUser == [op : {"disable", "flag", "grant", "enrol", "add_key"}, user : Id]
OfKey == [op : {"gate_key"}, key : Key, jti : Jti]
OfJti == [op : {"burn"}, jti : Jti, since : Time, until : Time, prune : SUBSET Burnt,
          next : [op : {"add_key"}, user : Id] \cup OfKey]
Request ==
  [op : {"create"}, token : Token \cup {NoToken}, name : Name, email : Email]
    \cup [op : {"use", "mark"}, token : Token, user : Id]
    \cup [op : {"touch"}, user : Id, jti : Jti]
    \cup [op : {"gate"}, user : Id, late : BOOLEAN]
    \cup [op : {"verify_key"}, key : ApiKey, late : BOOLEAN]
    \cup OfUser \cup OfKey \cup OfJti

Row(u) == {r \in users : r.id = u}
Blocked(u) == [user |-> u, flag |-> "blocked"] \in flags

Idle == [op |-> "idle"]
Goto(w, r) == req' = [req EXCEPT ![w] = r]
Ask(w) == req[w] = Idle /\ asks < MaxAsks /\ asks' = asks + 1

(* bootstrap() seeds the administrator, who has logged in and may have      *)
(* enrolled a key; the jti that took has been pruned.                       *)
Init ==
  /\ clock = 0
  /\ \E e \in Email, w \in Worker :
       /\ users = {[id |-> 1, name |-> Admin, email |-> e, active |-> TRUE]}
       /\ keys \in {{}, {[user |-> 1, sub |-> e, by |-> w]}}
  /\ nextUser = 2
  /\ flags = {} /\ jtis = {} /\ apikeys = {} /\ signed = {}
  /\ invites = [t \in Token |-> NoInvite]
  /\ session = [u \in Id |-> IF u = 1 THEN JwtLife ELSE 0]
  /\ req = [w \in Worker |-> Idle]
  /\ asks = 0
  /\ made = {} /\ reviewed = {} /\ stranded = {} /\ servedLate = FALSE
  /\ bought = [j \in Jti |-> 0] /\ buyers = [j \in Jti |-> {}] /\ early = {}

(* No request is held up for longer than MaxHold between verify_assertion() *)
(* and the insert of the jti.  Nothing in the code bounds the hold-up, and  *)
(* with more than half of MaxAge (300 s by default) a second request with   *)
(* the same assertion could insert the jti again when a third has pruned    *)
(* the first row.  A JWT that has expired is as good as none.               *)
Tick ==
  /\ clock < MaxTime
  /\ \A w \in Worker : req[w].op = "burn" => clock < req[w].since + MaxHold
  /\ clock' = clock + 1
  /\ session' = [u \in Id |-> IF session[u] > clock' THEN session[u] ELSE 0]
  /\ UNCHANGED <<rowvars, signed, req, asks, history>>

-----------------------------------------------------------------------------
(* Administration, a transaction each.                                      *)

CreateInvite(t) ==
  /\ invites[t] = NoInvite
  /\ invites' = [invites EXCEPT ![t] = [expires |-> clock + InviteLife, used |-> 0, made |-> TRUE]]
  /\ UNCHANGED <<clock, users, nextUser, flags, keys, jtis, apikeys, session, signed, req, asks>>
  /\ UNCHANGED history

(* History: a request that began while u was locked out may be served again.*)
Pardon(u, late) ==
  [w \in Worker |-> IF req[w].op = "gate" /\ req[w].user = u
                    THEN [req[w] EXCEPT !.late = late] ELSE req[w]]

(* update_user(): the address, or whether the account is active.            *)
UpdateUser(u, email, active) ==
  /\ asks < MaxAsks /\ asks' = asks + 1
  /\ \E r \in Row(u) :
       users' = (users \ {r}) \cup {[r EXCEPT !.email = email, !.active = active]}
  /\ reviewed' = IF active THEN reviewed \cup {u} ELSE reviewed
  /\ req' = IF active THEN Pardon(u, Blocked(u)) ELSE req
  /\ UNCHANGED <<clock, nextUser, flags, invites, keys, jtis, apikeys, session, signed>>
  /\ UNCHANGED <<made, stranded, bought, buyers, early, servedLate>>

(* delete_user(): the flags and keys of the account go with it.             *)
DeleteUser(u) ==
  /\ asks < MaxAsks /\ asks' = asks + 1
  /\ Row(u) # {}
  /\ users' = users \ Row(u)
  /\ flags' = {f \in flags : f.user # u}
  /\ keys' = {k \in keys : k.user # u}
  /\ req' = Pardon(u, FALSE)
  /\ UNCHANGED <<clock, nextUser, invites, jtis, apikeys, session, signed, history>>

(* add_user_flag() with one of BLOCKED_FLAGS, by the moderation tools.      *)
Block(u) ==
  /\ asks < MaxAsks /\ asks' = asks + 1
  /\ Row(u) # {}
  /\ flags' = flags \cup {[user |-> u, flag |-> "blocked"]}
  /\ UNCHANGED <<clock, users, nextUser, invites, keys, jtis, apikeys, session, signed, req, history>>

(* create_api_key() and revoke_api_key().                                   *)
ToggleApiKey(k) ==
  /\ asks < MaxAsks /\ asks' = asks + 1
  /\ apikeys' = IF k \in apikeys THEN apikeys \ {k} ELSE apikeys \cup {k}
  /\ req' = [w \in Worker |-> IF k \notin apikeys /\ req[w].op = "verify_key" /\ req[w].key = k
                              THEN [req[w] EXCEPT !.late = FALSE] ELSE req[w]]
  /\ UNCHANGED <<clock, users, nextUser, flags, invites, keys, jtis, session, signed, history>>

-----------------------------------------------------------------------------
(* Accounts: accept_invite(), and create_user() of the admin.               *)

InviteOpen(t) == invites[t].made /\ invites[t].used = 0 /\ invites[t].expires >= clock

(* The checks, of the invite and of the username.                           *)
BeginAccount(w, t, n, e) ==
  /\ Ask(w)
  /\ t # NoToken => InviteOpen(t)
  /\ \A r \in users : r.name # n
  /\ Goto(w, [op |-> "create", token |-> t, name |-> n, email |-> e])
  /\ UNCHANGED <<clock, rowvars, session, signed, history>>

(* Mutant: the table is made without its UNIQUE(username).                  *)
CreateAccountAnyName(w) ==
  LET r == req[w] IN
  /\ r.op = "create"
  /\ nextUser <= MaxUsers
  /\ nextUser' = nextUser + 1
  /\ users' = users \cup {[id |-> nextUser, name |-> r.name, email |-> r.email, active |-> TRUE]}
  /\ made' = made \cup {<<r.token, nextUser>>}
  /\ Goto(w, IF r.token = NoToken THEN Idle
             ELSE [op |-> "use", token |-> r.token, user |-> nextUser])
  /\ UNCHANGED <<clock, flags, invites, keys, jtis, apikeys, session, signed, asks>>
  /\ UNCHANGED <<reviewed, stranded, bought, buyers, early, servedLate>>

(* create_user(): active, and unique by its name.                           *)
CreateAccount(w) ==
  LET r == req[w] IN
  /\ r.op = "create"
  /\ \A x \in users : x.name # r.name
  /\ nextUser <= MaxUsers
  /\ nextUser' = nextUser + 1
  /\ users' = users \cup {[id |-> nextUser, name |-> r.name, email |-> r.email, active |-> TRUE]}
  /\ made' = made \cup {<<r.token, nextUser>>}
  /\ Goto(w, IF r.token = NoToken THEN Idle
             ELSE [op |-> "use", token |-> r.token, user |-> nextUser])
  /\ UNCHANGED <<clock, flags, invites, keys, jtis, apikeys, session, signed, asks>>
  /\ UNCHANGED <<reviewed, stranded, bought, buyers, early, servedLate>>

NameTaken(w) ==
  /\ req[w].op = "create"
  /\ \E x \in users : x.name = req[w].name
  /\ Goto(w, Idle)
  /\ UNCHANGED <<clock, rowvars, session, signed, asks, history>>

AfterUse(u) == [op |-> IF AutoActivate THEN "grant" ELSE "disable", user |-> u]

(* Mutant: a request that finds the invite used by now gives up.            *)
ReadInviteOrStop(w) ==
  LET r == req[w] IN
  /\ r.op = "use"
  /\ Goto(w, IF invites[r.token].used = 0 THEN [r EXCEPT !.op = "mark"] ELSE Idle)
  /\ UNCHANGED <<clock, rowvars, session, signed, asks, history>>

(* use_invite(): the read; what it returns is ignored.                      *)
ReadInvite(w) ==
  LET r == req[w] IN
  /\ r.op = "use"
  /\ Goto(w, IF invites[r.token].used = 0 THEN [r EXCEPT !.op = "mark"] ELSE AfterUse(r.user))
  /\ UNCHANGED <<clock, rowvars, session, signed, asks, history>>

(* Mutant: used_by is taken from the wrong user.                            *)
MarkInviteByNext(w) ==
  LET r == req[w] IN
  /\ r.op = "mark"
  /\ invites' = [invites EXCEPT ![r.token].used = nextUser]
  /\ Goto(w, AfterUse(r.user))
  /\ UNCHANGED <<clock, users, nextUser, flags, keys, jtis, apikeys, session, signed, asks, history>>

(* use_invite(): the update, whatever happened since the read.              *)
MarkInvite(w) ==
  LET r == req[w] IN
  /\ r.op = "mark"
  /\ invites' = [invites EXCEPT ![r.token].used = r.user]
  /\ Goto(w, AfterUse(r.user))
  /\ UNCHANGED <<clock, users, nextUser, flags, keys, jtis, apikeys, session, signed, asks, history>>

(* update_user(is_active=False), of the account if it is still there.       *)
Disable(w) ==
  LET r == req[w] IN
  /\ r.op = "disable"
  /\ users' = {IF x.id = r.user THEN [x EXCEPT !.active = FALSE] ELSE x : x \in users}
  /\ Goto(w, [op |-> "flag", user |-> r.user])
  /\ UNCHANGED <<clock, nextUser, flags, invites, keys, jtis, apikeys, session, signed, asks, history>>

(* add_user_flag("newbie"); the foreign key fails for a deleted account.    *)
FlagNewbie(w) ==
  LET r == req[w] IN
  /\ r.op = "flag"
  /\ IF Row(r.user) = {}
     THEN Goto(w, Idle) /\ UNCHANGED flags
     ELSE /\ flags' = flags \cup {[user |-> r.user, flag |-> "newbie"]}
          /\ Goto(w, [op |-> "grant", user |-> r.user])
  /\ UNCHANGED <<clock, users, nextUser, invites, keys, jtis, apikeys, session, signed, asks, history>>

(* create_jwt(): the new account is given a session, active or not.         *)
Grant(w) ==
  /\ req[w].op = "grant"
  /\ session' = [session EXCEPT ![req[w].user] = clock + JwtLife]
  /\ Goto(w, Idle)
  /\ UNCHANGED <<clock, rowvars, signed, asks, history>>

(* The process dies, or the database is locked, between two transactions.   *)
Die(w) ==
  /\ req[w] # Idle
  /\ Goto(w, Idle)
  /\ stranded' = IF req[w].op \in {"use", "mark", "disable", "flag"}
                 THEN stranded \cup {req[w].user} ELSE stranded
  /\ UNCHANGED <<clock, rowvars, session, signed, asks>>
  /\ UNCHANGED <<made, reviewed, bought, buyers, early, servedLate>>

-----------------------------------------------------------------------------
(* Assertions: keyauth.py.                                                  *)

(* What may be presented: what was presented before, or what a client has   *)
(* signed since, with the private key of its account and a jti of its own.  *)
Signable ==
  signed \cup {a \in [jti : Jti, by : 1..(nextUser - 1), sub : Email, iat : 0..(clock + Leeway)] :
              \A b \in signed : a.jti # b.jti}

(* verify_assertion(): the window; a client's exp can only narrow it.       *)
Fresh(a) == a.iat + MaxAge >= clock /\ a.iat <= clock + Leeway

Allowed(u) == ~Blocked(u) /\ \A r \in Row(u) : r.active

(* Mutant: a jti is kept until the moment it is used.                       *)
BurnUntilNow == clock

BurnUntil == clock + MaxAge

(* verify_assertion() and the reads of burn_jti(): expired rows are pruned, *)
(* and a jti that is left is a replay.                                      *)
VerifyAndLookUp(w, a, next) ==
  LET expired == {x \in jtis : x.expires < clock} IN
  /\ Fresh(a)
  /\ IF \E x \in jtis \ expired : x.jti = a.jti
     THEN /\ jtis' = jtis \ expired
          /\ Goto(w, Idle)
     ELSE /\ Goto(w, [op |-> "burn", jti |-> a.jti, since |-> clock, until |-> BurnUntil,
                      prune |-> expired, next |-> next])
          /\ UNCHANGED jtis
  /\ signed' = signed \cup {a}
  /\ early' = IF a.iat > clock THEN early \cup {a.jti} ELSE early
  /\ UNCHANGED <<clock, users, nextUser, flags, invites, keys, apikeys, session>>
  /\ UNCHANGED <<made, reviewed, stranded, bought, buyers, servedLate>>

(* register_key() with a session of the account, whose key is submitted.    *)
BeginEnrol(w, u) ==
  /\ Ask(w)
  /\ session[u] > clock
  /\ Row(u) # {} /\ Allowed(u)
  /\ \A k \in keys : k.user # u
  /\ Goto(w, [op |-> "enrol", user |-> u])
  /\ UNCHANGED <<clock, rowvars, session, signed, history>>

Enrol(w) ==
  /\ req[w].op = "enrol"
  /\ \E a \in Signable :
       /\ a.by = req[w].user
       /\ VerifyAndLookUp(w, a, [op |-> "add_key", user |-> a.by])
  /\ UNCHANGED asks

(* assert_auth(): the one key of the sub, and the signature checked with it.*)
BeginAssert(w) ==
  /\ Ask(w)
  /\ \E k \in keys : \E a \in Signable :
       /\ {x \in keys : x.sub = a.sub} = {k}
       /\ k.user = a.by
       /\ VerifyAndLookUp(w, a, [op |-> "gate_key", key |-> k, jti |-> a.jti])

(* burn_jti(), the insert; the primary key refuses a second one.            *)
Burn(w) ==
  LET r == req[w] IN
  /\ r.op = "burn"
  /\ IF \E x \in jtis \ r.prune : x.jti = r.jti
     THEN Goto(w, Idle) /\ UNCHANGED jtis
     ELSE /\ jtis' = (jtis \ r.prune) \cup {[jti |-> r.jti, expires |-> r.until]}
          /\ Goto(w, r.next)
  /\ UNCHANGED <<clock, users, nextUser, flags, invites, keys, apikeys, session, signed, asks, history>>

(* Mutant: the foreign key of jwt_keys is not enforced.                     *)
AddKeyUnchecked(w) ==
  LET r == req[w] IN
  /\ r.op = "add_key"
  /\ \E e \in Email : keys' = keys \cup {[user |-> r.user, sub |-> e, by |-> w]}
  /\ Goto(w, Idle)
  /\ UNCHANGED <<clock, users, nextUser, flags, invites, jtis, apikeys, session, signed, asks, history>>

(* add_jwt_key(), under the address the account has by now; an account that *)
(* was deleted meanwhile ends the request in an error.                      *)
AddKey(w) ==
  LET r == req[w] IN
  /\ r.op = "add_key"
  /\ keys' = keys \cup {[user |-> x.id, sub |-> x.email, by |-> w] : x \in Row(r.user)}
  /\ Goto(w, Idle)
  /\ UNCHANGED <<clock, users, nextUser, flags, invites, jtis, apikeys, session, signed, asks, history>>

(* Mutant: the account is looked up by the address the key is filed under.  *)
KeyUserByEmail(k) == {r.id : r \in {x \in users : x.email = k.sub}}

KeyUser(k) == {r.id : r \in Row(k.user)}

(* The gate, on the key and the account as they are now.                    *)
GateKey(w) ==
  LET r == req[w] IN
  /\ r.op = "gate_key"
  /\ IF r.key \in keys /\ (\E u \in KeyUser(r.key) : Allowed(u))
     THEN \E u \in {x \in KeyUser(r.key) : Allowed(x)} :
            Goto(w, [op |-> "touch", user |-> u, jti |-> r.jti])
     ELSE Goto(w, Idle)
  /\ UNCHANGED <<clock, rowvars, session, signed, asks, history>>

(* touch_jwt_key(), after which the account is read again for the JWT.      *)
Touch(w) ==
  LET r == req[w] IN
  /\ r.op = "touch"
  /\ Goto(w, Idle)
  /\ IF Row(r.user) = {}
     THEN UNCHANGED <<session, bought, buyers>>
     ELSE /\ session' = [session EXCEPT ![r.user] = clock + JwtLife]
          /\ bought' = [bought EXCEPT ![r.jti] = @ + 1]
          /\ buyers' = [buyers EXCEPT ![r.jti] = @ \cup {r.user}]
  /\ UNCHANGED <<clock, rowvars, signed, asks, made, reviewed, stranded, early, servedLate>>

-----------------------------------------------------------------------------
(* Sessions: login(), and get_current_user() before any other endpoint.     *)

Login(u) ==
  /\ asks < MaxAsks /\ asks' = asks + 1
  /\ \E r \in Row(u) : r.active
  /\ session' = [session EXCEPT ![u] = clock + JwtLife]
  /\ UNCHANGED <<clock, rowvars, signed, req, history>>

BeginRequest(w, u) ==
  /\ Ask(w)
  /\ session[u] > clock
  /\ Goto(w, [op |-> "gate", user |-> u, late |-> Row(u) # {} /\ ~Allowed(u)])
  /\ UNCHANGED <<clock, rowvars, session, signed, history>>

BeginKeyRequest(w, k) ==
  /\ Ask(w)
  /\ Goto(w, [op |-> "verify_key", key |-> k, late |-> k \notin apikeys])
  /\ UNCHANGED <<clock, rowvars, session, signed, history>>

(* Mutant: only the account's row is looked at, not its flags.              *)
PassesActive(r) ==
  IF r.op = "gate" THEN \A x \in Row(r.user) : x.active ELSE r.key \in apikeys

(* The gate on every request with a JWT, passed by an account that is gone; *)
(* verify_api_key().                                                        *)
Passes(r) ==
  IF r.op = "gate" THEN Row(r.user) = {} \/ Allowed(r.user) ELSE r.key \in apikeys

Serve(w) ==
  LET r == req[w] IN
  /\ r.op \in {"gate", "verify_key"}
  /\ servedLate' = (servedLate \/ (Passes(r) /\ r.late))
  /\ Goto(w, Idle)
  /\ UNCHANGED <<clock, rowvars, session, signed, asks, made, reviewed, stranded, bought, buyers, early>>

Administer ==
  \/ \E t \in Token : CreateInvite(t)
  \/ \E u \in Id, e \in Email, active \in BOOLEAN : UpdateUser(u, e, active)
  \/ \E u \in Id : DeleteUser(u) \/ Block(u)
  \/ \E k \in ApiKey : ToggleApiKey(k)

Begin(w) ==
  \/ \E t \in Token \cup {NoToken}, n \in Name, e \in Email : BeginAccount(w, t, n, e)
  \/ \E u \in Id : BeginEnrol(w, u) \/ BeginRequest(w, u)
  \/ BeginAssert(w)
  \/ \E k \in ApiKey : BeginKeyRequest(w, k)

Work(w) ==
  \/ CreateAccount(w) \/ NameTaken(w) \/ ReadInvite(w) \/ MarkInvite(w)
  \/ Disable(w) \/ FlagNewbie(w) \/ Grant(w)
  \/ Enrol(w) \/ Burn(w) \/ AddKey(w) \/ GateKey(w) \/ Touch(w)
  \/ Serve(w)
  \/ Die(w)

Next ==
  \/ Tick
  \/ Administer
  \/ \E u \in Id : Login(u)
  \/ \E w \in Worker : Begin(w) \/ Work(w)

Spec == Init /\ [][Next]_vars

-----------------------------------------------------------------------------
(* Type invariant, with the constraint that two requests which both found a *)
(* username free rely on.                                                   *)
TypeOK ==
  /\ \A r, x \in users : r.name = x.name => r = x
  /\ clock \in 0..MaxTime /\ asks \in 0..MaxAsks /\ nextUser \in 1..(MaxUsers + 1)
  /\ users \subseteq User /\ flags \subseteq Flag /\ keys \subseteq Key
  /\ jtis \subseteq Burnt /\ signed \subseteq Assertion /\ apikeys \subseteq ApiKey
  /\ invites \in [Token -> [expires : Time, used : 0..MaxUsers, made : BOOLEAN]]
  /\ session \in [Id -> Time]
  /\ req \in [Worker -> Request \cup {Idle}]
  /\ bought \in [Jti -> Nat] /\ buyers \in [Jti -> SUBSET Id] /\ early \subseteq Jti
  /\ made \subseteq (Token \cup {NoToken}) \X Id
  /\ reviewed \subseteq Id /\ stranded \subseteq Id /\ servedLate \in BOOLEAN

(* used_by of an invite names an account that was created through it.       *)
UsedByIsItsAccount == \A t \in Token : invites[t].used # 0 => <<t, invites[t].used>> \in made

(* With auto-activation off, an account that came by invite and that no     *)
(* admin has reviewed is active only while its request still runs, or where *)
(* that request has died half way.                                          *)
UnreviewedOnlyInFlight ==
  AutoActivate \/
  \A r \in users :
    \/ ~r.active \/ r.id \in reviewed \cup stranded
    \/ \A t \in Token : <<t, r.id>> \notin made
    \/ \E w \in Worker : req[w].op \in {"use", "mark", "disable"} /\ req[w].user = r.id

(* An assertion buys at most one session, however often and by however many *)
(* requests it is presented, and although its jti is forgotten again; only  *)
(* one that was accepted before its iat may outlive its jti.                *)
AssertionOnce == \A j \in Jti : bought[j] <= 1 \/ j \in early

(* ... and that session is for the account whose key signed it, whoever has *)
(* or had the address the key is filed under.                               *)
SessionOfSigner == \A a \in signed : buyers[a.jti] \subseteq {a.by}

(* Flags and keys go with their account, also those a request adds that had *)
(* read the account before it was deleted.                                  *)
NothingOutlivesItsUser ==
  /\ \A f \in flags : Row(f.user) # {}
  /\ \A k \in keys : Row(k.user) # {}

(* A request that began when its account was blocked or inactive, or its    *)
(* API key revoked, is not served, unless that was taken back meanwhile.    *)
LockedOutStaysOut == ~servedLate
=============================================================================
