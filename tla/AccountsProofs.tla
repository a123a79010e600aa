---------------------------- MODULE AccountsProofs ----------------------------
(***************************************************************************)
(* What holds of Accounts for any number of names, addresses, invites,     *)
(* keys, assertions, requests and ticks, whichever requests die.           *)
(***************************************************************************)
EXTENDS Accounts, TLAPS

-----------------------------------------------------------------------------
(* Types.                                                                   *)

(* What a request carries.                                                  *)
LEMMA RequestFields ==
  ASSUME TypeOK, NEW w \in Worker
  PROVE  /\ req[w].op = "create" =>
              /\ req[w].token \in Token \cup {NoToken}
              /\ req[w].name \in Name /\ req[w].email \in Email
         /\ req[w].op \in {"use", "mark"} => req[w].token \in Token
         /\ req[w].op \in {"use", "mark", "disable", "flag", "grant", "enrol", "add_key", "gate",
                           "touch"} => req[w].user \in Id
         /\ req[w].op \in {"gate", "verify_key"} => req[w].late \in BOOLEAN
         /\ req[w].op = "verify_key" => req[w].key \in ApiKey
         /\ req[w].op = "gate_key" => req[w] \in OfKey
         /\ req[w].op = "burn" => req[w] \in OfJti
         /\ req[w].op = "touch" => req[w].jti \in Jti
BY DEF TypeOK, Request, Idle, OfUser, OfKey, OfJti

LEMMA GotoType ==
  ASSUME TypeOK, NEW w \in Worker, NEW r \in Request \cup {Idle}, Goto(w, r)
  PROVE  /\ req' \in [Worker -> Request \cup {Idle}]
         /\ req'[w] = r /\ \A x \in Worker \ {w} : req'[x] = req[x]
BY DEF TypeOK, Goto

LEMMA AskType == ASSUME TypeOK, NEW w \in Worker, Ask(w) PROVE asks' \in 0..MaxAsks
BY TimesAssumption DEF TypeOK, Ask

(* The terms that requests are made of.                                     *)
LEMMA ToUser ==
  ASSUME NEW op \in {"disable", "flag", "grant", "enrol", "add_key"}, NEW u \in Id
  PROVE  [op |-> op, user |-> u] \in OfUser /\ [op |-> op, user |-> u] \in Request
BY DEF OfUser, Request

LEMMA Parts == OfUser \subseteq Request /\ OfKey \subseteq Request /\ OfJti \subseteq Request
BY DEF Request

LEMMA Times ==
  ASSUME NEW t \in 0..MaxTime
  PROVE  /\ t \in Time
         /\ t + MaxAge \in Time /\ t + JwtLife \in Time /\ t + InviteLife \in Time
         /\ 0..(t + Leeway) \subseteq Time
BY TimesAssumption DEF Time

LEMMA InitType == Init => TypeOK
<1> SUFFICES ASSUME Init PROVE TypeOK
  OBVIOUS
<1>1. PICK e \in Email, w \in Worker :
        /\ users = {[id |-> 1, name |-> Admin, email |-> e, active |-> TRUE]}
        /\ keys \in {{}, {[user |-> 1, sub |-> e, by |-> w]}}
  BY DEF Init
<1>2. 1 \in Id /\ 0 \in Time /\ JwtLife \in Time
  BY TimesAssumption, UsersAssumption DEF Id, Time
<1>3. users \subseteq User /\ keys \subseteq Key
  BY NamesAssumption, <1>1, <1>2 DEF User, Key
<1>4. session \in [Id -> Time]
  BY <1>2 DEF Init
<1>5. invites \in [Token -> [expires : Time, used : 0..MaxUsers, made : BOOLEAN]]
  BY <1>2, UsersAssumption DEF Init, NoInvite
<1>6. clock \in 0..MaxTime /\ asks \in 0..MaxAsks /\ nextUser \in 1..(MaxUsers + 1)
  BY TimesAssumption, UsersAssumption DEF Init
<1>7. /\ req \in [Worker -> Request \cup {Idle}]
      /\ bought \in [Jti -> Nat] /\ buyers \in [Jti -> SUBSET Id]
  BY DEF Init
<1> QED BY <1>1, <1>3, <1>4, <1>5, <1>6, <1>7 DEF Init, TypeOK

(* Administration and logging in.                                           *)
LEMMA AdministerType ==
  ASSUME TypeOK, Administer \/ \E u \in Id : Login(u)
  PROVE  TypeOK'
<1> USE TimesAssumption
<1>1. ASSUME NEW t \in Token, CreateInvite(t)
      PROVE  TypeOK'
  <2>1. clock + InviteLife \in Time
    BY Times DEF TypeOK
  <2>2. invites' \in [Token -> [expires : Time, used : 0..MaxUsers, made : BOOLEAN]]
    BY <1>1, <2>1, UsersAssumption DEF TypeOK, CreateInvite
  <2> QED BY <1>1, <2>2 DEF TypeOK, CreateInvite, history
<1>2. ASSUME NEW u \in Id, NEW late \in BOOLEAN
      PROVE  Pardon(u, late) \in [Worker -> Request \cup {Idle}]
  <2>1. ASSUME NEW w \in Worker, req[w].op = "gate"
        PROVE  [req[w] EXCEPT !.late = late] \in Request
    BY <2>1 DEF TypeOK, Request, Idle, OfUser, OfKey, OfJti
  <2> QED BY <2>1 DEF Pardon, TypeOK
<1>3. ASSUME NEW u \in Id, NEW e \in Email, NEW active \in BOOLEAN, UpdateUser(u, e, active)
      PROVE  TypeOK'
  <2>1. PICK r \in Row(u) :
          users' = (users \ {r}) \cup {[r EXCEPT !.email = e, !.active = active]}
    BY <1>3 DEF UpdateUser
  <2> DEFINE q == [r EXCEPT !.email = e, !.active = active]
  <2>8. r \in users /\ r \in User
    BY DEF TypeOK, Row
  <2>9. q \in User
    BY <2>8 DEF User
  <2>5. q \in User /\ q.name = r.name /\ r \in users
    BY <2>8, <2>9 DEF User
  <2>2. users' \subseteq User /\ \A x, y \in users' : x.name = y.name => x = y
    BY <2>1, <2>5 DEF TypeOK
  <2>6. Blocked(u) \in BOOLEAN
    BY DEF Blocked
  <2>7. Pardon(u, Blocked(u)) \in [Worker -> Request \cup {Idle}]
    BY <1>2, <2>6
  <2>3. req' \in [Worker -> Request \cup {Idle}]
    BY <1>3, <2>7 DEF UpdateUser, TypeOK
  <2>4. asks' \in 0..MaxAsks /\ reviewed' \subseteq Id
    BY <1>3 DEF UpdateUser, TypeOK
  <2> QED BY <1>3, <2>2, <2>3, <2>4 DEF TypeOK, UpdateUser
<1>4. ASSUME NEW u \in Id, DeleteUser(u)
      PROVE  TypeOK'
  <2>3. FALSE \in BOOLEAN
    OBVIOUS
  <2>4. Pardon(u, FALSE) \in [Worker -> Request \cup {Idle}]
    BY <1>2, <2>3
  <2>5. req' \in [Worker -> Request \cup {Idle}]
    BY <2>4, <1>4, Zenon DEF DeleteUser
  <2>1. asks' \in 0..MaxAsks
    BY <1>4 DEF DeleteUser, TypeOK
  <2>2. users' \subseteq users /\ flags' \subseteq flags /\ keys' \subseteq keys
    BY <1>4 DEF DeleteUser
  <2> QED BY <1>4, <2>1, <2>2, <2>5 DEF TypeOK, DeleteUser, history
<1>5. ASSUME NEW u \in Id, Block(u)
      PROVE  TypeOK'
  <2>1. asks' \in 0..MaxAsks /\ flags' \subseteq Flag
    BY <1>5 DEF Block, TypeOK, Flag
  <2> QED BY <1>5, <2>1 DEF TypeOK, Block, history
<1>6. ASSUME NEW k \in ApiKey, ToggleApiKey(k)
      PROVE  TypeOK'
  <2>1. asks' \in 0..MaxAsks /\ apikeys' \subseteq ApiKey
    BY <1>6 DEF ToggleApiKey, TypeOK
  <2>2. ASSUME NEW w \in Worker, req[w].op = "verify_key", NEW late \in BOOLEAN
        PROVE  [req[w] EXCEPT !.late = late] \in Request
    BY <2>2 DEF TypeOK, Request, Idle, OfUser, OfKey, OfJti
  <2>4. FALSE \in BOOLEAN
    OBVIOUS
  <2>3. req' \in [Worker -> Request \cup {Idle}]
    BY <1>6, <2>2, <2>4 DEF ToggleApiKey, TypeOK
  <2> QED BY <1>6, <2>1, <2>3 DEF TypeOK, ToggleApiKey, history
<1>7. ASSUME NEW u \in Id, Login(u)
      PROVE  TypeOK'
  <2>1. asks' \in 0..MaxAsks /\ clock + JwtLife \in Time
    BY <1>7, Times DEF Login, TypeOK
  <2>2. session' \in [Id -> Time]
    BY <1>7, <2>1 DEF Login, TypeOK
  <2> QED BY <1>7, <2>1, <2>2 DEF TypeOK, Login, rowvars, history
<1> QED BY <1>1, <1>3, <1>4, <1>5, <1>6, <1>7 DEF Administer

(* A step that changes what one request has read, and no table.             *)
LEMMA OnlyRequest ==
  ASSUME TypeOK, NEW w \in Worker, NEW r \in Request \cup {Idle}, Goto(w, r),
         asks' = asks \/ Ask(w), UNCHANGED <<clock, rowvars, session, signed, history>>
  PROVE  TypeOK'
<1>1. req' \in [Worker -> Request \cup {Idle}]
  BY GotoType
<1>2. asks' \in 0..MaxAsks
  BY AskType DEF TypeOK
<1> QED BY <1>1, <1>2 DEF TypeOK, rowvars, history

LEMMA SignableType == ASSUME TypeOK PROVE Signable \subseteq Assertion
<1>1. 0..(clock + Leeway) \subseteq Time
  BY Times DEF TypeOK
<1>2. 1..(nextUser - 1) \subseteq Id
  BY UsersAssumption DEF TypeOK, Id
<1>3. [jti : Jti, by : 1..(nextUser - 1), sub : Email, iat : 0..(clock + Leeway)] \subseteq Assertion
  BY <1>1, <1>2 DEF Assertion
<1> QED BY <1>3 DEF Signable, TypeOK

LEMMA VerifyType ==
  ASSUME TypeOK, NEW w \in Worker, NEW a \in Signable,
         NEW next \in [op : {"add_key"}, user : Id] \cup OfKey,
         VerifyAndLookUp(w, a, next), asks' = asks \/ Ask(w)
  PROVE  TypeOK'
<1> DEFINE expired == {x \in jtis : x.expires < clock}
           r == [op |-> "burn", jti |-> a.jti, since |-> clock, until |-> BurnUntil,
                 prune |-> expired, next |-> next]
<1>1. a \in Assertion /\ a.jti \in Jti
  BY SignableType DEF Assertion
<1>2. clock \in Time /\ BurnUntil \in Time
  BY Times DEF TypeOK, BurnUntil
<1>3. expired \subseteq Burnt
  BY DEF TypeOK
<1>4. r \in OfJti
  BY <1>1, <1>2, <1>3 DEF OfJti
<1>5. r \in Request
  BY <1>4 DEF Request
<1>6. jtis' \subseteq jtis /\ signed' = signed \cup {a} /\ early' \subseteq early \cup {a.jti}
  BY DEF VerifyAndLookUp
<1>7. req' \in [Worker -> Request \cup {Idle}]
  <2>1. Goto(w, Idle) \/ Goto(w, r)
    BY DEF VerifyAndLookUp
  <2> QED BY <2>1, <1>5, GotoType
<1>8. asks' \in 0..MaxAsks
  BY AskType DEF TypeOK
<1>9. /\ UNCHANGED <<clock, users, nextUser, flags, invites, keys, apikeys, session>>
      /\ UNCHANGED <<made, reviewed, stranded, bought, buyers, servedLate>>
  BY DEF VerifyAndLookUp
<1> QED BY <1>1, <1>6, <1>7, <1>8, <1>9 DEF TypeOK

LEMMA BeginType ==
  ASSUME TypeOK, NEW w \in Worker, Begin(w)
  PROVE  TypeOK'
<1>1. ASSUME NEW t \in Token \cup {NoToken}, NEW n \in Name, NEW e \in Email,
             BeginAccount(w, t, n, e)
      PROVE  TypeOK'
  <2>1. [op |-> "create", token |-> t, name |-> n, email |-> e] \in Request
    BY DEF Request
  <2> QED BY <1>1, <2>1, OnlyRequest DEF BeginAccount
<1>2. ASSUME NEW u \in Id, BeginEnrol(w, u)
      PROVE  TypeOK'
  <2>1. [op |-> "enrol", user |-> u] \in Request
    BY ToUser
  <2> QED BY <1>2, <2>1, OnlyRequest DEF BeginEnrol
<1>3. ASSUME NEW u \in Id, BeginRequest(w, u)
      PROVE  TypeOK'
  <2> DEFINE late == Row(u) # {} /\ ~Allowed(u)
  <2>1. late \in BOOLEAN
    OBVIOUS
  <2>2. [op |-> "gate", user |-> u, late |-> late] \in Request
    <3> HIDE DEF late
    <3> QED BY <2>1 DEF Request
  <2> QED BY <1>3, <2>2, OnlyRequest DEF BeginRequest
<1>4. ASSUME BeginAssert(w)
      PROVE  TypeOK'
  <2>1. PICK k \in keys : \E a \in Signable :
          VerifyAndLookUp(w, a, [op |-> "gate_key", key |-> k, jti |-> a.jti])
    BY <1>4 DEF BeginAssert
  <2>2. PICK a \in Signable : VerifyAndLookUp(w, a, [op |-> "gate_key", key |-> k, jti |-> a.jti])
    BY <2>1
  <2>3. [op |-> "gate_key", key |-> k, jti |-> a.jti] \in OfKey
    BY SignableType DEF OfKey, TypeOK, Assertion
  <2> QED BY <1>4, <2>2, <2>3, VerifyType DEF BeginAssert
<1>5. ASSUME NEW k \in ApiKey, BeginKeyRequest(w, k)
      PROVE  TypeOK'
  <2> DEFINE late == k \notin apikeys
  <2>1. late \in BOOLEAN
    OBVIOUS
  <2>2. [op |-> "verify_key", key |-> k, late |-> late] \in Request
    <3> HIDE DEF late
    <3> QED BY <2>1 DEF Request
  <2> QED BY <1>5, <2>2, OnlyRequest DEF BeginKeyRequest
<1> QED BY <1>1, <1>2, <1>3, <1>4, <1>5 DEF Begin

LEMMA AfterUseType == ASSUME NEW u \in Id PROVE AfterUse(u) \in Request
BY ToUser DEF AfterUse

LEMMA AccountStepType ==
  ASSUME TypeOK, NEW w \in Worker,
         \/ CreateAccount(w) \/ NameTaken(w) \/ ReadInvite(w) \/ MarkInvite(w)
         \/ Disable(w) \/ FlagNewbie(w) \/ Grant(w)
  PROVE  TypeOK'
<1> DEFINE r == req[w]
<1>1. ASSUME CreateAccount(w)
      PROVE  TypeOK'
  <2> DEFINE new == [id |-> nextUser, name |-> r.name, email |-> r.email, active |-> TRUE]
             next == IF r.token = NoToken THEN Idle
                     ELSE [op |-> "use", token |-> r.token, user |-> nextUser]
  <2>1. /\ r.token \in Token \cup {NoToken} /\ r.name \in Name /\ r.email \in Email
        /\ nextUser \in Id /\ nextUser' \in 1..(MaxUsers + 1)
    BY <1>1, RequestFields, UsersAssumption DEF CreateAccount, TypeOK, Id
  <2>2. new \in User
    BY <2>1 DEF User
  <2>7. users' = users \cup {new} /\ new.name = r.name /\ \A x \in users : x.name # r.name
    BY <1>1 DEF CreateAccount
  <2>3. users' \subseteq User /\ \A x, y \in users' : x.name = y.name => x = y
    <3> HIDE DEF new
    <3> QED BY <2>2, <2>7 DEF TypeOK
  <2>4. next \in Request \cup {Idle}
    BY <2>1 DEF Request
  <2>5. req' \in [Worker -> Request \cup {Idle}]
    BY <1>1, <2>4, GotoType DEF CreateAccount
  <2>6. made' \subseteq (Token \cup {NoToken}) \X Id
    BY <1>1, <2>1 DEF CreateAccount, TypeOK
  <2> QED BY <1>1, <2>1, <2>3, <2>5, <2>6 DEF CreateAccount, TypeOK
<1>2. ASSUME NameTaken(w)
      PROVE  TypeOK'
  BY <1>2, OnlyRequest DEF NameTaken
<1>3. ASSUME ReadInvite(w)
      PROVE  TypeOK'
  <2> DEFINE next == IF invites[r.token].used = 0 THEN [r EXCEPT !.op = "mark"]
                     ELSE AfterUse(r.user)
  <2>1. r.op = "use" /\ r.user \in Id
    BY <1>3, RequestFields DEF ReadInvite
  <2>2. [r EXCEPT !.op = "mark"] \in Request
    BY <2>1 DEF TypeOK, Request, Idle, OfUser, OfKey, OfJti
  <2>3. next \in Request \cup {Idle}
    BY <2>1, <2>2, AfterUseType
  <2> QED BY <1>3, <2>3, OnlyRequest DEF ReadInvite
<1>4. ASSUME MarkInvite(w)
      PROVE  TypeOK'
  <2>1. r.user \in Id /\ r.token \in Token
    BY <1>4, RequestFields DEF MarkInvite
  <2>2. req' \in [Worker -> Request \cup {Idle}]
    BY <1>4, <2>1, AfterUseType, GotoType DEF MarkInvite
  <2>3. invites' \in [Token -> [expires : Time, used : 0..MaxUsers, made : BOOLEAN]]
    <3>1. r.user \in 0..MaxUsers
      BY <2>1, UsersAssumption DEF Id
    <3>2. [invites[r.token] EXCEPT !.used = r.user]
            \in [expires : Time, used : 0..MaxUsers, made : BOOLEAN]
      BY <2>1, <3>1 DEF TypeOK
    <3> QED BY <1>4, <3>2 DEF MarkInvite, TypeOK
  <2> QED BY <1>4, <2>2, <2>3 DEF MarkInvite, TypeOK, history
<1>5. ASSUME Disable(w)
      PROVE  TypeOK'
  <2>1. r.user \in Id
    BY <1>5, RequestFields DEF Disable
  <2>2. req' \in [Worker -> Request \cup {Idle}]
    BY <1>5, <2>1, ToUser, GotoType DEF Disable
  <2>3. ASSUME NEW x \in users
        PROVE  [x EXCEPT !.active = FALSE] \in User /\ [x EXCEPT !.active = FALSE].name = x.name
    BY <2>3 DEF TypeOK, User
  <2>4. users' \subseteq User /\ \A x, y \in users' : x.name = y.name => x = y
    <3> DEFINE Off(x) == IF x.id = r.user THEN [x EXCEPT !.active = FALSE] ELSE x
    <3>1. users' = {Off(x) : x \in users}
      BY <1>5 DEF Disable
    <3>2. ASSUME NEW x \in users
          PROVE  Off(x) \in User /\ Off(x).name = x.name
      <4>1. x \in User
        BY DEF TypeOK
      <4> QED BY <4>1, <2>3, Zenon
    <3>3. \A x, y \in users : x.name = y.name => x = y
      BY DEF TypeOK
    <3> HIDE DEF Off
    <3> QED BY <3>1, <3>2, <3>3
  <2> QED BY <1>5, <2>2, <2>4 DEF Disable, TypeOK, history
<1>6. ASSUME FlagNewbie(w)
      PROVE  TypeOK'
  <2>1. r.user \in Id
    BY <1>6, RequestFields DEF FlagNewbie
  <2>2. [user |-> r.user, flag |-> "newbie"] \in Flag
    BY <2>1 DEF Flag
  <2>3. req' \in [Worker -> Request \cup {Idle}] /\ flags' \subseteq Flag
    BY <1>6, <2>1, <2>2, ToUser, GotoType DEF FlagNewbie, TypeOK
  <2> QED BY <1>6, <2>3 DEF FlagNewbie, TypeOK, history
<1>7. ASSUME Grant(w)
      PROVE  TypeOK'
  <2>1. r.user \in Id /\ clock + JwtLife \in Time
    BY <1>7, RequestFields, Times DEF Grant, TypeOK
  <2>2. req' \in [Worker -> Request \cup {Idle}] /\ session' \in [Id -> Time]
    BY <1>7, <2>1, GotoType DEF Grant, TypeOK
  <2> QED BY <1>7, <2>2 DEF Grant, TypeOK, rowvars, history
<1> QED BY <1>1, <1>2, <1>3, <1>4, <1>5, <1>6, <1>7

LEMMA KeyStepType ==
  ASSUME TypeOK, NEW w \in Worker,
         Enrol(w) \/ Burn(w) \/ AddKey(w) \/ GateKey(w) \/ Touch(w) \/ Serve(w) \/ Die(w)
  PROVE  TypeOK'
<1> DEFINE r == req[w]
<1>1. ASSUME Enrol(w)
      PROVE  TypeOK'
  <2>1. PICK a \in Signable :
          a.by = r.user /\ VerifyAndLookUp(w, a, [op |-> "add_key", user |-> a.by])
    BY <1>1 DEF Enrol
  <2>2. [op |-> "add_key", user |-> a.by] \in [op : {"add_key"}, user : Id]
    BY <1>1, <2>1, RequestFields DEF Enrol
  <2> QED BY <1>1, <2>1, <2>2, VerifyType DEF Enrol
<1>2. ASSUME Burn(w)
      PROVE  TypeOK'
  <2>1. r \in OfJti
    BY <1>2, RequestFields DEF Burn
  <2>2. r.next \in Request /\ [jti |-> r.jti, expires |-> r.until] \in Burnt
    BY <2>1, Parts DEF OfJti, OfUser, Burnt
  <2>3. req' \in [Worker -> Request \cup {Idle}]
    BY <1>2, <2>2, GotoType DEF Burn
  <2>4. jtis' \subseteq Burnt
    BY <1>2, <2>2 DEF Burn, TypeOK
  <2> QED BY <1>2, <2>3, <2>4 DEF Burn, TypeOK, history
<1>3. ASSUME AddKey(w)
      PROVE  TypeOK'
  <2>1. \A x \in Row(r.user) : [user |-> x.id, sub |-> x.email, by |-> w] \in Key
    BY DEF Row, TypeOK, User, Key
  <2>2. keys' \subseteq Key
    BY <1>3, <2>1 DEF AddKey, TypeOK
  <2>3. req' \in [Worker -> Request \cup {Idle}]
    BY <1>3, GotoType DEF AddKey
  <2> QED BY <1>3, <2>2, <2>3 DEF AddKey, TypeOK, history
<1>4. ASSUME GateKey(w)
      PROVE  TypeOK'
  <2>1. r \in OfKey
    BY <1>4, RequestFields DEF GateKey
  <2>2. \A u \in KeyUser(r.key) : [op |-> "touch", user |-> u, jti |-> r.jti] \in Request
    BY <2>1 DEF KeyUser, Row, TypeOK, User, OfKey, Request
  <2>3. Goto(w, Idle) \/ \E u \in KeyUser(r.key) : Goto(w, [op |-> "touch", user |-> u, jti |-> r.jti])
    BY <1>4 DEF GateKey
  <2> QED BY <1>4, <2>2, <2>3, OnlyRequest DEF GateKey
<1>5. ASSUME Touch(w)
      PROVE  TypeOK'
  <2>1. r.user \in Id /\ r.jti \in Jti /\ clock + JwtLife \in Time
    BY <1>5, RequestFields, Times DEF Touch, TypeOK
  <2>2. req' \in [Worker -> Request \cup {Idle}]
    BY <1>5, GotoType DEF Touch
  <2>3. session' \in [Id -> Time]
    BY <1>5, <2>1 DEF Touch, TypeOK
  <2>4. bought' \in [Jti -> Nat]
    BY <1>5, <2>1 DEF Touch, TypeOK
  <2>5. buyers' \in [Jti -> SUBSET Id]
    <3>1. buyers[r.jti] \cup {r.user} \subseteq Id
      BY <2>1 DEF TypeOK
    <3> QED BY <1>5, <2>1, <3>1 DEF Touch, TypeOK
  <2> QED BY <1>5, <2>2, <2>3, <2>4, <2>5 DEF Touch, TypeOK, rowvars
<1>6. ASSUME Serve(w)
      PROVE  TypeOK'
  <2>1. req' \in [Worker -> Request \cup {Idle}] /\ servedLate' \in BOOLEAN
    BY <1>6, GotoType DEF Serve
  <2> QED BY <1>6, <2>1 DEF Serve, TypeOK, rowvars
<1>7. ASSUME Die(w)
      PROVE  TypeOK'
  <2>1. req' \in [Worker -> Request \cup {Idle}]
    BY <1>7, GotoType DEF Die
  <2>2. stranded' \subseteq Id
    BY <1>7, RequestFields DEF Die, TypeOK
  <2> QED BY <1>7, <2>1, <2>2 DEF Die, TypeOK, rowvars
<1> QED BY <1>1, <1>2, <1>3, <1>4, <1>5, <1>6, <1>7

LEMMA TickType == ASSUME TypeOK, Tick PROVE TypeOK'
<1>1. clock' \in 0..MaxTime
  BY TimesAssumption DEF Tick, TypeOK
<1>2. session' \in [Id -> Time]
  <2>1. 0 \in Time
    BY TimesAssumption DEF Time
  <2> QED BY <2>1 DEF Tick, TypeOK
<1> QED BY <1>1, <1>2 DEF Tick, TypeOK, rowvars, history

LEMMA NextType == TypeOK /\ [Next]_vars => TypeOK'
<1> SUFFICES ASSUME TypeOK, [Next]_vars PROVE TypeOK'
  OBVIOUS
<1>1. CASE Tick
  BY <1>1, TickType
<1>2. CASE Administer \/ \E u \in Id : Login(u)
  BY <1>2, AdministerType
<1>3. ASSUME NEW w \in Worker, Begin(w) PROVE TypeOK'
  BY <1>3, BeginType
<1>4. ASSUME NEW w \in Worker, Work(w) PROVE TypeOK'
  BY <1>4, AccountStepType, KeyStepType DEF Work
<1>5. CASE UNCHANGED vars
  BY <1>5 DEF vars, rowvars, history, TypeOK
<1> QED BY <1>1, <1>2, <1>3, <1>4, <1>5 DEF Next

(* TypeOK for every value of the constants: usernames stay unique, and what *)
(* a request has read stays of its type, through every interleaving.        *)
THEOREM AccountsTypeCorrect == Spec => []TypeOK
BY InitType, NextType, PTL DEF Spec

-----------------------------------------------------------------------------
(* Accounts and invites.                                                    *)

(* Ids are given once, and an account keeps its id.                         *)
IdsKnown ==
  /\ \A r \in users : r.id < nextUser
  /\ \A r, x \in users : r.id = x.id => r = x
  /\ \A m \in made : m[2] < nextUser

(* A request that has still to mark its invite has made its account with it.*)
MadeKnown ==
  \A w \in Worker : req[w].op \in {"use", "mark"} => <<req[w].token, req[w].user>> \in made

Rows == IdsKnown /\ MadeKnown /\ NothingOutlivesItsUser /\ UsedByIsItsAccount
          /\ UnreviewedOnlyInFlight

LEMMA PardonFields ==
  ASSUME TypeOK, NEW u \in Id, NEW late \in BOOLEAN, NEW w \in Worker
  PROVE  LET r == Pardon(u, late)[w] IN
         /\ req[w].op # "gate" => r = req[w]
         /\ req[w].op = "gate" => /\ r.op = "gate" /\ r.user = req[w].user
                                  /\ r.user # u => r = req[w]
<1>1. Pardon(u, late)[w] = IF req[w].op = "gate" /\ req[w].user = u
                           THEN [req[w] EXCEPT !.late = late] ELSE req[w]
  BY DEF Pardon
<1>2. req[w].op = "gate" => req[w] \in [op : {"gate"}, user : Id, late : BOOLEAN]
  BY DEF TypeOK, Request, Idle, OfUser, OfKey, OfJti
<1>3. ASSUME req[w].op = "gate", req[w].user = u
      PROVE  LET r == [req[w] EXCEPT !.late = late] IN
             r.op = "gate" /\ r.user = u /\ r.late = late
  BY <1>2, <1>3
<1> QED BY <1>1, <1>3

LEMMA Pardoned ==
  ASSUME TypeOK, NEW u \in Id, NEW late \in BOOLEAN, NEW w \in Worker,
         req[w].op = "gate", req[w].user = u
  PROVE  Pardon(u, late)[w].late = late
<1>1. Pardon(u, late)[w] = [req[w] EXCEPT !.late = late]
  BY DEF Pardon
<1>2. req[w] \in [op : {"gate"}, user : Id, late : BOOLEAN]
  BY DEF TypeOK, Request, Idle, OfUser, OfKey, OfJti
<1>3. [req[w] EXCEPT !.late = late].late = late
  BY <1>2
<1> QED BY <1>1, <1>3

(* The steps of an administrator, of the clock and of a login leave every   *)
(* request as it is, but for what the history says of it.                   *)
LEMMA RequestsStay ==
  ASSUME TypeOK, Administer \/ Tick \/ \E u \in Id : Login(u), NEW w \in Worker
  PROVE  /\ req'[w].op = req[w].op
         /\ req[w].op \notin {"gate", "verify_key"} => req'[w] = req[w]
<1>1. ASSUME NEW u \in Id, NEW e \in Email, NEW active \in BOOLEAN, UpdateUser(u, e, active)
      PROVE  /\ req'[w].op = req[w].op
             /\ req[w].op \notin {"gate", "verify_key"} => req'[w] = req[w]
  <2>1. Blocked(u) \in BOOLEAN
    BY DEF Blocked
  <2>2. req' = Pardon(u, Blocked(u)) \/ req' = req
    BY <1>1 DEF UpdateUser
  <2> QED BY <2>1, <2>2, PardonFields
<1>2. ASSUME NEW u \in Id, DeleteUser(u)
      PROVE  /\ req'[w].op = req[w].op
             /\ req[w].op \notin {"gate", "verify_key"} => req'[w] = req[w]
  <2>1. \E late \in BOOLEAN : req' = Pardon(u, late)
    <3>1. FALSE \in BOOLEAN
      OBVIOUS
    <3> QED BY <1>2, <3>1, Zenon DEF DeleteUser
  <2> QED BY <2>1, PardonFields
<1>3. ASSUME NEW k \in ApiKey, ToggleApiKey(k)
      PROVE  /\ req'[w].op = req[w].op
             /\ req[w].op \notin {"gate", "verify_key"} => req'[w] = req[w]
  <2>1. req[w].op = "verify_key" => req[w] \in [op : {"verify_key"}, key : ApiKey, late : BOOLEAN]
    BY DEF TypeOK, Request, Idle, OfUser, OfKey, OfJti
  <2>2. req[w].op = "verify_key" => [req[w] EXCEPT !.late = FALSE].op = "verify_key"
    BY <2>1
  <2>3. req'[w] = req[w] \/ (req[w].op = "verify_key" /\ req'[w] = [req[w] EXCEPT !.late = FALSE])
    BY <1>3 DEF ToggleApiKey
  <2> QED BY <2>2, <2>3
<1>4. (\E t \in Token : CreateInvite(t)) \/ (\E u \in Id : Block(u)) \/ Tick \/ (\E u \in Id : Login(u))
        => req' = req
  BY DEF CreateInvite, Block, Tick, Login
<1> QED BY <1>1, <1>2, <1>3, <1>4 DEF Administer

LEMMA GotoStep ==
  ASSUME TypeOK, NEW w \in Worker, NEW r, Goto(w, r)
  PROVE  req'[w] = r /\ \A x \in Worker \ {w} : req'[x] = req[x]
BY DEF TypeOK, Goto

LEMMA RowsInit == Init => Rows
<1> SUFFICES ASSUME Init PROVE Rows
  OBVIOUS
<1>1. PICK e \in Email, w \in Worker :
        /\ users = {[id |-> 1, name |-> Admin, email |-> e, active |-> TRUE]}
        /\ keys \in {{}, {[user |-> 1, sub |-> e, by |-> w]}}
  BY DEF Init
<1>2. IdsKnown
  BY <1>1 DEF Init, IdsKnown
<1>3. NothingOutlivesItsUser
  <2>1. [id |-> 1, name |-> Admin, email |-> e, active |-> TRUE] \in Row(1)
    BY <1>1 DEF Row
  <2>2. flags = {} /\ \A k \in keys : k.user = 1
    BY <1>1 DEF Init
  <2> QED BY <2>1, <2>2 DEF NothingOutlivesItsUser
<1>4. MadeKnown /\ UsedByIsItsAccount /\ UnreviewedOnlyInFlight
  BY DEF Init, MadeKnown, UsedByIsItsAccount, UnreviewedOnlyInFlight, Idle, NoInvite
<1> QED BY <1>2, <1>3, <1>4 DEF Rows

(* Steps that make, mark or disable no account.                             *)
LEMMA RowsSame ==
  ASSUME TypeOK, Rows, UNCHANGED <<users, nextUser, flags, keys, invites, made>>,
         reviewed' = reviewed, stranded \subseteq stranded',
         \A w \in Worker : req'[w].op \in {"use", "mark", "disable"} => req'[w] = req[w],
         \A w \in Worker : req[w].op \in {"use", "mark", "disable"} =>
           req'[w] = req[w] \/ req[w].user \in stranded'
  PROVE  Rows'
<1>1. IdsKnown' /\ UsedByIsItsAccount'
  BY DEF Rows, IdsKnown, UsedByIsItsAccount
<1>4. NothingOutlivesItsUser'
  BY DEF Rows, NothingOutlivesItsUser, Row
<1>2. MadeKnown'
  BY DEF Rows, MadeKnown
<1>3. UnreviewedOnlyInFlight'
  BY DEF Rows, UnreviewedOnlyInFlight
<1> QED BY <1>1, <1>2, <1>3, <1>4 DEF Rows

LEMMA RowsBegin ==
  ASSUME TypeOK, Rows, NEW w \in Worker, Begin(w)
  PROVE  Rows'
<1> DEFINE Same == /\ UNCHANGED <<users, nextUser, flags, keys, invites, made, reviewed, stranded>>
                   /\ req[w] = Idle
                   /\ \E r : Goto(w, r) /\ r.op \notin {"use", "mark", "disable"}
<1>3. ASSUME BeginAssert(w)
      PROVE  Same
  <2>1. req[w] = Idle /\ \E a, next : VerifyAndLookUp(w, a, next)
    BY <1>3 DEF BeginAssert, Ask
  <2> QED BY <2>1 DEF VerifyAndLookUp, Idle
<1>4. ASSUME NEW t \in Token \cup {NoToken}, NEW n \in Name, NEW e \in Email,
             BeginAccount(w, t, n, e)
      PROVE  Same
  BY <1>4 DEF BeginAccount, Ask, rowvars, history
<1>5. ASSUME NEW u \in Id, BeginEnrol(w, u) \/ BeginRequest(w, u)
      PROVE  Same
  BY <1>5 DEF BeginEnrol, BeginRequest, Ask, rowvars, history
<1>6. ASSUME NEW k \in ApiKey, BeginKeyRequest(w, k)
      PROVE  Same
  BY <1>6 DEF BeginKeyRequest, Ask, rowvars, history
<1>1. Same
  BY <1>3, <1>4, <1>5, <1>6 DEF Begin
<1>2. /\ req'[w].op \notin {"use", "mark", "disable"} /\ req[w].op = "idle"
      /\ \A x \in Worker \ {w} : req'[x] = req[x]
  BY <1>1, GotoStep DEF Idle
<1> QED BY <1>1, <1>2, RowsSame

LEMMA RowsOtherWork ==
  ASSUME TypeOK, Rows, NEW w \in Worker,
         NameTaken(w) \/ Grant(w) \/ Enrol(w) \/ Burn(w) \/ GateKey(w) \/ Touch(w) \/ Serve(w)
  PROVE  Rows'
<1>1. /\ UNCHANGED <<users, nextUser, flags, keys, invites, made, reviewed, stranded>>
      /\ req[w].op \notin {"use", "mark", "disable"}
  BY DEF NameTaken, Grant, Enrol, Burn, GateKey, Touch, Serve, VerifyAndLookUp, rowvars, history
<1>2. \E r : Goto(w, r) /\ r.op \notin {"use", "mark", "disable"}
  <2>1. CASE NameTaken(w) \/ Grant(w) \/ Touch(w) \/ Serve(w)
    BY <2>1 DEF NameTaken, Grant, Touch, Serve, Idle
  <2>2. CASE Enrol(w)
    <3>1. \E a, next : VerifyAndLookUp(w, a, next)
      BY <2>2 DEF Enrol
    <3> QED BY <3>1 DEF VerifyAndLookUp, Idle
  <2>4. CASE GateKey(w)
    <3>1. \/ Goto(w, Idle)
          \/ \E u \in KeyUser(req[w].key) :
               Goto(w, [op |-> "touch", user |-> u, jti |-> req[w].jti])
      BY <2>4 DEF GateKey
    <3>2. ASSUME NEW u, Goto(w, [op |-> "touch", user |-> u, jti |-> req[w].jti])
          PROVE  \E r : Goto(w, r) /\ r.op \notin {"use", "mark", "disable"}
      BY <3>2
    <3>3. ASSUME Goto(w, Idle)
          PROVE  \E r : Goto(w, r) /\ r.op \notin {"use", "mark", "disable"}
      BY <3>3 DEF Idle
    <3> QED BY <3>1, <3>2, <3>3, Zenon
  <2>3. CASE Burn(w)
    <3>1. req[w].next.op \in {"add_key", "gate_key"}
      BY <2>3, RequestFields DEF Burn, OfJti, OfKey
    <3> QED BY <2>3, <3>1 DEF Burn, Idle
  <2> QED BY <2>1, <2>2, <2>3, <2>4
<1>3. /\ req'[w].op \notin {"use", "mark", "disable"}
      /\ \A x \in Worker \ {w} : req'[x] = req[x]
  BY <1>2, GotoStep
<1> QED BY <1>1, <1>3, RowsSame

LEMMA UnreviewedStays ==
  ASSUME TypeOK, Rows, made' = made, reviewed' = reviewed, stranded \subseteq stranded',
         \A r \in users' : \E x \in users : r.id = x.id /\ (r.active => x.active),
         \A w \in Worker : req[w].op \in {"use", "mark", "disable"} =>
           req'[w] = req[w] \/ req[w].user \in stranded'
  PROVE  UnreviewedOnlyInFlight'
BY DEF Rows, UnreviewedOnlyInFlight

LEMMA RowsAdminister ==
  ASSUME TypeOK, Rows, Administer \/ Tick \/ \E u \in Id : Login(u)
  PROVE  Rows'
<1>1. \A w \in Worker : /\ req'[w].op = req[w].op
                        /\ req[w].op \in {"use", "mark", "disable"} => req'[w] = req[w]
  BY RequestsStay
<1>2. MadeKnown'
  <2>1. made' = made
    BY DEF Administer, Tick, Login, CreateInvite, UpdateUser, DeleteUser, Block, ToggleApiKey,
           history
  <2> QED BY <1>1, <2>1 DEF Rows, MadeKnown
<1>3. ASSUME NEW t \in Token, CreateInvite(t)
      PROVE  Rows'
  <2>1. UNCHANGED <<users, nextUser, flags, keys, history>>
    BY <1>3 DEF CreateInvite
  <2>2. IdsKnown' /\ NothingOutlivesItsUser'
    BY <2>1 DEF Rows, IdsKnown, NothingOutlivesItsUser, Row, history
  <2>3. UsedByIsItsAccount'
    BY <1>3, <2>1 DEF Rows, UsedByIsItsAccount, CreateInvite, TypeOK, history
  <2>4. UnreviewedOnlyInFlight'
    BY <1>1, <2>1 DEF Rows, UnreviewedOnlyInFlight, history
  <2> QED BY <1>2, <2>2, <2>3, <2>4 DEF Rows
<1>4. ASSUME NEW u \in Id, NEW e \in Email, NEW active \in BOOLEAN, UpdateUser(u, e, active)
      PROVE  Rows'
  <2>1. PICK r \in Row(u) :
          users' = (users \ {r}) \cup {[r EXCEPT !.email = e, !.active = active]}
    BY <1>4 DEF UpdateUser
  <2> DEFINE q == [r EXCEPT !.email = e, !.active = active]
  <2>2. r \in users /\ r \in User /\ r.id = u
    BY DEF TypeOK, Row
  <2>3. q.id = u /\ q.active = active
    BY <2>2 DEF User
  <2>4. /\ UNCHANGED <<nextUser, flags, keys, made, invites, stranded>>
        /\ reviewed' = IF active THEN reviewed \cup {u} ELSE reviewed
    BY <1>4 DEF UpdateUser
  <2>10. users' = (users \ {r}) \cup {q}
    BY <2>1
  <2> HIDE DEF q
  <2>5. IdsKnown'
    BY <2>10, <2>2, <2>3, <2>4 DEF Rows, IdsKnown
  <2>6. \A v \in Id : Row(v) # {} => Row(v)' # {}
    BY <2>10, <2>2, <2>3 DEF Row
  <2>7. NothingOutlivesItsUser'
    BY <2>4, <2>6 DEF Rows, NothingOutlivesItsUser, TypeOK, Flag, Key
  <2>8. UsedByIsItsAccount'
    BY <2>4 DEF Rows, UsedByIsItsAccount
  <2>9. UnreviewedOnlyInFlight'
    <3>1. \A x \in users' : x \in users \/ ~x.active \/ x.id \in reviewed'
      BY <2>10, <2>3, <2>4
    <3> QED BY <1>1, <2>4, <3>1 DEF Rows, UnreviewedOnlyInFlight
  <2> QED BY <1>2, <2>5, <2>7, <2>8, <2>9 DEF Rows
<1>5. ASSUME NEW u \in Id, DeleteUser(u)
      PROVE  Rows'
  <2>1. /\ users' = users \ Row(u) /\ flags' = {f \in flags : f.user # u}
        /\ keys' = {k \in keys : k.user # u} /\ UNCHANGED <<nextUser, invites, history>>
    BY <1>5 DEF DeleteUser
  <2>2. IdsKnown' /\ UsedByIsItsAccount'
    BY <2>1 DEF Rows, IdsKnown, UsedByIsItsAccount, history
  <2>3. NothingOutlivesItsUser'
    BY <2>1 DEF Rows, NothingOutlivesItsUser, Row
  <2>4. UnreviewedOnlyInFlight'
    BY <1>1, <2>1, UnreviewedStays DEF history
  <2> QED BY <1>2, <2>2, <2>3, <2>4 DEF Rows
<1>6. ASSUME NEW u \in Id, Block(u)
      PROVE  Rows'
  <2>1. /\ Row(u) # {} /\ flags' = flags \cup {[user |-> u, flag |-> "blocked"]}
        /\ UNCHANGED <<users, nextUser, keys, invites, history>>
    BY <1>6 DEF Block
  <2>2. IdsKnown' /\ UsedByIsItsAccount' /\ NothingOutlivesItsUser'
    BY <2>1 DEF Rows, IdsKnown, UsedByIsItsAccount, NothingOutlivesItsUser, Row, history
  <2>3. UnreviewedOnlyInFlight'
    BY <1>1, <2>1, UnreviewedStays DEF history
  <2> QED BY <1>2, <2>2, <2>3 DEF Rows
<1>7. ASSUME Tick \/ (\E k \in ApiKey : ToggleApiKey(k)) \/ (\E u \in Id : Login(u))
      PROVE  Rows'
  <2>1. UNCHANGED <<users, nextUser, flags, keys, invites, made, reviewed, stranded>>
    BY <1>7 DEF Tick, ToggleApiKey, Login, rowvars, history
  <2> QED BY <1>1, <2>1, RowsSame
<1> QED BY <1>3, <1>4, <1>5, <1>6, <1>7 DEF Administer

LEMMA RowsAccountWork ==
  ASSUME TypeOK, Rows, NEW w \in Worker,
         \/ CreateAccount(w) \/ ReadInvite(w) \/ MarkInvite(w) \/ Disable(w) \/ FlagNewbie(w)
         \/ AddKey(w) \/ Die(w)
  PROVE  Rows'
<1> DEFINE r == req[w]
<1>1. ASSUME CreateAccount(w)
      PROVE  Rows'
  <2> DEFINE new == [id |-> nextUser, name |-> r.name, email |-> r.email, active |-> TRUE]
             next == IF r.token = NoToken THEN Idle
                     ELSE [op |-> "use", token |-> r.token, user |-> nextUser]
  <2>1. /\ users' = users \cup {new} /\ nextUser' = nextUser + 1 /\ r.op = "create"
        /\ made' = made \cup {<<r.token, nextUser>>} /\ Goto(w, next)
        /\ UNCHANGED <<flags, keys, invites, reviewed, stranded>>
        /\ nextUser \in Nat
    BY <1>1, UsersAssumption DEF CreateAccount, TypeOK
  <2>2. new.id = nextUser
    OBVIOUS
  <2>3. req'[w] = next /\ \A x \in Worker \ {w} : req'[x] = req[x]
    BY <2>1, GotoStep
  <2>4. IdsKnown'
    <3>1. (\A x \in users : x.id \in Nat) /\ \A m \in made : m[2] \in Nat
      BY UsersAssumption DEF TypeOK, User, Id
    <3> HIDE DEF new
    <3>2. /\ \A x \in users' : x.id < nextUser'
          /\ \A x, y \in users' : x.id = y.id => x = y
      BY <2>1, <2>2, <3>1 DEF Rows, IdsKnown
    <3>3. \A m \in made' : m[2] < nextUser'
      BY <2>1, <3>1 DEF Rows, IdsKnown
    <3> QED BY <3>2, <3>3 DEF IdsKnown
  <2>5. NothingOutlivesItsUser'
    BY <2>1 DEF Rows, NothingOutlivesItsUser, Row
  <2>6. UsedByIsItsAccount'
    BY <2>1 DEF Rows, UsedByIsItsAccount
  <2>7. MadeKnown'
    BY <2>1, <2>3 DEF Rows, MadeKnown, Idle
  <2>8. UnreviewedOnlyInFlight'
    <3> SUFFICES ASSUME ~AutoActivate, NEW x \in users', x.active, x.id \notin reviewed',
                        x.id \notin stranded', NEW t \in Token, <<t, x.id>> \in made'
                 PROVE  \E v \in Worker : req'[v].op \in {"use", "mark", "disable"}
                                            /\ req'[v].user = x.id
      BY DEF UnreviewedOnlyInFlight
    <3>1. CASE x.id = nextUser
      <4>1. <<t, x.id>> \notin made
        BY <2>1, <3>1 DEF Rows, IdsKnown
      <4>2. r.token = t /\ t # NoToken
        BY <2>1, <4>1, NamesAssumption
      <4>3. req'[w].op = "use" /\ req'[w].user = x.id
        BY <2>3, <3>1, <4>2
      <4> QED BY <4>3
    <3>2. CASE x.id # nextUser
      <4>1. x \in users /\ <<t, x.id>> \in made
        <5> HIDE DEF new
        <5> QED BY <2>1, <2>2, <3>2
      <4>2. PICK v \in Worker : req[v].op \in {"use", "mark", "disable"} /\ req[v].user = x.id
        BY <2>1, <4>1 DEF Rows, UnreviewedOnlyInFlight
      <4>3. v # w
        BY <2>1, <4>2
      <4> QED BY <2>3, <4>2, <4>3
    <3> QED BY <3>1, <3>2
  <2> QED BY <2>4, <2>5, <2>6, <2>7, <2>8 DEF Rows
<1>2. ASSUME ReadInvite(w) \/ MarkInvite(w)
      PROVE  Rows'
  <2>1. /\ UNCHANGED <<users, nextUser, flags, keys, made, reviewed, stranded>>
        /\ r.op \in {"use", "mark"}
    BY <1>2 DEF ReadInvite, MarkInvite, rowvars, history
  <2>2. IdsKnown'
    BY <2>1 DEF Rows, IdsKnown
  <2>3. NothingOutlivesItsUser'
    BY <2>1 DEF Rows, NothingOutlivesItsUser, Row
  <2>4. <<r.token, r.user>> \in made
    BY <2>1 DEF Rows, MadeKnown
  <2>5. UsedByIsItsAccount'
    <3>1. CASE ReadInvite(w)
      BY <3>1, <2>1 DEF ReadInvite, rowvars, Rows, UsedByIsItsAccount
    <3>2. CASE MarkInvite(w)
      <4>1. \A t \in Token : invites'[t].used = IF t = r.token THEN r.user ELSE invites[t].used
        BY <3>2 DEF MarkInvite, TypeOK
      <4> QED BY <2>1, <2>4, <4>1 DEF Rows, UsedByIsItsAccount
    <3> QED BY <1>2, <3>1, <3>2
  <2> DEFINE marked == [r EXCEPT !.op = "mark"]
             after == AfterUse(r.user)
  <2>6. /\ \A x \in Worker \ {w} : req'[x] = req[x]
        /\ \/ req'[w] = marked /\ r.op = "use"
           \/ req'[w] = after
    BY <1>2, GotoStep DEF ReadInvite, MarkInvite
  <2>11. r.op = "use" => r \in [op : {"use", "mark"}, token : Token, user : Id]
    BY DEF TypeOK, Request, Idle, OfUser, OfKey, OfJti
  <2>7. r.op = "use" => marked.op = "mark" /\ marked.user = r.user /\ marked.token = r.token
    BY <2>11
  <2>12. /\ after.user = r.user /\ after.op \in {"grant", "disable"}
         /\ ~AutoActivate => after.op = "disable"
    BY DEF AfterUse
  <2> HIDE DEF marked, after
  <2>8. MadeKnown'
    BY <2>1, <2>4, <2>6, <2>7, <2>12 DEF Rows, MadeKnown
  <2>9. ~AutoActivate => req'[w].op \in {"mark", "disable"} /\ req'[w].user = r.user
    BY <2>6, <2>7, <2>12
  <2>10. UnreviewedOnlyInFlight'
    BY <2>1, <2>6, <2>9 DEF Rows, UnreviewedOnlyInFlight
  <2> QED BY <2>2, <2>3, <2>5, <2>8, <2>10 DEF Rows
<1>3. ASSUME Disable(w)
      PROVE  Rows'
  <2> DEFINE Off(x) == IF x.id = r.user THEN [x EXCEPT !.active = FALSE] ELSE x
  <2>1. /\ users' = {Off(x) : x \in users} /\ r.op = "disable"
        /\ UNCHANGED <<nextUser, flags, keys, invites, history>>
        /\ Goto(w, [op |-> "flag", user |-> r.user])
    BY <1>3 DEF Disable
  <2>2. /\ req'[w].op = "flag" /\ \A x \in Worker \ {w} : req'[x] = req[x]
    BY <2>1, GotoStep
  <2>3. ASSUME NEW x \in users
        PROVE  /\ Off(x).id = x.id /\ (x.id # r.user => Off(x) = x)
               /\ x.id = r.user => Off(x).active = FALSE
    <3>1. x \in User
      BY DEF TypeOK
    <3>2. [x EXCEPT !.active = FALSE].id = x.id /\ [x EXCEPT !.active = FALSE].active = FALSE
      BY <3>1 DEF User
    <3> QED BY <3>2, Zenon
  <2> HIDE DEF Off
  <2>4. IdsKnown'
    <3>1. ASSUME NEW y \in users' PROVE \E x \in users : y = Off(x) /\ y.id = x.id
      BY <2>1, <2>3
    <3>2. \A y \in users' : y.id < nextUser'
      BY <2>1, <3>1 DEF Rows, IdsKnown
    <3>3. \A y, z \in users' : y.id = z.id => y = z
      BY <3>1 DEF Rows, IdsKnown
    <3> QED BY <2>1, <3>2, <3>3 DEF Rows, IdsKnown, history
  <2>5. NothingOutlivesItsUser'
    <3>1. \A u \in Id : Row(u) # {} => Row(u)' # {}
      BY <2>1, <2>3 DEF Row
    <3> QED BY <2>1, <3>1 DEF Rows, NothingOutlivesItsUser, TypeOK, Flag, Key
  <2>6. UsedByIsItsAccount' /\ MadeKnown'
    BY <2>1, <2>2 DEF Rows, UsedByIsItsAccount, MadeKnown, history
  <2>7. UnreviewedOnlyInFlight'
    <3>1. \A y \in users' : (y \in users /\ y.id # r.user) \/ ~y.active
      BY <2>1, <2>3
    <3> QED BY <2>1, <2>2, <3>1 DEF Rows, UnreviewedOnlyInFlight, history
  <2> QED BY <2>4, <2>5, <2>6, <2>7 DEF Rows
<1>4. ASSUME FlagNewbie(w) \/ AddKey(w)
      PROVE  Rows'
  <2>1. /\ UNCHANGED <<users, nextUser, invites, made, reviewed, stranded>>
        /\ r.op \in {"flag", "add_key"}
    BY <1>4 DEF FlagNewbie, AddKey, history
  <2>2. Goto(w, Idle) \/ Goto(w, [op |-> "grant", user |-> r.user])
    BY <1>4 DEF FlagNewbie, AddKey
  <2>3. /\ req'[w].op \in {"idle", "grant"}
        /\ \A x \in Worker \ {w} : req'[x] = req[x]
    BY <2>2, GotoStep DEF Idle
  <2>4. IdsKnown' /\ UsedByIsItsAccount' /\ MadeKnown'
    BY <2>1, <2>3 DEF Rows, IdsKnown, UsedByIsItsAccount, MadeKnown
  <2>5. UnreviewedOnlyInFlight'
    BY <2>1, <2>3 DEF Rows, UnreviewedOnlyInFlight
  <2>6. NothingOutlivesItsUser'
    <3>1. CASE FlagNewbie(w)
      BY <2>1, <3>1 DEF FlagNewbie, Rows, NothingOutlivesItsUser, Row
    <3>2. CASE AddKey(w)
      <4>1. /\ flags' = flags
            /\ keys' = keys \cup {[user |-> x.id, sub |-> x.email, by |-> w] : x \in Row(r.user)}
        BY <3>2 DEF AddKey
      <4>2. ASSUME NEW x \in Row(r.user)
            PROVE  [user |-> x.id, sub |-> x.email, by |-> w].user = x.id /\ x \in Row(x.id)
        BY DEF Row
      <4> QED BY <2>1, <4>1, <4>2 DEF Rows, NothingOutlivesItsUser, Row
    <3> QED BY <1>4, <3>1, <3>2
  <2> QED BY <2>4, <2>5, <2>6 DEF Rows
<1>5. ASSUME Die(w)
      PROVE  Rows'
  <2>1. /\ UNCHANGED <<users, nextUser, flags, keys, invites, made, reviewed>>
        /\ stranded \subseteq stranded' /\ Goto(w, Idle)
        /\ r.op \in {"use", "mark", "disable"} => r.user \in stranded'
    BY <1>5 DEF Die, rowvars
  <2>2. req'[w].op = "idle" /\ \A x \in Worker \ {w} : req'[x] = req[x]
    BY <2>1, GotoStep DEF Idle
  <2> QED BY <2>1, <2>2, RowsSame
<1> QED BY <1>1, <1>2, <1>3, <1>4, <1>5

LEMMA RowsNext == TypeOK /\ Rows /\ [Next]_vars => Rows'
<1> SUFFICES ASSUME TypeOK, Rows, [Next]_vars PROVE Rows'
  OBVIOUS
<1>1. CASE Administer \/ Tick \/ \E u \in Id : Login(u)
  BY <1>1, RowsAdminister
<1>2. ASSUME NEW w \in Worker, Begin(w) PROVE Rows'
  BY <1>2, RowsBegin
<1>3. ASSUME NEW w \in Worker, Work(w) PROVE Rows'
  BY <1>3, RowsOtherWork, RowsAccountWork DEF Work
<1>4. CASE UNCHANGED vars
  BY <1>4, RowsSame DEF vars, rowvars, history
<1> QED BY <1>1, <1>2, <1>3, <1>4 DEF Next

LEMMA RowsAlways == Spec => [](TypeOK /\ Rows)
<1>1. Init => TypeOK /\ Rows
  BY InitType, RowsInit
<1>2. (TypeOK /\ Rows) /\ [Next]_vars => (TypeOK /\ Rows)'
  BY NextType, RowsNext
<1> QED BY <1>1, <1>2, PTL DEF Spec

(* UsedByIsItsAccount: whoever accepts an invite at the same time as whom,  *)
(* used_by is an account that accept_invite() has created through it.       *)
THEOREM UsedByAlwaysItsAccount == Spec => []UsedByIsItsAccount
BY RowsAlways, PTL DEF Rows

(* UnreviewedOnlyInFlight: accept_invite() leaves an unreviewed account     *)
(* active only while it runs, or where it died.                             *)
THEOREM UnreviewedAlwaysInFlight == Spec => []UnreviewedOnlyInFlight
BY RowsAlways, PTL DEF Rows

(* NothingOutlivesItsUser: delete_user() against a request that has read    *)
(* the account and adds a flag or a key.                                    *)
THEOREM NothingEverOutlivesItsUser == Spec => []NothingOutlivesItsUser
BY RowsAlways, PTL DEF Rows

-----------------------------------------------------------------------------
(* Assertions.                                                              *)

SignedBy(j, u) == \E a \in signed : a.jti = j /\ a.by = u

(* A client signs a jti once.                                               *)
SignedOnce == \A a, b \in signed : a.jti = b.jti => a = b

(* What a request goes on with is what was presented to it, and the account *)
(* whose key has signed it.                                                 *)
Presented(r) ==
  /\ r.op = "burn" => \E a \in signed : a.jti = r.jti
  /\ r.op = "burn" /\ r.next.op = "gate_key" =>
       r.next.jti = r.jti /\ SignedBy(r.jti, r.next.key.user)
  /\ r.op = "gate_key" => SignedBy(r.jti, r.key.user)
  /\ r.op = "touch" => SignedBy(r.jti, r.user)

BoughtSigned ==
  \A j \in Jti : /\ \A u \in buyers[j] : SignedBy(j, u)
                 /\ bought[j] # 0 => \E a \in signed : a.jti = j

Signing == SignedOnce /\ BoughtSigned /\ \A w \in Worker : Presented(req[w])

(* A request that waits to insert its jti is not held up too long, prunes   *)
(* only what has expired, and keeps the jti as long as its assertion is     *)
(* fresh, if the iat does not lie ahead.                                    *)
BurnTimes(r) ==
  r.op = "burn" =>
    /\ r.since <= clock /\ clock <= r.since + MaxHold /\ r.until = r.since + MaxAge
    /\ \A x \in r.prune : x.expires < clock
    /\ r.jti \in early \/ \A a \in signed : a.jti = r.jti => a.iat <= r.since

Pending(j) == {w \in Worker : req[w].op = "burn" /\ req[w].jti = j}
Passed(j) == {w \in Worker : req[w].op \in {"gate_key", "touch"} /\ req[w].jti = j}
Claimed(j) == bought[j] # 0 \/ Passed(j) # {}

(* The row of a jti outlives its assertion and whoever waits to insert it.  *)
Kept(j) ==
  \E x \in jtis :
    /\ x.jti = j
    /\ \A a \in signed : a.jti = j => a.iat + MaxAge <= x.expires
    /\ \A w \in Pending(j) : req[w].since + MaxHold <= x.expires

Stale(j) == Pending(j) = {} /\ \A a \in signed : a.jti = j => a.iat + MaxAge < clock

OnceClaimed(j) ==
  /\ Claimed(j) => Kept(j) \/ Stale(j)
  /\ bought[j] <= 1
  /\ \A w \in Passed(j) : bought[j] = 0 /\ Passed(j) = {w}

Burning ==
  /\ \A w \in Worker : BurnTimes(req[w])
  /\ \A j \in Jti \ early : OnceClaimed(j)

(* Steps that are none of an assertion's.                                   *)
Elsewhere ==
  /\ UNCHANGED <<signed, bought, buyers, jtis, early>>
  /\ \A w \in Worker : req'[w] = req[w] \/ req'[w].op \notin {"burn", "gate_key", "touch"}

LEMMA StepsElsewhere ==
  ASSUME TypeOK, Next
  PROVE  \/ Elsewhere /\ UNCHANGED clock
         \/ Elsewhere /\ Tick
         \/ \E w \in Worker : BeginAssert(w) \/ Enrol(w) \/ Burn(w) \/ GateKey(w) \/ Touch(w)
<1>1. CASE Administer \/ Tick \/ \E u \in Id : Login(u)
  <2>1. UNCHANGED <<signed, bought, buyers, jtis, early>> /\ (Tick \/ clock' = clock)
    BY <1>1 DEF Administer, Tick, Login, CreateInvite, UpdateUser, DeleteUser, Block,
                ToggleApiKey, rowvars, history
  <2>2. \A w \in Worker : req'[w] = req[w] \/ req'[w].op \in {"gate", "verify_key"}
    BY <1>1, RequestsStay
  <2> QED BY <2>1, <2>2 DEF Elsewhere
<1>2. ASSUME NEW w \in Worker, Begin(w), ~BeginAssert(w)
      PROVE  Elsewhere /\ UNCHANGED clock
  <2> DEFINE Quiet == /\ UNCHANGED <<clock, signed, bought, buyers, jtis, early>>
                      /\ \E r : Goto(w, r) /\ r.op \in {"create", "enrol", "gate", "verify_key"}
  <2>1. ASSUME NEW t \in Token \cup {NoToken}, NEW n \in Name, NEW e \in Email,
               BeginAccount(w, t, n, e)
        PROVE  Quiet
    BY <2>1 DEF BeginAccount, rowvars, history
  <2>2. ASSUME NEW u \in Id, BeginEnrol(w, u) \/ BeginRequest(w, u)
        PROVE  Quiet
    BY <2>2 DEF BeginEnrol, BeginRequest, rowvars, history
  <2>3. ASSUME NEW k \in ApiKey, BeginKeyRequest(w, k)
        PROVE  Quiet
    BY <2>3 DEF BeginKeyRequest, rowvars, history
  <2>4. Quiet
    BY <1>2, <2>1, <2>2, <2>3 DEF Begin
  <2> QED BY <2>4, GotoStep DEF Elsewhere
<1>3. ASSUME NEW w \in Worker, Work(w), ~Enrol(w), ~Burn(w), ~GateKey(w), ~Touch(w)
      PROVE  Elsewhere /\ UNCHANGED clock
  <2>1. UNCHANGED <<clock, signed, bought, buyers, jtis, early>>
    BY <1>3 DEF Work, CreateAccount, NameTaken, ReadInvite, MarkInvite, Disable, FlagNewbie, Grant,
                AddKey, Serve, Die, rowvars, history
  <2>2. CASE ReadInvite(w)
    <3>1. req[w].op = "use" => req[w] \in [op : {"use", "mark"}, token : Token, user : Id]
      BY DEF TypeOK, Request, Idle, OfUser, OfKey, OfJti
    <3>2. req[w].op = "use" => [req[w] EXCEPT !.op = "mark"].op = "mark"
      BY <3>1
    <3>3. AfterUse(req[w].user).op \in {"grant", "disable"}
      BY DEF AfterUse
    <3>4. /\ req'[w] = [req[w] EXCEPT !.op = "mark"] \/ req'[w] = AfterUse(req[w].user)
          /\ req[w].op = "use" /\ \A x \in Worker \ {w} : req'[x] = req[x]
      BY <2>2, GotoStep DEF ReadInvite
    <3> QED BY <2>1, <3>2, <3>3, <3>4 DEF Elsewhere
  <2>3. CASE CreateAccount(w)
    <3>1. Goto(w, Idle) \/ Goto(w, [op |-> "use", token |-> req[w].token, user |-> nextUser])
      BY <2>3 DEF CreateAccount
    <3> QED BY <2>1, <3>1, GotoStep DEF Elsewhere, Idle
  <2>4. CASE MarkInvite(w)
    <3>1. Goto(w, AfterUse(req[w].user)) /\ AfterUse(req[w].user).op \in {"grant", "disable"}
      BY <2>4 DEF MarkInvite, AfterUse
    <3> QED BY <2>1, <3>1, GotoStep DEF Elsewhere
  <2>5. CASE Disable(w) \/ FlagNewbie(w)
    <3>1. \/ Goto(w, Idle) \/ Goto(w, [op |-> "flag", user |-> req[w].user])
          \/ Goto(w, [op |-> "grant", user |-> req[w].user])
      BY <2>5 DEF Disable, FlagNewbie
    <3> QED BY <2>1, <3>1, GotoStep DEF Elsewhere, Idle
  <2>6. CASE NameTaken(w) \/ Grant(w) \/ AddKey(w) \/ Serve(w) \/ Die(w)
    <3>1. Goto(w, Idle)
      BY <2>6 DEF NameTaken, Grant, AddKey, Serve, Die
    <3> QED BY <2>1, <3>1, GotoStep DEF Elsewhere, Idle
  <2> QED BY <1>3, <2>2, <2>3, <2>4, <2>5, <2>6 DEF Work
<1> QED BY <1>1, <1>2, <1>3 DEF Next

(* What VerifyAndLookUp() leaves.                                           *)
LEMMA Verified ==
  ASSUME TypeOK, Signing, NEW w \in Worker, NEW a \in Signable, NEW next, VerifyAndLookUp(w, a, next)
  PROVE  /\ signed' = signed \cup {a} /\ a \in Assertion /\ SignedOnce' /\ Fresh(a)
         /\ UNCHANGED <<bought, buyers, clock>>
         /\ early' = IF a.iat > clock THEN early \cup {a.jti} ELSE early
         /\ \A x \in Worker \ {w} : req'[x] = req[x]
         /\ \/ /\ jtis' = {x \in jtis : ~(x.expires < clock)}
               /\ req'[w] = Idle
            \/ /\ jtis' = jtis
               /\ \A x \in jtis : x.jti = a.jti => x.expires < clock
               /\ req'[w] = [op |-> "burn", jti |-> a.jti, since |-> clock, until |-> BurnUntil,
                             prune |-> {x \in jtis : x.expires < clock}, next |-> next]
<1>1. a \in Assertion
  BY SignableType
<1>2. signed' = signed \cup {a}
  BY DEF VerifyAndLookUp
<1>3. SignedOnce'
  <2>1. a \in signed \/ \A b \in signed : a.jti # b.jti
    BY DEF Signable
  <2> QED BY <1>2, <2>1 DEF SignedOnce, Signing
<1>4. UNCHANGED <<bought, buyers, clock>> /\ Fresh(a)
       /\ early' = IF a.iat > clock THEN early \cup {a.jti} ELSE early
  BY DEF VerifyAndLookUp
<1>5. \E r : Goto(w, r)
  BY DEF VerifyAndLookUp
<1>6. \A x \in Worker \ {w} : req'[x] = req[x]
  BY <1>5, GotoStep
<1>7. CASE \E x \in jtis \ {y \in jtis : y.expires < clock} : x.jti = a.jti
  BY <1>7, <1>1, <1>2, <1>3, <1>4, <1>6, GotoStep DEF VerifyAndLookUp
<1>8. CASE ~\E x \in jtis \ {y \in jtis : y.expires < clock} : x.jti = a.jti
  <2>1. \A x \in jtis : x.jti = a.jti => x.expires < clock
    BY <1>8
  <2> QED BY <1>8, <2>1, <1>1, <1>2, <1>3, <1>4, <1>6, GotoStep DEF VerifyAndLookUp
<1> QED BY <1>7, <1>8

LEMMA SigningInit == Init => Signing
BY DEF Init, Signing, SignedOnce, BoughtSigned, Presented, Idle

LEMMA SigningVerify ==
  ASSUME TypeOK, Signing, NEW w \in Worker, NEW a \in Signable, NEW next, VerifyAndLookUp(w, a, next),
         next.op = "gate_key" => next.jti = a.jti /\ next.key.user = a.by
  PROVE  Signing'
<1>1. /\ signed' = signed \cup {a} /\ SignedOnce' /\ UNCHANGED <<bought, buyers>>
      /\ \A x \in Worker \ {w} : req'[x] = req[x]
      /\ \/ req'[w] = Idle
         \/ req'[w] = [op |-> "burn", jti |-> a.jti, since |-> clock, until |-> BurnUntil,
                       prune |-> {x \in jtis : x.expires < clock}, next |-> next]
  BY Verified
<1>2. BoughtSigned'
  BY <1>1 DEF Signing, BoughtSigned, SignedBy
<1>3. Presented(req[w])'
  <2>1. SignedBy(a.jti, a.by)'
    BY <1>1 DEF SignedBy
  <2>2. CASE req'[w] = Idle
    BY <2>2 DEF Presented, Idle
  <2>3. CASE req'[w].op = "burn" /\ req'[w].jti = a.jti /\ req'[w].next = next
    BY <2>1, <2>3 DEF Presented, SignedBy
  <2> QED BY <1>1, <2>2, <2>3
<1>4. ASSUME NEW x \in Worker \ {w}
      PROVE  Presented(req[x])'
  <2>1. Presented(req[x]) /\ req'[x] = req[x] /\ signed \subseteq signed'
    BY <1>1 DEF Signing
  <2> QED BY <2>1 DEF Presented, SignedBy
<1> QED BY <1>1, <1>2, <1>3, <1>4 DEF Signing

LEMMA SigningNext == TypeOK /\ Signing /\ [Next]_vars => Signing'
<1> SUFFICES ASSUME TypeOK, Signing, [Next]_vars PROVE Signing'
  OBVIOUS
<1>1. CASE Elsewhere \/ UNCHANGED vars
  <2>1. /\ UNCHANGED <<signed, bought, buyers>>
        /\ \A w \in Worker : req'[w] = req[w] \/ req'[w].op \notin {"burn", "gate_key", "touch"}
    BY <1>1 DEF Elsewhere, vars, history
  <2>2. SignedOnce' /\ BoughtSigned'
    BY <2>1 DEF Signing, SignedOnce, BoughtSigned, SignedBy
  <2>3. ASSUME NEW w \in Worker PROVE Presented(req[w])'
    <3>1. Presented(req[w])
      BY DEF Signing
    <3> QED BY <2>1, <3>1 DEF Presented, SignedBy
  <2> QED BY <2>2, <2>3 DEF Signing
<1>2. ASSUME NEW w \in Worker, BeginAssert(w)
      PROVE  Signing'
  <2>1. PICK k \in keys, a \in Signable :
          /\ k.user = a.by
          /\ VerifyAndLookUp(w, a, [op |-> "gate_key", key |-> k, jti |-> a.jti])
    BY <1>2 DEF BeginAssert
  <2> QED BY <2>1, SigningVerify
<1>3. ASSUME NEW w \in Worker, Enrol(w)
      PROVE  Signing'
  <2>1. PICK a \in Signable : VerifyAndLookUp(w, a, [op |-> "add_key", user |-> a.by])
    BY <1>3 DEF Enrol
  <2> QED BY <2>1, SigningVerify
<1>4. ASSUME NEW w \in Worker, Burn(w) \/ GateKey(w)
      PROVE  Signing'
  <2>1. UNCHANGED <<signed, bought, buyers>> /\ Presented(req[w])
    BY <1>4 DEF Burn, GateKey, rowvars, history, Signing
  <2>2. SignedOnce' /\ BoughtSigned'
    BY <2>1 DEF Signing, SignedOnce, BoughtSigned, SignedBy
  <2>3. PICK r : Goto(w, r)
    BY <1>4 DEF Burn, GateKey
  <2>4. \A x \in Worker \ {w} : req'[x] = req[x]
    BY <2>3, GotoStep
  <2>5. Presented(req[w])'
    <3>1. CASE Burn(w)
      <4>1. /\ req[w].op = "burn" /\ (req'[w] = Idle \/ req'[w] = req[w].next)
            /\ req[w].next.op \in {"add_key", "gate_key"}
        BY <3>1, RequestFields, GotoStep DEF Burn, OfJti, OfKey
      <4> QED BY <4>1, <2>1 DEF Presented, SignedBy, Idle
    <3>2. CASE GateKey(w)
      <4>1. /\ req[w].op = "gate_key"
            /\ \/ Goto(w, Idle)
               \/ \E u \in KeyUser(req[w].key) :
                    Goto(w, [op |-> "touch", user |-> u, jti |-> req[w].jti])
        BY <3>2 DEF GateKey
      <4>2. \A u \in KeyUser(req[w].key) : u = req[w].key.user
        BY DEF KeyUser, Row
      <4>3. \/ req'[w] = Idle
            \/ req'[w] = [op |-> "touch", user |-> req[w].key.user, jti |-> req[w].jti]
        BY <4>1, <4>2, GotoStep
      <4> QED BY <4>1, <4>3, <2>1 DEF Presented, SignedBy, Idle
    <3> QED BY <1>4, <3>1, <3>2
  <2>6. ASSUME NEW x \in Worker \ {w} PROVE Presented(req[x])'
    BY <2>1, <2>4 DEF Signing, Presented, SignedBy
  <2> QED BY <2>2, <2>5, <2>6 DEF Signing
<1>5. ASSUME NEW w \in Worker, Touch(w)
      PROVE  Signing'
  <2>1. /\ signed' = signed /\ req'[w] = Idle /\ \A x \in Worker \ {w} : req'[x] = req[x]
        /\ SignedBy(req[w].jti, req[w].user)
    BY <1>5, GotoStep DEF Touch, Signing, Presented
  <2>2. \A x \in Worker : Presented(req[x])'
    BY <2>1 DEF Signing, Presented, SignedBy, Idle
  <2>3. /\ \A j \in Jti : bought'[j] = bought[j] \/ j = req[w].jti
        /\ \A j \in Jti : buyers'[j] = buyers[j]
                           \/ (j = req[w].jti /\ buyers'[j] = buyers[j] \cup {req[w].user})
    BY <1>5 DEF Touch, TypeOK
  <2>4. SignedOnce' /\ BoughtSigned'
    BY <2>1, <2>3 DEF Signing, SignedOnce, BoughtSigned, SignedBy
  <2> QED BY <2>2, <2>4 DEF Signing
<1> QED BY <1>1, <1>2, <1>3, <1>4, <1>5, StepsElsewhere

LEMMA SigningAlways == Spec => [](TypeOK /\ Signing)
<1>1. Init => TypeOK /\ Signing
  BY InitType, SigningInit
<1>2. (TypeOK /\ Signing) /\ [Next]_vars => (TypeOK /\ Signing)'
  BY NextType, SigningNext
<1> QED BY <1>1, <1>2, PTL DEF Spec

(* SessionOfSigner: assert_auth() finds the account through the key, never  *)
(* through an address that may have passed to somebody else.                *)
THEOREM SessionsAlwaysOfSigner == Spec => []SessionOfSigner
<1>1. TypeOK /\ Signing => SessionOfSigner
  <2> SUFFICES ASSUME TypeOK, Signing, NEW a \in signed, NEW u \in buyers[a.jti]
               PROVE  u = a.by
    BY DEF SessionOfSigner
  <2>1. a.jti \in Jti
    BY DEF TypeOK, Assertion
  <2>2. PICK b \in signed : b.jti = a.jti /\ b.by = u
    BY <2>1 DEF Signing, BoughtSigned, SignedBy
  <2> QED BY <2>2 DEF Signing, SignedOnce
<1> QED BY <1>1, SigningAlways, PTL

LEMMA BurningInit == Init => Burning
BY DEF Init, Burning, BurnTimes, OnceClaimed, Claimed, Passed, Idle

(* The numbers that are compared.                                           *)
LEMMA Numbers ==
  ASSUME TypeOK
  PROVE  /\ clock \in Nat /\ MaxAge \in Nat /\ MaxHold \in Nat
         /\ \A x \in jtis : x.expires \in Nat /\ x.jti \in Jti
         /\ \A a \in Assertion : a.iat \in Nat /\ a.jti \in Jti
         /\ signed \subseteq Assertion
         /\ \A w \in Worker : req[w].op = "burn" =>
              /\ req[w].since \in Nat /\ req[w].until \in Nat /\ req[w].jti \in Jti
              /\ req[w].prune \subseteq Burnt
<1>1. Time \subseteq Nat
  BY TimesAssumption DEF Time
<1>2. \A w \in Worker : req[w].op = "burn" =>
        /\ req[w].since \in Nat /\ req[w].until \in Nat /\ req[w].jti \in Jti
        /\ req[w].prune \subseteq Burnt
  BY <1>1, RequestFields DEF OfJti
<1>3. clock \in Nat /\ MaxAge \in Nat /\ MaxHold \in Nat
  BY TimesAssumption DEF TypeOK
<1> QED BY <1>1, <1>2, <1>3 DEF TypeOK, Burnt, Assertion

(* A claim on j stands while rows go only when they have expired.           *)
LEMMA ClaimStays ==
  ASSUME TypeOK, Burning, NEW j \in Jti, OnceClaimed(j), bought'[j] = bought[j],
         clock <= clock', clock' \in Nat,
         \A a \in signed' : a.jti = j => a \in signed,
         \A x \in jtis : x \in jtis' \/ x.expires < clock,
         \A w \in Worker : \/ req'[w] = req[w]
                           \/ req'[w].op \notin {"burn", "gate_key", "touch"}
                           \/ req'[w].jti # j
                           \/ req'[w].op \in {"gate_key", "touch"} /\ w \in Passed(j)
  PROVE  OnceClaimed(j)'
<1>1. /\ \A w \in Pending(j)' : w \in Pending(j) /\ req'[w] = req[w]
      /\ Passed(j)' \subseteq Passed(j)
  BY DEF Pending, Passed
<1>2. ASSUME Kept(j)
      PROVE  Kept(j)' \/ Stale(j)'
  <2>1. PICK x \in jtis :
          /\ x.jti = j
          /\ \A a \in signed : a.jti = j => a.iat + MaxAge <= x.expires
          /\ \A w \in Pending(j) : req[w].since + MaxHold <= x.expires
    BY <1>2 DEF Kept
  <2>2. CASE x \in jtis'
    BY <2>1, <2>2, <1>1 DEF Kept
  <2>3. CASE x.expires < clock
    <3>1. ASSUME NEW w \in Pending(j)
          PROVE  FALSE
      <4>1. req[w].op = "burn" /\ w \in Worker
        BY DEF Pending
      <4>2. clock <= req[w].since + MaxHold
        BY <4>1 DEF Burning, BurnTimes
      <4> QED BY <2>1, <2>3, <4>1, <4>2, Numbers
    <3>2. ASSUME NEW a \in signed', a.jti = j
          PROVE  a.iat + MaxAge < clock'
      <4>1. a \in signed /\ a.iat \in Nat
        BY <3>2, Numbers
      <4>2. a.iat + MaxAge <= x.expires
        BY <2>1, <3>2, <4>1
      <4> QED BY <2>3, <4>1, <4>2, Numbers
    <3> QED BY <1>1, <3>1, <3>2 DEF Stale
  <2> QED BY <2>2, <2>3
<1>3. ASSUME Stale(j)
      PROVE  Stale(j)'
  <2>1. ASSUME NEW a \in signed', a.jti = j
        PROVE  a.iat + MaxAge < clock'
    <3>1. a \in signed /\ a.iat \in Nat /\ a.iat + MaxAge < clock
      BY <1>3, <2>1, Numbers DEF Stale
    <3> QED BY <3>1, Numbers
  <2> QED BY <1>1, <1>3, <2>1 DEF Stale
<1>4. Claimed(j)' => Claimed(j)
  BY <1>1 DEF Claimed
<1>5. \A w \in Passed(j)' : bought'[j] = 0 /\ Passed(j)' = {w}
  <2>1. \A w \in Passed(j) : bought[j] = 0 /\ Passed(j) = {w}
    BY DEF OnceClaimed
  <2> QED BY <1>1, <2>1
<1> QED BY <1>2, <1>3, <1>4, <1>5 DEF OnceClaimed

(* Nobody else's times change when w takes a step that signs nothing.       *)
LEMMA TimesStay ==
  ASSUME TypeOK, Burning, NEW w \in Worker, BurnTimes(req[w]), req'[w] = req[w],
         signed' = signed, early' = early, clock' = clock
  PROVE  BurnTimes(req[w])'
BY DEF BurnTimes

LEMMA BurningElsewhere ==
  ASSUME TypeOK, Burning, \/ Elsewhere /\ (Tick \/ clock' = clock)
                          \/ UNCHANGED vars
  PROVE  Burning'
<1>1. /\ UNCHANGED <<signed, bought, jtis, early>>
      /\ \A w \in Worker : req'[w] = req[w] \/ req'[w].op \notin {"burn", "gate_key", "touch"}
  BY DEF Elsewhere, vars, rowvars, history
<1>2. /\ clock' \in Nat /\ clock <= clock'
      /\ \A w \in Worker : req[w].op = "burn" => clock' <= req[w].since + MaxHold
  <2>1. CASE Tick
    <3>1. clock' = clock + 1
      BY <2>1 DEF Tick
    <3>2. ASSUME NEW w \in Worker, req[w].op = "burn"
          PROVE  clock + 1 <= req[w].since + MaxHold
      BY <2>1, <3>2, Numbers DEF Tick
    <3> QED BY <3>1, <3>2, Numbers
  <2>2. CASE clock' = clock
    BY <2>2, Numbers DEF Burning, BurnTimes
  <2> QED BY <2>1, <2>2 DEF vars
<1>3. ASSUME NEW w \in Worker
      PROVE  BurnTimes(req[w])'
  <2>1. BurnTimes(req[w])
    BY DEF Burning
  <2>2. CASE req'[w].op # "burn"
    BY <2>2 DEF BurnTimes
  <2>3. CASE req'[w] = req[w] /\ req[w].op = "burn"
    <3>1. \A x \in req[w].prune : x.expires < clock /\ x.expires \in Nat
      BY <2>1, <2>3, Numbers, TimesAssumption DEF BurnTimes, Burnt, Time
    <3>2. req[w].since \in Nat /\ req[w].since <= clock
      BY <2>1, <2>3, Numbers DEF BurnTimes
    <3>3. req[w].since <= clock' /\ \A x \in req[w].prune : x.expires < clock'
      BY <1>2, <3>1, <3>2, Numbers
    <3> QED BY <1>1, <1>2, <2>1, <2>3, <3>3 DEF BurnTimes
  <2> QED BY <1>1, <2>2, <2>3
<1>4. ASSUME NEW j \in Jti \ early'
      PROVE  OnceClaimed(j)'
  <2>1. OnceClaimed(j)
    BY <1>1 DEF Burning
  <2> QED BY <1>1, <1>2, <2>1, ClaimStays
<1> QED BY <1>3, <1>4 DEF Burning

LEMMA BurningVerify ==
  ASSUME TypeOK, Signing, Burning, NEW w \in Worker, NEW a \in Signable, NEW next,
         VerifyAndLookUp(w, a, next), req[w].op \in {"idle", "enrol"}
  PROVE  Burning'
<1> DEFINE expired == {x \in jtis : x.expires < clock}
<1>1. /\ signed' = signed \cup {a} /\ a \in Assertion /\ SignedOnce' /\ Fresh(a)
      /\ UNCHANGED <<bought, clock>>
      /\ early' = IF a.iat > clock THEN early \cup {a.jti} ELSE early
      /\ \A x \in Worker \ {w} : req'[x] = req[x]
      /\ \/ jtis' = {x \in jtis : ~(x.expires < clock)} /\ req'[w] = Idle
         \/ /\ jtis' = jtis
            /\ \A x \in jtis : x.jti = a.jti => x.expires < clock
            /\ req'[w] = [op |-> "burn", jti |-> a.jti, since |-> clock, until |-> BurnUntil,
                          prune |-> expired, next |-> next]
  BY Verified
<1>2. a.iat \in Nat /\ a.jti \in Jti /\ clock <= a.iat + MaxAge /\ clock \in Nat
  BY <1>1, Numbers DEF Fresh
<1>3. \A b \in signed : b.jti = a.jti => b = a
  BY <1>1 DEF SignedOnce
<1>4. a.jti \in early' \/ a.iat <= clock
  BY <1>1, <1>2
<1>5. BurnTimes(req[w])'
  <2>1. CASE req'[w] = Idle
    BY <2>1 DEF BurnTimes, Idle
  <2>2. CASE /\ req'[w].jti = a.jti /\ req'[w].since = clock /\ req'[w].until = BurnUntil
             /\ req'[w].prune = expired
    <3>1. BurnUntil = clock + MaxAge /\ clock <= clock + MaxHold
      BY Numbers DEF BurnUntil
    <3>2. \A b \in signed' : b.jti = a.jti => b = a
      BY <1>1, <1>3
    <3> QED BY <1>1, <1>2, <1>4, <2>2, <3>1, <3>2 DEF BurnTimes
  <2> QED BY <1>1, <2>1, <2>2
<1>6. ASSUME NEW x \in Worker \ {w}
      PROVE  BurnTimes(req[x])'
  <2>1. BurnTimes(req[x]) /\ req'[x] = req[x] /\ early \subseteq early'
    BY <1>1 DEF Burning
  <2>2. ASSUME req[x].op = "burn", NEW b \in signed', b.jti = req[x].jti
        PROVE  b \in signed
    <3>1. PICK c \in signed : c.jti = req[x].jti
      BY <2>2 DEF Signing, Presented
    <3> QED BY <1>1, <1>3, <2>2, <3>1
  <2> QED BY <1>1, <2>1, <2>2 DEF BurnTimes
<1>7. ASSUME NEW j \in Jti \ early', j # a.jti
      PROVE  OnceClaimed(j)'
  <2>1. OnceClaimed(j)
    BY <1>1, <1>7 DEF Burning
  <2>2. \A b \in signed' : b.jti = j => b \in signed
    BY <1>1, <1>7
  <2>3. req'[w].op \notin {"burn", "gate_key", "touch"} \/ req'[w].jti # j
    BY <1>1, <1>7 DEF Idle
  <2>4. clock' \in Nat /\ clock <= clock' /\ \A x \in jtis : x \in jtis' \/ x.expires < clock
    BY <1>1, <1>2
  <2> QED BY <1>1, <2>1, <2>2, <2>3, <2>4, ClaimStays
<1>8. ASSUME a.jti \notin early'
      PROVE  OnceClaimed(a.jti)'
  <2> DEFINE j == a.jti
  <2>1. OnceClaimed(j)
    BY <1>1, <1>2, <1>8 DEF Burning
  <2>2. CASE Claimed(j)
    <3>1. \E b \in signed : b.jti = j
      BY <1>2, <2>2 DEF Claimed, Passed, Signing, BoughtSigned, Presented, SignedBy
    <3>2. a \in signed
      BY <1>3, <3>1
    <3>3. ~Stale(j)
      BY <1>2, <3>2, Numbers DEF Stale
    <3>4. PICK x \in jtis : x.jti = j /\ a.iat + MaxAge <= x.expires
      BY <2>1, <2>2, <3>2, <3>3 DEF OnceClaimed, Kept
    <3>5. ~(x.expires < clock)
      BY <1>2, <3>4, Numbers
    <3>6. jtis' = {y \in jtis : ~(y.expires < clock)} /\ req'[w] = Idle
      BY <1>1, <3>4, <3>5
    <3>7. /\ clock' \in Nat /\ clock <= clock' /\ \A y \in jtis : y \in jtis' \/ y.expires < clock
          /\ signed' = signed /\ req'[w].op \notin {"burn", "gate_key", "touch"}
      BY <1>1, <1>2, <3>2, <3>6 DEF Idle
    <3> QED BY <1>1, <1>2, <2>1, <3>7, ClaimStays
  <2>3. CASE ~Claimed(j)
    <3>1. Passed(j)' = {}
      BY <1>1, <2>3 DEF Claimed, Passed, Idle
    <3>2. bought'[j] = 0
      BY <1>1, <2>3 DEF Claimed
    <3> QED BY <3>1, <3>2 DEF OnceClaimed, Claimed
  <2> QED BY <2>2, <2>3
<1> QED BY <1>5, <1>6, <1>7, <1>8 DEF Burning

(* No request is held up for more than half of the maximum age.             *)
HeldBriefly == 2 * MaxHold <= MaxAge

LEMMA BurningBurn ==
  ASSUME HeldBriefly, TypeOK, Signing, Burning, NEW w \in Worker, Burn(w)
  PROVE  Burning'
<1> DEFINE r == req[w]
<1>7. r \in OfJti /\ r.op = "burn"
  BY RequestFields DEF Burn
<1>8. PICK j \in Jti : j = r.jti
  BY <1>7 DEF OfJti
<1> DEFINE row == [jti |-> j, expires |-> r.until]
<1>1. /\ UNCHANGED <<clock, signed, bought, early>> /\ r.op = "burn" /\ r \in OfJti
      /\ \A x \in Worker \ {w} : req'[x] = req[x]
      /\ \/ /\ req'[w] = Idle /\ jtis' = jtis
         \/ /\ ~\E x \in jtis \ r.prune : x.jti = j
            /\ jtis' = (jtis \ r.prune) \cup {row}
            /\ req'[w] = r.next
  BY <1>7, <1>8, GotoStep DEF Burn, history
<1>2. /\ BurnTimes(r) /\ Presented(r) /\ r.next.op \in {"add_key", "gate_key"}
      /\ r.since \in Nat /\ j \in Jti /\ clock \in Nat
  BY <1>1, Numbers DEF Burning, Signing, OfJti, OfKey
<1>3. \A x \in r.prune : x.expires < clock
  BY <1>1, <1>2 DEF BurnTimes
<1>4. ASSUME NEW x \in Worker
      PROVE  BurnTimes(req[x])'
  <2>1. CASE x = w
    BY <1>1, <1>2, <2>1 DEF BurnTimes, Idle
  <2>2. CASE x # w
    BY <1>1, <2>2, TimesStay DEF Burning
  <2> QED BY <2>1, <2>2
<1>5. ASSUME NEW i \in Jti \ early, i # j \/ req'[w] = Idle
      PROVE  OnceClaimed(i)'
  <2>1. OnceClaimed(i)
    BY DEF Burning
  <2>2. req'[w].op \notin {"burn", "gate_key", "touch"} \/ req'[w].jti # i
    BY <1>1, <1>2, <1>5, <1>8 DEF Presented, Idle
  <2>3. clock' \in Nat /\ clock <= clock' /\ \A x \in jtis : x \in jtis' \/ x.expires < clock
    BY <1>1, <1>2, <1>3
  <2> QED BY <1>1, <2>1, <2>2, <2>3, ClaimStays
<1>6. ASSUME j \notin early, req'[w] # Idle
      PROVE  OnceClaimed(j)'
  <2>1. OnceClaimed(j)
    BY <1>2, <1>6 DEF Burning
  <2>2. /\ ~\E x \in jtis \ r.prune : x.jti = j
        /\ jtis' = (jtis \ r.prune) \cup {row}
    BY <1>1, <1>6
  <2>3. w \in Pending(j)
    BY <1>1, <1>8 DEF Pending
  <2>4. ~Claimed(j)
    <3>1. ASSUME Kept(j) PROVE FALSE
      <4>1. PICK x \in jtis : x.jti = j /\ r.since + MaxHold <= x.expires
        BY <2>3, <3>1 DEF Kept
      <4>2. ~(x.expires < clock)
        BY <1>1, <1>2, <4>1, Numbers DEF BurnTimes
      <4> QED BY <1>3, <2>2, <4>1, <4>2
    <3>2. ~Stale(j)
      BY <2>3 DEF Stale
    <3> QED BY <2>1, <3>1, <3>2 DEF OnceClaimed
  <2>5. bought'[j] = 0 /\ Passed(j)' \subseteq {w}
    BY <1>1, <2>4 DEF Claimed, Passed
  <2>6. Kept(j)'
    <3>1. row \in jtis' /\ row.jti = j /\ row.expires = r.since + MaxAge
      BY <1>1, <1>2, <2>2 DEF BurnTimes
    <3>2. ASSUME NEW a \in signed, a.jti = j
          PROVE  a.iat + MaxAge <= r.since + MaxAge
      <4>1. a.iat \in Nat /\ a.iat <= r.since
        BY <1>1, <1>2, <1>6, <1>8, <3>2, Numbers DEF BurnTimes
      <4> QED BY <1>2, <4>1, Numbers
    <3>3. ASSUME NEW v \in Pending(j)'
          PROVE  req'[v].since + MaxHold <= r.since + MaxAge
      <4>1. v \in Worker /\ req'[v].op = "burn"
        BY DEF Pending
      <4>2. v # w
        BY <1>1, <1>2, <1>6, <4>1
      <4>3. req[v].since \in Nat /\ req[v].since <= clock /\ req'[v] = req[v]
        BY <1>1, <4>1, <4>2, Numbers DEF Burning, BurnTimes
      <4>4. clock <= r.since + MaxHold
        BY <1>1, <1>2 DEF BurnTimes
      <4> QED BY <1>2, <4>3, <4>4, Numbers DEF HeldBriefly
    <3> HIDE DEF row
    <3> QED BY <1>1, <3>1, <3>2, <3>3 DEF Kept
  <2> QED BY <2>5, <2>6 DEF OnceClaimed
<1> QED BY <1>1, <1>4, <1>5, <1>6 DEF Burning

LEMMA BurningSell ==
  ASSUME TypeOK, Burning, NEW w \in Worker, GateKey(w) \/ Touch(w)
  PROVE  Burning'
<1>1. PICK j \in Jti : j = req[w].jti /\ req[w].op \in {"gate_key", "touch"}
  BY RequestFields DEF GateKey, Touch, OfKey
<1>2. UNCHANGED <<clock, signed, jtis, early>>
  BY DEF GateKey, Touch, rowvars, history
<1>3. /\ \A x \in Worker \ {w} : req'[x] = req[x]
      /\ req'[w].op # "burn"
      /\ req'[w].op \in {"gate_key", "touch"} => req'[w].jti = j
  <2>1. CASE Touch(w)
    BY <2>1, GotoStep DEF Touch, Idle
  <2>2. CASE GateKey(w)
    <3>1. \/ Goto(w, Idle)
          \/ \E u \in KeyUser(req[w].key) : Goto(w, [op |-> "touch", user |-> u, jti |-> j])
      BY <1>1, <2>2 DEF GateKey
    <3>2. ASSUME NEW u, Goto(w, [op |-> "touch", user |-> u, jti |-> j])
          PROVE  /\ \A x \in Worker \ {w} : req'[x] = req[x]
                 /\ req'[w].op = "touch" /\ req'[w].jti = j
      BY <3>2, GotoStep
    <3>3. Goto(w, Idle) => req'[w].op = "idle" /\ \A x \in Worker \ {w} : req'[x] = req[x]
      BY GotoStep DEF Idle
    <3> QED BY <3>1, <3>2, <3>3
  <2> QED BY <2>1, <2>2
<1>4. ASSUME NEW x \in Worker
      PROVE  BurnTimes(req[x])'
  <2>1. CASE x = w
    BY <1>3, <2>1 DEF BurnTimes
  <2>2. CASE x # w
    BY <1>2, <1>3, <2>2, TimesStay DEF Burning
  <2> QED BY <2>1, <2>2
<1>5. w \in Passed(j)
  BY <1>1 DEF Passed
<1>6. ASSUME NEW i \in Jti \ early, bought'[i] = bought[i]
      PROVE  OnceClaimed(i)'
  <2>1. OnceClaimed(i)
    BY DEF Burning
  <2>2. clock' \in Nat /\ clock <= clock'
    BY <1>2, Numbers
  <2>3. \/ req'[w].op \notin {"burn", "gate_key", "touch"}
        \/ req'[w].jti # i
        \/ req'[w].op \in {"gate_key", "touch"} /\ w \in Passed(i)
    BY <1>3, <1>5
  <2> QED BY <1>2, <1>3, <1>6, <2>1, <2>2, <2>3, ClaimStays
<1>7. ASSUME j \notin early, bought'[j] # bought[j]
      PROVE  OnceClaimed(j)'
  <2>1. OnceClaimed(j)
    BY <1>7 DEF Burning
  <2>2. bought[j] = 0 /\ Passed(j) = {w} /\ Claimed(j)
    BY <1>5, <2>1 DEF OnceClaimed, Claimed
  <2>3. req'[w] = Idle /\ bought'[j] = bought[j] + 1
    BY <1>1, <1>7, GotoStep DEF GateKey, Touch, TypeOK, history
  <2>4. bought'[j] = 1
    BY <2>2, <2>3
  <2>5. Passed(j)' = {}
    BY <1>3, <2>2, <2>3 DEF Passed, Idle
  <2>6. \A v \in Pending(j)' : v \in Pending(j) /\ req'[v] = req[v]
    BY <1>3 DEF Pending
  <2>7. Kept(j)' \/ Stale(j)'
    <3>1. CASE Kept(j)
      BY <1>2, <2>6, <3>1 DEF Kept
    <3>2. CASE Stale(j)
      BY <1>2, <2>6, <3>2 DEF Stale
    <3> QED BY <2>1, <2>2, <3>1, <3>2 DEF OnceClaimed
  <2> QED BY <2>4, <2>5, <2>7 DEF OnceClaimed
<1>8. \A i \in Jti : i = j \/ bought'[i] = bought[i]
  BY <1>1 DEF GateKey, Touch, TypeOK, history
<1> QED BY <1>2, <1>4, <1>6, <1>7, <1>8 DEF Burning

LEMMA BurningNext ==
  ASSUME HeldBriefly, TypeOK, Signing, Burning, [Next]_vars
  PROVE  Burning'
<1>1. CASE (Elsewhere /\ (Tick \/ clock' = clock)) \/ UNCHANGED vars
  BY <1>1, BurningElsewhere
<1>2. ASSUME NEW w \in Worker, BeginAssert(w) \/ Enrol(w)
      PROVE  Burning'
  <2>1. PICK a \in Signable : \E next : VerifyAndLookUp(w, a, next)
    BY <1>2 DEF BeginAssert, Enrol
  <2>2. req[w].op \in {"idle", "enrol"}
    BY <1>2 DEF BeginAssert, Enrol, Ask, Idle
  <2> QED BY <2>1, <2>2, BurningVerify
<1>3. ASSUME NEW w \in Worker, Burn(w) PROVE Burning'
  BY <1>3, BurningBurn
<1>4. ASSUME NEW w \in Worker, GateKey(w) \/ Touch(w) PROVE Burning'
  BY <1>4, BurningSell
<1> QED BY <1>1, <1>2, <1>3, <1>4, StepsElsewhere

(* AssertionOnce: burn_jti() forgets a jti after MaxAge, and reads, prunes  *)
(* and inserts apart, and still an assertion buys one session, if no        *)
(* request is held up in between for more than half of MaxAge.              *)
THEOREM AssertionAlwaysOnce ==
  ASSUME HeldBriefly
  PROVE  Spec => []AssertionOnce
<1>1. Init => TypeOK /\ Signing /\ Burning
  BY InitType, SigningInit, BurningInit
<1>2. (TypeOK /\ Signing /\ Burning) /\ [Next]_vars => (TypeOK /\ Signing /\ Burning)'
  BY NextType, SigningNext, BurningNext
<1>3. Burning => AssertionOnce
  BY DEF Burning, OnceClaimed, AssertionOnce
<1> QED BY <1>1, <1>2, <1>3, PTL DEF Spec

-----------------------------------------------------------------------------
(* Who is locked out.                                                       *)

(* A request that must not be served will not pass.                         *)
Stopped(r) ==
  /\ r.op = "gate" /\ r.late => Row(r.user) # {} /\ ~Allowed(r.user)
  /\ r.op = "verify_key" /\ r.late => r.key \notin apikeys

Gated == \A w \in Worker : Stopped(req[w])

LEMMA GatedInit == Init => Gated /\ LockedOutStaysOut
BY DEF Init, Gated, Stopped, LockedOutStaysOut, Idle

(* Steps that pass through no gate and let nobody in again.                 *)
LEMMA GatedStays ==
  ASSUME TypeOK, Gated, LockedOutStaysOut, servedLate' = servedLate, apikeys' \subseteq apikeys,
         \A w \in Worker : req'[w] = req[w] \/ req'[w].op \notin {"gate", "verify_key"},
         \A u \in Id : Row(u) # {} /\ ~Allowed(u) => (Row(u) # {})' /\ ~Allowed(u)'
  PROVE  Gated' /\ LockedOutStaysOut'
<1>1. LockedOutStaysOut'
  BY DEF LockedOutStaysOut
<1>2. ASSUME NEW w \in Worker
      PROVE  Stopped(req[w])'
  <2>1. CASE req'[w].op \notin {"gate", "verify_key"}
    BY <2>1 DEF Stopped
  <2>2. CASE req'[w] = req[w] /\ req[w].op = "gate"
    <3>1. PICK u \in Id : u = req[w].user
      BY <2>2, RequestFields
    <3>2. req[w].late => Row(u) # {} /\ ~Allowed(u)
      BY <2>2, <3>1 DEF Gated, Stopped
    <3>3. req'[w].late => (Row(u) # {})' /\ ~Allowed(u)'
      BY <2>2, <3>2
    <3> QED BY <2>2, <3>1, <3>3 DEF Stopped
  <2>3. CASE req'[w] = req[w] /\ req[w].op = "verify_key"
    BY <2>3 DEF Gated, Stopped
  <2>4. CASE req'[w] = req[w] /\ req[w].op \notin {"gate", "verify_key"}
    BY <2>4 DEF Stopped
  <2> QED BY <2>1, <2>2, <2>3, <2>4
<1> QED BY <1>1, <1>2 DEF Gated

LEMMA LockStays ==
  ASSUME users \subseteq users', flags \subseteq flags', NEW u \in Id, Row(u) # {}, ~Allowed(u)
  PROVE  (Row(u) # {})' /\ ~Allowed(u)'
BY DEF Row, Allowed, Blocked

LEMMA GatedAdminister ==
  ASSUME TypeOK, Rows, Gated, LockedOutStaysOut, Administer \/ Tick \/ \E u \in Id : Login(u)
  PROVE  Gated' /\ LockedOutStaysOut'
<1>1. LockedOutStaysOut'
  BY DEF LockedOutStaysOut, Administer, Tick, Login, CreateInvite, UpdateUser, DeleteUser, Block,
         ToggleApiKey, history
<1>2. CASE Tick \/ (\E t \in Token : CreateInvite(t)) \/ (\E u \in Id : Block(u))
             \/ \E u \in Id : Login(u)
  <2>1. UNCHANGED <<users, apikeys, req, servedLate>> /\ flags \subseteq flags'
    BY <1>2 DEF Tick, CreateInvite, Block, Login, rowvars, history
  <2>2. \A u \in Id : Row(u) # {} /\ ~Allowed(u) => (Row(u) # {})' /\ ~Allowed(u)'
    BY <2>1, LockStays
  <2> QED BY <2>1, <2>2, GatedStays
<1>3. ASSUME NEW u \in Id, NEW e \in Email, NEW active \in BOOLEAN, UpdateUser(u, e, active)
      PROVE  Gated'
  <2>1. PICK r \in Row(u) :
          users' = (users \ {r}) \cup {[r EXCEPT !.email = e, !.active = active]}
    BY <1>3 DEF UpdateUser
  <2> DEFINE q == [r EXCEPT !.email = e, !.active = active]
             late == Blocked(u)
  <2>2. r \in users /\ r \in User /\ r.id = u /\ \A x \in users : x.id = u => x = r
    BY DEF TypeOK, Row, Rows, IdsKnown
  <2>3. q.id = u /\ q.active = active
    BY <2>2 DEF User
  <2>4. /\ UNCHANGED <<flags, apikeys>> /\ users' = (users \ {r}) \cup {q}
        /\ req' = IF active THEN Pardon(u, late) ELSE req
    BY <1>3, <2>1 DEF UpdateUser
  <2>5. late \in BOOLEAN /\ (late <=> Blocked(u)) /\ (Blocked(u) <=> Blocked(u)')
    BY <2>4 DEF Blocked
  <2> HIDE DEF q, late
  <2>6. (Row(u) # {})' /\ (Blocked(u) => ~Allowed(u)') /\ (~active => ~Allowed(u)')
    BY <2>3, <2>4, <2>5 DEF Row, Allowed
  <2>7. \A v \in Id \ {u} : Row(v)' = Row(v) /\ (Allowed(v)' <=> Allowed(v))
    <3> SUFFICES ASSUME NEW v \in Id \ {u} PROVE Row(v)' = Row(v) /\ (Allowed(v)' <=> Allowed(v))
      OBVIOUS
    <3>1. Row(v)' = Row(v)
      BY <2>2, <2>3, <2>4 DEF Row
    <3> QED BY <2>4, <3>1 DEF Allowed, Blocked
  <2>8. ASSUME NEW w \in Worker
        PROVE  Stopped(req[w])'
    <3>1. Stopped(req[w])
      BY DEF Gated
    <3>2. CASE req[w].op # "gate"
      <4>1. req'[w] = req[w]
        BY <2>4, <2>5, <3>2, PardonFields
      <4> QED BY <2>4, <3>1, <3>2, <4>1 DEF Stopped
    <3>3. CASE req[w].op = "gate"
      <4>1. PICK v \in Id : v = req[w].user
        BY <3>3, RequestFields
      <4>2. req'[w].op = "gate" /\ req'[w].user = v
        BY <2>4, <2>5, <3>3, <4>1, PardonFields
      <4>3. CASE v # u
        <5>1. req'[w] = req[w]
          BY <2>4, <2>5, <3>3, <4>1, <4>3, PardonFields
        <5>2. req[w].late => Row(v) # {} /\ ~Allowed(v)
          BY <3>1, <3>3, <4>1 DEF Stopped
        <5>3. req'[w].late => (Row(v) # {})' /\ ~Allowed(v)'
          BY <2>7, <4>3, <5>1, <5>2
        <5> QED BY <4>2, <5>3 DEF Stopped
      <4>4. CASE v = u
        <5>1. CASE active
          <6>3. req[w].op = "gate" /\ req[w].user = u
            BY <3>3, <4>1, <4>4
          <6>4. Pardon(u, late)[w].late = late
            BY <2>5, <6>3, Pardoned
          <6>1. req'[w].late = late
            BY <2>4, <5>1, <6>4
          <6>2. req'[w].late => ~Allowed(u)'
            BY <2>5, <2>6, <6>1
          <6> QED BY <2>6, <4>2, <4>4, <6>2 DEF Stopped
        <5>2. CASE ~active
          BY <2>6, <4>2, <4>4, <5>2 DEF Stopped
        <5> QED BY <5>1, <5>2
      <4> QED BY <4>3, <4>4
    <3> QED BY <3>2, <3>3
  <2> QED BY <2>8 DEF Gated
<1>4. ASSUME NEW u \in Id, DeleteUser(u)
      PROVE  Gated'
  <2>1. /\ users' = users \ Row(u) /\ flags' = {f \in flags : f.user # u} /\ apikeys' = apikeys
    BY <1>4 DEF DeleteUser
  <2>2. req' = Pardon(u, FALSE)
    BY <1>4, Zenon DEF DeleteUser
  <2>3. ASSUME NEW v \in Id \ {u}
        PROVE  Row(v)' = Row(v) /\ (Allowed(v)' <=> Allowed(v))
    <3>1. Row(v)' = Row(v)
      BY <2>1 DEF Row
    <3>2. Blocked(v)' <=> Blocked(v)
      BY <2>1 DEF Blocked
    <3> QED BY <3>1, <3>2 DEF Allowed
  <2>4. ASSUME NEW w \in Worker, NEW late \in BOOLEAN, ~late, req' = Pardon(u, late)
        PROVE  Stopped(req[w])'
    <3>1. Stopped(req[w])
      BY DEF Gated
    <3>2. CASE req[w].op # "gate"
      <4>1. req'[w] = req[w]
        BY <2>4, <3>2, PardonFields
      <4> QED BY <2>1, <3>1, <3>2, <4>1 DEF Stopped
    <3>3. CASE req[w].op = "gate"
      <4>1. PICK v \in Id : v = req[w].user
        BY <3>3, RequestFields
      <4>2. req'[w].op = "gate" /\ req'[w].user = v
        BY <2>4, <3>3, <4>1, PardonFields
      <4>3. CASE v # u
        <5>1. req'[w] = req[w]
          BY <2>4, <3>3, <4>1, <4>3, PardonFields
        <5>2. req[w].late => Row(v) # {} /\ ~Allowed(v)
          BY <3>1, <3>3, <4>1 DEF Stopped
        <5>3. req'[w].late => (Row(v) # {})' /\ ~Allowed(v)'
          BY <2>3, <4>3, <5>1, <5>2
        <5> QED BY <4>2, <5>3 DEF Stopped
      <4>4. CASE v = u
        <5>1. ~req'[w].late
          <6>1. req[w].op = "gate" /\ req[w].user = u
            BY <3>3, <4>1, <4>4
          <6>2. Pardon(u, late)[w].late = late
            BY <6>1, Pardoned
          <6> QED BY <2>4, <6>2
        <5> QED BY <4>2, <5>1 DEF Stopped
      <4> QED BY <4>3, <4>4
    <3> QED BY <3>2, <3>3
  <2>5. \E late \in BOOLEAN : ~late /\ req' = Pardon(u, late)
    <3>1. FALSE \in BOOLEAN
      OBVIOUS
    <3> QED BY <2>2, <3>1, Zenon
  <2> QED BY <2>4, <2>5 DEF Gated
<1>5. ASSUME NEW k \in ApiKey, ToggleApiKey(k)
      PROVE  Gated'
  <2>1. UNCHANGED <<users, flags>> /\ apikeys' \subseteq apikeys \cup {k}
    BY <1>5 DEF ToggleApiKey
  <2>2. ASSUME NEW w \in Worker
        PROVE  Stopped(req[w])'
    <3>1. Stopped(req[w])
      BY DEF Gated
    <3>2. req[w].op = "verify_key" =>
            req[w] \in [op : {"verify_key"}, key : ApiKey, late : BOOLEAN]
      BY DEF TypeOK, Request, Idle, OfUser, OfKey, OfJti
    <3>3. CASE req[w].op # "verify_key"
      <4>1. req'[w] = req[w]
        BY <1>5, <3>3 DEF ToggleApiKey
      <4> QED BY <2>1, <3>1, <3>3, <4>1 DEF Stopped, Row, Allowed, Blocked
    <3>4. CASE req[w].op = "verify_key" /\ k \notin apikeys /\ req[w].key = k
      <4>1. req'[w] = [req[w] EXCEPT !.late = FALSE]
        BY <1>5, <3>4 DEF ToggleApiKey
      <4>2. req'[w].op = "verify_key" /\ req'[w].late = FALSE
        BY <3>2, <3>4, <4>1
      <4> QED BY <4>2 DEF Stopped
    <3>5. CASE req[w].op = "verify_key" /\ ~(k \notin apikeys /\ req[w].key = k)
      <4>1. req'[w] = req[w]
        BY <1>5, <3>5 DEF ToggleApiKey
      <4>2. req[w].key \notin apikeys => req[w].key \notin apikeys'
        BY <1>5, <3>5 DEF ToggleApiKey
      <4> QED BY <3>1, <3>5, <4>1, <4>2 DEF Stopped
    <3> QED BY <3>3, <3>4, <3>5
  <2> QED BY <2>2 DEF Gated
<1> QED BY <1>1, <1>2, <1>3, <1>4, <1>5 DEF Administer

LEMMA GatedBegin ==
  ASSUME TypeOK, Gated, LockedOutStaysOut, NEW w \in Worker, Begin(w)
  PROVE  Gated' /\ LockedOutStaysOut'
<1>1. UNCHANGED <<users, flags, apikeys, servedLate>>
  BY DEF Begin, BeginAccount, BeginEnrol, BeginRequest, BeginAssert, BeginKeyRequest,
         VerifyAndLookUp, rowvars, history
<1>2. ASSUME NEW r, Goto(w, r), r.op \notin {"gate", "verify_key"}
      PROVE  Gated' /\ LockedOutStaysOut'
  <2>1. \A x \in Worker : req'[x] = req[x] \/ req'[x].op \notin {"gate", "verify_key"}
    BY <1>2, GotoStep
  <2>2. \A u \in Id : Row(u) # {} /\ ~Allowed(u) => (Row(u) # {})' /\ ~Allowed(u)'
    BY <1>1, LockStays
  <2> QED BY <1>1, <2>1, <2>2, GatedStays
<1>3. ASSUME NEW r, Goto(w, r), Stopped(r)
      PROVE  Gated' /\ LockedOutStaysOut'
  <2>1. req'[w] = r /\ \A x \in Worker \ {w} : req'[x] = req[x]
    BY <1>3, GotoStep
  <2>2. ASSUME NEW x \in Worker
        PROVE  Stopped(req[x])'
    <3>1. PICK q : q = req'[x] /\ Stopped(q)
      BY <1>3, <2>1 DEF Gated
    <3> QED BY <1>1, <3>1 DEF Stopped, Row, Allowed, Blocked
  <2> QED BY <1>1, <2>2 DEF Gated, LockedOutStaysOut
<1>4. ASSUME NEW t \in Token \cup {NoToken}, NEW n \in Name, NEW e \in Email,
             BeginAccount(w, t, n, e)
      PROVE  Gated' /\ LockedOutStaysOut'
  BY <1>2, <1>4 DEF BeginAccount
<1>5. ASSUME NEW u \in Id, BeginEnrol(w, u)
      PROVE  Gated' /\ LockedOutStaysOut'
  BY <1>2, <1>5 DEF BeginEnrol
<1>6. ASSUME BeginAssert(w)
      PROVE  Gated' /\ LockedOutStaysOut'
  <2>1. \E a, next : VerifyAndLookUp(w, a, next)
    BY <1>6 DEF BeginAssert
  <2>2. \E r : Goto(w, r) /\ r.op \in {"idle", "burn"}
    BY <2>1 DEF VerifyAndLookUp, Idle
  <2> QED BY <1>2, <2>2
<1>7. ASSUME NEW u \in Id, BeginRequest(w, u)
      PROVE  Gated' /\ LockedOutStaysOut'
  <2> DEFINE late == Row(u) # {} /\ ~Allowed(u)
  <2>1. Goto(w, [op |-> "gate", user |-> u, late |-> late])
    BY <1>7 DEF BeginRequest
  <2>2. Stopped([op |-> "gate", user |-> u, late |-> late])
    BY DEF Stopped
  <2> QED BY <1>3, <2>1, <2>2
<1>8. ASSUME NEW k \in ApiKey, BeginKeyRequest(w, k)
      PROVE  Gated' /\ LockedOutStaysOut'
  <2>1. Stopped([op |-> "verify_key", key |-> k, late |-> k \notin apikeys])
    BY DEF Stopped
  <2> QED BY <1>3, <1>8, <2>1 DEF BeginKeyRequest
<1> QED BY <1>4, <1>5, <1>6, <1>7, <1>8 DEF Begin

LEMMA GatedWork ==
  ASSUME TypeOK, Rows, Gated, LockedOutStaysOut, NEW w \in Worker, Work(w)
  PROVE  Gated' /\ LockedOutStaysOut'
<1> DEFINE r == req[w]
<1>1. ASSUME NEW q, Goto(w, q), q.op \notin {"gate", "verify_key"}
      PROVE  \A x \in Worker : req'[x] = req[x] \/ req'[x].op \notin {"gate", "verify_key"}
  BY <1>1, GotoStep
<1>2. \A x \in Worker : req'[x] = req[x] \/ req'[x].op \notin {"gate", "verify_key"}
  <2>1. CASE \/ NameTaken(w) \/ Grant(w) \/ AddKey(w) \/ Touch(w) \/ Serve(w) \/ Die(w)
    <3>1. Goto(w, Idle)
      BY <2>1 DEF NameTaken, Grant, AddKey, Touch, Serve, Die
    <3> QED BY <1>1, <3>1 DEF Idle
  <2>2. CASE CreateAccount(w)
    <3>1. Goto(w, Idle) \/ Goto(w, [op |-> "use", token |-> r.token, user |-> nextUser])
      BY <2>2 DEF CreateAccount
    <3> QED BY <1>1, <3>1 DEF Idle
  <2>3. CASE ReadInvite(w) \/ MarkInvite(w)
    <3>1. r.op = "use" => r \in [op : {"use", "mark"}, token : Token, user : Id]
      BY DEF TypeOK, Request, Idle, OfUser, OfKey, OfJti
    <3>2. r.op = "use" => [r EXCEPT !.op = "mark"].op = "mark"
      BY <3>1
    <3>3. AfterUse(r.user).op \in {"grant", "disable"}
      BY DEF AfterUse
    <3>4. \/ Goto(w, [r EXCEPT !.op = "mark"]) /\ r.op = "use"
          \/ Goto(w, AfterUse(r.user))
      BY <2>3 DEF ReadInvite, MarkInvite
    <3> QED BY <1>1, <3>2, <3>3, <3>4
  <2>4. CASE Disable(w) \/ FlagNewbie(w)
    <3>1. \/ Goto(w, Idle) \/ Goto(w, [op |-> "flag", user |-> r.user])
          \/ Goto(w, [op |-> "grant", user |-> r.user])
      BY <2>4 DEF Disable, FlagNewbie
    <3> QED BY <1>1, <3>1 DEF Idle
  <2>5. CASE Enrol(w)
    <3>1. \E a, next : VerifyAndLookUp(w, a, next)
      BY <2>5 DEF Enrol
    <3>2. \E q : Goto(w, q) /\ q.op \in {"idle", "burn"}
      BY <3>1 DEF VerifyAndLookUp, Idle
    <3> QED BY <1>1, <3>2
  <2>6. CASE Burn(w)
    <3>1. r.next.op \in {"add_key", "gate_key"}
      BY <2>6, RequestFields DEF Burn, OfJti, OfKey
    <3>2. Goto(w, Idle) \/ Goto(w, r.next)
      BY <2>6 DEF Burn
    <3> QED BY <1>1, <3>1, <3>2 DEF Idle
  <2>7. CASE GateKey(w)
    <3>1. \/ Goto(w, Idle)
          \/ \E u \in KeyUser(r.key) : Goto(w, [op |-> "touch", user |-> u, jti |-> r.jti])
      BY <2>7 DEF GateKey
    <3>2. ASSUME NEW u, Goto(w, [op |-> "touch", user |-> u, jti |-> r.jti])
          PROVE  \A x \in Worker : req'[x] = req[x] \/ req'[x].op \notin {"gate", "verify_key"}
      BY <1>1, <3>2
    <3>3. ASSUME Goto(w, Idle)
          PROVE  \A x \in Worker : req'[x] = req[x] \/ req'[x].op \notin {"gate", "verify_key"}
      BY <1>1, <3>3 DEF Idle
    <3> QED BY <3>1, <3>2, <3>3
  <2> QED BY <2>1, <2>2, <2>3, <2>4, <2>5, <2>6, <2>7 DEF Work
<1>3. apikeys' = apikeys /\ (users \subseteq users' \/ Disable(w)) /\ flags \subseteq flags'
  BY DEF Work, CreateAccount, NameTaken, ReadInvite, MarkInvite, Disable, FlagNewbie, Grant, Enrol,
         Burn, AddKey, GateKey, Touch, Serve, Die, VerifyAndLookUp, rowvars
<1>4. servedLate' = servedLate
  <2>1. CASE Serve(w)
    <3>1. r.op = "gate" /\ r.late => ~Passes(r)
      BY DEF Gated, Stopped, Passes
    <3>2. r.op = "verify_key" /\ r.late => ~Passes(r)
      BY DEF Gated, Stopped, Passes
    <3>3. ~(Passes(r) /\ r.late)
      BY <2>1, <3>1, <3>2 DEF Serve
    <3> QED BY <2>1, <3>3 DEF Serve, LockedOutStaysOut, TypeOK
  <2>2. CASE ~Serve(w)
    BY <2>2 DEF Work, CreateAccount, NameTaken, ReadInvite, MarkInvite, Disable, FlagNewbie, Grant,
                Enrol, Burn, AddKey, GateKey, Touch, Die, VerifyAndLookUp, history
  <2> QED BY <2>1, <2>2
<1>5. \A u \in Id : Row(u) # {} /\ ~Allowed(u) => (Row(u) # {})' /\ ~Allowed(u)'
  <2>1. CASE users \subseteq users'
    BY <1>3, <2>1, LockStays
  <2>2. CASE Disable(w)
    <3> DEFINE Off(x) == IF x.id = r.user THEN [x EXCEPT !.active = FALSE] ELSE x
    <3>1. users' = {Off(x) : x \in users} /\ flags' = flags
      BY <2>2 DEF Disable
    <3>2. ASSUME NEW x \in users
          PROVE  Off(x).id = x.id /\ (~x.active => ~Off(x).active)
      <4>1. x \in User
        BY DEF TypeOK
      <4>2. [x EXCEPT !.active = FALSE].id = x.id /\ [x EXCEPT !.active = FALSE].active = FALSE
        BY <4>1 DEF User
      <4> QED BY <4>2, Zenon
    <3> HIDE DEF Off
    <3> QED BY <3>1, <3>2 DEF Row, Allowed, Blocked
  <2> QED BY <1>3, <2>1, <2>2
<1> QED BY <1>2, <1>3, <1>4, <1>5, GatedStays

LEMMA GatedNext ==
  TypeOK /\ Rows /\ Gated /\ LockedOutStaysOut /\ [Next]_vars => Gated' /\ LockedOutStaysOut'
<1> SUFFICES ASSUME TypeOK, Rows, Gated, LockedOutStaysOut, [Next]_vars
             PROVE  Gated' /\ LockedOutStaysOut'
  OBVIOUS
<1>1. CASE Administer \/ Tick \/ \E u \in Id : Login(u)
  BY <1>1, GatedAdminister
<1>2. ASSUME NEW w \in Worker, Begin(w) PROVE Gated' /\ LockedOutStaysOut'
  BY <1>2, GatedBegin
<1>3. ASSUME NEW w \in Worker, Work(w) PROVE Gated' /\ LockedOutStaysOut'
  BY <1>3, GatedWork
<1>4. CASE UNCHANGED vars
  BY <1>4, LockStays, GatedStays DEF vars, rowvars, history
<1> QED BY <1>1, <1>2, <1>3, <1>4 DEF Next

(* LockedOutStaysOut: the gate of get_current_user() and verify_api_key()   *)
(* against accounts that are blocked, disabled, deleted and pardoned while  *)
(* requests are under way.                                                  *)
THEOREM LockedOutAlwaysStaysOut == Spec => []LockedOutStaysOut
<1>1. Init => TypeOK /\ Rows /\ Gated /\ LockedOutStaysOut
  BY InitType, RowsInit, GatedInit
<1>2. (TypeOK /\ Rows /\ Gated /\ LockedOutStaysOut) /\ [Next]_vars
        => (TypeOK /\ Rows /\ Gated /\ LockedOutStaysOut)'
  BY NextType, RowsNext, GatedNext
<1> QED BY <1>1, <1>2, PTL DEF Spec
=============================================================================
