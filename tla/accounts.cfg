CONSTANTS
  admin = admin
  ann = ann
  ben = ben
  e1 = e1
  e2 = e2
  t1 = t1
  k1 = k1
  j1 = j1
  j2 = j2
  w1 = w1
  w2 = w2
  Name = {admin, ann}
  Email = {e1, e2}
  Token = {t1}
  ApiKey = {k1}
  Jti = {j1, j2}
  Worker = {w1, w2}
  Admin = admin
  NoToken = NoToken
  AutoActivate = FALSE
  MaxAge = 2
  MaxHold = 1
  Leeway = 1
  JwtLife = 1
  InviteLife = 1
  MaxTime = 3
  MaxUsers = 3
  MaxAsks = 3
SPECIFICATION Spec
INVARIANTS TypeOK UsedByIsItsAccount UnreviewedOnlyInFlight AssertionOnce SessionOfSigner NothingOutlivesItsUser LockedOutStaysOut
CHECK_DEADLOCK FALSE
SYMMETRY Symmetric
