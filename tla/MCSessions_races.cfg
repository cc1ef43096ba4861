SPECIFICATION Spec
CONSTANTS
  u1 = u1
  u2 = u2
  t1 = t1
  t2 = t2
  r1 = r1
  r2 = r2
  None = None
  Users = {u1, u2}
  Tokens = {t1, t2}
  Requests = {r1, r2}
  Ops <- Races
  ExpiresIn = 1
  UpdateAge = 0
  RefreshOff = FALSE
  SweepAtExpiry = TRUE
  DbFails = FALSE
  MaxTime = 2
SYMMETRY Symmetry
INVARIANTS
  TypeOK
  RevokedMeansGone
  DeletedUserStaysOut
  IdleTimeout
PROPERTIES
  KeepsPromise
  OwnerOnly
