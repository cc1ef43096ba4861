SPECIFICATION FairSpec
CONSTANTS
  u1 = u1
  u2 = u2
  t1 = t1
  t2 = t2
  r1 = r1
  r2 = r2
  None = None
  Users = {u1}
  Tokens = {t1, t2}
  Requests = {r1, r2}
  Ops <- Manager
  ExpiresIn = 1
  UpdateAge = 1
  RefreshOff = FALSE
  SweepAtExpiry = FALSE
  DbFails = TRUE
  MaxTime = 2
PROPERTIES
  Answered
