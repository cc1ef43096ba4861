SPECIFICATION Spec
CONSTANTS
  u1 = u1
  k1 = k1
  r1 = r1
  r2 = r2
  None = None
  Users = {u1}
  Keys = {k1}
  Requests = {r1, r2}
  Templates <- Refills
  Edits <- NoForms
  Ops = {"create", "verify"}
  DefaultLimit = None
  Interval = 1
  Window = 2
  Throttle = 1
  SweepsAtExpiry = TRUE
  MaxTime = 1
  MaxPasses = 1
INVARIANTS
  QuotaHolds
