SPECIFICATION Spec
CONSTANTS
  u1 = u1
  u2 = u2
  k1 = k1
  r1 = r1
  r2 = r2
  None = None
  Users = {u1, u2}
  Keys = {k1}
  Requests = {r1, r2}
  Templates <- Forms
  Edits <- Renewals
  Ops = {"create", "get", "update", "delete", "verify", "clear"}
  DefaultLimit = None
  Interval = 1
  Window = 3
  Throttle = 1
  SweepsAtExpiry = TRUE
  MaxTime = 2
  MaxPasses = 5
SYMMETRY Symmetry
INVARIANTS
  
  Consistent
PROPERTIES
  StaysDeleted
