CONSTANTS
  Codes = {k1}
  Users = {u1}
  Requests = {r1, r2, r3}
  None = None
  Ids = {1, 2, 3, 4, 5, 6, 7, 8, 9}
  ExpiresIn = 2
  Interval = 1
  Adapter = "memory"
  Failing = TRUE
  MaxTime = 2
  MaxRows = 3
SPECIFICATION Spec
SYMMETRY Perms
 
PROPERTY DecisionFinal
INVARIANT Consistent
CHECK_DEADLOCK FALSE
