SPECIFICATION Spec
CONSTANTS
  u1 = u1
  u2 = u2
  p1 = p1
  p2 = p2
  o1 = o1
  o2 = o2
  s1 = s1
  s2 = s2
  b1 = b1
  b2 = b2
  b3 = b3
  b4 = b4
  x1 = x1
  x2 = x2
  x3 = x3
  k1 = k1
  k2 = k2
  c1 = c1
  c2 = c2
  r1 = r1
  r2 = r2
  None = None
  Users = {u1, u2}
  Pendings = {p1, p2}
  Otps = {o1, o2}
  Secrets = {s1, s2}
  Codes = {b1, b2, b3, b4}
  Challenges = {x1, x2, x3}
  Passkeys = {k1, k2}
  Credentials = {c1, c2}
  Requests = {r1, r2}
  Menus <- Flow
  BatchSize = 2
  Failing = {"clear"}
SYMMETRY Symmetry
INVARIANTS
  Consistent
PROPERTIES
  BothFactors
  SpentFactors
CHECK_DEADLOCK FALSE
