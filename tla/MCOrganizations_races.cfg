SPECIFICATION Spec
CONSTANTS
  u1 = u1
  u2 = u2
  u3 = u3
  u4 = u4
  o1 = o1
  o2 = o2
  s1 = s1
  s2 = s2
  m1 = m1
  m2 = m2
  m3 = m3
  m4 = m4
  i1 = i1
  i2 = i2
  i3 = i3
  r1 = r1
  r2 = r2
  None = None
  Users = {u1, u2, u3, u4}
  Orgs = {o1, o2}
  Slugs = {s1, s2}
  Members = {m1, m2, m3, m4}
  Invitations = {i1, i2, i3}
  Requests = {r1, r2}
  Grants = {"owner", "member"}
  Starts <- AllStarts
  MemberLimit = 2
  PendingLimit = 2
  OrgLimit = 1
  InviteTtl = 0
  ForeignKeys = TRUE
  Failing = {"join", "settle"}
  MaxTime = 1
INVARIANTS
  Consistent
  LimitsHold
PROPERTIES
  SeatsByRight
