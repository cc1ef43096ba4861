SPECIFICATION Spec
CONSTANTS
  u1 = u1
  u2 = u2
  e1 = e1
  e2 = e2
  p1 = p1
  p2 = p2
  t1 = t1
  t2 = t2
  k1 = k1
  k2 = k2
  r1 = r1
  r2 = r2
  None = None
  Users = {u1, u2}
  Emails = {e1, e2}
  Passwords = {p1}
  Tokens = {t1, t2}
  Links = {k1, k2}
  Requests = {r1, r2}
  Menus <- Flow
  Adapter = "sqlx"
  CoreFirst = FALSE
  ConfirmEmail = TRUE
  ConfirmDelete = TRUE
  RequireCurrent = TRUE
  RevokeOnReset = TRUE
  AutoSignIn = TRUE
  SendOnSignIn = TRUE
  Failing = {"unlink", "revoke", "newLink"}
SYMMETRY Symmetry
INVARIANTS
  Consistent
PROPERTIES
  DeadLinks
  OldSessionsEnd
  DeletionConfirmed
CHECK_DEADLOCK FALSE
