SPECIFICATION Spec
CONSTANTS
  a = a
  u = u
  v = v
  adr = adr
  hers = hers
  new = new
  ka = ka
  ku = ku
  k1 = k1
  k2 = k2
  ta = ta
  tu = tu
  t1 = t1
  t2 = t2
  good = good
  other = other
  x1 = x1
  x2 = x2
  None = None
  Credential = Credential
  Users = {a, u, v}
  Emails = {adr, hers, new}
  Accounts = {ka, ku, k1, k2}
  Tokens = {ta, tu, t1, t2}
  Providers = {good, other}
  Subjects = {x1, x2}
  States = {s1, s2}
  Requests = {r1, r2}
  Constraints = TRUE
  FirstUsers <- TwoUsers
  FirstAccounts <- TheirAccounts
  FirstSessions <- TheirSessions
  Mail <- Addresses
  LinkingEnabled = TRUE
  Trusted = {good}
  UnlinkAll = FALSE
  UpdateOnSignIn = TRUE
  AllowBanAdmin = FALSE
  Menus <- EndpointsCalled
SYMMETRY Symmetry
INVARIANTS
  Consistent
  TrustedLinks
  EndedStay
  FullyRemoved
PROPERTIES
  StateOnce
CHECK_DEADLOCK FALSE
