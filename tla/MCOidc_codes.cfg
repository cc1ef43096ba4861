SPECIFICATION Spec
CONSTANTS
  pub = pub
  conf = conf
  home = home
  other = other
  openid = openid
  email = email
  u1 = u1
  v1 = v1
  k1 = k1
  k2 = k2
  a1 = a1
  a2 = a2
  r1 = r1
  r2 = r2
  None = None
  Clients <- TwoClients
  Public <- OnlyPub
  Registered <- Redirects
  Allowed <- Grants
  Uris <- TwoUris
  Scopes <- TwoScopes
  OpenId = openid
  Users = {u1}
  Verifiers = {v1}
  Codes = {k1, k2}
  AccessTokens = {a1, a2}
  Requests = {r1, r2}
  Prompts = {"default"}
  LoginHook = TRUE
  CodeTtl = 1
  AccessTtl = 1
  MaxTime = 1
SYMMETRY Symmetry
INVARIANTS
  SingleUse
  GrantHonoured
  HolderOnly
  InfoAuthorized
PROPERTIES
  OnlyClientsSpend
