------------------------------- MODULE MCOidc -------------------------------
(* TLC instances of OidcProvider: a public client registered for the openid   *)
(* scope alone and a confidential one for both, each with a redirect URI.     *)
EXTENDS OidcProvider, TLC

CONSTANTS pub, conf, home, other, openid, email

TwoClients == {pub, conf}
OnlyPub == {pub}
TwoUris == {home, other}
TwoScopes == {openid, email}
Redirects == [c \in Clients |-> IF c = pub THEN {home} ELSE {other}]
Grants == [c \in Clients |-> IF c = pub THEN {openid} ELSE {openid, email}]

Symmetry == Permutations(Verifiers) \cup Permutations(Codes)
              \cup Permutations(AccessTokens) \cup Permutations(Requests)
=============================================================================
