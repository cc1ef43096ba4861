----------------------------- MODULE MCIdentity -----------------------------
(* An administrator, a user with a password, and room for one more user; a  *)
(* provider that may link by address and one that may not.  The first       *)
(* subject has the address of the user, the second another.          *)
EXTENDS Identity, TLC

CONSTANTS a, u, v, adr, hers, new, ka, ku, k1, k2, ta, tu, t1, t2, good, other, x1, x2

Person(email, role) == [email |-> email, role |-> role, banned |-> FALSE, pass |-> TRUE]
Password(user) ==
  [user |-> user, provider |-> Credential, subject |-> user, grant |-> None]

TwoUsers == a :> Person(adr, "admin") @@ u :> Person(hers, "user") @@ v :> None
TheirAccounts == ka :> Password(a) @@ ku :> Password(u) @@ [k \in Accounts |-> None]
TheirSessions == ta :> [user |-> a, by |-> None] @@ tu :> [user |-> u, by |-> None]
                 @@ [t \in Tokens |-> None]
Addresses == x1 :> hers @@ x2 :> new
\* Sign-ups against removal and creation by an administrator, links against
\* unlinking and refreshing, and what an administrator does to a user.
EndpointsCalled ==
  {{"signIn", "callback", "removeUser"}, {"signIn", "callback", "createUser"},
   {"link", "callback", "unlink"}, {"unlink", "setPassword"}, {"link", "callback", "refresh"},
   {"impersonate", "stop", "ban", "unban", "setRole"},
   {"impersonate", "stop", "revokeSession", "revokeSessions"}}
Symmetry == Permutations(Requests)
=============================================================================
