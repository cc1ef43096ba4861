----------------------------- MODULE MCSessions -----------------------------
(* TLC instances of Sessions.                                              *)
EXTENDS Sessions, TLC

\* Users, tokens and tasks are interchangeable, and no operator chooses one.
Symmetry == Permutations(Users) \cup Permutations(Tokens) \cup Permutations(Requests)

\* Sets of operations, so that a run can spend its states on one question.
Races == {"signIn", "revoke", "revokeOthers", "delete"}
Manager == {"signIn", "signOut", "mgrRevoke", "mgrRevokeAll", "mgrRevokeOthers"}
=============================================================================
