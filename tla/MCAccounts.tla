----------------------------- MODULE MCAccounts -----------------------------
(* TLC instances of Accounts.                                              *)
EXTENDS Accounts, TLC

\* No definition tells the members of these sets apart.
Symmetry == Permutations(Users) \cup Permutations(Emails) \cup Permutations(Tokens)
            \cup Permutations(Links) \cup Permutations(Requests)

\* Addresses change hands; accounts are deleted; passwords change.
Addresses == {"signUp", "sendVerify", "verify", "changeEmail", "changeVerify"}
Deletions == {"signUp", "forget", "reset", "deleteUser", "deleteVerify"}
Credentials == {"signIn", "forget", "reset", "verify", "changePassword", "setPassword"}

Flow == {Addresses, Deletions, Credentials}
=============================================================================
