------------------------------ MODULE MCFactors ------------------------------
(* TLC instances of Factors.                                               *)
EXTENDS Factors, TLC

\* No definition tells the members of these sets apart (Fresh and Batches
\* choose from the others).
Symmetry == Permutations(Users) \cup Permutations(Credentials) \cup Permutations(Requests)

\* Codes by mail; the authenticator; the backup codes; the passkeys.
Mailed == {"signIn", "enable", "sendOtp", "verifyOtp"}
Authenticator == {"signIn", "enable", "disable", "verifyTotp"}
BackupCodes == {"signIn", "enable", "regenerate", "verifyBackup"}
Flow == {Mailed, Authenticator, BackupCodes, PasskeyOps}
=============================================================================
