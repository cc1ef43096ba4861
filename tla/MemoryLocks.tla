----------------------------- MODULE MemoryLocks -----------------------------
(***************************************************************************)
(* The mutexes of MemoryDatabaseAdapter.  Every table and every index has   *)
(* one; a statement locks those it needs, one after the other, blocking its *)
(* thread, and its guards are dropped together when it returns.  What it    *)
(* does to the tables in between is what the other modules take as one      *)
(* step; here a statement is the sequence of locks it takes.                *)
(*                                                                         *)
(* get_passkey_by_credential_id drops the guard of the index before it      *)
(* locks the table: it counts as two statements.  Locks are not poisoned,   *)
(* as no statement panics.  X_y before X is a plausible bug in X.           *)
(***************************************************************************)
EXTENDS Naturals, Sequences

CONSTANTS Threads   \* the threads of the runtime

VARIABLE calls      \* thread -> the statement it executes, and how many of
                    \* its locks it has got

Alone(tables) == {<<table>> : table \in tables}

\* get_user_by_id and list_users; create_user, update_user and delete_user;
\* get_user_by_email and get_user_by_username.
UserReads == Alone({"users"})

UserWrites_delete_indices_first ==
  {<<"users", "email_index", "username_index">>,
   <<"email_index", "username_index", "users">>}
UserWrites == {<<"users", "email_index", "username_index">>}
UserLookups == {<<"email_index", "users">>, <<"username_index", "users">>}

SessionLocks == Alone({"sessions"})
AccountLocks == Alone({"accounts"})
VerificationLocks == Alone({"verifications"})

\* get_organization_by_id; create_organization and update_organization;
\* delete_organization; get_organization_by_slug; list_user_organizations.
OrganizationReads == Alone({"organizations"})
OrganizationWrites ==
  {<<"organizations", "slug_index">>,
   <<"organizations", "slug_index", "members", "invitations">>}
OrganizationLookups ==
  {<<"slug_index", "organizations">>, <<"members", "organizations">>}

MemberLocks == Alone({"members"})
InvitationLocks == Alone({"invitations"})
TwoFactorLocks == Alone({"two_factors"})
ApiKeyLocks == Alone({"api_keys"})

\* create_passkey and delete_passkey; the others, and the two halves of
\* get_passkey_by_credential_id.
PasskeyWrites == {<<"passkey_credential_index", "passkeys">>}
PasskeyReads == Alone({"passkey_credential_index", "passkeys"})

ClientLocks == Alone({"oidc_clients"})
CodeLocks == Alone({"oidc_codes"})
AccessTokenLocks == Alone({"oidc_access_tokens"})

\* The statements that lock an index, or the members, before the table.
Lookups == UserLookups \cup OrganizationLookups

Statements ==
  UNION {UserReads, UserWrites, SessionLocks, AccountLocks, VerificationLocks,
         OrganizationReads, OrganizationWrites, MemberLocks, InvitationLocks,
         TwoFactorLocks, ApiKeyLocks, PasskeyWrites, PasskeyReads, ClientLocks,
         CodeLocks, AccessTokenLocks, Lookups}

Idle == [takes |-> <<>>, got |-> 0]
Busy(t) == calls[t] # Idle

Holds(t, lock) == \E n \in 1..calls[t].got : calls[t].takes[n] = lock
Wanted(t) == calls[t].takes[calls[t].got + 1]
Waiting(t) == Busy(t) /\ calls[t].got < Len(calls[t].takes)

Init == calls = [t \in Threads |-> Idle]

Call(t) ==
  /\ ~Busy(t)
  /\ \E s \in Statements : calls' = [calls EXCEPT ![t] = [takes |-> s, got |-> 0]]

Lock(t) ==
  /\ Waiting(t)
  /\ \A u \in Threads : ~Holds(u, Wanted(t))
  /\ calls' = [calls EXCEPT ![t] = [takes |-> @.takes, got |-> @.got + 1]]

\* The statement does its work and its guards go out of scope.
Return(t) ==
  /\ Busy(t) /\ ~Waiting(t)
  /\ calls' = [calls EXCEPT ![t] = Idle]

Next == \E t \in Threads : Call(t) \/ Lock(t) \/ Return(t)

Spec == Init /\ [][Next]_calls

-----------------------------------------------------------------------------
(* Properties.                                                              *)

\* Threads that wait for each other for ever: each for a lock that another of
\* them holds.
Stuck(group) ==
  /\ group # {}
  /\ \A t \in group : Waiting(t) /\ \E u \in group : Holds(u, Wanted(t))

\* Statements never deadlock among themselves unless a lookup takes part, which
\* locks in the order opposite to the writers': get_user_by_email,
\* get_user_by_username, get_organization_by_slug, list_user_organizations.
\* (With one of those they can: create_user against get_user_by_email.)
OnlyLookupsBlock ==
  \A group \in SUBSET Threads :
    Stuck(group) => \E t \in group : calls[t].takes \in Lookups
=============================================================================
