-------------------------------- MODULE Admin --------------------------------
(***************************************************************************)
(* The admin plugin: roles, bans, passwords, removal of users, their        *)
(* sessions, and impersonation.                                            *)
(*                                                                         *)
(* require_admin reads the caller's session and user in one step, and every *)
(* later action is one statement.  Listings and has-permission only read.   *)
(* X_y before X is a plausible bug in X.                                    *)
(***************************************************************************)
EXTENDS Directory

CONSTANT AllowBanAdmin   \* allow_ban_admin

TargetOps == {"setRole", "ban", "unban", "setPassword", "impersonate",
              "revokeSessions", "removeUser"}

ASSUME AdminAssumption == AllowBanAdmin \in BOOLEAN

Roles(op) == IF op \in {"setRole", "createUser"} THEN {"user", "admin"} ELSE {"user"}
IsAdmin(u) == Exists(u) /\ users[u].role = "admin"

\* require_admin, and "You cannot ban yourself" and the like.
AskAbout(r, t, op, u, role) ==
  /\ Called(r, op) /\ u \in drawn
  /\ IsAdmin(Caller(t))
  /\ op \in {"ban", "impersonate", "removeUser"} => u # Caller(t)
  /\ Go(r, [Idle EXCEPT !.op = op, !.pc = "target", !.caller = Caller(t),
                        !.user = u, !.role = role, !.doomed = SessionsOf(u)])
  /\ UNCHANGED <<tables, past>>

AskCreate(r, t, e, role) ==
  /\ Called(r, "createUser")
  /\ IsAdmin(Caller(t))
  /\ Go(r, [Idle EXCEPT !.op = "createUser", !.pc = "email", !.email = e, !.role = role])
  /\ UNCHANGED <<tables, past>>

AskRevoke(r, t, k) ==
  /\ Called(r, "revokeSession") /\ k \in drawn
  /\ IsAdmin(Caller(t))
  /\ Go(r, [Idle EXCEPT !.op = "revokeSession", !.pc = "end", !.key = k, !.doomed = {k}])
  /\ UNCHANGED <<tables, past>>

\* POST /admin/stop-impersonating asks for the session only.
AskStop(r, t) ==
  /\ Called(r, "stop")
  /\ Caller(t) # None /\ sessions[t].by # None
  /\ Go(r, [Idle EXCEPT !.op = "stop", !.pc = "end", !.user = sessions[t].by,
                        !.key = t, !.doomed = {t}])
  /\ UNCHANGED <<tables, past>>

\* get_user_by_id of the user it is all about.
Target(r) ==
  /\ At(r, "target")
  /\ LET spared == reqs[r].op = "ban" /\ ~AllowBanAdmin /\ IsAdmin(reqs[r].user)
     IN IF ~Exists(reqs[r].user) \/ spared THEN Done(r)
        ELSE GoOn(r, CASE reqs[r].op = "impersonate" -> "impersonate"
                       [] reqs[r].op \in {"revokeSessions", "removeUser"} -> "purge"
                       [] OTHER -> "write")
  /\ UNCHANGED <<tables, past>>

\* update_user, of a role, a ban or the password
Changed(row, q) ==
  [row EXCEPT !.role = IF q.op = "setRole" THEN q.role ELSE @,
              !.banned = (q.op = "ban") \/ (@ /\ q.op # "unban"),
              !.pass = @ \/ q.op = "setPassword"]
Write(r) ==
  /\ At(r, "write")
  /\ \/ /\ Exists(reqs[r].user)
        /\ users' = [users EXCEPT ![reqs[r].user] = Changed(@, reqs[r])]
        /\ CASE reqs[r].op = "ban" -> GoOn(r, "purge")
             [] reqs[r].op = "setPassword" -> GoOn(r, "credential")
             [] OTHER -> Done(r)
     \/ /\ ~Exists(reqs[r].user)
        /\ Done(r) /\ UNCHANGED users
  /\ UNCHANGED <<accounts, sessions, drawn, past>>

\* revoke_all_user_sessions, or delete_user_sessions of a user to remove
Doomed_but_impersonated(u) == {t \in SessionsOf(u) : sessions[t].by = None}
Doomed(u) == SessionsOf(u)
Purge(r) ==
  /\ At(r, "purge")
  /\ EndSessions(Doomed(reqs[r].user))
  /\ IF reqs[r].op = "removeUser"
     THEN GoOn(r, "accounts") /\ UNCHANGED past
     ELSE /\ Done(r)
          /\ ended' = ended \cup reqs[r].doomed /\ UNCHANGED <<menu, removed>>

\* remove_user goes on with the accounts, one by one, and the user.
ListAccounts(r) ==
  /\ At(r, "accounts")
  /\ Go(r, [reqs[r] EXCEPT !.rest = AccountsOf(reqs[r].user), !.pc = "drop"])
  /\ UNCHANGED <<tables, past>>

Drop(r) ==
  /\ At(r, "drop")
  /\ \E a \in reqs[r].rest :
       /\ RemoveAccount(a)
       /\ Go(r, [reqs[r] EXCEPT !.rest = @ \ {a}])
  /\ UNCHANGED past

Delete(r) ==
  /\ At(r, "drop") /\ reqs[r].rest = {}
  /\ RemoveUser(reqs[r].user)
  /\ removed' = removed \cup {reqs[r].user}
  /\ ended' = ended \cup reqs[r].doomed
  /\ Done(r) /\ UNCHANGED menu

\* set_user_password makes sure that there is a credential account ...
Credentials(r) ==
  /\ At(r, "credential")
  /\ IF \E a \in AccountsOf(reqs[r].user) : accounts[a].provider = Credential
     THEN Done(r) ELSE GoOn(r, "addCredential")
  /\ UNCHANGED <<tables, past>>

\* ... and create_user creates one after it has looked for the address and
\* created the user.
Vacant(r) ==
  /\ At(r, "email")
  /\ IF Taken(reqs[r].email) = {} THEN GoOn(r, "newAccount") ELSE Done(r)
  /\ UNCHANGED <<tables, past>>

NewAccount(r) ==
  /\ At(r, "newAccount")
  /\ \/ /\ Taken(reqs[r].email) = {} /\ Users \ drawn # {}
        /\ InsertUser([email |-> reqs[r].email, role |-> reqs[r].role,
                       banned |-> FALSE, pass |-> TRUE])
        /\ Go(r, [reqs[r] EXCEPT !.user = Fresh(Users), !.pc = "addCredential"])
     \/ Taken(reqs[r].email) # {} /\ Done(r) /\ UNCHANGED tables
  /\ UNCHANGED past

AddCredential(r) ==
  /\ At(r, "addCredential")
  /\ IF CanLink(reqs[r].user, Credential, reqs[r].user)
     THEN InsertAccount([user |-> reqs[r].user, provider |-> Credential,
                         subject |-> reqs[r].user, grant |-> None])
     ELSE UNCHANGED tables
  /\ Done(r)
  /\ UNCHANGED past

Impersonate(r) ==
  /\ At(r, "impersonate")
  /\ IF CanOpen(reqs[r].user)
     THEN InsertSession([user |-> reqs[r].user, by |-> reqs[r].caller])
     ELSE UNCHANGED tables
  /\ Done(r)
  /\ UNCHANGED past

\* delete_session, of a user or of the impersonation that stops
End(r) ==
  /\ At(r, "end")
  /\ EndSessions({reqs[r].key})
  /\ ended' = ended \cup reqs[r].doomed /\ UNCHANGED <<menu, removed>>
  /\ IF reqs[r].op = "stop" THEN GoOn(r, "back") ELSE Done(r)

\* The admin who impersonated is read and gets a session of their own.
Back(r) ==
  /\ At(r, "back")
  /\ IF Exists(reqs[r].user) THEN GoOn(r, "return") ELSE Done(r)
  /\ UNCHANGED <<tables, past>>

Return(r) ==
  /\ At(r, "return")
  /\ IF CanOpen(reqs[r].user)
     THEN InsertSession([user |-> reqs[r].user, by |-> None])
     ELSE UNCHANGED tables
  /\ Done(r)
  /\ UNCHANGED past

AskAdmin(r) ==
  \E t \in {t \in Tokens : sessions[t] # None} :
    \/ \E op \in TargetOps \cap menu, u \in Users :
         \E role \in Roles(op) : AskAbout(r, t, op, u, role)
    \/ \E e \in Emails, role \in Roles("createUser") : AskCreate(r, t, e, role)
    \/ \E k \in Tokens : AskRevoke(r, t, k)
    \/ AskStop(r, t)

AdminStep(r) ==
  \/ Target(r) \/ Write(r) \/ Purge(r) \/ ListAccounts(r) \/ Drop(r) \/ Delete(r)
  \/ Credentials(r) \/ Vacant(r) \/ NewAccount(r) \/ AddCredential(r)
  \/ Impersonate(r) \/ End(r) \/ Back(r) \/ Return(r)
=============================================================================
