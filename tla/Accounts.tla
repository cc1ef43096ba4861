------------------------------- MODULE Accounts -------------------------------
(***************************************************************************)
(* E-mail/password sign-up and sign-in, password management, e-mail         *)
(* verification and user management: the life of an account and of the      *)
(* links mailed about it.                                                  *)
(*                                                                         *)
(* Every action is one statement of a database adapter with the synchronous *)
(* code around it.  get_session and require_session have a module of their  *)
(* own (Sessions): here they are one step, which reads the session and its  *)
(* user.  Names, images, usernames, hashing, the second factor and what a   *)
(* mail says are left out.  X_y before X is a plausible bug in X.           *)
(***************************************************************************)
EXTENDS Naturals, FiniteSets

CONSTANTS
  Users, Emails, Passwords, None,
  Tokens,          \* session tokens
  Links,           \* verification tokens
  Requests,        \* the tasks that may be in flight at once
  Menus,           \* sets of operations, one of which clients use
  Adapter,         \* "memory", "sqlx" or "d1"
  CoreFirst,       \* requests enter through BetterAuth::handle_request, whose
                   \* core endpoints shadow those of the user-management plugin
  ConfirmEmail,    \* ~change_email.update_without_verification
  ConfirmDelete,   \* delete_user.require_verification
  RequireCurrent,  \* require_current_password
  RevokeOnReset,   \* revoke_sessions_on_password_reset
  AutoSignIn,      \* auto_sign_in_after_verification
  SendOnSignIn,    \* send_on_sign_in, the verification plugin being attached
  Failing          \* the statements that may fail, without effect

\* Operations that name an address, present a link, present a session.
MailOps == {"signUp", "signIn", "forget", "sendVerify"}
LinkOps == {"reset", "verify", "changeVerify", "deleteVerify", "callback"}
UserOps == {"changePassword", "setPassword", "changeEmail", "updateUser",
            "deleteUser"}
Enders == {"reset", "changePassword", "deleteUser", "deleteVerify"}
AllOps == MailOps \cup LinkOps \cup UserOps

ASSUME AccountsAssumption ==
  /\ UNION Menus \subseteq AllOps
  /\ Adapter \in {"memory", "sqlx", "d1"}
  /\ {CoreFirst, ConfirmEmail, ConfirmDelete, RequireCurrent, RevokeOnReset,
      AutoSignIn, SendOnSignIn} \subseteq BOOLEAN
  /\ None \notin Users \cup Emails \cup Passwords \cup Tokens \cup Links

VARIABLES
  users,     \* the users table: id -> row or None
  byEmail,   \* which user get_user_by_email finds: memory's email_index, or
             \* the unique column
  sessions,  \* token -> user or None
  links,     \* every verification drawn so far: token value -> row
  stored,    \* the verifications that are in the table
  lapsed,    \* those whose expires_at has passed
  menu,      \* what clients ask for in this behaviour
  reqs,      \* the state of every task
  issued,    \* history: the session tokens inserted so far
  spent,     \* history: the links by which a request was answered
  proven,    \* history: the addresses a link mailed to which was presented
  born       \* history: the user ids given out

vars == <<users, byEmail, sessions, links, stored, lapsed, menu, reqs, issued,
          spent, proven, born>>

-----------------------------------------------------------------------------
(* Data.                                                                   *)

User == [email : Emails, verified : BOOLEAN, password : Passwords \cup {None}]

\* A verification.  Reset and verify-email links both have the address for
\* identifier and are looked up by value alone: they are one kind.  to is
\* where the link was mailed.
Link == [kind : {"mail", "change", "delete"}, user : Users \cup {None},
         email : Emails \cup {None}, to : Emails]

ASSUME NoneAssumption == None \notin User \cup Link

Pcs == {"idle", "byEmail", "create", "byLink", "owner", "auth", "free", "discard",
        "write", "rename", "mark", "newLink", "revoke", "erase", "unlink", "insert"}

\* user is the user read, and to the address of a mail; alive, late and stale
\* are history: the sessions there were, for those who end sessions, and
\* whether the link was spent or expired, when the task began.  ok: the
\* request was answered in the last step, with success.
Task == [pc : Pcs, op : AllOps \cup {None}, user : Users \cup {None},
         to : Emails \cup {None}, email : Emails \cup {None},
         password : Passwords \cup {None}, current : Passwords \cup {None},
         link : Links \cup {None}, token : Tokens \cup {None},
         others : BOOLEAN, alive : SUBSET Tokens, late : BOOLEAN,
         stale : BOOLEAN, ok : BOOLEAN]

Idle(ok) ==
  [pc |-> "idle", op |-> None, user |-> None, to |-> None, email |-> None,
   password |-> None, current |-> None, link |-> None, token |-> None,
   others |-> FALSE, alive |-> {}, late |-> FALSE, stale |-> FALSE,
   ok |-> ok]

Start(op, pc) ==
  [Idle(FALSE) EXCEPT !.op = op, !.pc = pc,
       !.alive = {t \in Tokens : sessions[t] # None /\ op \in Enders}]

At(r, pc) == reqs[r].pc = pc
Become(r, q) ==
  reqs' = [x \in Requests |-> IF x = r THEN q
                               ELSE [reqs[x] EXCEPT !.ok = FALSE]]
Go(r, pc) == Become(r, [reqs[r] EXCEPT !.pc = pc]) /\ UNCHANGED spent
Error(r) == Become(r, Idle(FALSE)) /\ UNCHANGED spent
Done(r) == /\ Become(r, Idle(TRUE))
           /\ spent' = spent \cup ({reqs[r].link} \ {None})
\* The task goes on to pc with the user u it has read.
Read(r, u, pc) ==
  /\ Become(r, [reqs[r] EXCEPT !.pc = pc, !.user = u,
       !.to = IF pc = "newLink" THEN users[u].email ELSE None])
  /\ UNCHANGED spent

Known(u) == u # None /\ users[u] # None
Drawn == {k \in Links : links[k] # None}

tables == <<users, byEmail, sessions, links, stored>>
history == <<issued, spent, proven, born>>

\* One account, signed in, with a password or (from OAuth) without, its
\* address verified or not; no link is out.
Init ==
  /\ menu \in Menus
  /\ \E u \in Users, e \in Emails, v \in BOOLEAN, t \in Tokens,
        p \in Passwords \cup {None} :
       /\ users = [x \in Users |-> IF x = u
                     THEN [email |-> e, verified |-> v, password |-> p] ELSE None]
       /\ byEmail = [x \in Emails |-> IF x = e THEN u ELSE None]
       /\ sessions = [x \in Tokens |-> IF x = t THEN u ELSE None]
       /\ issued = {t} /\ born = {u}
       /\ proven = IF v THEN {e} ELSE {}
  /\ links = [k \in Links |-> None]
  /\ stored = {} /\ lapsed = {} /\ spent = {}
  /\ reqs = [r \in Requests |-> Idle(FALSE)]

-----------------------------------------------------------------------------
(* A client begins an operation in a free slot.                            *)

AskMail(r) ==
  /\ At(r, "idle")
  /\ \E op \in menu \cap MailOps, e \in Emails :
       \E p \in IF op \in {"signUp", "signIn"} THEN Passwords ELSE {None} :
         Become(r, [Start(op, "byEmail") EXCEPT !.email = e, !.password = p])
  /\ UNCHANGED <<tables, lapsed, menu, history>>

\* Any link that was ever mailed may be presented, and presented anywhere.
\* /delete-user/callback is a core endpoint.
AskLink(r) ==
  /\ At(r, "idle")
  /\ \E op \in menu \cap LinkOps, k \in Drawn :
       /\ op = "callback" => CoreFirst
       /\ \E p \in IF op = "reset" THEN Passwords ELSE {None} :
            Become(r, [Start(op, "byLink") EXCEPT
                         !.link = k, !.password = p,
                         !.late = (k \in spent), !.stale = (k \in lapsed)])
  /\ UNCHANGED <<tables, lapsed, menu, history>>

\* A client presents a session it was given.
AskUser(r) ==
  /\ At(r, "idle")
  /\ \E op \in menu \cap UserOps, t \in issued :
       /\ op = "updateUser" => CoreFirst
       /\ \E e \in IF op \in {"changeEmail", "updateUser"} THEN Emails ELSE {None},
             p \in IF op \in {"changePassword", "setPassword"}
                   THEN Passwords ELSE {None},
             c \in IF op = "changePassword" THEN Passwords ELSE {None},
             b \in IF op = "changePassword" THEN BOOLEAN ELSE {FALSE} :
            Become(r, [Start(op, "auth") EXCEPT !.token = t, !.email = e,
                         !.password = p, !.current = c, !.others = b])
  /\ UNCHANGED <<tables, lapsed, menu, history>>

-----------------------------------------------------------------------------
(* The reads.                                                              *)

\* get_user_by_email, and what each endpoint makes of the answer.
ReadByEmail(r) ==
  /\ At(r, "byEmail")
  /\ LET q == reqs[r]
         u == byEmail[q.email]
     IN \/ /\ u = None
           /\ \/ q.op = "signUp" /\ Go(r, "create")
              \/ q.op = "forget" /\ Done(r)
              \/ q.op \in {"signIn", "sendVerify"} /\ Error(r)
        \/ /\ u # None
           /\ \/ q.op = "signUp" /\ Error(r)
              \/ q.op = "forget" /\ Read(r, u, "newLink")
              \/ /\ q.op = "sendVerify"
                 /\ IF users[u].verified THEN Error(r) ELSE Read(r, u, "newLink")
              \/ /\ q.op = "signIn"
                 /\ IF users[u].password # q.password THEN Error(r)
                    ELSE Read(r, u, IF SendOnSignIn /\ ~users[u].verified
                                    THEN "newLink" ELSE "insert")
  /\ UNCHANGED <<tables, lapsed, menu, issued, proven, born>>

\* get_verification_by_value.  The D1 adapter does not look at expires_at.
Found(k) == k \in stored /\ (k \in lapsed => Adapter = "d1")

\* reset-password and verify-email take the identifier for an address, the
\* others parse it; the callback takes it for a user id as it stands.
Fits(op, link) ==
  CASE op \in {"reset", "verify"} -> link.kind = "mail"
    [] op = "changeVerify"        -> link.kind = "change"
    [] op = "deleteVerify"        -> link.kind = "delete"
    [] OTHER                      -> TRUE

\* change-email/verify and delete-user/verify look at expires_at themselves.
\* The callback's deletions find nothing under the identifier, which is no
\* user's id: it goes on to delete the verification.
ReadLink(r) ==
  /\ At(r, "byLink")
  /\ LET q == reqs[r] IN
       \/ /\ ~Found(q.link)
          /\ Error(r)
          /\ UNCHANGED proven
       \/ /\ Found(q.link)
          /\ proven' = proven \cup {links[q.link].to}
          /\ \/ /\ q.op \in {"changeVerify", "deleteVerify"}
                /\ q.link \in lapsed
                /\ Go(r, "discard")
             \/ /\ q.op \in {"changeVerify", "deleteVerify"} => q.link \notin lapsed
                /\ IF ~Fits(q.op, links[q.link]) THEN Error(r)
                   ELSE Go(r, IF q.op = "callback" THEN "unlink" ELSE "owner")
  /\ UNCHANGED <<tables, lapsed, menu, issued, born>>

\* get_user_by_email or get_user_by_id of the user a link is about.
Owner(k) == IF links[k].kind = "mail" THEN byEmail[links[k].email]
            ELSE links[k].user

\* verify-email answers with success for a verified user, the link unused.
ReadOwner(r) ==
  /\ At(r, "owner")
  /\ LET q == reqs[r]
         u == Owner(q.link)
     IN \/ /\ ~Known(u)
           /\ Error(r)
        \/ /\ Known(u)
           /\ \/ q.op = "reset" /\ Read(r, u, "write")
              \/ /\ q.op = "verify"
                 /\ IF users[u].verified
                    THEN Become(r, Idle(TRUE)) /\ UNCHANGED spent
                    ELSE Read(r, u, "mark")
              \/ q.op = "changeVerify" /\ Read(r, u, "free")
              \/ q.op = "deleteVerify" /\ Read(r, u, "revoke")
  /\ UNCHANGED <<tables, lapsed, menu, issued, proven, born>>

\* What the endpoint checks on the user it was called by.
Authentic(q, row) ==
  CASE q.op = "changePassword" ->
         RequireCurrent => row.password # None /\ row.password = q.current
    [] q.op = "setPassword" -> row.password = None
    [] q.op = "changeEmail" -> CoreFirst \/ row.email # q.email
    [] OTHER -> TRUE

\* Bug: the confirmation is skipped.
AtOnce_Always(q) == TRUE
\* The endpoints that ask for a confirmation by mail, unless configured
\* otherwise or shadowed by a core endpoint, which never does.
AtOnce(q) == CoreFirst \/ (q.op = "changeEmail" /\ ~ConfirmEmail)
                       \/ (q.op = "deleteUser" /\ ~ConfirmDelete)

Authenticate(r) ==
  /\ At(r, "auth")
  /\ LET q == reqs[r]
         u == sessions[q.token]
     IN \/ /\ ~Known(u)
           /\ Error(r)
        \/ /\ Known(u)
           /\ IF ~Authentic(q, users[u]) THEN Error(r)
              ELSE Read(r, u,
                     CASE q.op \in {"changePassword", "setPassword"} -> "write"
                       [] q.op = "changeEmail" -> "free"
                       [] q.op = "updateUser" -> "rename"
                       [] q.op = "deleteUser" ->
                            IF AtOnce(q) THEN "revoke" ELSE "newLink")
  /\ UNCHANGED <<tables, lapsed, menu, issued, proven, born>>

\* The address a task is about to give its user.
NewEmail(q) == IF q.op = "changeVerify" THEN links[q.link].email ELSE q.email

\* Is the address free?
CheckFree(r) ==
  /\ At(r, "free")
  /\ LET q == reqs[r] IN
       \/ /\ byEmail[NewEmail(q)] # None
          /\ IF q.op = "changeVerify" THEN Go(r, "discard") ELSE Error(r)
       \/ /\ byEmail[NewEmail(q)] = None
          /\ Go(r, IF q.op = "changeVerify" \/ AtOnce(q) THEN "rename" ELSE "newLink")
  /\ UNCHANGED <<tables, lapsed, menu, issued, proven, born>>

-----------------------------------------------------------------------------
(* The writes.                                                             *)

\* create_user: every adapter refuses an address that is taken.
CreateUser(r) ==
  /\ At(r, "create")
  /\ LET q == reqs[r] IN
       \/ /\ byEmail[q.email] # None
          /\ Error(r)
          /\ UNCHANGED <<users, byEmail, born>>
       \/ /\ byEmail[q.email] = None
          /\ \E u \in Users \ born :
               /\ users' = [users EXCEPT ![u] =
                    [email |-> q.email, verified |-> FALSE, password |-> q.password]]
               /\ byEmail' = [byEmail EXCEPT ![q.email] = u]
               /\ born' = born \cup {u}
               /\ Become(r, [q EXCEPT !.pc = "insert", !.user = u])
          /\ UNCHANGED spent
  /\ UNCHANGED <<sessions, links, stored, lapsed, menu, issued, proven>>

\* update_user fails for a user that is not there.
Missing(r) == users[reqs[r].user] = None /\ Error(r) /\ UNCHANGED <<users, byEmail>>
Present(r) == users[reqs[r].user] # None

\* The password lives in the metadata, which is written as a whole.
WritePassword(r) ==
  /\ At(r, "write")
  /\ LET q == reqs[r] IN
       \/ Missing(r)
       \/ /\ Present(r)
          /\ users' = [users EXCEPT ![q.user].password = q.password]
          /\ UNCHANGED byEmail
          /\ CASE q.op = "reset" -> Go(r, "unlink")
               [] q.op = "changePassword" /\ q.others -> Go(r, "revoke")
               [] OTHER -> Done(r)
  /\ UNCHANGED <<sessions, links, stored, lapsed, menu, issued, proven, born>>

\* email_verified after a change of address; /update-user leaves it alone.
Verified(q) == CASE q.op = "changeEmail"  -> FALSE
                 [] q.op = "changeVerify" -> TRUE
                 [] q.op = "updateUser"   -> users[q.user].verified

Indexed(u, e) == [byEmail EXCEPT ![users[u].email] = None, ![e] = u]

\* In the SQL databases the address is unique.  The memory adapter moves the
\* user's index entry whoever the entries belong to.
Rename(r) ==
  /\ At(r, "rename")
  /\ LET q == reqs[r]
         e == NewEmail(q)
         refused == Adapter # "memory" /\ byEmail[e] \notin {None, q.user}
     IN \/ Missing(r)
        \/ /\ Present(r) /\ refused
           /\ Error(r)
           /\ UNCHANGED <<users, byEmail>>
        \/ /\ Present(r) /\ ~refused
           /\ users' = [users EXCEPT ![q.user].email = e,
                                     ![q.user].verified = Verified(q)]
           /\ byEmail' = Indexed(q.user, e)
           /\ IF q.op = "changeVerify" THEN Go(r, "unlink") ELSE Done(r)
  /\ UNCHANGED <<sessions, links, stored, lapsed, menu, issued, proven, born>>

MarkVerified(r) ==
  /\ At(r, "mark")
  /\ \/ Missing(r)
     \/ /\ Present(r)
        /\ users' = [users EXCEPT ![reqs[r].user].verified = TRUE]
        /\ UNCHANGED byEmail
        /\ Go(r, "unlink")
  /\ UNCHANGED <<sessions, links, stored, lapsed, menu, issued, proven, born>>

\* Bug: the confirmation goes to the address the user has.
Letter_Current(q) ==
  CASE q.op = "changeEmail" ->
         [kind |-> "change", user |-> q.user, email |-> q.email, to |-> q.to]
    [] q.op = "deleteUser" ->
         [kind |-> "delete", user |-> q.user, email |-> None, to |-> q.to]
    [] OTHER ->
         [kind |-> "mail", user |-> None, email |-> q.to, to |-> q.to]
\* The verification a task draws, and the address it is mailed to.
Letter(q) ==
  CASE q.op = "changeEmail" ->
         [kind |-> "change", user |-> q.user, email |-> q.email, to |-> q.email]
    [] q.op = "deleteUser" ->
         [kind |-> "delete", user |-> q.user, email |-> None, to |-> q.to]
    [] OTHER ->
         [kind |-> "mail", user |-> None, email |-> q.to, to |-> q.to]

\* create_verification, and the mail.
NewLink(r) ==
  /\ At(r, "newLink")
  /\ \E k \in Links \ Drawn :
       /\ links' = [links EXCEPT ![k] = Letter(reqs[r])]
       /\ stored' = stored \cup {k}
  /\ IF reqs[r].op = "signIn" THEN Go(r, "insert") ELSE Done(r)
  /\ UNCHANGED <<users, byEmail, sessions, lapsed, menu, issued, proven, born>>

\* Bug: the link stays, to be swept when it expires.
Left_Behind(k) == stored
Left(k) == stored \ {k}

\* delete_verification of a link that has done its work.
Unlink(r) ==
  /\ At(r, "unlink")
  /\ stored' = Left(reqs[r].link)
  /\ CASE reqs[r].op = "reset" /\ RevokeOnReset -> Go(r, "revoke")
       [] reqs[r].op = "verify" /\ AutoSignIn -> Go(r, "insert")
       [] OTHER -> Done(r)
  /\ UNCHANGED <<users, byEmail, sessions, links, lapsed, menu, issued, proven, born>>

\* ... and of one that has expired, or whose address was taken meanwhile.
Discard(r) ==
  /\ At(r, "discard")
  /\ stored' = stored \ {reqs[r].link}
  /\ Error(r)
  /\ UNCHANGED <<users, byEmail, sessions, links, lapsed, menu, issued, proven, born>>

\* Bug: only the session presented ends.
Ended_Caller(q) == {t \in Tokens : sessions[t] = q.user /\ t = q.token}
Ended(q) == {t \in Tokens : sessions[t] = q.user}

\* delete_user_sessions.
Revoke(r) ==
  /\ At(r, "revoke")
  /\ sessions' = [t \in Tokens |-> IF t \in Ended(reqs[r]) THEN None ELSE sessions[t]]
  /\ CASE reqs[r].op = "reset" -> Done(r)
       [] reqs[r].op = "changePassword" -> Go(r, "insert")
       [] OTHER -> Go(r, "erase")
  /\ UNCHANGED <<users, byEmail, links, stored, lapsed, menu, issued, proven, born>>

\* delete_user.  The SQL databases delete the sessions left with the row.
Erase(r) ==
  /\ At(r, "erase")
  /\ LET u == reqs[r].user IN
       /\ users' = [users EXCEPT ![u] = None]
       /\ byEmail' = [e \in Emails |->
            IF Present(r) /\ e = users[u].email THEN None ELSE byEmail[e]]
       /\ sessions' = [t \in Tokens |->
            IF Adapter # "memory" /\ sessions[t] = u THEN None ELSE sessions[t]]
  /\ IF reqs[r].op = "deleteUser" THEN Done(r) ELSE Go(r, "unlink")
  /\ UNCHANGED <<links, stored, lapsed, menu, issued, proven, born>>

\* create_session.  The SQL databases want the user to be there.
Insert(r) ==
  /\ At(r, "insert")
  /\ \/ /\ Adapter # "memory" /\ ~Present(r)
        /\ Error(r)
        /\ UNCHANGED <<sessions, issued>>
     \/ /\ Adapter # "memory" => Present(r)
        /\ \E t \in Tokens \ issued :
             /\ sessions' = [sessions EXCEPT ![t] = reqs[r].user]
             /\ issued' = issued \cup {t}
        /\ Done(r)
  /\ UNCHANGED <<users, byEmail, links, stored, lapsed, menu, proven, born>>

\* A failing statement ends the request, except that a sign-in goes on without
\* the mail.
Fail(r) ==
  /\ reqs[r].pc \in Failing
  /\ IF At(r, "newLink") /\ reqs[r].op = "signIn" THEN Go(r, "insert") ELSE Error(r)
  /\ UNCHANGED <<tables, lapsed, menu, issued, proven, born>>

-----------------------------------------------------------------------------

\* The clock passes the expiry of a link.
Lapse ==
  /\ \E k \in stored \ lapsed : lapsed' = lapsed \cup {k}
  /\ UNCHANGED <<tables, menu, reqs, history>>

\* delete_expired_verifications, whenever the application calls it.
Sweep ==
  /\ stored \cap lapsed # {}
  /\ stored' = stored \ lapsed
  /\ UNCHANGED <<users, byEmail, sessions, links, lapsed, menu, reqs, history>>

Ask(r) == AskMail(r) \/ AskLink(r) \/ AskUser(r)

Look(r) == \/ ReadByEmail(r) \/ ReadLink(r) \/ ReadOwner(r) \/ Authenticate(r)
           \/ CheckFree(r)

Write(r) == \/ CreateUser(r) \/ WritePassword(r) \/ Rename(r) \/ MarkVerified(r)
            \/ NewLink(r) \/ Unlink(r) \/ Discard(r) \/ Revoke(r) \/ Erase(r)
            \/ Insert(r) \/ Fail(r)

Next == (\E r \in Requests : Ask(r) \/ Look(r) \/ Write(r)) \/ Lapse \/ Sweep

Spec == Init /\ [][Next]_vars

-----------------------------------------------------------------------------
(* Properties.                                                             *)

\* Every variable holds a value of its type; a verification in the table was
\* drawn; and the user the index gives for an address has that address.
TypeOK ==
  /\ users \in [Users -> User \cup {None}]
  /\ byEmail \in [Emails -> Users \cup {None}]
  /\ \A e \in Emails : byEmail[e] # None =>
       users[byEmail[e]] # None /\ users[byEmail[e]].email = e
  /\ sessions \in [Tokens -> Users \cup {None}]
  /\ links \in [Links -> Link \cup {None}]
  /\ menu \in Menus
  /\ stored \subseteq Drawn /\ lapsed \subseteq Drawn /\ spent \subseteq Drawn
  /\ reqs \in [Requests -> Task]
  /\ {t \in Tokens : sessions[t] # None} \subseteq issued
  /\ issued \subseteq Tokens /\ proven \subseteq Emails /\ born \subseteq Users

\* r answers with success.
Replies(r) == ~At(r, "idle") /\ reqs'[r].ok

\* However the users of a reset, verification, change or deletion link cross
\* each other, the link is of no use to a request that begins after one has
\* been answered with success, whichever endpoint it is presented to; nor is
\* one presented after it expired ("400: Token missing or expired",
\* password-management.mdx).
DeadLinks ==
  [][\A r \in Requests : Replies(r) => ~reqs[r].late /\ ~reqs[r].stale]_vars

\* A password reset, a password change that asks for it, and a deletion have
\* ended, when they answer, every session the user had when they began.
OldSessionsEnd ==
  [][\A r \in Requests :
       /\ Replies(r)
       /\ \/ reqs[r].op = "reset" /\ RevokeOnReset
          \/ reqs[r].op = "changePassword" /\ reqs[r].others
          \/ reqs[r].op \in {"deleteUser", "deleteVerify"} /\ ~At(r, "newLink")
       => \A t \in reqs[r].alive : sessions'[t] # reqs[r].user]_vars

\* "If true, a verification email must be confirmed before the account is
\* deleted" (DeleteUserConfig::require_verification): an account goes when a
\* link mailed for its deletion has been presented, and through no other link.
DeletionConfirmed ==
  [][\A u \in Users : ConfirmDelete /\ users[u] # None /\ users'[u] = None =>
       \E r \in Requests :
         /\ reqs'[r].pc # reqs[r].pc
         /\ reqs[r].link # None
         /\ links[reqs[r].link].kind = "delete"
         /\ links[reqs[r].link].user = u]_vars

\* An address marked as verified is one that a link was mailed to and
\* presented: verifications, changes of address and sign-ups may cross, and
\* accounts hand addresses on.
VerifiedProven ==
  \A u \in Users : users[u] # None /\ users[u].verified => users[u].email \in proven

\* The rows and the e-mail index agree, and what is verified was proven.
Consistent == TypeOK /\ VerifiedProven

-----------------------------------------------------------------------------
(* The inductive invariant.                                                *)

\* The operations that come to a place.
Stops ==
  [byEmail |-> MailOps, create |-> {"signUp"}, byLink |-> LinkOps,
   owner |-> LinkOps \ {"callback"}, auth |-> UserOps,
   free |-> {"changeEmail", "changeVerify"},
   discard |-> {"changeVerify", "deleteVerify"},
   write |-> {"reset", "changePassword", "setPassword"},
   rename |-> {"changeEmail", "updateUser", "changeVerify"}, mark |-> {"verify"},
   newLink |-> {"signIn", "forget", "sendVerify", "changeEmail", "deleteUser"},
   revoke |-> Enders, erase |-> {"deleteUser", "deleteVerify"}, unlink |-> LinkOps,
   insert |-> {"signUp", "signIn", "changePassword", "verify"}]

\* The task has read its user.
Met(q) ==
  \/ q.pc \in {"free", "write", "rename", "mark", "newLink", "revoke", "erase", "insert"}
  \/ q.pc = "unlink" /\ q.op # "callback"

\* The task has found its link, which is of the right kind and no longer counts
\* as new.
Shown(q) == q.op \in LinkOps /\ q.pc \notin {"idle", "byLink", "discard"}
Used(q) == \/ q.op = "reset" /\ q.pc = "revoke"
           \/ q.op = "verify" /\ q.pc = "insert"

\* The task has ended the sessions its user had when it began.
Revoked(q) == \/ q.op = "changePassword" /\ q.pc = "insert"
              \/ q.op \in {"deleteUser", "deleteVerify"} /\ q.pc \in {"erase", "unlink"}

\* Addresses only change by a link mailed to the new one.
ProvesFirst == ConfirmEmail /\ ~CoreFirst

\* What a task brings along, and what it presents.
Brings(q) ==
  /\ q.op \in Stops[q.pc] /\ ~q.ok
  /\ q.op = "updateUser" => CoreFirst
  /\ q.op \in MailOps \cup {"changeEmail", "updateUser"} => q.email \in Emails
  /\ q.op \in UserOps => q.token \in issued
  /\ IF q.op \in LinkOps THEN q.link \in Drawn ELSE q.link = None

\* What it has learnt on its way.
Learnt(q) ==
  /\ Met(q) => q.user \in born
  /\ q.pc = "newLink" /\ q.op # "changeEmail" => q.to \in Emails
  /\ Shown(q) => Fits(q.op, links[q.link]) /\ links[q.link].to \in proven
  /\ Used(q) => q.link \notin stored
  /\ q.op = "deleteVerify" /\ Met(q) => links[q.link].user = q.user
  /\ q.op = "deleteUser" /\ q.pc \in {"revoke", "erase"} => AtOnce(q)
  /\ q.op = "changeEmail" /\ q.pc = "rename" => AtOnce(q)
  /\ ProvesFirst /\ q.pc = "mark" /\ users[q.user] # None =>
       users[q.user].email \in proven

\* What must not reach an answer stays behind: links that were spent or expired
\* when they were presented, and sessions that are to end.
Barred(q) ==
  /\ q.late => q.pc = "byLink" /\ q.link \in spent
  /\ q.stale /\ Adapter # "d1" => q.pc = "byLink" /\ q.link \in lapsed
  /\ q.alive \subseteq issued
  /\ Revoked(q) => \A t \in q.alive : sessions[t] # q.user

Carries(q) == /\ q.pc # "idle" => Brings(q) /\ Learnt(q)
              /\ Barred(q)

\* The rows, the index and what is remembered of them.
UsersFine ==
  /\ users \in [Users -> User \cup {None}]
  /\ byEmail \in [Emails -> Users \cup {None}]
  /\ \A e \in Emails : byEmail[e] # None =>
       users[byEmail[e]] # None /\ users[byEmail[e]].email = e
  /\ born \subseteq Users /\ proven \subseteq Emails
  /\ \A u \in Users : users[u] # None => u \in born
  /\ ProvesFirst => VerifiedProven

SessionsFine ==
  /\ sessions \in [Tokens -> Users \cup {None}]
  /\ issued \subseteq Tokens
  /\ \A t \in Tokens : sessions[t] # None => t \in issued

\* A link by which a request was answered is in the table no more.
LinksFine ==
  /\ links \in [Links -> Link \cup {None}]
  /\ stored \subseteq Drawn /\ lapsed \subseteq Drawn /\ spent \subseteq Drawn
  /\ spent \cap stored = {}
  /\ \A k \in Drawn : links[k].kind # "delete" => links[k].to = links[k].email

AccountsInv ==
  /\ menu \in Menus
  /\ UsersFine /\ SessionsFine /\ LinksFine
  /\ reqs \in [Requests -> Task]
  /\ \A r \in Requests : Carries(reqs[r])
=============================================================================
