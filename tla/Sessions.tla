------------------------------ MODULE Sessions ------------------------------
(***************************************************************************)
(* Database-backed sessions: the SessionManager of crates/core, the        *)
(* session-management endpoints of crates/api, account deletion, and the   *)
(* session statements of the database adapters.                            *)
(*                                                                         *)
(* A request is a task that interleaves with the others at every database  *)
(* await: each action below is one statement, or the synchronous code that *)
(* follows it.  Requests share nothing but the database and the clock.     *)
(*                                                                         *)
(* An operator named X_y before X is a plausible bug in X: X is what the   *)
(* code does, X_y what a run must be able to tell from it.                 *)
(***************************************************************************)
EXTENDS Naturals

CONSTANTS
  Users,          \* the accounts that exist at the start
  Tokens,         \* the session tokens the generator can return
  Requests,       \* the tasks that may be in flight at once
  None,           \* Rust's Option::None
  Ops,            \* the operations callers use, a subset of AllOps
  ExpiresIn,      \* config.session.expires_in
  UpdateAge,      \* config.session.update_age; 0 stands for None too, which
                  \* refreshes on every access
  RefreshOff,     \* config.session.disable_session_refresh
  SweepAtExpiry,  \* delete_expired_sessions removes a row with expires_at = now
                  \* (memory and D1 adapters do, SQLx does not)
  DbFails,        \* a database statement may fail (and then has no effect)
  MaxTime         \* bound: the clock stops here

\* Operations that authenticate their caller with require_session first; "get"
\* stands for the two that only read, get-session and list-sessions.
AuthOps == {"get", "signOut", "revoke", "revokeAll", "revokeOthers", "delete"}
\* Operations of SessionManager that an application (or the admin plugin)
\* calls directly.
ManagerOps == {"mgrRevoke", "mgrRevokeAll", "mgrRevokeOthers"}
AllOps == AuthOps \cup ManagerOps \cup {"signIn"}

ASSUME ConstantsAssumption ==
  /\ ExpiresIn \in Nat /\ UpdateAge \in Nat /\ MaxTime \in Nat
  /\ RefreshOff \in BOOLEAN /\ SweepAtExpiry \in BOOLEAN /\ DbFails \in BOOLEAN
  /\ Ops \subseteq AllOps
  /\ None \notin Users /\ None \notin Tokens

VARIABLES
  now,       \* config.runtime.clock
  users,     \* the rows of the users table
  sessions,  \* the sessions table: token -> row, None where there is no row
  issued,    \* the tokens that have been inserted so far
  reqs       \* the state of every task

vars == <<now, users, sessions, issued, reqs>>

-----------------------------------------------------------------------------
(* Data.                                                                   *)

Session == [user : Users, expires : Nat, updated : Nat]

\* No row is no session.
ASSUME NoneAssumption == None \notin Session

\* get_session's rule: a row is still good at its very expiry.
Expired(row) == row.expires < now

\* The sweep's rule.
Swept(row) == IF SweepAtExpiry THEN row.expires <= now ELSE row.expires < now

Stale(row) == ~RefreshOff /\ now - row.updated >= UpdateAge

Live == {t \in Tokens : sessions[t] # None}

\* Bug: "all sessions" leaves out those that look expired.
SessionsOf_Unexpired(u) ==
  {t \in Live : sessions[t].user = u /\ sessions[t].expires > now}
SessionsOf(u) == {t \in Live : sessions[t].user = u}

Without(T) == [t \in Tokens |-> IF t \in T THEN None ELSE sessions[t]]

\* A task.  call says which get_session it is in: its own authentication,
\* the ownership check of revoke-session, the existence check of
\* SessionManager::revoke_session.  alive and people are history: the
\* sessions and the users there were when the task began.
Pcs == {"idle", "read", "judge", "purge", "update", "reread", "user", "act",
        "loop", "drop", "insert", "closed"}
Results == {"none", "ok", "unauthenticated", "forbidden", "absent", "error"}
Request == [pc : Pcs, op : AllOps, call : {"auth", "owner", "exists"},
            user : Users \cup {None}, token : Tokens \cup {None},
            target : Tokens \cup {None}, held : Session \cup {None},
            bump : Nat, todo : SUBSET Tokens, result : Results,
            alive : SUBSET Tokens, people : SUBSET Users]

Task(pc, op, call, u, t, x, bump) ==
  [pc |-> pc, op |-> op, call |-> call, user |-> u, token |-> t, target |-> x,
   held |-> None, bump |-> bump, todo |-> {}, result |-> "none",
   alive |-> Live, people |-> users]

Close(q, res) ==
  [q EXCEPT !.pc = "closed", !.result = res, !.held = None, !.bump = 0]

\* The token the current get_session is about.
Subject(q) == IF q.call = "auth" THEN q.token ELSE q.target

\* Bug: revoke-session does not compare the owners.
Given_AnyOwner(q, row) ==
  CASE q.call = "auth" /\ row = None -> Close(q, "unauthenticated")
    [] q.call = "auth" /\ row # None -> [q EXCEPT !.pc = "user", !.held = row]
    [] q.call = "exists" /\ row = None -> Close(q, "absent")
    [] OTHER -> [q EXCEPT !.pc = "act", !.bump = 0,
                          !.held = IF row = None THEN @ ELSE None]

\* The task after its get_session has returned row (None for no session).  An
\* expired row that was read stays in held, as history.
Given(q, row) ==
  CASE q.call = "auth" /\ row = None -> Close(q, "unauthenticated")
    [] q.call = "auth" /\ row # None -> [q EXCEPT !.pc = "user", !.held = row]
    [] q.call = "owner" /\ row # None /\ row.user # q.user -> Close(q, "forbidden")
    [] q.call = "exists" /\ row = None -> Close(q, "absent")
    [] OTHER -> [q EXCEPT !.pc = "act", !.bump = 0,
                          !.held = IF row = None THEN @ ELSE None]

Become(r, q) == reqs' = [reqs EXCEPT ![r] = q]

At(r, pc) == reqs[r].pc = pc

\* The tokens of the sign-ins whose insert is under way.
Drawn == {reqs[r].token : r \in {x \in Requests : At(x, "insert")}}

Init ==
  /\ now = 0
  /\ users = Users
  /\ sessions = [t \in Tokens |-> None]
  /\ issued = {}
  /\ reqs = [r \in Requests |->
       [pc |-> "idle", op |-> "get", call |-> "auth", user |-> None,
        token |-> None, target |-> None, held |-> None, bump |-> 0,
        todo |-> {}, result |-> "none", alive |-> {}, people |-> {}]]

-----------------------------------------------------------------------------
(* A caller begins an operation in a free slot.                            *)

Free(r) == reqs[r].pc \in {"idle", "closed"}

\* An endpoint behind require_session, called with a token a client holds.
\* (A request with no token, or one never issued, is turned away as one
\* whose session is gone is.)
Ask(r) ==
  /\ Free(r)
  /\ \E op \in Ops \cap AuthOps, t \in issued, x \in issued \cup {None} :
       /\ (x # None) <=> (op = "revoke")
       /\ Become(r, Task("read", op, "auth", None, t, x, 0))
  /\ UNCHANGED <<now, users, sessions, issued>>

\* SessionManager::revoke_session reads the session first; the other two
\* go straight to their statement.
AskManager(r) ==
  /\ Free(r)
  /\ \/ /\ "mgrRevoke" \in Ops
        /\ \E x \in issued :
             Become(r, Task("read", "mgrRevoke", "exists", None, None, x, 0))
     \/ /\ "mgrRevokeAll" \in Ops
        /\ \E u \in Users :
             Become(r, Task("act", "mgrRevokeAll", "auth", u, None, None, 0))
     \/ /\ "mgrRevokeOthers" \in Ops
        /\ \E u \in Users, t \in issued :
             Become(r, Task("act", "mgrRevokeOthers", "auth", u, t, None, 0))
  /\ UNCHANGED <<now, users, sessions, issued>>

\* A sign-in has loaded its user and proved its credentials (external);
\* create_session samples the clock, draws a token no other call has drawn
\* and awaits the insert.
AskSignIn(r) ==
  /\ Free(r)
  /\ "signIn" \in Ops
  /\ \E u \in users, t \in Tokens \ (issued \cup Drawn) :
       Become(r, Task("insert", "signIn", "auth", u, t, None, now + ExpiresIn))
  /\ UNCHANGED <<now, users, sessions, issued>>

-----------------------------------------------------------------------------
(* SessionManager::get_session.                                            *)

ReadSession(r) ==
  /\ At(r, "read")
  /\ LET row == sessions[Subject(reqs[r])] IN
       IF row = None THEN Become(r, Given(reqs[r], None))
       ELSE Become(r, [reqs[r] EXCEPT !.pc = "judge", !.held = row])
  /\ UNCHANGED <<now, users, sessions, issued>>

\* The clock is sampled after the read has returned.
Judge(r) ==
  /\ At(r, "judge")
  /\ LET row == reqs[r].held IN
       \/ /\ Expired(row)
          /\ Become(r, [reqs[r] EXCEPT !.pc = "purge"])
       \/ /\ ~Expired(row) /\ Stale(row)
          /\ Become(r, [reqs[r] EXCEPT !.pc = "update", !.bump = now + ExpiresIn])
       \/ /\ ~Expired(row) /\ ~Stale(row)
          /\ Become(r, Given(reqs[r], row))
  /\ UNCHANGED <<now, users, sessions, issued>>

\* Best-effort delete of an expired session: a failure is only logged.
Purge(r) ==
  /\ At(r, "purge")
  /\ \/ sessions' = Without({Subject(reqs[r])})
     \/ DbFails /\ sessions' = sessions
  /\ Become(r, Given(reqs[r], None))
  /\ UNCHANGED <<now, users, issued>>

\* Bug: the refresh writes the row whether it is there or not.
Refreshed_Upsert(q) ==
  [sessions EXCEPT ![Subject(q)] =
     [user |-> q.held.user, expires |-> q.bump, updated |-> now]]
\* Bug: the refresh leaves updated_at as it was.
Refreshed_SameAge(q) ==
  [t \in Tokens |-> IF t = Subject(q) /\ t \in Live
                    THEN [sessions[t] EXCEPT !.expires = q.bump]
                    ELSE sessions[t]]
\* update_session_expiry touches the row with this token if there is one.
Refreshed(q) ==
  [t \in Tokens |-> IF t = Subject(q) /\ t \in Live
                    THEN [sessions[t] EXCEPT !.expires = q.bump, !.updated = now]
                    ELSE sessions[t]]

\* On a failure the session read before is used.
UpdateExpiry(r) ==
  /\ At(r, "update")
  /\ \/ /\ sessions' = Refreshed(reqs[r])
        /\ Become(r, [reqs[r] EXCEPT !.pc = "reread"])
     \/ /\ DbFails
        /\ UNCHANGED sessions
        /\ Become(r, Given(reqs[r], reqs[r].held))
  /\ UNCHANGED <<now, users, issued>>

\* Bug: a re-read that finds nothing is tried again.
ReRead_Insists(r) ==
  /\ At(r, "reread")
  /\ LET row == sessions[Subject(reqs[r])] IN
       row # None /\ Become(r, Given(reqs[r], row))
  /\ UNCHANGED <<now, users, sessions, issued>>

\* The row after the refresh, or the one before it when the re-read finds
\* nothing or fails.
ReRead(r) ==
  /\ At(r, "reread")
  /\ LET row == sessions[Subject(reqs[r])] IN
       \/ row # None /\ Become(r, Given(reqs[r], row))
       \/ (row = None \/ DbFails) /\ Become(r, Given(reqs[r], reqs[r].held))
  /\ UNCHANGED <<now, users, sessions, issued>>

\* Bug: require_session trusts the user id in the session.
UserGone_Trusts(q) == FALSE
UserGone(q) == q.held.user \notin users

\* require_session: the user of the session must still exist.
LoadUser(r) ==
  /\ At(r, "user")
  /\ LET q == reqs[r]
         known == [q EXCEPT !.user = q.held.user, !.held = None, !.bump = 0]
     IN \/ /\ UserGone(q)
           /\ Become(r, Close(q, "unauthenticated"))
        \/ /\ ~UserGone(q)
           /\ Become(r, CASE q.op = "get" -> Close(known, "ok")
                          [] q.op = "revoke" ->
                               [known EXCEPT !.pc = "read", !.call = "owner"]
                          [] OTHER -> [known EXCEPT !.pc = "act"])
  /\ UNCHANGED <<now, users, sessions, issued>>

-----------------------------------------------------------------------------
(* The operations.                                                         *)

\* The token whose row goes.
Doomed(q) == IF q.op = "signOut" THEN q.token ELSE q.target

\* sign_out_core, the end of revoke_session_core, SessionManager::revoke_session.
DeleteOne(r) ==
  /\ At(r, "act")
  /\ reqs[r].op \in {"signOut", "revoke", "mgrRevoke"}
  /\ sessions' = Without({Doomed(reqs[r])})
  /\ Become(r, Close(reqs[r], "ok"))
  /\ UNCHANGED <<now, users, issued>>

\* delete_user_sessions; account deletion goes on to the user's row.
DeleteAll(r) ==
  /\ At(r, "act")
  /\ reqs[r].op \in {"revokeAll", "delete", "mgrRevokeAll"}
  /\ sessions' = Without(SessionsOf(reqs[r].user))
  /\ Become(r, IF reqs[r].op = "delete" THEN [reqs[r] EXCEPT !.pc = "drop"]
                                        ELSE Close(reqs[r], "ok"))
  /\ UNCHANGED <<now, users, issued>>

DeleteUser(r) ==
  /\ At(r, "drop")
  /\ users' = users \ {reqs[r].user}
  /\ Become(r, Close(reqs[r], "ok"))
  /\ UNCHANGED <<now, sessions, issued>>

\* revoke_other_sessions_core takes every session of the user;
\* SessionManager's variant leaves out those it holds to be expired.
ListOthers(r) ==
  /\ At(r, "act")
  /\ LET q == reqs[r]
         others == SessionsOf(q.user) \ {q.token}
     IN \/ /\ q.op = "revokeOthers"
           /\ Become(r, [q EXCEPT !.pc = "loop", !.todo = others])
        \/ /\ q.op = "mgrRevokeOthers"
           /\ Become(r, [q EXCEPT !.pc = "loop",
                           !.todo = {t \in others : sessions[t].expires > now}])
  /\ UNCHANGED <<now, users, sessions, issued>>

\* ... and then deletes them one await at a time.
DeleteNext(r) ==
  /\ At(r, "loop")
  /\ \E t \in reqs[r].todo :
       /\ sessions' = Without({t})
       /\ Become(r, [reqs[r] EXCEPT !.todo = @ \ {t}])
  /\ UNCHANGED <<now, users, issued>>

EndLoop(r) ==
  /\ At(r, "loop")
  /\ reqs[r].todo = {}
  /\ Become(r, Close(reqs[r], "ok"))
  /\ UNCHANGED <<now, users, sessions, issued>>

\* Bug: a session with no expiry.
NewRow_Eternal(q) == [user |-> q.user, expires |-> None, updated |-> q.bump - ExpiresIn]
\* created_at and expires_at come from one reading of the clock.
NewRow(q) == [user |-> q.user, expires |-> q.bump, updated |-> q.bump - ExpiresIn]

\* The insert of create_session.  Nothing checks that the user is still there.
Insert(r) ==
  /\ At(r, "insert")
  /\ sessions' = [sessions EXCEPT ![reqs[r].token] = NewRow(reqs[r])]
  /\ issued' = issued \cup {reqs[r].token}
  /\ Become(r, Close(reqs[r], "ok"))
  /\ UNCHANGED <<now, users>>

\* A failing statement whose error goes to the caller with `?`.
Fail(r) ==
  /\ DbFails
  /\ \/ reqs[r].pc \in {"read", "user", "act", "drop", "insert"}
     \/ At(r, "loop") /\ reqs[r].todo # {}
  /\ Become(r, Close(reqs[r], "error"))
  /\ UNCHANGED <<now, users, sessions, issued>>

-----------------------------------------------------------------------------

\* delete_expired_sessions, whenever the application calls the cleanup.
Sweep ==
  /\ sessions' = Without({t \in Live : Swept(sessions[t])})
  /\ UNCHANGED <<now, users, issued, reqs>>

Tick ==
  /\ now < MaxTime
  /\ now' = now + 1
  /\ UNCHANGED <<users, sessions, issued, reqs>>

GetSession(r) == \/ ReadSession(r) \/ Judge(r) \/ Purge(r)
                 \/ UpdateExpiry(r) \/ ReRead(r)

Operate(r) == \/ DeleteOne(r) \/ DeleteAll(r) \/ DeleteUser(r)
              \/ ListOthers(r) \/ DeleteNext(r) \/ EndLoop(r) \/ Insert(r)

Step(r) == GetSession(r) \/ LoadUser(r) \/ Operate(r) \/ Fail(r)

Next == \/ \E r \in Requests : Ask(r) \/ AskManager(r) \/ AskSignIn(r) \/ Step(r)
        \/ Sweep
        \/ Tick

Spec == Init /\ [][Next]_vars

\* The runtime polls every task it has started and every statement returns.
\* Nothing makes a client ask, an application sweep, or the clock reach a
\* given instant.
FairSpec == Spec /\ \A r \in Requests : WF_vars(Step(r))

-----------------------------------------------------------------------------
(* Properties.                                                             *)

\* Every variable holds a value of its type, and only tokens that were
\* inserted have rows.
TypeOK ==
  /\ now \in 0..MaxTime
  /\ users \subseteq Users
  /\ issued \subseteq Tokens
  /\ sessions \in [Tokens -> Session \cup {None}]
  /\ Live \subseteq issued
  /\ reqs \in [Requests -> Request]

\* An endpoint got past require_session.
Granted(r) == reqs[r].op \in AuthOps /\ reqs[r].user # None

\* The session of a task's user that it must leave alone, if any.
Spared(q) == IF q.op \in {"revokeOthers", "mgrRevokeOthers"} THEN {q.token} ELSE {}

\* What a task that answered with success has revoked is not there.
Gone(q) ==
  q.result = "ok" =>
    /\ q.op = "signOut" => sessions[q.token] = None
    /\ q.op \in {"revoke", "mgrRevoke"} => sessions[q.target] = None
    /\ q.op \in {"revokeAll", "revokeOthers", "delete", "mgrRevokeAll"} =>
         \A t \in q.alive \ Spared(q) :
           sessions[t] # None => sessions[t].user # q.user

\* Sign-out, revoke-session, revoke-sessions, revoke-other-sessions, account
\* deletion and SessionManager::revoke_session / revoke_all_user_sessions:
\* once one of them has answered with success, none of the sessions it is
\* about that existed when it began is in the database, however the
\* refreshes, sign-ins and deletions of other tasks fell between its awaits.
RevokedMeansGone == \A r \in Requests : Gone(reqs[r])

\* A sign-in that raced an account deletion leaves a session without a user:
\* no endpoint accepts it once the user is gone.
DeletedUserStaysOut ==
  \A r \in Requests : Granted(r) => reqs[r].user \in reqs[r].people

\* Whatever refreshes cross each other, a session nobody has refreshed for
\* expires_in has run out: get_session and the sweep rely on expires_at alone.
IdleTimeout ==
  \A t \in Live : /\ sessions[t].updated <= now
                  /\ sessions[t].expires <= sessions[t].updated + ExpiresIn

\* q has read the session of token t, and it had expired.
FoundExpired(q, t) ==
  q.pc \in {"purge", "act"} /\ q.held # None /\ Subject(q) = t /\ Expired(q.held)

\* Why a session may leave the database in a step.
EndedByRight ==
  \A t \in Live :
    sessions'[t] = None =>
      \/ sessions[t].expires <= now
      \/ \E r \in Requests :
           /\ reqs[r] # reqs'[r]
           /\ \/ FoundExpired(reqs[r], t)
              \/ reqs[r].pc # "purge" /\ reqs[r].op \in ManagerOps
              \/ reqs[r].pc # "purge" /\ reqs[r].user = sessions[t].user

\* A session leaves the database because its user, or the application through
\* SessionManager, asked for it, or because it has expired, at the latest when
\* the task that deletes it read it: neither get_session nor revoke-session,
\* given another user's token, ends a session it has seen to be good.
OwnerOnly == [][EndedByRight]_vars

\* Every task is answered: no path through get_session or a revocation loop
\* waits for something another task has taken away.
Answered == \A r \in Requests : ~Free(r) ~> Free(r)

-----------------------------------------------------------------------------
(* What RevokedMeansGone and IdleTimeout rest on.                          *)

Looking == {"read", "judge", "purge", "update", "reread"}
Holding == {"judge", "purge", "update", "reread", "user"}

\* What a task at each place has already established.
Placed(q) ==
  /\ q.alive \subseteq issued
  /\ q.pc \in Looking => Subject(q) \in issued
  /\ q.pc \in Holding => q.held \in Session
  /\ q.pc = "user" => q.call = "auth"
  /\ q.op = "revoke" /\ q.pc # "idle" => q.target \in issued
  /\ q.op \in AuthOps /\ q.pc # "idle" => q.token \in issued
  /\ q.op = "mgrRevoke" => q.target \in issued
  /\ q.pc = "loop" => q.op \in {"revokeOthers", "mgrRevokeOthers"}
  /\ q.pc = "drop" => q.op = "delete"
  /\ q.pc = "insert" => /\ q.op = "signIn"
                        /\ q.user \in Users
                        /\ q.token \in Tokens \ issued
                        /\ ExpiresIn <= q.bump
  /\ q.pc \in {"update", "insert"} => q.bump <= now + ExpiresIn
  /\ q.pc # "closed" => q.result = "none"

\* No two sign-ins insert under one token.
DrawnOnce == \A r, s \in Requests :
  r # s /\ At(r, "insert") /\ At(s, "insert") => reqs[r].token # reqs[s].token

\* A revocation on its way has left only what it still means to delete.
OnItsWay(q) ==
  /\ q.pc = "loop" /\ q.op = "revokeOthers" =>
       \A t \in q.alive \ {q.token} :
         sessions[t] # None => sessions[t].user # q.user \/ t \in q.todo
  /\ q.pc = "drop" =>
       \A t \in q.alive : sessions[t] # None => sessions[t].user # q.user

\* A step neither brings back a token that was used nor changes its owner.
NoReturn == \A t \in issued :
  sessions'[t] # None => /\ sessions[t] # None
                         /\ sessions'[t].user = sessions[t].user

\* The inductive invariant: tasks are where their past put them, tokens are
\* drawn once, and revocations have done what they have done.
IInv ==
  /\ TypeOK
  /\ \A r \in Requests : Placed(reqs[r])
  /\ DrawnOnce
  /\ \A r \in Requests : OnItsWay(reqs[r])
  /\ RevokedMeansGone
  /\ IdleTimeout

-----------------------------------------------------------------------------
(* What DeletedUserStaysOut, OwnerOnly and KeepsPromise rest on.            *)

\* The sessions of the tokens in T that are there belong to u.
Owns(u, T) == \A t \in T : sessions[t] # None => sessions[t].user = u

\* What stays true of a task once it has begun: nobody joins the users it
\* knows, a token that had ended then is still ended, and a token keeps its
\* owner.
Remembers(q) ==
  /\ q.pc # "idle" => users \subseteq q.people
  /\ q.op \in AuthOps /\ q.pc # "idle" =>
       \/ sessions[q.token] = None
       \/ q.token \in q.alive
  /\ q.op \in AuthOps /\ q.user # None =>
       /\ q.pc # "idle"
       /\ q.user \in q.people /\ q.token \in q.alive
       /\ Owns(q.user, {q.token})

\* What a task has learnt at its place of its token and its target.
Learnt(q) ==
  /\ q.op \in AuthOps /\ q.pc \in {"act", "loop", "drop"} => q.user # None
  /\ q.pc \in Looking \cup {"user"} =>
       /\ q.call = "auth" => q.op \in AuthOps
       /\ q.call = "owner" => q.op = "revoke" /\ q.user # None
       /\ q.call = "exists" => q.op = "mgrRevoke"
  /\ q.pc = "read" => q.held = None
  /\ q.pc \in Holding =>
       /\ Owns(q.held.user, {Subject(q)})
       /\ q.call = "auth" => q.token \in q.alive
  /\ q.pc = "purge" => Expired(q.held)
  /\ q.pc = "act" /\ q.op = "revoke" =>
       /\ q.call = "owner"
       /\ \/ q.held # None /\ Expired(q.held)
          \/ Owns(q.user, {q.target})
  /\ q.pc = "loop" => /\ q.todo \subseteq issued
                      /\ q.op = "revokeOthers" => Owns(q.user, q.todo)

\* The inductive invariant behind the three.
KInv == IInv /\ \A r \in Requests : Remembers(reqs[r]) /\ Learnt(reqs[r])

-----------------------------------------------------------------------------
(* The session layer keeps SessionLife's promise: a token lives from its    *)
(* insert to the first delete that reaches it, and a request that asks      *)
(* after that is not granted.                                               *)

lifeOf == [t \in Tokens |-> CASE t \notin issued -> "unissued"
                             [] t \in issued /\ sessions[t] = None -> "ended"
                             [] OTHER -> "live"]

\* The question a task asks; it is granted once require_session has named its
\* user.
Asking(q) ==
  IF q.pc = "idle" \/ q.op \notin AuthOps
  THEN [status |-> "quiet", late |-> FALSE]
  ELSE [status |-> IF q.user # None THEN "granted"
                   ELSE IF q.pc = "closed" THEN "refused" ELSE "open",
        late |-> q.token \notin q.alive]

askOf == [r \in Requests |-> Asking(reqs[r])]

Promise == INSTANCE SessionLife WITH life <- lifeOf, asks <- askOf

\* Every behaviour of the code is, through lifeOf and askOf, one of SessionLife.
KeepsPromise == Promise!Spec
=============================================================================
