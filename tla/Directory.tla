------------------------------ MODULE Directory ------------------------------
(***************************************************************************)
(* The tables that OAuth sign-in, account management and administration     *)
(* share: users, the accounts linked to them, and sessions, with the        *)
(* statements of the adapters on them and the tasks that execute them.      *)
(*                                                                         *)
(* OAuth and Admin extend this module; their actions are one statement each *)
(* and interleave.  Ids are never drawn twice.  Names, metadata, hashes,    *)
(* e-mail verification, the reason and the length of a ban and the expiry   *)
(* of sessions are left out; a session is looked up, with its user, in one  *)
(* step (Sessions has the steps).  X_y before X is a plausible bug in X.         *)
(***************************************************************************)
EXTENDS Naturals, FiniteSets

CONSTANTS
  Users, Emails, Accounts, Tokens, None,
  Providers, Credential,   \* OAuth providers, and the provider of passwords
  Subjects,                \* account ids at the providers
  States,                  \* OAuth state values
  Requests,                \* the tasks that may be in flight at once
  Menus,                   \* sets of endpoints; the clients call those of one
  Constraints,             \* the database has the unique and foreign keys of
                           \* the migrations (SQLx, D1); the memory adapter
                           \* has only the index of e-mail addresses
  FirstUsers, FirstAccounts, FirstSessions   \* the tables at the start

User == [email : Emails, role : {"user", "admin"}, banned : BOOLEAN, pass : BOOLEAN]
\* grant: whose access and refresh tokens the account holds.
Account == [user : Users, provider : Providers \cup {Credential},
            subject : Subjects \cup Users, grant : Subjects \cup {None}]
Session == [user : Users, by : Users \cup {None}]   \* by: impersonated_by

ASSUME DirectoryAssumption ==
  /\ FirstUsers \in [Users -> User \cup {None}]
  /\ FirstAccounts \in [Accounts -> Account \cup {None}]
  /\ FirstSessions \in [Tokens -> Session \cup {None}]
  /\ Credential \notin Providers /\ Constraints \in BOOLEAN
  /\ None \notin User \cup Account \cup Session \cup Subjects \cup Users \cup Providers

VARIABLES
  menu,       \* the endpoints called
  users, accounts, sessions,   \* id -> row or None
  drawn,      \* the ids handed out
  reqs,       \* the state of every task
  ended,      \* history: the sessions that an answered request has ended
  removed     \* history: the users that an answered request has removed

tables == <<users, accounts, sessions, drawn>>
past == <<menu, ended, removed>>

\* What a task keeps between two statements.  key is the state, the session or
\* the account it deals with; doomed, the sessions its user had at first.
Idle == [pc |-> "idle", op |-> "none", caller |-> None, user |-> None,
         provider |-> None, subject |-> None, key |-> None, email |-> None,
         role |-> "user", pass |-> FALSE, rest |-> {}, doomed |-> {}]

Free(r) == reqs[r] = Idle
Called(r, op) == reqs[r] = Idle /\ op \in menu
At(r, pc) == reqs[r].pc = pc
Go(r, task) == reqs' = [reqs EXCEPT ![r] = task]
GoOn(r, pc) == reqs' = [reqs EXCEPT ![r].pc = pc]
Done(r) == reqs' = [reqs EXCEPT ![r] = Idle]

DirectoryInit ==
  /\ menu \in Menus
  /\ users = FirstUsers /\ accounts = FirstAccounts /\ sessions = FirstSessions
  /\ drawn = {u \in Users : users[u] # None} \cup {a \in Accounts : accounts[a] # None}
             \cup {t \in Tokens : sessions[t] # None}
  /\ reqs = [r \in Requests |-> Idle]
  /\ ended = {} /\ removed = {}

\* A statement fails, the provider refuses or does not answer, or the client
\* goes away and its task is dropped at an await.
Abandon(r) ==
  /\ ~Free(r)
  /\ Done(r)
  /\ UNCHANGED <<tables, past>>

Exists(u) == u # None /\ users[u] # None
Taken(e) == {u \in Users : users[u] # None /\ users[u].email = e}
Linked_any_subject(p, x) == {a \in Accounts : accounts[a] # None /\ accounts[a].provider = p}
Linked(p, x) == {a \in Accounts : /\ accounts[a] # None
                                  /\ accounts[a].provider = p
                                  /\ accounts[a].subject = x}
AccountsOf(u) == {a \in Accounts : accounts[a] # None /\ accounts[a].user = u}
SessionsOf(u) == {t \in Tokens : sessions[t] # None /\ sessions[t].user = u}
Caller(t) == IF sessions[t] = None THEN None ELSE sessions[t].user

Fresh(ids) == CHOOSE id \in ids : id \notin drawn

\* INSERT INTO users; the unique e-mail address is the caller's guard.
InsertUser(row) ==
  /\ users' = [users EXCEPT ![Fresh(Users)] = row]
  /\ drawn' = drawn \cup {Fresh(Users)}
  /\ UNCHANGED <<accounts, sessions>>

\* INSERT INTO accounts, for a user that exists and a new identity.
CanLink(u, p, x) == Constraints => Exists(u) /\ Linked(p, x) = {}
InsertAccount(row) ==
  /\ Accounts \ drawn # {}
  /\ accounts' = [accounts EXCEPT ![Fresh(Accounts)] = row]
  /\ drawn' = drawn \cup {Fresh(Accounts)}
  /\ UNCHANGED <<users, sessions>>

\* INSERT INTO sessions, for a user that exists.
CanOpen_unconstrained(u) == TRUE
CanOpen(u) == Constraints => Exists(u)
InsertSession(row) ==
  /\ Tokens \ drawn # {}
  /\ sessions' = [sessions EXCEPT ![Fresh(Tokens)] = row]
  /\ drawn' = drawn \cup {Fresh(Tokens)}
  /\ UNCHANGED <<users, accounts>>

EndSessions(ts) ==
  /\ sessions' = [t \in Tokens |-> IF t \in ts THEN None ELSE sessions[t]]
  /\ UNCHANGED <<users, accounts, drawn>>

RemoveAccount(a) ==
  /\ accounts' = [accounts EXCEPT ![a] = None]
  /\ UNCHANGED <<users, sessions, drawn>>

\* DELETE FROM users; the foreign keys take the user's rows along.
RemoveUser(u) ==
  /\ users' = [users EXCEPT ![u] = None]
  /\ accounts' = [a \in Accounts |-> IF Constraints /\ a \in AccountsOf(u)
                                     THEN None ELSE accounts[a]]
  /\ sessions' = [t \in Tokens |-> IF Constraints /\ t \in SessionsOf(u)
                                   THEN None ELSE sessions[t]]
  /\ UNCHANGED drawn
=============================================================================
