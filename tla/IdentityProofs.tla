--------------------------- MODULE IdentityProofs ---------------------------
(***************************************************************************)
(* Proofs about OAuth sign-in, account management and administration on one *)
(* directory, for any number of users, accounts, sessions, providers, states *)
(* and tasks, with the foreign keys and without, whatever endpoints are     *)
(* called.                                                                  *)
(***************************************************************************)
EXTENDS Identity, TLAPS

USE DirectoryAssumption, OAuthAssumption, IdentityAssumption

-----------------------------------------------------------------------------
(* Tasks.                                                                   *)

\* Two tasks that differ in their place at most.
Same(q, t) ==
  /\ t.op = q.op /\ t.caller = q.caller /\ t.user = q.user /\ t.provider = q.provider
  /\ t.subject = q.subject /\ t.key = q.key /\ t.email = q.email /\ t.role = q.role
  /\ t.pass = q.pass /\ t.rest = q.rest /\ t.doomed = q.doomed

\* The task r goes on with t, and the other tasks stay where they are.
Moves(r, t) == t \in Task /\ reqs' = [reqs EXCEPT ![r] = t]

LEMMA TaskFacts ==
  ASSUME IdentityInv, NEW r \in Requests
  PROVE  reqs[r] \in Task /\ Carries(reqs[r])
BY DEF IdentityInv

LEMMA FieldFacts ==
  ASSUME NEW q \in Task
  PROVE  /\ q.pc \in Places /\ q.op \in Endpoints
         /\ q.caller \in Users \cup {None} /\ q.user \in Users \cup {None}
         /\ q.provider \in Providers \cup {Credential, None}
         /\ q.subject \in Subjects \cup {None}
         /\ q.key \in States \cup Accounts \cup Tokens \cup {None}
         /\ q.email \in Emails \cup {None} /\ q.role \in {"user", "admin"}
         /\ q.pass \in BOOLEAN /\ q.rest \subseteq Accounts /\ q.doomed \subseteq Tokens
BY DEF Task

LEMMA GoOnFacts ==
  ASSUME IdentityInv, NEW r \in Requests, NEW pc \in Places, GoOn(r, pc)
  PROVE  \E t : Moves(r, t) /\ t.pc = pc /\ Same(reqs[r], t)
<1>1. PICK q \in Task : q = reqs[r]
  BY TaskFacts
<1>2. PICK t : t = [q EXCEPT !.pc = pc]
  OBVIOUS
<1>3. t = [pc |-> pc, op |-> q.op, caller |-> q.caller, user |-> q.user,
           provider |-> q.provider, subject |-> q.subject, key |-> q.key,
           email |-> q.email, role |-> q.role, pass |-> q.pass, rest |-> q.rest,
           doomed |-> q.doomed]
  BY <1>2 DEF Task
<1>4. t \in Task
  BY <1>3, FieldFacts DEF Task
<1>5. reqs' = [reqs EXCEPT ![r] = t]
  BY <1>1, <1>2 DEF GoOn, IdentityInv
<1>6. t.pc = pc /\ Same(q, t)
  BY <1>3 DEF Same
<1> QED  BY <1>1, <1>4, <1>5, <1>6 DEF Moves

LEMMA IdleFacts ==
  Idle \in Task /\ Carries(Idle) /\ Carries(Idle)'
<1>1. Idle \in Task
  <2>1. /\ None \in Users \cup {None} /\ None \in Providers \cup {Credential, None}
        /\ None \in Subjects \cup {None} /\ None \in States \cup Accounts \cup Tokens \cup {None}
        /\ None \in Emails \cup {None}
    OBVIOUS
  <2>2. {} \in SUBSET Accounts /\ {} \in SUBSET Tokens
    OBVIOUS
  <2>3. "idle" \in Places /\ "none" \in Endpoints
    BY DEF Places, Endpoints
  <2>4. "user" \in {"user", "admin"} /\ FALSE \in BOOLEAN
    OBVIOUS
  <2> QED  BY <2>1, <2>2, <2>3, <2>4, Zenon DEF Idle, Task
<1>2. Idle.pc = "idle" /\ Idle.doomed = {}
  BY DEF Idle
<1> QED  BY <1>1, <1>2 DEF Carries

LEMMA DoneFacts ==
  ASSUME NEW r \in Requests, Done(r)
  PROVE  Moves(r, Idle)
BY IdleFacts DEF Done, Moves

-----------------------------------------------------------------------------
(* What holds of a step.                                                    *)

\* Ids are drawn once: a row that is there later has been there since its id was
\* drawn, and belongs to whom it belonged to.  What a user asked for stays asked.
Evolves ==
  /\ drawn \subseteq drawn' /\ drawn' \subseteq Users \cup Accounts \cup Tokens \cup States
  /\ asked \subseteq asked'
  /\ \A u \in Users : founder[u] = None \/ founder'[u] = founder[u]
  /\ \A a \in Accounts \cap drawn : accounts'[a] # None =>
       accounts[a] # None /\ accounts'[a].subject = accounts[a].subject
  /\ \A t \in Tokens \cap drawn : sessions'[t] # None => sessions[t] = sessions'[t]

LEMMA PermittedKept ==
  ASSUME NEW u \in Users, NEW p \in Providers, Permitted(u, p), Evolves
  PROVE  Permitted(u, p)'
BY DEF Permitted, MayLink, Evolves

LEMMA CarriesKept ==
  ASSUME NEW q \in Task, Carries(q), Evolves
  PROVE  Carries(q)'
<1>1. q.doomed \subseteq Tokens
  BY FieldFacts
<1>2. q.pc = "create" => Permitted(q.user, q.provider)'
  BY PermittedKept DEF Carries
<1> QED  BY <1>1, <1>2 DEF Carries, Evolves

LEMMA StepKeeps ==
  ASSUME IdentityInv, NEW r \in Requests, NEW t, Moves(r, t), Carries(t)', Evolves,
         UsersFine', AccountsFine', SessionsFine', StatesFine', RemovalsFine'
  PROVE  IdentityInv'
<1>1. reqs' \in [Requests -> Task]
  BY DEF IdentityInv, Moves
<1>2. ASSUME NEW s \in Requests
      PROVE  Carries(reqs[s])'
  <2>1. PICK x : x = reqs'[s]
    OBVIOUS
  <2>2. Carries(x)'
    <3>1. CASE s = r
      BY <2>1, <3>1 DEF Moves, IdentityInv
    <3>2. CASE s # r
      <4>1. x = reqs[s] /\ x \in Task /\ Carries(x)
        BY <2>1, <3>2, TaskFacts DEF Moves, IdentityInv
      <4> QED  BY <4>1, CarriesKept
    <3> QED  BY <3>1, <3>2
  <2> QED  BY <2>1, <2>2 DEF Carries
<1> QED  BY <1>1, <1>2 DEF IdentityInv, Evolves

LEMMA UsersKept ==
  ASSUME UsersFine, drawn \subseteq drawn', UNCHANGED <<users, founder>>
  PROVE  UsersFine'
BY DEF UsersFine, Taken

LEMMA AccountsKept ==
  ASSUME AccountsFine, Evolves, UNCHANGED accounts
  PROVE  AccountsFine'
<1>1. GrantsMatch'
  BY DEF AccountsFine, GrantsMatch
<1>2. TrustedLinks'
  BY DEF AccountsFine, TrustedLinks, Evolves, Account
<1> QED  BY <1>1, <1>2 DEF AccountsFine, Evolves

LEMMA SessionsKept ==
  ASSUME SessionsFine, drawn \subseteq drawn', UNCHANGED <<sessions, ended>>
  PROVE  SessionsFine'
BY DEF SessionsFine, EndedStay

LEMMA StatesKept ==
  ASSUME StatesFine, drawn \subseteq drawn', UNCHANGED <<states, asked, spent>>
  PROVE  StatesFine'
BY DEF StatesFine

LEMMA RemovalsKept ==
  ASSUME RemovalsFine, drawn \subseteq drawn', UNCHANGED <<users, accounts, sessions, removed>>
  PROVE  RemovalsFine'
BY DEF RemovalsFine, FullyRemoved, Exists, AccountsOf, SessionsOf

LEMMA Parts ==
  ASSUME IdentityInv
  PROVE  /\ UsersFine /\ AccountsFine /\ SessionsFine /\ StatesFine /\ RemovalsFine
         /\ drawn \subseteq Users \cup Accounts \cup Tokens \cup States
         /\ reqs \in [Requests -> Task]
BY DEF IdentityInv

\* The task looks, and changes nothing.
LEMMA QuietKeeps ==
  ASSUME IdentityInv, NEW r \in Requests, NEW t, Moves(r, t), Carries(t),
         UNCHANGED <<tables, past, oauthTables>>
  PROVE  IdentityInv'
<1> USE DEF tables, past, oauthTables
<1>1. Evolves
  BY Parts DEF Evolves
<1>2. Carries(t)'
  BY <1>1, CarriesKept DEF Moves
<1> QED  BY <1>1, <1>2, Parts, StepKeeps, UsersKept, AccountsKept, SessionsKept, StatesKept,
            RemovalsKept

LEMMA QuietDone ==
  ASSUME IdentityInv, NEW r \in Requests, Done(r), UNCHANGED <<tables, past, oauthTables>>
  PROVE  IdentityInv'
BY DoneFacts, IdleFacts, QuietKeeps

LEMMA QuietGoOn ==
  ASSUME IdentityInv, NEW r \in Requests, NEW pc \in Places, GoOn(r, pc),
         \A t : Same(reqs[r], t) /\ t.pc = pc => Carries(t),
         UNCHANGED <<tables, past, oauthTables>>
  PROVE  IdentityInv'
BY GoOnFacts, QuietKeeps

-----------------------------------------------------------------------------
(* The steps of OAuth sign-in and account management that only read.         *)

\* A request begins with a fresh task.
LEMMA BeginFacts ==
  ASSUME NEW pc \in Places, NEW op \in Endpoints, NEW caller \in Users \cup {None},
         NEW user \in Users \cup {None}, NEW provider \in Providers \cup {Credential, None},
         NEW subject \in Subjects \cup {None},
         NEW key \in States \cup Accounts \cup Tokens \cup {None},
         NEW email \in Emails \cup {None}, NEW role \in {"user", "admin"}, NEW pass \in BOOLEAN,
         NEW rest \in SUBSET Accounts, NEW doomed \in SUBSET Tokens
  PROVE  [pc |-> pc, op |-> op, caller |-> caller, user |-> user, provider |-> provider,
          subject |-> subject, key |-> key, email |-> email, role |-> role, pass |-> pass,
          rest |-> rest, doomed |-> doomed] \in Task
BY SMTT(60) DEF Task

\* A task that goes on with what it has read.
LEMMA ChangeFacts ==
  ASSUME NEW q \in Task, NEW pc \in Places, NEW user \in Users \cup {None},
         NEW subject \in Subjects \cup {None},
         NEW key \in States \cup Accounts \cup Tokens \cup {None}
  PROVE  [pc |-> pc, op |-> q.op, caller |-> q.caller, user |-> user,
          provider |-> q.provider, subject |-> subject, key |-> key, email |-> q.email,
          role |-> q.role, pass |-> q.pass, rest |-> q.rest, doomed |-> q.doomed] \in Task
<1>1. PICK rest \in SUBSET Accounts : rest = q.rest
  BY FieldFacts
<1>2. PICK doomed \in SUBSET Tokens : doomed = q.doomed
  BY FieldFacts
<1> QED  BY <1>1, <1>2, FieldFacts, SMTT(60) DEF Task

LEMMA MoveFacts ==
  ASSUME NEW r \in Requests, NEW t \in Task, Go(r, t)
  PROVE  Moves(r, t)
BY DEF Go, Moves

LEMMA CallerFacts ==
  ASSUME IdentityInv, NEW t \in Tokens
  PROVE  /\ Caller(t) \in Users \cup {None}
         /\ Caller(t) # None => sessions[t] \in Session /\ Caller(t) = sessions[t].user
BY Parts DEF Caller, SessionsFine, Session

LEMMA AskSignInKeeps ==
  ASSUME IdentityInv, NEW r \in Requests, NEW p \in Providers, AskSignIn(r, p)
  PROVE  IdentityInv'
<1>1. PICK t : t = [Idle EXCEPT !.op = "signIn", !.pc = "store", !.provider = p]
  OBVIOUS
<1>2. t = [pc |-> "store", op |-> "signIn", caller |-> None, user |-> None,
           provider |-> p, subject |-> None, key |-> None, email |-> None,
           role |-> "user", pass |-> FALSE, rest |-> {}, doomed |-> {}]
  BY <1>1 DEF Idle
<1>3. t \in Task
  BY <1>2, BeginFacts DEF Places, Endpoints
<1>4. Carries(t)
  BY <1>2 DEF Carries
<1>5. Moves(r, t)
  BY <1>1, <1>3, MoveFacts DEF AskSignIn
<1> QED  BY <1>4, <1>5, QuietKeeps DEF AskSignIn

LEMMA AskLinkKeeps ==
  ASSUME IdentityInv, NEW r \in Requests, NEW p \in Providers, NEW k \in Tokens,
         AskLink(r, k, p)
  PROVE  IdentityInv'
<1>0. PICK u \in Users \cup {None} : u = Caller(k)
  BY CallerFacts
<1>1. PICK t : t = [Idle EXCEPT !.op = "link", !.pc = "store", !.provider = p, !.user = u]
  OBVIOUS
<1>2. t = [pc |-> "store", op |-> "link", caller |-> None, user |-> u,
           provider |-> p, subject |-> None, key |-> None, email |-> None,
           role |-> "user", pass |-> FALSE, rest |-> {}, doomed |-> {}]
  BY <1>1 DEF Idle
<1>3. t \in Task
  BY <1>2, BeginFacts, ZenonT(120) DEF Places, Endpoints
<1>4. Carries(t)
  BY <1>2 DEF Carries
<1>5. Moves(r, t)
  BY <1>0, <1>1, <1>3, MoveFacts DEF AskLink
<1> QED  BY <1>4, <1>5, QuietKeeps DEF AskLink

LEMMA AskRefreshKeeps ==
  ASSUME IdentityInv, NEW r \in Requests, NEW p \in Providers, NEW k \in Tokens,
         AskRefresh(r, k, p)
  PROVE  IdentityInv'
<1>0. PICK u \in Users \cup {None} : u = Caller(k)
  BY CallerFacts
<1>1. PICK t : t = [Idle EXCEPT !.op = "refresh", !.pc = "tokens", !.provider = p, !.user = u]
  OBVIOUS
<1>2. t = [pc |-> "tokens", op |-> "refresh", caller |-> None, user |-> u,
           provider |-> p, subject |-> None, key |-> None, email |-> None,
           role |-> "user", pass |-> FALSE, rest |-> {}, doomed |-> {}]
  BY <1>1 DEF Idle
<1>3. t \in Task
  BY <1>2, BeginFacts, ZenonT(120) DEF Places, Endpoints
<1>4. Carries(t)
  BY <1>2 DEF Carries
<1>5. Moves(r, t)
  BY <1>0, <1>1, <1>3, MoveFacts DEF AskRefresh
<1> QED  BY <1>4, <1>5, QuietKeeps DEF AskRefresh

LEMMA AskUnlinkKeeps ==
  ASSUME IdentityInv, NEW r \in Requests, NEW p \in Providers \cup {Credential},
         NEW k \in Tokens, AskUnlink(r, k, p)
  PROVE  IdentityInv'
<1>0. PICK u \in Users : u = Caller(k)
  BY CallerFacts DEF AskUnlink, Exists
<1>1. PICK pass \in BOOLEAN : pass = users[u].pass
  BY <1>0, Parts DEF AskUnlink, Exists, UsersFine, User
<1>2. PICK t : t = [Idle EXCEPT !.op = "unlink", !.pc = "list", !.provider = p,
                                !.user = u, !.pass = pass]
  OBVIOUS
<1>3. t = [pc |-> "list", op |-> "unlink", caller |-> None, user |-> u,
           provider |-> p, subject |-> None, key |-> None, email |-> None,
           role |-> "user", pass |-> pass, rest |-> {}, doomed |-> {}]
  BY <1>2 DEF Idle
<1>4. t \in Task
  <2>1. p \in Providers \cup {Credential, None}
    OBVIOUS
  <2> QED  BY <1>3, <2>1, BeginFacts, ZenonT(120) DEF Places, Endpoints
<1>5. Carries(t)
  BY <1>3 DEF Carries
<1>6. Moves(r, t)
  <2>1. Go(r, t)
    BY <1>0, <1>1, <1>2 DEF AskUnlink
  <2> QED  BY <1>4, <2>1, MoveFacts
<1> QED  BY <1>5, <1>6, QuietKeeps DEF AskUnlink

LEMMA AskCallbackKeeps ==
  ASSUME IdentityInv, NEW r \in Requests, NEW p \in Providers, NEW s \in States,
         NEW x \in Subjects, AskCallback(r, p, s, x)
  PROVE  IdentityInv'
<1>0. /\ states[s].link \in Users \cup {None}
      /\ states[s].link # None => <<states[s].link, p>> \in asked
  BY Parts DEF AskCallback, StatesFine
<1>1. PICK u \in Users \cup {None} : u = states[s].link
  BY <1>0
<1>2. PICK t : t = [Idle EXCEPT !.op = "callback", !.pc = "consume", !.provider = p,
                                !.subject = x, !.key = s, !.user = u]
  OBVIOUS
<1>3. t = [pc |-> "consume", op |-> "callback", caller |-> None, user |-> u,
           provider |-> p, subject |-> x, key |-> s, email |-> None,
           role |-> "user", pass |-> FALSE, rest |-> {}, doomed |-> {}]
  BY <1>2 DEF Idle
<1>4. t \in Task
  BY <1>3, BeginFacts, ZenonT(120) DEF Places, Endpoints
<1>5. Carries(t)
  BY <1>0, <1>1, <1>3 DEF Carries
<1>6. Moves(r, t)
  BY <1>1, <1>2, <1>4, MoveFacts DEF AskCallback
<1> QED  BY <1>5, <1>6, QuietKeeps DEF AskCallback

LEMMA LinkUserKeeps ==
  ASSUME IdentityInv, NEW r \in Requests, LinkUser(r)
  PROVE  IdentityInv'
<1>1. CASE ~Exists(reqs[r].user)
  BY <1>1, QuietDone DEF LinkUser
<1>2. CASE Exists(reqs[r].user)
  <2>1. PICK q \in Task : q = reqs[r] /\ Carries(q) /\ q.pc = "linkUser" /\ q.user \in Users
    BY <1>2, TaskFacts, FieldFacts DEF LinkUser, At, Exists
  <2>2. ASSUME NEW t, Same(q, t), t.pc = "linkCheck"
        PROVE  Carries(t)
    BY <2>1, <2>2 DEF Same, Carries
  <2> QED  BY <1>2, <2>1, <2>2, QuietGoOn DEF LinkUser, Places
<1> QED  BY <1>1, <1>2

LEMMA LinkCheckKeeps ==
  ASSUME IdentityInv, NEW r \in Requests, LinkCheck(r)
  PROVE  IdentityInv'
<1>1. PICK q \in Task : q = reqs[r] /\ Carries(q) /\ q.pc = "linkCheck"
  BY TaskFacts DEF LinkCheck, At
<1>2. ASSUME NEW t, Same(q, t), t.pc = "create"
      PROVE  Carries(t)
  <2>1. Permitted(q.user, q.provider)
    BY <1>1 DEF Carries, Permitted
  <2> QED  BY <1>1, <1>2, <2>1 DEF Same, Carries
<1> QED  BY <1>1, <1>2, QuietGoOn, QuietDone DEF LinkCheck, Places

LEMMA FindKeeps ==
  ASSUME IdentityInv, NEW r \in Requests, Find(r)
  PROVE  IdentityInv'
<1>1. PICK q \in Task : q = reqs[r] /\ Carries(q) /\ q.pc = "find"
  BY TaskFacts DEF Find, At
<1>2. CASE Linked(q.provider, q.subject) = {} /\ GoOn(r, "byEmail")
  <2>1. ASSUME NEW t, Same(q, t), t.pc = "byEmail"
        PROVE  Carries(t)
    BY <1>1, <2>1 DEF Same, Carries
  <2> QED  BY <1>1, <1>2, <2>1, QuietGoOn DEF Find, Places
<1>3. ASSUME NEW a \in Linked(q.provider, q.subject),
             Go(r, [q EXCEPT !.key = a, !.user = accounts[a].user,
                             !.pc = IF UpdateOnSignIn THEN "update" ELSE "user"])
      PROVE  IdentityInv'
  <2>1. /\ a \in Accounts \cap drawn /\ accounts[a] \in Account
        /\ accounts[a].subject = q.subject
    BY <1>3, Parts DEF Linked, AccountsFine
  <2>2. PICK u \in Users : u = accounts[a].user
    BY <2>1 DEF Account
  <2>3. PICK pc \in {"update", "user"} : pc = IF UpdateOnSignIn THEN "update" ELSE "user"
    OBVIOUS
  <2>4. PICK t : t = [q EXCEPT !.key = a, !.user = u, !.pc = pc]
    OBVIOUS
  <2>5. t = [pc |-> pc, op |-> q.op, caller |-> q.caller, user |-> u,
             provider |-> q.provider, subject |-> q.subject, key |-> a,
             email |-> q.email, role |-> q.role, pass |-> q.pass, rest |-> q.rest,
             doomed |-> q.doomed]
    BY <2>4 DEF Task
  <2>6. t \in Task
    <3>1. PICK k \in States \cup Accounts \cup Tokens \cup {None} : k = a
      BY <2>1
    <3>2. q.user \in Users \cup {None} /\ q.subject \in Subjects \cup {None}
      BY FieldFacts
    <3>3. pc \in Places /\ u \in Users \cup {None}
      BY DEF Places
    <3>4. [pc |-> pc, op |-> q.op, caller |-> q.caller, user |-> u,
           provider |-> q.provider, subject |-> q.subject, key |-> k,
           email |-> q.email, role |-> q.role, pass |-> q.pass, rest |-> q.rest,
           doomed |-> q.doomed] \in Task
      BY <3>2, <3>3, ChangeFacts
    <3> QED  BY <2>5, <3>1, <3>4
  <2>7. Carries(t)
    BY <1>1, <2>1, <2>5 DEF Carries
  <2>8. Moves(r, t)
    BY <1>3, <2>2, <2>3, <2>4, <2>6, MoveFacts
  <2> QED  BY <2>7, <2>8, QuietKeeps DEF Find
<1> QED  BY <1>1, <1>2, <1>3 DEF Find

LEMMA ReadUserKeeps ==
  ASSUME IdentityInv, NEW r \in Requests, ReadUser(r)
  PROVE  IdentityInv'
<1>1. CASE ~Exists(reqs[r].user)
  BY <1>1, QuietDone DEF ReadUser
<1>2. CASE Exists(reqs[r].user)
  <2>1. PICK q \in Task : q = reqs[r] /\ Carries(q) /\ q.user \in Users
    BY <1>2, TaskFacts, FieldFacts DEF Exists
  <2>2. ASSUME NEW t, Same(q, t), t.pc = "open"
        PROVE  Carries(t)
    BY <2>1, <2>2 DEF Same, Carries
  <2> QED  BY <1>2, <2>1, <2>2, QuietGoOn DEF ReadUser, Places
<1> QED  BY <1>1, <1>2

LEMMA ByEmailKeeps ==
  ASSUME IdentityInv, NEW r \in Requests, ByEmail(r)
  PROVE  IdentityInv'
<1>1. PICK q \in Task : q = reqs[r] /\ Carries(q) /\ q.pc = "byEmail"
  BY TaskFacts DEF ByEmail, At
<1>2. CASE GoOn(r, "newUser")
  <2>1. ASSUME NEW t, Same(q, t), t.pc = "newUser"
        PROVE  Carries(t)
    BY <1>1, <2>1 DEF Same, Carries
  <2> QED  BY <1>1, <1>2, <2>1, QuietGoOn DEF ByEmail, Places
<1>3. ASSUME NEW u \in Users, MayLink(q.provider),
             Go(r, [q EXCEPT !.user = u, !.pc = "create"])
      PROVE  IdentityInv'
  <2>1. PICK t : t = [q EXCEPT !.user = u, !.pc = "create"]
    OBVIOUS
  <2>2. t = [pc |-> "create", op |-> q.op, caller |-> q.caller, user |-> u,
             provider |-> q.provider, subject |-> q.subject, key |-> q.key,
             email |-> q.email, role |-> q.role, pass |-> q.pass, rest |-> q.rest,
             doomed |-> q.doomed]
    BY <2>1 DEF Task
  <2>3. t \in Task
    BY <2>2, FieldFacts, BeginFacts, ZenonT(120) DEF Places
  <2>4. Carries(t)
    BY <1>1, <1>3, <2>2 DEF Carries, Permitted
  <2>5. Moves(r, t)
    BY <1>3, <2>1, <2>3, MoveFacts
  <2> QED  BY <2>4, <2>5, QuietKeeps DEF ByEmail
<1>4. CASE Done(r)
  BY <1>4, QuietDone DEF ByEmail
<1>5. \A u \in Taken(Mail[q.subject]) : u \in Users
  BY DEF Taken
<1> QED  BY <1>1, <1>2, <1>3, <1>4, <1>5 DEF ByEmail

LEMMA ListKeeps ==
  ASSUME IdentityInv, NEW r \in Requests, List(r)
  PROVE  IdentityInv'
<1>1. PICK q \in Task : q = reqs[r] /\ Carries(q)
  BY TaskFacts
<1>2. ASSUME NEW a \in Accounts, Go(r, [q EXCEPT !.key = a, !.pc = "unlink"])
      PROVE  IdentityInv'
  <2>1. PICK t : t = [q EXCEPT !.key = a, !.pc = "unlink"]
    OBVIOUS
  <2>2. t = [pc |-> "unlink", op |-> q.op, caller |-> q.caller, user |-> q.user,
             provider |-> q.provider, subject |-> q.subject, key |-> a,
             email |-> q.email, role |-> q.role, pass |-> q.pass, rest |-> q.rest,
             doomed |-> q.doomed]
    BY <2>1 DEF Task
  <2>3. t \in Task
    <3>1. PICK k \in States \cup Accounts \cup Tokens \cup {None} : k = a
      BY <1>2
    <3>2. q.user \in Users \cup {None} /\ q.subject \in Subjects \cup {None}
      BY FieldFacts
    <3>3. "unlink" \in Places
      BY DEF Places
    <3>4. [pc |-> "unlink", op |-> q.op, caller |-> q.caller, user |-> q.user,
           provider |-> q.provider, subject |-> q.subject, key |-> k,
           email |-> q.email, role |-> q.role, pass |-> q.pass, rest |-> q.rest,
           doomed |-> q.doomed] \in Task
      BY <3>2, <3>3, ChangeFacts
    <3> QED  BY <2>2, <3>1, <3>4
  <2>4. Carries(t)
    BY <1>1, <2>2 DEF Carries
  <2>5. Moves(r, t)
    BY <1>2, <2>1, <2>3, MoveFacts
  <2> QED  BY <2>4, <2>5, QuietKeeps DEF List
<1>3. CASE Done(r)
  BY <1>3, QuietDone DEF List
<1> QED  BY <1>1, <1>2, <1>3 DEF List, AccountsOf

LEMMA ReadTokensKeeps ==
  ASSUME IdentityInv, NEW r \in Requests, ReadTokens(r)
  PROVE  IdentityInv'
<1>1. PICK q \in Task : q = reqs[r] /\ Carries(q)
  BY TaskFacts
<1>2. ASSUME NEW a \in Refreshable(r),
             Go(r, [q EXCEPT !.key = a, !.subject = accounts[a].grant, !.pc = "update"])
      PROVE  IdentityInv'
  <2>1. a \in Accounts \cap drawn /\ accounts[a] \in Account /\ accounts[a] # None
    BY <1>2, Parts DEF Refreshable, AccountsOf, AccountsFine
  <2>2. PICK x \in Subjects \cup {None} : x = accounts[a].grant
    BY <2>1 DEF Account
  <2>3. x \in {None, accounts[a].subject}
    BY <2>1, <2>2, Parts DEF AccountsFine, GrantsMatch
  <2>4. PICK t : t = [q EXCEPT !.key = a, !.subject = x, !.pc = "update"]
    OBVIOUS
  <2>5. t = [pc |-> "update", op |-> q.op, caller |-> q.caller, user |-> q.user,
             provider |-> q.provider, subject |-> x, key |-> a,
             email |-> q.email, role |-> q.role, pass |-> q.pass, rest |-> q.rest,
             doomed |-> q.doomed]
    BY <2>4 DEF Task
  <2>6. t \in Task
    <3>1. PICK k \in States \cup Accounts \cup Tokens \cup {None} : k = a
      BY <2>1
    <3>2. q.user \in Users \cup {None} /\ q.subject \in Subjects \cup {None}
      BY FieldFacts
    <3> QED  BY <2>5, <3>1, <3>2, ChangeFacts, ZenonT(120) DEF Places
  <2>7. Carries(t)
    BY <1>1, <2>1, <2>3, <2>5 DEF Carries
  <2>8. Moves(r, t)
    BY <1>2, <2>2, <2>4, <2>6, MoveFacts
  <2> QED  BY <2>7, <2>8, QuietKeeps DEF ReadTokens
<1>3. CASE Done(r)
  BY <1>3, QuietDone DEF ReadTokens
<1> QED  BY <1>1, <1>2, <1>3 DEF ReadTokens

-----------------------------------------------------------------------------
(* The administrator's steps that only read.                                *)

LEMMA AskAboutKeeps ==
  ASSUME IdentityInv, NEW r \in Requests, NEW k \in Tokens, NEW op \in TargetOps,
         NEW u \in Users, NEW role \in Roles(op), AskAbout(r, k, op, u, role),
         UNCHANGED oauthTables
  PROVE  IdentityInv'
<1>1. PICK c \in Users : c = Caller(k)
  BY CallerFacts DEF AskAbout, IsAdmin, Exists
<1>2. PICK doomed \in SUBSET Tokens : doomed = SessionsOf(u)
  BY DEF SessionsOf
<1>3. /\ doomed \subseteq drawn
      /\ \A t \in doomed : sessions[t] # None => sessions[t].user = u
  BY <1>2, Parts DEF SessionsOf, SessionsFine
<1>4. PICK t : t = [Idle EXCEPT !.op = op, !.pc = "target", !.caller = c, !.user = u,
                                !.role = role, !.doomed = doomed]
  OBVIOUS
<1>5. t = [pc |-> "target", op |-> op, caller |-> c, user |-> u,
           provider |-> None, subject |-> None, key |-> None, email |-> None,
           role |-> role, pass |-> FALSE, rest |-> {}, doomed |-> doomed]
  BY <1>4 DEF Idle
<1>6. t \in Task
  <2>1. op \in Endpoints /\ "target" \in Places /\ role \in {"user", "admin"}
    BY DEF Endpoints, Places, Roles
  <2> QED  BY <1>5, <2>1, BeginFacts
<1>7. Carries(t)
  BY <1>3, <1>5 DEF Carries, AskAbout
<1>8. Moves(r, t)
  <2>1. Go(r, t)
    BY <1>1, <1>2, <1>4 DEF AskAbout
  <2> QED  BY <1>6, <2>1, MoveFacts
<1> QED  BY <1>7, <1>8, QuietKeeps DEF AskAbout

LEMMA AskCreateKeeps ==
  ASSUME IdentityInv, NEW r \in Requests, NEW k \in Tokens, NEW e \in Emails,
         NEW role \in Roles("createUser"), AskCreate(r, k, e, role), UNCHANGED oauthTables
  PROVE  IdentityInv'
<1>1. PICK t : t = [Idle EXCEPT !.op = "createUser", !.pc = "email", !.email = e, !.role = role]
  OBVIOUS
<1>2. t = [pc |-> "email", op |-> "createUser", caller |-> None, user |-> None,
           provider |-> None, subject |-> None, key |-> None, email |-> e,
           role |-> role, pass |-> FALSE, rest |-> {}, doomed |-> {}]
  BY <1>1 DEF Idle
<1>3. t \in Task
  <2>1. "createUser" \in Endpoints /\ "email" \in Places /\ role \in {"user", "admin"}
    BY DEF Endpoints, Places, Roles
  <2> QED  BY <1>2, <2>1, BeginFacts
<1>4. Carries(t)
  BY <1>2 DEF Carries
<1>5. Moves(r, t)
  BY <1>1, <1>3, MoveFacts DEF AskCreate
<1> QED  BY <1>4, <1>5, QuietKeeps DEF AskCreate

LEMMA AskRevokeKeeps ==
  ASSUME IdentityInv, NEW r \in Requests, NEW k \in Tokens, NEW x \in Tokens,
         AskRevoke(r, k, x), UNCHANGED oauthTables
  PROVE  IdentityInv'
<1>1. PICK t : t = [Idle EXCEPT !.op = "revokeSession", !.pc = "end", !.key = x, !.doomed = {x}]
  OBVIOUS
<1>2. t = [pc |-> "end", op |-> "revokeSession", caller |-> None, user |-> None,
           provider |-> None, subject |-> None, key |-> x, email |-> None,
           role |-> "user", pass |-> FALSE, rest |-> {}, doomed |-> {x}]
  BY <1>1 DEF Idle
<1>3. t \in Task
  <2>1. "revokeSession" \in Endpoints /\ "end" \in Places /\ {x} \in SUBSET Tokens
    BY DEF Endpoints, Places
  <2> QED  BY <1>2, <2>1, BeginFacts
<1>4. Carries(t)
  BY <1>2 DEF Carries, AskRevoke
<1>5. Moves(r, t)
  BY <1>1, <1>3, MoveFacts DEF AskRevoke
<1> QED  BY <1>4, <1>5, QuietKeeps DEF AskRevoke

LEMMA AskStopKeeps ==
  ASSUME IdentityInv, NEW r \in Requests, NEW x \in Tokens, AskStop(r, x),
         UNCHANGED oauthTables
  PROVE  IdentityInv'
<1>1. sessions[x] \in Session /\ x \in drawn
  BY Parts, CallerFacts DEF AskStop, SessionsFine, Caller
<1>2. PICK u \in Users \cup {None} : u = sessions[x].by
  BY <1>1 DEF Session
<1>3. PICK t : t = [Idle EXCEPT !.op = "stop", !.pc = "end", !.user = u, !.key = x,
                                !.doomed = {x}]
  OBVIOUS
<1>4. t = [pc |-> "end", op |-> "stop", caller |-> None, user |-> u,
           provider |-> None, subject |-> None, key |-> x, email |-> None,
           role |-> "user", pass |-> FALSE, rest |-> {}, doomed |-> {x}]
  BY <1>3 DEF Idle
<1>5. t \in Task
  <2>1. "stop" \in Endpoints /\ "end" \in Places /\ {x} \in SUBSET Tokens
    BY DEF Endpoints, Places
  <2> QED  BY <1>4, <2>1, BeginFacts, ZenonT(120)
<1>6. Carries(t)
  BY <1>1, <1>4 DEF Carries
<1>7. Moves(r, t)
  BY <1>2, <1>3, <1>5, MoveFacts DEF AskStop
<1> QED  BY <1>6, <1>7, QuietKeeps DEF AskStop

LEMMA TargetKeeps ==
  ASSUME IdentityInv, NEW r \in Requests, Target(r), UNCHANGED oauthTables
  PROVE  IdentityInv'
<1>1. PICK q \in Task : q = reqs[r] /\ Carries(q) /\ q.pc = "target"
  BY TaskFacts DEF Target, At
<1>2. CASE Done(r)
  BY <1>2, QuietDone DEF Target
<1>3. ASSUME NEW pc \in {"impersonate", "purge", "write"}, GoOn(r, pc)
      PROVE  IdentityInv'
  <2>1. ASSUME NEW t, Same(q, t), t.pc = pc
        PROVE  Carries(t)
    BY <1>1, <1>3, <2>1 DEF Same, Carries
  <2>2. pc \in Places
    BY DEF Places
  <2> QED  BY <1>1, <1>3, <2>1, <2>2, QuietGoOn DEF Target
<1>4. Done(r) \/ \E pc \in {"impersonate", "purge", "write"} : GoOn(r, pc)
  <2>1. PICK pc : pc = CASE reqs[r].op = "impersonate" -> "impersonate"
                         [] reqs[r].op \in {"revokeSessions", "removeUser"} -> "purge"
                         [] OTHER -> "write"
    OBVIOUS
  <2>2. pc \in {"impersonate", "purge", "write"}
    BY <2>1
  <2> QED  BY <2>1, <2>2 DEF Target
<1> QED  BY <1>2, <1>3, <1>4

LEMMA ListAccountsKeeps ==
  ASSUME IdentityInv, NEW r \in Requests, ListAccounts(r), UNCHANGED oauthTables
  PROVE  IdentityInv'
<1>1. PICK q \in Task : q = reqs[r] /\ Carries(q) /\ q.pc = "accounts"
  BY TaskFacts DEF ListAccounts, At
<1>2. PICK rest \in SUBSET Accounts : rest = AccountsOf(q.user)
  BY DEF AccountsOf
<1>3. PICK t : t = [q EXCEPT !.rest = rest, !.pc = "drop"]
  OBVIOUS
<1>4. t = [pc |-> "drop", op |-> q.op, caller |-> q.caller, user |-> q.user,
           provider |-> q.provider, subject |-> q.subject, key |-> q.key,
           email |-> q.email, role |-> q.role, pass |-> q.pass, rest |-> rest,
           doomed |-> q.doomed]
  BY <1>3 DEF Task
<1>5. t \in Task
  <2>1. PICK doomed \in SUBSET Tokens : doomed = q.doomed
    BY FieldFacts
  <2>2. "drop" \in Places
    BY DEF Places
  <2> QED  BY <1>4, <2>1, <2>2, FieldFacts, Zenon DEF Task
<1>6. Carries(t)
  BY <1>1, <1>4 DEF Carries
<1>7. Moves(r, t)
  <2>1. Go(r, t)
    BY <1>1, <1>2, <1>3 DEF ListAccounts
  <2> QED  BY <1>5, <2>1, MoveFacts
<1> QED  BY <1>6, <1>7, QuietKeeps DEF ListAccounts

LEMMA CredentialsKeeps ==
  ASSUME IdentityInv, NEW r \in Requests, Credentials(r), UNCHANGED oauthTables
  PROVE  IdentityInv'
<1>1. PICK q \in Task : q = reqs[r] /\ Carries(q) /\ q.pc = "credential"
  BY TaskFacts DEF Credentials, At
<1>2. ASSUME NEW t, Same(q, t), t.pc = "addCredential"
      PROVE  Carries(t)
  BY <1>1, <1>2 DEF Same, Carries
<1> QED  BY <1>1, <1>2, QuietGoOn, QuietDone DEF Credentials, Places

LEMMA VacantKeeps ==
  ASSUME IdentityInv, NEW r \in Requests, Vacant(r), UNCHANGED oauthTables
  PROVE  IdentityInv'
<1>1. PICK q \in Task : q = reqs[r] /\ Carries(q) /\ q.pc = "email"
  BY TaskFacts DEF Vacant, At
<1>2. ASSUME NEW t, Same(q, t), t.pc = "newAccount"
      PROVE  Carries(t)
  BY <1>1, <1>2 DEF Same, Carries
<1> QED  BY <1>1, <1>2, QuietGoOn, QuietDone DEF Vacant, Places

LEMMA BackKeeps ==
  ASSUME IdentityInv, NEW r \in Requests, Back(r), UNCHANGED oauthTables
  PROVE  IdentityInv'
<1>1. PICK q \in Task : q = reqs[r] /\ Carries(q)
  BY TaskFacts
<1>2. CASE Exists(q.user)
  <2>1. q.user \in Users
    BY <1>2, FieldFacts DEF Exists
  <2>2. ASSUME NEW t, Same(q, t), t.pc = "return"
        PROVE  Carries(t)
    BY <1>1, <2>1, <2>2 DEF Same, Carries
  <2> QED  BY <1>1, <1>2, <2>2, QuietGoOn DEF Back, Places
<1>3. CASE ~Exists(q.user)
  BY <1>1, <1>3, QuietDone DEF Back
<1> QED  BY <1>2, <1>3

LEMMA AbandonKeeps ==
  ASSUME IdentityInv, NEW r \in Requests, Abandon(r), UNCHANGED oauthTables
  PROVE  IdentityInv'
BY QuietDone DEF Abandon

-----------------------------------------------------------------------------
(* The statements that write.                                               *)

AllFine == UsersFine /\ AccountsFine /\ SessionsFine /\ StatesFine /\ RemovalsFine

LEMMA FineKeeps ==
  ASSUME IdentityInv, NEW r \in Requests, NEW t, Moves(r, t), Carries(t)', Evolves, AllFine'
  PROVE  IdentityInv'
BY StepKeeps DEF AllFine

LEMMA FineDone ==
  ASSUME IdentityInv, NEW r \in Requests, Done(r), Evolves, AllFine'
  PROVE  IdentityInv'
BY FineKeeps, DoneFacts, IdleFacts

\* The task goes on, and what it then has to carry holds of the new tables.
LEMMA FineGoOn ==
  ASSUME IdentityInv, NEW r \in Requests, NEW pc \in Places, GoOn(r, pc), Evolves, AllFine',
         \A t \in Task : Same(reqs[r], t) /\ t.pc = pc => Carries(t)'
  PROVE  IdentityInv'
<1>1. PICK t : Moves(r, t) /\ t.pc = pc /\ Same(reqs[r], t)
  BY GoOnFacts
<1>2. t \in Task
  BY <1>1 DEF Moves
<1> QED  BY <1>1, <1>2, FineKeeps

LEMMA FreshFacts ==
  ASSUME NEW ids, ids \ drawn # {}
  PROVE  Fresh(ids) \in ids /\ Fresh(ids) \notin drawn
BY DEF Fresh

LEMMA InsertUserFine ==
  ASSUME IdentityInv, NEW row \in User, InsertUser(row), Users \ drawn # {},
         Taken(row.email) = {}, founder' \in [Users -> Providers \cup {None}],
         \A u \in Users : u # Fresh(Users) => founder'[u] = founder[u],
         UNCHANGED <<past, states, spent, asked>>
  PROVE  Evolves /\ AllFine'
<1> USE DEF past
<1>1. PICK f : f = Fresh(Users)
  OBVIOUS
<1>2. f \in Users /\ f \notin drawn
  BY <1>1, FreshFacts
<1>3. /\ users' = [users EXCEPT ![f] = row] /\ drawn' = drawn \cup {f}
      /\ accounts' = accounts /\ sessions' = sessions
      /\ users \in [Users -> User \cup {None}]
      /\ \A u \in Users : u # f => founder'[u] = founder[u]
      /\ row # None
  BY <1>1, Parts DEF InsertUser, UsersFine
<1>4. Evolves
  BY <1>2, <1>3, Parts DEF Evolves, UsersFine
<1>5. UsersFine'
  <2>1. \A u \in Users : u # f => (users'[u] = users[u])
    BY <1>3
  <2>2. users'[f] = row
    BY <1>2, <1>3
  <2>3. ASSUME NEW u \in Users, users'[u] # None
        PROVE  u \in drawn' /\ Taken(users[u].email)' = {u}
    <3>1. CASE u = f
      BY <1>3, <2>1, <2>2, <3>1 DEF Taken
    <3>2. CASE u # f
      <4>1. users[u] # None /\ users'[u] = users[u] /\ u \in drawn
            /\ Taken(users[u].email) = {u}
        BY <2>1, <2>3, <3>2, Parts DEF UsersFine
      <4>2. row.email # users[u].email
        BY <4>1 DEF Taken
      <4> QED  BY <1>3, <2>1, <2>2, <4>1, <4>2 DEF Taken
    <3> QED  BY <3>1, <3>2
  <2>4. \A u \in Users : founder'[u] # None => u \in drawn'
    BY <1>3, Parts DEF UsersFine
  <2>5. users' \in [Users -> User \cup {None}]
    BY <1>3
  <2> QED  BY <2>3, <2>4, <2>5 DEF UsersFine, Taken
<1>6. AccountsFine' /\ SessionsFine' /\ StatesFine'
  BY <1>3, <1>4, Parts, AccountsKept, SessionsKept, StatesKept
<1>7. RemovalsFine'
  BY <1>2, <1>3, Parts DEF RemovalsFine, FullyRemoved, Exists, AccountsOf, SessionsOf
<1> QED  BY <1>4, <1>5, <1>6, <1>7 DEF AllFine

LEMMA InsertAccountFine ==
  ASSUME IdentityInv, NEW row \in Account, InsertAccount(row),
         Constraints => Exists(row.user), row.grant \in {None, row.subject},
         row.provider = Credential \/ Permitted(row.user, row.provider),
         UNCHANGED <<past, oauthTables>>
  PROVE  Evolves /\ AllFine'
<1> USE DEF past, oauthTables
<1>1. PICK f : f = Fresh(Accounts)
  OBVIOUS
<1>2. f \in Accounts /\ f \notin drawn
  BY <1>1, FreshFacts DEF InsertAccount
<1>3. /\ accounts' = [accounts EXCEPT ![f] = row] /\ drawn' = drawn \cup {f}
      /\ users' = users /\ sessions' = sessions
      /\ accounts \in [Accounts -> Account \cup {None}]
      /\ \A a \in Accounts : accounts'[a] = IF a = f THEN row ELSE accounts[a]
  BY <1>1, Parts DEF InsertAccount, AccountsFine
<1>4. Evolves
  BY <1>2, <1>3, Parts DEF Evolves
<1>5. AccountsFine'
  <2>1. accounts' \in [Accounts -> Account \cup {None}]
    BY <1>3
  <2>2. GrantsMatch'
    BY <1>3, Parts DEF AccountsFine, GrantsMatch
  <2>3. TrustedLinks'
    BY <1>3, Parts DEF AccountsFine, TrustedLinks, Permitted, MayLink
  <2>4. \A a \in Accounts : accounts'[a] # None => a \in drawn'
    BY <1>3, Parts DEF AccountsFine
  <2> QED  BY <2>1, <2>2, <2>3, <2>4 DEF AccountsFine
<1>6. UsersFine' /\ SessionsFine' /\ StatesFine'
  BY <1>3, Parts, UsersKept, SessionsKept, StatesKept
<1>7. RemovalsFine'
  BY <1>3, Parts DEF RemovalsFine, FullyRemoved, Exists, AccountsOf, SessionsOf
<1> QED  BY <1>4, <1>5, <1>6, <1>7 DEF AllFine

LEMMA InsertSessionFine ==
  ASSUME IdentityInv, NEW row \in Session, InsertSession(row),
         Constraints => Exists(row.user), UNCHANGED <<past, oauthTables>>
  PROVE  Evolves /\ AllFine'
<1> USE DEF past, oauthTables
<1>1. PICK f : f = Fresh(Tokens)
  OBVIOUS
<1>2. f \in Tokens /\ f \notin drawn
  BY <1>1, FreshFacts DEF InsertSession
<1>3. /\ sessions' = [sessions EXCEPT ![f] = row] /\ drawn' = drawn \cup {f}
      /\ users' = users /\ accounts' = accounts
      /\ sessions \in [Tokens -> Session \cup {None}]
      /\ \A t \in Tokens : sessions'[t] = IF t = f THEN row ELSE sessions[t]
  BY <1>1, Parts DEF InsertSession, SessionsFine
<1>4. Evolves
  BY <1>2, <1>3, Parts DEF Evolves
<1>5. SessionsFine'
  <2>1. sessions' \in [Tokens -> Session \cup {None}]
    BY <1>3
  <2> QED  BY <1>2, <1>3, <2>1, Parts DEF SessionsFine, EndedStay
<1>6. UsersFine' /\ AccountsFine' /\ StatesFine'
  BY <1>3, <1>4, Parts, UsersKept, AccountsKept, StatesKept
<1>7. RemovalsFine'
  BY <1>3, Parts DEF RemovalsFine, FullyRemoved, Exists, AccountsOf, SessionsOf
<1> QED  BY <1>4, <1>5, <1>6, <1>7 DEF AllFine

LEMMA EndSessionsFine ==
  ASSUME IdentityInv, NEW ts, EndSessions(ts), NEW more \in SUBSET (Tokens \cap drawn),
         ended' = ended \cup more,
         \A t \in more : t \in ts \/ sessions[t] = None,
         UNCHANGED <<removed, oauthTables>>
  PROVE  Evolves /\ AllFine'
<1> USE DEF oauthTables
<1>1. /\ sessions' = [t \in Tokens |-> IF t \in ts THEN None ELSE sessions[t]]
      /\ users' = users /\ accounts' = accounts /\ drawn' = drawn
      /\ sessions \in [Tokens -> Session \cup {None}]
  BY Parts DEF EndSessions, SessionsFine
<1>2. Evolves
  BY <1>1, Parts DEF Evolves
<1>3. SessionsFine'
  <2>1. sessions' \in [Tokens -> Session \cup {None}]
    BY <1>1
  <2> QED  BY <1>1, <2>1, Parts DEF SessionsFine, EndedStay
<1>4. UsersFine' /\ AccountsFine' /\ StatesFine'
  BY <1>1, <1>2, Parts, UsersKept, AccountsKept, StatesKept
<1>5. RemovalsFine'
  BY <1>1, Parts DEF RemovalsFine, FullyRemoved, Exists, AccountsOf, SessionsOf
<1> QED  BY <1>2, <1>3, <1>4, <1>5 DEF AllFine

LEMMA RemoveAccountFine ==
  ASSUME IdentityInv, NEW k, RemoveAccount(k), UNCHANGED <<past, oauthTables>>
  PROVE  Evolves /\ AllFine'
<1> USE DEF past, oauthTables
<1>1. /\ \A a \in Accounts : accounts'[a] = None \/ accounts'[a] = accounts[a]
      /\ accounts' \in [Accounts -> Account \cup {None}]
      /\ users' = users /\ sessions' = sessions /\ drawn' = drawn
  BY Parts DEF RemoveAccount, AccountsFine
<1>2. Evolves
  BY <1>1, Parts DEF Evolves
<1>3. AccountsFine'
  BY <1>1, Parts DEF AccountsFine, GrantsMatch, TrustedLinks
<1>4. UsersFine' /\ SessionsFine' /\ StatesFine'
  BY <1>1, Parts, UsersKept, SessionsKept, StatesKept
<1>5. RemovalsFine'
  BY <1>1, Parts DEF RemovalsFine, FullyRemoved, Exists, AccountsOf, SessionsOf
<1> QED  BY <1>2, <1>3, <1>4, <1>5 DEF AllFine

LEMMA RemoveUserFine ==
  ASSUME IdentityInv, NEW u \in Users \cap drawn, RemoveUser(u),
         NEW more \in SUBSET (Tokens \cap drawn), ended' = ended \cup more,
         \A t \in more : sessions[t] = None,
         removed' = removed \cup {u}, UNCHANGED oauthTables
  PROVE  Evolves /\ AllFine'
<1> USE DEF oauthTables
<1>1. /\ \A a \in Accounts : accounts'[a] = None \/ accounts'[a] = accounts[a]
      /\ accounts' \in [Accounts -> Account \cup {None}]
      /\ \A t \in Tokens : sessions'[t] = None \/ sessions'[t] = sessions[t]
      /\ sessions' \in [Tokens -> Session \cup {None}]
      /\ users' = [users EXCEPT ![u] = None] /\ users \in [Users -> User \cup {None}]
      /\ drawn' = drawn
  BY Parts DEF RemoveUser, AccountsFine, SessionsFine, UsersFine
<1>2. Evolves
  BY <1>1, Parts DEF Evolves
<1>3. AccountsFine'
  BY <1>1, Parts DEF AccountsFine, GrantsMatch, TrustedLinks
<1>4. SessionsFine'
  BY <1>1, Parts DEF SessionsFine, EndedStay
<1>5. UsersFine'
  <2>1. \A v \in Users : users'[v] = IF v = u THEN None ELSE users[v]
    BY <1>1
  <2>2. ASSUME NEW v \in Users, users'[v] # None
        PROVE  v \in drawn' /\ Taken(users[v].email)' = {v}
    <3>1. v # u /\ users'[v] = users[v] /\ v \in drawn /\ Taken(users[v].email) = {v}
      BY <2>1, <2>2, Parts DEF UsersFine
    <3> QED  BY <1>1, <2>1, <3>1 DEF Taken
  <2> QED  BY <1>1, <2>2, Parts DEF UsersFine, Taken
<1>6. StatesFine'
  BY <1>1, Parts, StatesKept
<1>7. RemovalsFine'
  <2>1. \A v \in Users : users'[v] = IF v = u THEN None ELSE users[v]
    BY <1>1
  <2>2. ASSUME Constraints
        PROVE  AccountsOf(u)' = {} /\ SessionsOf(u)' = {}
    BY <2>2, Parts DEF RemoveUser, AccountsOf, SessionsOf, AccountsFine, SessionsFine
  <2>3. ASSUME Constraints, NEW v \in removed
        PROVE  ~Exists(v)' /\ AccountsOf(v)' = {} /\ SessionsOf(v)' = {}
    BY <1>1, <2>1, <2>3, Parts
       DEF RemovalsFine, FullyRemoved, Exists, AccountsOf, SessionsOf
  <2>4. ~Exists(u)'
    BY <2>1 DEF Exists
  <2> QED  BY <1>1, <2>2, <2>3, <2>4, Parts DEF RemovalsFine, FullyRemoved
<1> QED  BY <1>2, <1>3, <1>4, <1>5, <1>6, <1>7 DEF AllFine

-----------------------------------------------------------------------------
(* The steps of OAuth sign-in and account management that write.             *)

LEMMA StoreKeeps ==
  ASSUME IdentityInv, NEW r \in Requests, Store(r)
  PROVE  IdentityInv'
<1> USE DEF past
<1>1. PICK q \in Task : q = reqs[r] /\ Carries(q) /\ q.pc = "store" /\ q.provider \in Providers
  BY TaskFacts DEF Store, At, Carries
<1>2. PICK u \in Users \cup {None} : u = q.user
  BY FieldFacts
<1>3. PICK f : f = Fresh(States)
  OBVIOUS
<1>4. f \in States /\ f \notin drawn
  BY <1>3, FreshFacts DEF Store
<1>5. PICK row : row = [provider |-> q.provider, link |-> u]
  OBVIOUS
<1>6. /\ row \in [provider : Providers, link : Users \cup {None}]
      /\ row.link = u /\ row.provider = q.provider
  BY <1>1, <1>5
<1>7. /\ states' = [states EXCEPT ![f] = row] /\ drawn' = drawn \cup {f}
      /\ states \in [States -> [provider : Providers, link : Users \cup {None}] \cup {None}]
      /\ users' = users /\ accounts' = accounts /\ sessions' = sessions
      /\ spent' = spent /\ founder' = founder /\ ended' = ended /\ removed' = removed
  BY <1>1, <1>2, <1>3, <1>5, Parts DEF Store, StatesFine
<1>8. /\ asked \subseteq asked' /\ asked' \subseteq Users \X Providers
      /\ u # None => <<u, q.provider>> \in asked'
  BY <1>1, <1>2, Parts DEF Store, StatesFine
<1>9. Evolves
  BY <1>4, <1>7, <1>8, Parts DEF Evolves
<1>10. StatesFine'
  <2>1. \A s \in States : states'[s] = IF s = f THEN row ELSE states[s]
    BY <1>7
  <2>2. states' \in [States -> [provider : Providers, link : Users \cup {None}] \cup {None}]
    BY <1>6, <1>7
  <2>3. ASSUME NEW s \in States, states'[s] # None
        PROVE  /\ s \in drawn'
               /\ states'[s].link # None => <<states'[s].link, states'[s].provider>> \in asked'
    <3>1. CASE s = f
      BY <1>6, <1>7, <1>8, <2>1, <3>1
    <3>2. CASE s # f
      BY <1>7, <1>8, <2>1, <2>3, <3>2, Parts DEF StatesFine
    <3> QED  BY <3>1, <3>2
  <2>4. spent' \subseteq States \cap drawn' /\ \A s \in spent' : states'[s] = None
    BY <1>4, <1>7, <2>1, Parts DEF StatesFine
  <2> QED  BY <1>8, <2>2, <2>3, <2>4 DEF StatesFine
<1>11. UsersFine' /\ AccountsFine' /\ SessionsFine' /\ RemovalsFine'
  BY <1>7, <1>9, Parts, UsersKept, AccountsKept, SessionsKept, RemovalsKept
<1> QED  BY <1>9, <1>10, <1>11, FineDone DEF Store, AllFine

\* The states lose rows at most.
LEMMA StatesShrink ==
  ASSUME IdentityInv, UNCHANGED <<tables, past, asked, founder>>,
         states' \in [States -> [provider : Providers, link : Users \cup {None}] \cup {None}],
         \A s \in States : states'[s] = None \/ states'[s] = states[s],
         spent' \subseteq States \cap drawn, \A s \in spent' : states'[s] = None
  PROVE  Evolves /\ AllFine'
<1> USE DEF tables, past
<1>1. Evolves
  BY Parts DEF Evolves
<1>2. StatesFine'
  BY Parts DEF StatesFine
<1> QED  BY <1>1, <1>2, Parts, UsersKept, AccountsKept, SessionsKept, RemovalsKept DEF AllFine

LEMMA LapseKeeps ==
  ASSUME IdentityInv, NEW s \in States, Lapse(s)
  PROVE  IdentityInv'
<1>1. Evolves /\ AllFine'
  BY Parts, StatesShrink DEF Lapse, StatesFine, tables
<1>2. ASSUME NEW r \in Requests
      PROVE  Carries(reqs[r])'
  <2>1. PICK x \in Task : x = reqs[r] /\ Carries(x)
    BY TaskFacts
  <2>2. Carries(x)'
    BY <1>1, <2>1, CarriesKept
  <2>3. x = reqs'[r]
    BY <2>1 DEF Lapse
  <2> QED  BY <2>2, <2>3 DEF Carries
<1> QED  BY <1>1, <1>2, Parts DEF IdentityInv, AllFine, Evolves, Lapse

LEMMA ConsumeKeeps ==
  ASSUME IdentityInv, NEW r \in Requests, Consume(r)
  PROVE  IdentityInv'
<1>1. PICK q \in Task : q = reqs[r] /\ Carries(q) /\ q.pc = "consume" /\ q.key \in States
  BY TaskFacts DEF Consume, At, Carries
<1>2. CASE states[q.key] = None /\ Done(r) /\ UNCHANGED <<states, spent>>
  BY <1>2, QuietDone DEF Consume, oauthTables
<1>3. CASE /\ states[q.key] # None
           /\ states' = [states EXCEPT ![q.key] = None] /\ spent' = spent \cup {q.key}
           /\ GoOn(r, IF q.user = None THEN "find" ELSE "linkUser")
  <2>1. PICK pc \in {"find", "linkUser"} : pc = IF q.user = None THEN "find" ELSE "linkUser"
    OBVIOUS
  <2>2. ASSUME NEW t \in Task, Same(q, t), t.pc = pc
        PROVE  Carries(t)
    BY <1>1, <2>1, <2>2 DEF Same, Carries
  <2>3. Evolves /\ AllFine'
    <3>1. PICK k \in States : k = q.key
      BY <1>1
    <3>2. /\ states' = [states EXCEPT ![k] = None] /\ spent' = spent \cup {k}
          /\ states \in [States -> [provider : Providers, link : Users \cup {None}] \cup {None}]
          /\ k \in drawn /\ drawn' = drawn
          /\ spent \subseteq States \cap drawn /\ \A s \in spent : states[s] = None
      BY <1>1, <1>3, <3>1, Parts DEF Consume, StatesFine, tables
    <3>3. /\ states' \in [States -> [provider : Providers, link : Users \cup {None}] \cup {None}]
          /\ \A s \in States : states'[s] = IF s = k THEN None ELSE states[s]
      BY <3>2
    <3>4. spent' \subseteq States \cap drawn /\ \A s \in spent' : states'[s] = None
      BY <3>2, <3>3
    <3> QED  BY <1>1, <3>3, <3>4, StatesShrink DEF Consume
  <2>4. ASSUME NEW t \in Task, Same(q, t), t.pc = pc
        PROVE  Carries(t)'
    BY <2>2, <2>3, <2>4, CarriesKept
  <2> QED  BY <1>1, <1>3, <2>1, <2>3, <2>4, FineGoOn DEF Places
<1> QED  BY <1>1, <1>2, <1>3 DEF Consume

LEMMA UpdateKeeps ==
  ASSUME IdentityInv, NEW r \in Requests, Update(r)
  PROVE  IdentityInv'
<1> USE DEF past, oauthTables
<1>1. PICK q \in Task : /\ q = reqs[r] /\ Carries(q) /\ q.pc = "update"
                        /\ q.key \in Accounts \cap drawn
                        /\ accounts[q.key] # None => q.subject \in {None, accounts[q.key].subject}
  BY TaskFacts DEF Update, At, Carries
<1>2. CASE accounts[q.key] = None
  BY <1>1, <1>2, QuietDone DEF Update, tables
<1>3. CASE accounts[q.key] # None
  <2>1. PICK k \in Accounts \cap drawn : k = q.key
    BY <1>1
  <2>2. PICK x \in Subjects \cup {None} : x = q.subject
    BY FieldFacts
  <2>3. PICK old \in Account : old = accounts[k]
    BY <1>3, <2>1, Parts DEF AccountsFine
  <2>4. PICK row : row = [old EXCEPT !.grant = x]
    OBVIOUS
  <2>5. row = [user |-> old.user, provider |-> old.provider, subject |-> old.subject,
               grant |-> x]
    BY <2>4 DEF Account
  <2>6. row \in Account
    BY <2>5 DEF Account
  <2>7. /\ row.user = old.user /\ row.provider = old.provider /\ row.subject = old.subject
        /\ row.grant = x /\ x \in {None, old.subject}
    BY <1>1, <1>3, <2>1, <2>2, <2>3, <2>5
  <2>8. /\ accounts' = [accounts EXCEPT ![k] = row]
        /\ accounts \in [Accounts -> Account \cup {None}]
        /\ users' = users /\ sessions' = sessions /\ drawn' = drawn
    <3>1. accounts' = [accounts EXCEPT ![k].grant = x]
      BY <1>1, <1>3, <2>1, <2>2 DEF Update
    <3>2. accounts \in [Accounts -> Account \cup {None}]
      BY Parts DEF AccountsFine
    <3> QED  BY <2>3, <2>4, <3>1, <3>2 DEF Update
  <2>9. \A a \in Accounts : accounts'[a] = IF a = k THEN row ELSE accounts[a]
    BY <2>8
  <2>10. k \in Accounts /\ k \in drawn /\ accounts[k] = old /\ old # None
    BY <2>3
  <2>11. Evolves
    BY <2>7, <2>8, <2>9, <2>10, Parts DEF Evolves, Update
  <2>12. AccountsFine'
    <3>1. accounts' \in [Accounts -> Account \cup {None}]
      BY <2>6, <2>8
    <3>2. GrantsMatch'
      BY <2>7, <2>9, Parts DEF AccountsFine, GrantsMatch
    <3>3. TrustedLinks'
      BY <2>7, <2>9, <2>10, Parts DEF AccountsFine, TrustedLinks, Update
    <3> QED  BY <2>8, <2>9, <2>10, <3>1, <3>2, <3>3, Parts DEF AccountsFine
  <2>13. UsersFine' /\ SessionsFine' /\ StatesFine'
    BY <2>8, Parts, UsersKept, SessionsKept, StatesKept DEF Update
  <2>14. RemovalsFine'
    <3>0. \A a \in Accounts : /\ accounts'[a] # None <=> accounts[a] # None
                              /\ accounts'[a] # None => accounts'[a].user = accounts[a].user
      BY <2>6, <2>7, <2>9, <2>10
    <3>1. ASSUME NEW u
          PROVE  AccountsOf(u)' = AccountsOf(u)
      <4>1. \A a \in Accounts : accounts'[a] # None /\ accounts'[a].user = u
                              <=> accounts[a] # None /\ accounts[a].user = u
        BY <3>0
      <4> QED  BY <4>1 DEF AccountsOf
    <3> QED  BY <2>8, <3>1, Parts DEF RemovalsFine, FullyRemoved, Exists, SessionsOf, Update
  <2>15. AllFine'
    BY <2>12, <2>13, <2>14 DEF AllFine
  <2>16. CASE Done(r)
    BY <2>11, <2>15, <2>16, FineDone
  <2>17. CASE GoOn(r, "user")
    <3>1. ASSUME NEW t \in Task, Same(q, t), t.pc = "user"
          PROVE  Carries(t)
      BY <1>1, <3>1 DEF Same, Carries
    <3>2. ASSUME NEW t \in Task, Same(q, t), t.pc = "user"
          PROVE  Carries(t)'
      BY <2>11, <3>1, <3>2, CarriesKept
    <3> QED  BY <1>1, <2>11, <2>15, <2>17, <3>2, FineGoOn DEF Places
  <2> QED  BY <1>1, <1>3, <2>16, <2>17 DEF Update
<1> QED  BY <1>2, <1>3

LEMMA NewUserKeeps ==
  ASSUME IdentityInv, NEW r \in Requests, NewUser(r)
  PROVE  IdentityInv'
<1>1. PICK q \in Task : /\ q = reqs[r] /\ Carries(q) /\ q.pc = "newUser"
                        /\ q.provider \in Providers /\ q.subject \in Subjects
  BY TaskFacts DEF NewUser, At, Carries
<1>2. CASE Taken(Mail[q.subject]) # {}
  BY <1>1, <1>2, QuietDone DEF NewUser, past, oauthTables
<1>3. CASE Taken(Mail[q.subject]) = {}
  <2>1. PICK row : row = [email |-> Mail[q.subject], role |-> "user", banned |-> FALSE,
                          pass |-> FALSE]
    OBVIOUS
  <2>2. row \in User /\ row.email = Mail[q.subject]
    BY <1>1, <2>1 DEF User
  <2>3. PICK f : f = Fresh(Users)
    OBVIOUS
  <2>4. /\ InsertUser(row) /\ Users \ drawn # {}
        /\ founder' = [founder EXCEPT ![f] = q.provider]
        /\ Go(r, [q EXCEPT !.user = f, !.pc = "create"])
        /\ UNCHANGED <<past, states, spent, asked>>
    BY <1>1, <1>3, <2>1, <2>3 DEF NewUser
  <2>5. f \in Users
    BY <2>3, <2>4, FreshFacts
  <2>6. /\ founder' \in [Users -> Providers \cup {None}] /\ founder'[f] = q.provider
        /\ \A u \in Users : u # f => founder'[u] = founder[u]
    BY <1>1, <2>4, <2>5, Parts DEF UsersFine
  <2>7. Evolves /\ AllFine'
    BY <1>3, <2>2, <2>3, <2>4, <2>6, InsertUserFine
  <2>8. PICK t : t = [q EXCEPT !.user = f, !.pc = "create"]
    OBVIOUS
  <2>9. t = [pc |-> "create", op |-> q.op, caller |-> q.caller, user |-> f,
             provider |-> q.provider, subject |-> q.subject, key |-> q.key,
             email |-> q.email, role |-> q.role, pass |-> q.pass, rest |-> q.rest,
             doomed |-> q.doomed]
    BY <2>8 DEF Task
  <2>10. t \in Task
    BY <2>5, <2>9, FieldFacts, ChangeFacts DEF Places
  <2>11. Carries(t)'
    <3>1. Permitted(f, q.provider)'
      BY <2>6 DEF Permitted
    <3> QED  BY <1>1, <2>5, <2>7, <2>9, <3>1 DEF Carries, Evolves
  <2> QED  BY <2>4, <2>7, <2>8, <2>10, <2>11, MoveFacts, FineKeeps
<1> QED  BY <1>2, <1>3

LEMMA CreateKeeps ==
  ASSUME IdentityInv, NEW r \in Requests, Create(r)
  PROVE  IdentityInv'
<1>1. PICK q \in Task : /\ q = reqs[r] /\ Carries(q) /\ q.pc = "create" /\ q.user \in Users
                        /\ q.provider \in Providers /\ q.subject \in Subjects
                        /\ Permitted(q.user, q.provider)
  BY TaskFacts DEF Create, At, Carries
<1>2. CASE ~CanLink(q.user, q.provider, q.subject)
  BY <1>1, <1>2, QuietDone DEF Create
<1>3. CASE CanLink(q.user, q.provider, q.subject)
  <2>1. PICK row : row = [user |-> q.user, provider |-> q.provider, subject |-> q.subject,
                          grant |-> q.subject]
    OBVIOUS
  <2>2. /\ row \in Account /\ row.user = q.user /\ row.provider = q.provider
        /\ row.subject = q.subject /\ row.grant = q.subject
    BY <1>1, <2>1 DEF Account
  <2>3. InsertAccount(row) /\ GoOn(r, "open") /\ UNCHANGED <<past, oauthTables>>
    BY <1>1, <1>3, <2>1 DEF Create
  <2>4. Evolves /\ AllFine'
    BY <1>1, <1>3, <2>2, <2>3, InsertAccountFine DEF CanLink
  <2>5. ASSUME NEW t \in Task, Same(q, t), t.pc = "open"
        PROVE  Carries(t)
    BY <1>1, <2>5 DEF Same, Carries
  <2>6. ASSUME NEW t \in Task, Same(q, t), t.pc = "open"
        PROVE  Carries(t)'
    BY <2>4, <2>5, <2>6, CarriesKept
  <2> QED  BY <1>1, <2>3, <2>4, <2>6, FineGoOn DEF Places
<1> QED  BY <1>2, <1>3

\* A session opened for a user whom the task knows.
LEMMA OpenFor ==
  ASSUME IdentityInv, NEW r \in Requests, NEW u \in Users, NEW by \in Users \cup {None},
         \/ CanOpen(u) /\ InsertSession([user |-> u, by |-> by])
         \/ UNCHANGED tables,
         Done(r), UNCHANGED <<past, oauthTables>>
  PROVE  IdentityInv'
<1>1. CASE UNCHANGED tables
  BY <1>1, QuietDone
<1>2. CASE CanOpen(u) /\ InsertSession([user |-> u, by |-> by])
  <2>1. PICK row : row = [user |-> u, by |-> by]
    OBVIOUS
  <2>2. row \in Session /\ row.user = u
    BY <2>1 DEF Session
  <2>3. Evolves /\ AllFine'
    BY <1>2, <2>1, <2>2, InsertSessionFine DEF CanOpen
  <2> QED  BY <2>3, FineDone
<1> QED  BY <1>1, <1>2

LEMMA OpenKeeps ==
  ASSUME IdentityInv, NEW r \in Requests, Open(r)
  PROVE  IdentityInv'
<1>1. PICK u \in Users : u = reqs[r].user
  BY TaskFacts DEF Open, At, Carries
<1> QED  BY <1>1, OpenFor DEF Open

LEMMA UnlinkKeeps ==
  ASSUME IdentityInv, NEW r \in Requests, Unlink(r)
  PROVE  IdentityInv'
BY RemoveAccountFine, FineDone DEF Unlink

-----------------------------------------------------------------------------
(* The administrator's steps that write.                                    *)

LEMMA WriteKeeps ==
  ASSUME IdentityInv, NEW r \in Requests, Write(r), UNCHANGED oauthTables
  PROVE  IdentityInv'
<1> USE DEF past, oauthTables
<1>1. PICK q \in Task : q = reqs[r] /\ Carries(q) /\ q.pc = "write" /\ q.user \in drawn
  BY TaskFacts DEF Write, At, Carries
<1>2. CASE ~Exists(q.user)
  BY <1>1, <1>2, QuietDone DEF Write, tables
<1>3. CASE Exists(q.user)
  <2>1. PICK u \in Users : u = q.user /\ users[u] # None
    BY <1>3, FieldFacts DEF Exists
  <2>2. PICK old \in User : old = users[u]
    BY <2>1, Parts DEF UsersFine
  <2>3. PICK role \in {"user", "admin"} : role = IF q.op = "setRole" THEN q.role ELSE old.role
    BY <2>2, FieldFacts DEF User
  <2>4. PICK banned \in BOOLEAN : banned = ((q.op = "ban") \/ (old.banned /\ q.op # "unban"))
    BY Zenon
  <2>5. PICK pass \in BOOLEAN : pass = (old.pass \/ q.op = "setPassword")
    BY Zenon
  <2>6. PICK row : row = [old EXCEPT !.role = role, !.banned = banned, !.pass = pass]
    OBVIOUS
  <2>7. row = [email |-> old.email, role |-> role, banned |-> banned, pass |-> pass]
    BY <2>6 DEF User
  <2>8. row \in User /\ row.email = old.email /\ row # None
    BY <2>7 DEF User
  <2>9. users' = [users EXCEPT ![u] = row]
    <3>1. users' = [users EXCEPT ![u] = Changed(old, q)]
      BY <1>1, <1>3, <2>1, <2>2 DEF Write
    <3>2. Changed(old, q) = [old EXCEPT !.role = IF q.op = "setRole" THEN q.role ELSE old.role,
                                        !.banned = (q.op = "ban") \/ (old.banned /\ q.op # "unban"),
                                        !.pass = old.pass \/ q.op = "setPassword"]
      BY Zenon DEF Changed
    <3>3. Changed(old, q) = row
      BY ONLY <2>3, <2>4, <2>5, <2>6, <3>2, Zenon
    <3> QED  BY <3>1, <3>3
  <2>10. /\ \A v \in Users : users'[v] = IF v = u THEN row ELSE users[v]
         /\ users' \in [Users -> User \cup {None}]
         /\ accounts' = accounts /\ sessions' = sessions /\ drawn' = drawn
         /\ ended' = ended /\ removed' = removed
    BY <1>3, <2>8, <2>9, Parts DEF Write, UsersFine
  <2>11. Evolves
    BY <2>10, Parts DEF Evolves
  <2>12. UsersFine'
    <3>1. \A v \in Users : /\ users'[v] # None <=> users[v] # None
                           /\ users'[v] # None => users'[v].email = users[v].email
      BY <2>2, <2>8, <2>10
    <3>2. ASSUME NEW v \in Users, users'[v] # None
          PROVE  v \in drawn' /\ Taken(users[v].email)' = {v}
      <4>1. v \in drawn /\ Taken(users[v].email) = {v} /\ users'[v].email = users[v].email
        BY <3>1, <3>2, Parts DEF UsersFine
      <4> QED  BY <2>10, <3>1, <4>1 DEF Taken
    <3> QED  BY <2>10, <3>2, Parts DEF UsersFine, Taken
  <2>13. AccountsFine' /\ SessionsFine' /\ StatesFine'
    BY <2>10, <2>11, Parts, AccountsKept, SessionsKept, StatesKept
  <2>14. RemovalsFine'
    <3>1. \A v \in Users : users[v] = None => users'[v] = None
      BY <2>1, <2>10
    <3> QED  BY <2>10, <3>1, Parts DEF RemovalsFine, FullyRemoved, Exists, AccountsOf, SessionsOf
  <2>15. AllFine'
    BY <2>12, <2>13, <2>14 DEF AllFine
  <2>16. CASE Done(r)
    BY <2>11, <2>15, <2>16, FineDone
  <2>17. ASSUME NEW pc \in {"purge", "credential"}, GoOn(r, pc)
         PROVE  IdentityInv'
    <3>1. ASSUME NEW t \in Task, Same(q, t), t.pc = pc
          PROVE  Carries(t)
      BY <1>1, <2>1, <2>17, <3>1 DEF Same, Carries
    <3>2. ASSUME NEW t \in Task, Same(q, t), t.pc = pc
          PROVE  Carries(t)'
      BY <2>11, <3>1, <3>2, CarriesKept
    <3> QED  BY <1>1, <2>11, <2>15, <2>17, <3>2, FineGoOn DEF Places
  <2>18. Done(r) \/ GoOn(r, "purge") \/ GoOn(r, "credential")
    BY <1>1, <1>3 DEF Write
  <2> QED  BY <2>16, <2>17, <2>18
<1> QED  BY <1>2, <1>3

LEMMA PurgeKeeps ==
  ASSUME IdentityInv, NEW r \in Requests, Purge(r), UNCHANGED oauthTables
  PROVE  IdentityInv'
<1>1. PICK q \in Task : /\ q = reqs[r] /\ Carries(q) /\ q.pc = "purge"
                        /\ q.user \in Users \cap drawn
  BY TaskFacts DEF Purge, At, Carries
<1>2. PICK doomed \in SUBSET (Tokens \cap drawn) : doomed = q.doomed
  BY <1>1, FieldFacts DEF Carries
<1>3. PICK ts : ts = SessionsOf(q.user)
  OBVIOUS
<1>4. \A t \in doomed : t \in ts \/ sessions[t] = None
  BY <1>1, <1>2, <1>3 DEF Carries, SessionsOf
<1>5. EndSessions(ts)
  BY <1>1, <1>3 DEF Purge, Doomed
<1>6. CASE GoOn(r, "accounts") /\ UNCHANGED past
  <2>1. Evolves /\ AllFine'
    <3>1. PICK more \in SUBSET (Tokens \cap drawn) : more = {}
      OBVIOUS
    <3>2. ended' = ended \cup more /\ UNCHANGED removed
      BY <1>6, <3>1 DEF past
    <3> QED  BY <1>5, <3>1, <3>2, EndSessionsFine
  <2>2. \A t \in doomed : sessions'[t] = None
    BY <1>4, <1>5 DEF EndSessions
  <2>3. ASSUME NEW t \in Task, Same(q, t), t.pc = "accounts"
        PROVE  Carries(t)'
    <3>1. t.doomed = doomed /\ t.user = q.user /\ drawn \subseteq drawn'
      BY <1>2, <2>1, <2>3 DEF Same, Evolves
    <3> QED  BY <1>1, <2>2, <2>3, <3>1 DEF Carries
  <2> QED  BY <1>1, <1>6, <2>1, <2>3, FineGoOn DEF Places
<1>7. CASE Done(r) /\ ended' = ended \cup q.doomed /\ UNCHANGED <<menu, removed>>
  <2>1. Evolves /\ AllFine'
    BY <1>2, <1>4, <1>5, <1>7, EndSessionsFine
  <2> QED  BY <1>7, <2>1, FineDone
<1> QED  BY <1>1, <1>6, <1>7 DEF Purge

LEMMA DropKeeps ==
  ASSUME IdentityInv, NEW r \in Requests, Drop(r), UNCHANGED oauthTables
  PROVE  IdentityInv'
<1>1. PICK q \in Task : q = reqs[r] /\ Carries(q) /\ q.pc = "drop"
  BY TaskFacts DEF Drop, At
<1>2. PICK a : RemoveAccount(a) /\ Go(r, [q EXCEPT !.rest = @ \ {a}])
  BY <1>1 DEF Drop
<1>3. Evolves /\ AllFine'
  BY <1>2, RemoveAccountFine DEF Drop
<1>4. PICK rest \in SUBSET Accounts : rest = q.rest \ {a}
  BY FieldFacts
<1>5. PICK t : t = [q EXCEPT !.rest = rest]
  OBVIOUS
<1>6. t = [pc |-> "drop", op |-> q.op, caller |-> q.caller, user |-> q.user,
           provider |-> q.provider, subject |-> q.subject, key |-> q.key,
           email |-> q.email, role |-> q.role, pass |-> q.pass, rest |-> rest,
           doomed |-> q.doomed]
  BY <1>1, <1>5 DEF Task
<1>7. t \in Task
  <2>1. PICK doomed \in SUBSET Tokens : doomed = q.doomed
    BY FieldFacts
  <2>2. "drop" \in Places
    BY DEF Places
  <2> QED  BY <1>6, <2>1, <2>2, FieldFacts, Zenon DEF Task
<1>8. Carries(t)'
  <2>1. Carries(t)
    BY <1>1, <1>6 DEF Carries
  <2> QED  BY <1>3, <1>7, <2>1, CarriesKept
<1>9. Moves(r, t)
  <2>1. [q EXCEPT !.rest = @ \ {a}] = t
    BY <1>4, <1>5
  <2> QED  BY <1>2, <1>7, <2>1, MoveFacts
<1> QED  BY <1>3, <1>8, <1>9, FineKeeps

LEMMA DeleteKeeps ==
  ASSUME IdentityInv, NEW r \in Requests, Delete(r), UNCHANGED oauthTables
  PROVE  IdentityInv'
<1>1. PICK q \in Task : /\ q = reqs[r] /\ Carries(q) /\ q.pc = "drop"
                        /\ q.user \in Users \cap drawn
  BY TaskFacts DEF Delete, At, Carries
<1>2. PICK doomed \in SUBSET (Tokens \cap drawn) : doomed = q.doomed
  BY <1>1, FieldFacts DEF Carries
<1>3. \A t \in doomed : sessions[t] = None
  BY <1>1, <1>2 DEF Carries
<1>4. /\ RemoveUser(q.user) /\ removed' = removed \cup {q.user}
      /\ ended' = ended \cup doomed /\ Done(r)
  BY <1>1, <1>2 DEF Delete
<1>5. Evolves /\ AllFine'
  BY <1>1, <1>3, <1>4, RemoveUserFine
<1> QED  BY <1>4, <1>5, FineDone

LEMMA NewAccountKeeps ==
  ASSUME IdentityInv, NEW r \in Requests, NewAccount(r), UNCHANGED oauthTables
  PROVE  IdentityInv'
<1> USE DEF oauthTables
<1>1. PICK q \in Task : /\ q = reqs[r] /\ Carries(q) /\ q.pc = "newAccount"
                        /\ q.email \in Emails
  BY TaskFacts DEF NewAccount, At, Carries
<1>2. CASE Taken(q.email) # {}
  BY <1>1, <1>2, QuietDone DEF NewAccount
<1>3. CASE Taken(q.email) = {}
  <2>1. PICK role \in {"user", "admin"} : role = q.role
    BY FieldFacts
  <2>2. PICK row : row = [email |-> q.email, role |-> role, banned |-> FALSE, pass |-> TRUE]
    OBVIOUS
  <2>3. row \in User /\ row.email = q.email
    BY <1>1, <2>2 DEF User
  <2>4. PICK f : f = Fresh(Users)
    OBVIOUS
  <2>5. /\ InsertUser(row) /\ Users \ drawn # {} /\ UNCHANGED <<past, founder>>
        /\ Go(r, [q EXCEPT !.user = f, !.pc = "addCredential"])
        /\ founder' \in [Users -> Providers \cup {None}]
    BY <1>1, <1>3, <2>1, <2>2, <2>4, Parts DEF NewAccount, UsersFine
  <2>6. f \in Users
    BY <2>4, <2>5, FreshFacts
  <2>7. Evolves /\ AllFine'
    BY <1>3, <2>3, <2>5, InsertUserFine
  <2>8. PICK t : t = [q EXCEPT !.user = f, !.pc = "addCredential"]
    OBVIOUS
  <2>9. t = [pc |-> "addCredential", op |-> q.op, caller |-> q.caller, user |-> f,
             provider |-> q.provider, subject |-> q.subject, key |-> q.key,
             email |-> q.email, role |-> q.role, pass |-> q.pass, rest |-> q.rest,
             doomed |-> q.doomed]
    BY <2>8 DEF Task
  <2>10. t \in Task
    BY <2>6, <2>9, FieldFacts, ChangeFacts DEF Places
  <2>11. Carries(t)
    BY <1>1, <2>6, <2>9 DEF Carries
  <2> QED  BY <2>5, <2>7, <2>8, <2>10, <2>11, MoveFacts, FineKeeps, CarriesKept
<1> QED  BY <1>2, <1>3

LEMMA AddCredentialKeeps ==
  ASSUME IdentityInv, NEW r \in Requests, AddCredential(r), UNCHANGED oauthTables
  PROVE  IdentityInv'
<1>1. PICK u \in Users : u = reqs[r].user
  BY TaskFacts DEF AddCredential, At, Carries
<1>2. CASE ~CanLink(u, Credential, u)
  BY <1>1, <1>2, QuietDone DEF AddCredential
<1>3. CASE CanLink(u, Credential, u)
  <2>1. PICK row : row = [user |-> u, provider |-> Credential, subject |-> u, grant |-> None]
    OBVIOUS
  <2>2. row \in Account /\ row.user = u /\ row.provider = Credential /\ row.grant = None
    BY <2>1 DEF Account
  <2>3. InsertAccount(row) /\ Done(r) /\ UNCHANGED past
    BY <1>1, <1>3, <2>1 DEF AddCredential
  <2>4. Evolves /\ AllFine'
    BY <1>3, <2>2, <2>3, InsertAccountFine DEF CanLink
  <2> QED  BY <2>3, <2>4, FineDone
<1> QED  BY <1>2, <1>3

LEMMA ImpersonateKeeps ==
  ASSUME IdentityInv, NEW r \in Requests, Impersonate(r), UNCHANGED oauthTables
  PROVE  IdentityInv'
<1>1. PICK u \in Users : u = reqs[r].user
  BY TaskFacts DEF Impersonate, At, Carries
<1>2. PICK c \in Users \cup {None} : c = reqs[r].caller
  BY TaskFacts, FieldFacts
<1> QED  BY <1>1, <1>2, OpenFor DEF Impersonate

LEMMA ReturnKeeps ==
  ASSUME IdentityInv, NEW r \in Requests, Return(r), UNCHANGED oauthTables
  PROVE  IdentityInv'
<1>1. PICK u \in Users : u = reqs[r].user
  BY TaskFacts DEF Return, At, Carries
<1> QED  BY <1>1, OpenFor DEF Return

LEMMA EndKeeps ==
  ASSUME IdentityInv, NEW r \in Requests, End(r), UNCHANGED oauthTables
  PROVE  IdentityInv'
<1>1. PICK q \in Task : q = reqs[r] /\ Carries(q) /\ q.pc = "end" /\ q.doomed = {q.key}
  BY TaskFacts DEF End, At, Carries
<1>2. PICK doomed \in SUBSET (Tokens \cap drawn) : doomed = q.doomed
  BY <1>1, FieldFacts DEF Carries
<1>3. /\ EndSessions(doomed) /\ ended' = ended \cup doomed /\ removed' = removed
      /\ GoOn(r, "back") \/ Done(r)
  BY <1>1, <1>2 DEF End
<1>4. Evolves /\ AllFine'
  BY <1>3, EndSessionsFine
<1>5. CASE Done(r)
  BY <1>4, <1>5, FineDone
<1>6. CASE GoOn(r, "back")
  <2>1. ASSUME NEW t \in Task, Same(q, t), t.pc = "back"
        PROVE  Carries(t)
    BY <1>1, <2>1 DEF Same, Carries
  <2>2. ASSUME NEW t \in Task, Same(q, t), t.pc = "back"
        PROVE  Carries(t)'
    BY <1>4, <2>1, <2>2, CarriesKept
  <2> QED  BY <1>1, <1>4, <1>6, <2>2, FineGoOn DEF Places
<1> QED  BY <1>3, <1>5, <1>6

-----------------------------------------------------------------------------
(* The invariant.                                                           *)

LEMMA InvInit == Init => IdentityInv
<1> SUFFICES ASSUME Init PROVE IdentityInv
  OBVIOUS
<1> USE DEF Init, DirectoryInit, OAuthInit
<1>1. UsersFine
  <2>1. \A u \in Users : users[u] # None => u \in drawn /\ Taken(users[u].email) = {u}
    BY DEF Taken
  <2> QED  BY <2>1 DEF UsersFine
<1>2. AccountsFine
  BY DEF AccountsFine, GrantsMatch, TrustedLinks
<1>3. SessionsFine
  BY DEF SessionsFine, EndedStay
<1>4. StatesFine
  BY DEF StatesFine
<1>5. RemovalsFine
  BY DEF RemovalsFine, FullyRemoved
<1>6. drawn \subseteq Users \cup Accounts \cup Tokens \cup States
  OBVIOUS
<1>7. reqs \in [Requests -> Task] /\ \A r \in Requests : Carries(reqs[r])
  BY IdleFacts
<1> QED  BY <1>1, <1>2, <1>3, <1>4, <1>5, <1>6, <1>7 DEF IdentityInv

LEMMA AskOAuthKeeps ==
  ASSUME IdentityInv, NEW r \in Requests, AskOAuth(r)
  PROVE  IdentityInv'
BY AskSignInKeeps, AskLinkKeeps, AskRefreshKeeps, AskUnlinkKeeps, AskCallbackKeeps DEF AskOAuth

LEMMA OAuthStepKeeps ==
  ASSUME IdentityInv, NEW r \in Requests, OAuthStep(r)
  PROVE  IdentityInv'
BY StoreKeeps, ConsumeKeeps, LinkUserKeeps, LinkCheckKeeps, FindKeeps, UpdateKeeps,
   ReadUserKeeps, ByEmailKeeps, NewUserKeeps, CreateKeeps, OpenKeeps, ListKeeps, UnlinkKeeps,
   ReadTokensKeeps DEF OAuthStep

LEMMA AskAdminKeeps ==
  ASSUME IdentityInv, NEW r \in Requests, AskAdmin(r), UNCHANGED oauthTables
  PROVE  IdentityInv'
BY AskAboutKeeps, AskCreateKeeps, AskRevokeKeeps, AskStopKeeps DEF AskAdmin

LEMMA AdminStepKeeps ==
  ASSUME IdentityInv, NEW r \in Requests, AdminStep(r), UNCHANGED oauthTables
  PROVE  IdentityInv'
BY TargetKeeps, WriteKeeps, PurgeKeeps, ListAccountsKeeps, DropKeeps, DeleteKeeps,
   CredentialsKeeps, VacantKeeps, NewAccountKeeps, AddCredentialKeeps, ImpersonateKeeps,
   EndKeeps, BackKeeps, ReturnKeeps DEF AdminStep

LEMMA StutterKeeps ==
  ASSUME IdentityInv, UNCHANGED vars
  PROVE  IdentityInv'
<1> USE DEF vars, tables, past, oauthTables
<1>1. Evolves
  BY Parts DEF Evolves
<1>2. ASSUME NEW r \in Requests
      PROVE  Carries(reqs[r])'
  <2>1. PICK x \in Task : x = reqs[r] /\ Carries(x)
    BY TaskFacts
  <2> QED  BY <1>1, <2>1, CarriesKept DEF Carries
<1> QED  BY <1>1, <1>2, Parts, UsersKept, AccountsKept, SessionsKept, StatesKept, RemovalsKept
         DEF IdentityInv

LEMMA InvStep == IdentityInv /\ [Next]_vars => IdentityInv'
<1> SUFFICES ASSUME IdentityInv, [Next]_vars PROVE IdentityInv'
  OBVIOUS
<1>1. ASSUME NEW r \in Requests, AskOAuth(r) \/ OAuthStep(r)
      PROVE  IdentityInv'
  BY <1>1, AskOAuthKeeps, OAuthStepKeeps
<1>2. ASSUME NEW s \in States, Lapse(s)
      PROVE  IdentityInv'
  BY <1>2, LapseKeeps
<1>3. ASSUME NEW r \in Requests, AskAdmin(r) \/ AdminStep(r) \/ Abandon(r),
             UNCHANGED oauthTables
      PROVE  IdentityInv'
  BY <1>3, AskAdminKeeps, AdminStepKeeps, AbandonKeeps
<1> QED  BY <1>1, <1>2, <1>3, StutterKeeps DEF Next

\* The inductive invariant: what each task carries from the statements it has
\* executed, and what the rows, the states and the removals have in common with it.
THEOREM IdentityHolds == Spec => []IdentityInv
BY InvInit, InvStep, PTL DEF Spec

\* The tables are well formed (an address has one user), and the tokens of an
\* account act for its subject, whatever sign-ins, links, refreshes and unlinks
\* cross each other (callback_core, refresh_token_core).
THEOREM TokensMatch == Spec => []Consistent
<1>1. IdentityInv => Consistent
  BY DEF IdentityInv, Consistent, TypeOK, UsersFine, AccountsFine, SessionsFine, StatesFine
<1> QED  BY <1>1, IdentityHolds, PTL

\* An identity belongs to a user who asked for the link or was created for that
\* provider, unless the provider may link by address (callback_core).
THEOREM LinksTrusted == Spec => []TrustedLinks
<1>1. IdentityInv => TrustedLinks
  BY DEF IdentityInv, AccountsFine
<1> QED  BY <1>1, IdentityHolds, PTL

\* The sessions that a ban, a revocation, a removal or the end of an
\* impersonation has ended when it answers never come back.
THEOREM EndedForGood == Spec => []EndedStay
<1>1. IdentityInv => EndedStay
  BY DEF IdentityInv, SessionsFine
<1> QED  BY <1>1, IdentityHolds, PTL

\* With the foreign keys of the migrations, a removed user leaves no session, no
\* account and no password, whatever was under way for the user (remove_user_core).
THEOREM RemovalsComplete ==
  ASSUME Constraints
  PROVE  Spec => []FullyRemoved
<1>1. IdentityInv => FullyRemoved
  BY DEF IdentityInv, RemovalsFine
<1> QED  BY <1>1, IdentityHolds, PTL

\* A step of one task leaves the others where they are.
LEMMA OthersStay ==
  ASSUME reqs \in [Requests -> Task], NEW r \in Requests, NEW s \in Requests, s # r,
         AskOAuth(s) \/ OAuthStep(s) \/ AskAdmin(s) \/ AdminStep(s) \/ Abandon(s)
  PROVE  reqs'[r] = reqs[r]
<1>1. ASSUME NEW t, Go(s, t) PROVE reqs'[r] = reqs[r]
  BY <1>1 DEF Go
<1>2. ASSUME NEW pc, GoOn(s, pc) PROVE reqs'[r] = reqs[r]
  BY <1>2 DEF GoOn
<1>3. CASE Done(s)
  BY <1>3 DEF Done
<1>4. CASE AskOAuth(s)
  BY <1>1, <1>4 DEF AskOAuth, AskSignIn, AskLink, AskRefresh, AskUnlink, AskCallback
<1>5. CASE OAuthStep(s)
  BY <1>1, <1>2, <1>3, <1>5
     DEF OAuthStep, Store, Consume, LinkUser, LinkCheck, Find, Update, ReadUser, ByEmail,
         NewUser, Create, Open, List, Unlink, ReadTokens
<1>6. CASE AskAdmin(s)
  BY <1>1, <1>6 DEF AskAdmin, AskAbout, AskCreate, AskRevoke, AskStop
<1>7. CASE AdminStep(s)
  BY <1>1, <1>2, <1>3, <1>7
     DEF AdminStep, Target, Write, Purge, ListAccounts, Drop, Delete, Credentials, Vacant,
         NewAccount, AddCredential, Impersonate, End, Back, Return
<1>8. CASE Abandon(s)
  BY <1>3, <1>8 DEF Abandon
<1> QED  BY <1>4, <1>5, <1>6, <1>7, <1>8

LEMMA ConsumesOnly ==
  ASSUME NEW r \in Requests, reqs[r].pc = "consume",
         AskOAuth(r) \/ OAuthStep(r) \/ AskAdmin(r) \/ AdminStep(r)
  PROVE  Consume(r)
<1>1. reqs[r] # Idle
  BY DEF Idle
<1>2. ~AskOAuth(r)
  BY <1>1 DEF AskOAuth, AskSignIn, AskLink, AskRefresh, AskUnlink, AskCallback, Called
<1>3. ~AskAdmin(r)
  BY <1>1 DEF AskAdmin, AskAbout, AskCreate, AskRevoke, AskStop, Called
<1>4. OAuthStep(r) => Consume(r)
  BY DEF OAuthStep, Store, LinkUser, LinkCheck, Find, Update, ReadUser, ByEmail,
         NewUser, Create, Open, List, Unlink, ReadTokens, At
<1>5. ~AdminStep(r)
  BY DEF AdminStep, Target, Write, Purge, ListAccounts, Drop, Delete, Credentials, Vacant,
         NewAccount, AddCredential, Impersonate, End, Back, Return, At
<1> QED  BY <1>2, <1>3, <1>4, <1>5

\* However many callbacks present a state, one consumes it (consume_verification
\* in callback_core).
THEOREM StatesOnce == Spec => StateOnce
<1>1. IdentityInv /\ [Next]_vars =>
        [\A r \in Requests : At(r, "consume") /\ reqs'[r].pc \in {"find", "linkUser"}
           => reqs[r].key \notin spent]_vars
  <2> SUFFICES ASSUME IdentityInv, Next, NEW r \in Requests, At(r, "consume"),
                      reqs'[r].pc \in {"find", "linkUser"}
               PROVE  reqs[r].key \notin spent
    OBVIOUS
  <2>1. reqs \in [Requests -> Task] /\ reqs[r].pc = "consume"
    BY Parts DEF At
  <2>2. CASE Consume(r)
    <3>1. CASE states[reqs[r].key] # None
      <4>1. reqs[r].key \in States
        BY <2>1, TaskFacts DEF Carries
      <4> QED  BY <3>1, <4>1, Parts DEF StatesFine
    <3>2. CASE Done(r)
      BY <2>1, <3>2 DEF Done, Idle
    <3> QED  BY <2>2, <3>1, <3>2 DEF Consume
  <2>3. CASE Abandon(r)
    BY <2>1, <2>3 DEF Abandon, Done, Idle
  <2>4. ASSUME NEW s \in Requests, s # r,
               AskOAuth(s) \/ OAuthStep(s) \/ AskAdmin(s) \/ AdminStep(s) \/ Abandon(s)
        PROVE  FALSE
    BY <2>1, <2>4, OthersStay
  <2>5. ASSUME NEW s \in States, Lapse(s)
        PROVE  FALSE
    BY <2>1, <2>5 DEF Lapse
  <2> QED  BY <2>1, <2>2, <2>3, <2>4, <2>5, ConsumesOnly DEF Next
<1> QED  BY <1>1, IdentityHolds, PTL DEF Spec, StateOnce

=============================================================================
