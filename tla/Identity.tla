------------------------------ MODULE Identity ------------------------------
(***************************************************************************)
(* OAuth sign-in, account management and administration at work on the same *)
(* users, accounts and sessions.                                           *)
(***************************************************************************)
EXTENDS OAuth, Admin

\* The first users have signed up with an address and a password.
ASSUME IdentityAssumption ==
  /\ \A u, v \in Users : /\ FirstUsers[u] # None /\ FirstUsers[v] # None
                         /\ FirstUsers[u].email = FirstUsers[v].email
                         => u = v
  /\ \A a \in Accounts : FirstAccounts[a] # None =>
       FirstAccounts[a].provider = Credential /\ FirstAccounts[a].grant = None

vars == <<tables, past, reqs, oauthTables>>

Init == DirectoryInit /\ OAuthInit

Next ==
  \/ \E r \in Requests : AskOAuth(r) \/ OAuthStep(r)
  \/ \E s \in States : Lapse(s)
  \/ \E r \in Requests : /\ AskAdmin(r) \/ AdminStep(r) \/ Abandon(r)
                         /\ UNCHANGED oauthTables

Spec == Init /\ [][Next]_vars

-----------------------------------------------------------------------------
(* Properties.                                                              *)

\* Every variable holds a value of its type; what is in a table was handed out;
\* and no two users have the same address.
TypeOK ==
  /\ users \in [Users -> User \cup {None}]
  /\ accounts \in [Accounts -> Account \cup {None}]
  /\ sessions \in [Tokens -> Session \cup {None}]
  /\ states \in [States -> [provider : Providers, link : Users \cup {None}] \cup {None}]
  /\ drawn \subseteq Users \cup Accounts \cup Tokens \cup States
  /\ \A u \in Users : users[u] # None => u \in drawn /\ Taken(users[u].email) = {u}
  /\ asked \subseteq Users \X Providers
  /\ founder \in [Users -> Providers \cup {None}]

\* An OAuth state leads to the provider at most once, however many callbacks
\* present it at the same time (callback_core: "Invalid or expired OAuth state").
StateOnce ==
  [][\A r \in Requests :
       At(r, "consume") /\ reqs'[r].pc \in {"find", "linkUser"}
         => reqs[r].key \notin spent]_vars

\* An identity of a provider that may not link by address belongs to a user who
\* asked for the link, or who was created for that provider ("Account linking
\* is not allowed for this provider").
TrustedLinks ==
  \A a \in Accounts : accounts[a] # None /\ accounts[a].provider # Credential =>
    \/ LinkingEnabled /\ (Trusted = {} \/ accounts[a].provider \in Trusted)
    \/ <<accounts[a].user, accounts[a].provider>> \in asked
    \/ founder[accounts[a].user] = accounts[a].provider

\* The tokens kept with an account act for the subject of the account, whatever
\* sign-ins, links and refreshes cross each other.
GrantsMatch ==
  \A a \in Accounts : accounts[a] # None => accounts[a].grant \in {None, accounts[a].subject}

\* The tables are well formed and the tokens in them act for whom they are kept.
Consistent == TypeOK /\ GrantsMatch

\* What a ban, a revocation, a removal or the end of an impersonation has ended
\* when it answers stays ended, the user's sessions under impersonation too.
EndedStay == \A t \in ended : sessions[t] = None

\* A removed user leaves nothing: no session that was being opened, no account
\* that was being linked, no password that was being set.
FullyRemoved ==
  \A u \in removed : ~Exists(u) /\ AccountsOf(u) = {} /\ SessionsOf(u) = {}

-----------------------------------------------------------------------------
(* The inductive invariant behind the properties.                           *)

Places == {"idle", "store", "consume", "linkUser", "linkCheck", "find", "update", "user",
           "byEmail", "newUser", "create", "open", "list", "unlink", "tokens",
           "target", "write", "purge", "accounts", "drop", "credential", "addCredential",
           "email", "newAccount", "impersonate", "end", "back", "return"}
Endpoints == {"none", "signIn", "link", "callback", "unlink", "refresh", "createUser",
              "revokeSession", "stop"} \cup TargetOps

Task == [pc : Places, op : Endpoints, caller : Users \cup {None}, user : Users \cup {None},
         provider : Providers \cup {Credential, None}, subject : Subjects \cup {None},
         key : States \cup Accounts \cup Tokens \cup {None}, email : Emails \cup {None},
         role : {"user", "admin"}, pass : BOOLEAN,
         rest : SUBSET Accounts, doomed : SUBSET Tokens]

Permitted(u, p) == MayLink(p) \/ <<u, p>> \in asked \/ founder[u] = p

\* What a task carries from the statements it has executed: the identity that
\* came back, the right to link it, the account whose tokens it has, and whose
\* sessions it is to end.
Carries(q) ==
  /\ q.pc \in {"store", "consume", "find", "byEmail", "newUser", "create",
               "linkUser", "linkCheck"} => q.provider \in Providers
  /\ q.pc \in {"consume", "find", "byEmail", "newUser", "create", "linkUser",
               "linkCheck"} => q.subject \in Subjects
  /\ q.pc = "consume" => q.key \in States
  /\ q.pc \in {"consume", "linkUser", "linkCheck"} /\ q.user # None =>
       <<q.user, q.provider>> \in asked
  /\ q.pc \in {"linkCheck", "create", "open", "target", "purge", "accounts", "drop",
               "credential", "addCredential", "impersonate", "return"} => q.user \in Users
  /\ q.pc \in {"impersonate", "target"} => q.caller \in Users
  /\ q.pc = "create" => Permitted(q.user, q.provider)
  /\ q.pc = "update" =>
       /\ q.key \in Accounts \cap drawn
       /\ accounts[q.key] # None => q.subject \in {None, accounts[q.key].subject}
  /\ q.pc \in {"email", "newAccount"} => q.email \in Emails
  /\ q.doomed \subseteq drawn
  /\ q.pc \in {"target", "write", "purge", "accounts", "drop"} => q.user \in drawn
  /\ q.pc \in {"target", "write", "purge"} =>
       \A t \in q.doomed : sessions[t] # None => sessions[t].user = q.user
  /\ q.pc \in {"accounts", "drop"} => \A t \in q.doomed : sessions[t] = None
  /\ q.pc = "end" => q.doomed = {q.key}

UsersFine ==
  /\ users \in [Users -> User \cup {None}]
  /\ founder \in [Users -> Providers \cup {None}]
  /\ \A u \in Users : users[u] # None => u \in drawn /\ Taken(users[u].email) = {u}
  /\ \A u \in Users : founder[u] # None => u \in drawn

AccountsFine ==
  /\ accounts \in [Accounts -> Account \cup {None}]
  /\ \A a \in Accounts : accounts[a] # None => a \in drawn
  /\ GrantsMatch /\ TrustedLinks

SessionsFine ==
  /\ sessions \in [Tokens -> Session \cup {None}]
  /\ \A t \in Tokens : sessions[t] # None => t \in drawn
  /\ ended \subseteq Tokens \cap drawn
  /\ EndedStay

StatesFine ==
  /\ states \in [States -> [provider : Providers, link : Users \cup {None}] \cup {None}]
  /\ asked \subseteq Users \X Providers
  /\ \A s \in States : states[s] # None =>
       /\ s \in drawn
       /\ states[s].link # None => <<states[s].link, states[s].provider>> \in asked
  /\ spent \subseteq States \cap drawn
  /\ \A s \in spent : states[s] = None

RemovalsFine ==
  /\ removed \subseteq Users \cap drawn
  /\ Constraints => FullyRemoved

IdentityInv ==
  /\ UsersFine /\ AccountsFine /\ SessionsFine /\ StatesFine /\ RemovalsFine
  /\ drawn \subseteq Users \cup Accounts \cup Tokens \cup States
  /\ reqs \in [Requests -> Task]
  /\ \A r \in Requests : Carries(reqs[r])
=============================================================================
