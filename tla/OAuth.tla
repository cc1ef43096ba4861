-------------------------------- MODULE OAuth --------------------------------
(***************************************************************************)
(* The OAuth plugin (social sign-in, linking, the callback, refreshing the  *)
(* tokens of an account) and the account-management plugin (unlinking).     *)
(*                                                                         *)
(* The provider is external: it lets any subject authorize, it may refuse   *)
(* or not answer, and what it returns acts for that subject.  PKCE, scopes, *)
(* encryption and expiry of tokens are left out, get-access-token only      *)
(* reads, and update_user_info_on_link, which copies a name, is off.  X_y   *)
(* before X is a plausible bug in X.                                        *)
(***************************************************************************)
EXTENDS Directory

CONSTANTS
  Mail,             \* subject -> the address the provider gives for it
  LinkingEnabled,   \* account_linking.enabled
  Trusted,          \* account_linking.trusted_providers; {} trusts all
  UnlinkAll,        \* account_linking.allow_unlinking_all
  UpdateOnSignIn    \* account.update_account_on_sign_in

ASSUME OAuthAssumption ==
  /\ Mail \in [Subjects -> Emails] /\ Trusted \subseteq Providers
  /\ {LinkingEnabled, UnlinkAll, UpdateOnSignIn} \subseteq BOOLEAN

VARIABLES
  states,    \* the verification "oauth:<state>": [provider, link] or None
  spent,     \* history: the states a callback has consumed
  asked,     \* history: <<user, provider>> a user asked to be linked to
  founder    \* history: the provider a user was created for, or None

oauthTables == <<states, spent, asked, founder>>

OAuthInit ==
  /\ states = [s \in States |-> None] /\ spent = {} /\ asked = {}
  /\ founder = [u \in Users |-> None]

\* POST /sign-in/social, and POST /link-social by the user of a session.
AskSignIn(r, p) ==
  /\ Called(r, "signIn")
  /\ Go(r, [Idle EXCEPT !.op = "signIn", !.pc = "store", !.provider = p])
  /\ UNCHANGED <<tables, past, oauthTables>>

AskLink(r, t, p) ==
  /\ Called(r, "link") /\ Caller(t) # None
  /\ Go(r, [Idle EXCEPT !.op = "link", !.pc = "store", !.provider = p,
                        !.user = Caller(t)])
  /\ UNCHANGED <<tables, past, oauthTables>>

Store(r) ==
  /\ At(r, "store")
  /\ States \ drawn # {}
  /\ states' = [states EXCEPT ![Fresh(States)] =
                  [provider |-> reqs[r].provider, link |-> reqs[r].user]]
  /\ drawn' = drawn \cup {Fresh(States)}
  /\ asked' = IF reqs[r].user = None THEN asked
              ELSE asked \cup {<<reqs[r].user, reqs[r].provider>>}
  /\ Done(r)
  /\ UNCHANGED <<users, accounts, sessions, past, spent, founder>>

\* A state expires, or is swept.
Lapse(s) ==
  /\ states[s] # None
  /\ states' = [states EXCEPT ![s] = None]
  /\ UNCHANGED <<tables, past, reqs, spent, asked, founder>>

\* GET /callback/{provider}: a subject comes back from the provider.
AskCallback(r, p, s, x) ==
  /\ Called(r, "callback")
  /\ states[s] # None /\ states[s].provider = p
  /\ Go(r, [Idle EXCEPT !.op = "callback", !.pc = "consume", !.provider = p,
                        !.subject = x, !.key = s, !.user = states[s].link])
  /\ UNCHANGED <<tables, past, oauthTables>>

\* consume_verification decides which of several callbacks goes on to the
\* provider.
Consume_unchecked(r) ==
  /\ At(r, "consume")
  /\ states' = [states EXCEPT ![reqs[r].key] = None]
  /\ spent' = spent \cup {reqs[r].key}
  /\ GoOn(r, IF reqs[r].user = None THEN "find" ELSE "linkUser")
  /\ UNCHANGED <<tables, past, asked, founder>>
Consume(r) ==
  /\ At(r, "consume")
  /\ \/ /\ states[reqs[r].key] # None
        /\ states' = [states EXCEPT ![reqs[r].key] = None]
        /\ spent' = spent \cup {reqs[r].key}
        /\ GoOn(r, IF reqs[r].user = None THEN "find" ELSE "linkUser")
     \/ /\ states[reqs[r].key] = None
        /\ Done(r)
        /\ UNCHANGED <<states, spent>>
  /\ UNCHANGED <<tables, past, asked, founder>>

\* The callback of a link: get_user_by_id, then get_account.
LinkUser(r) ==
  /\ At(r, "linkUser")
  /\ IF Exists(reqs[r].user) THEN GoOn(r, "linkCheck") ELSE Done(r)
  /\ UNCHANGED <<tables, past, oauthTables>>

LinkCheck(r) ==
  /\ At(r, "linkCheck")
  /\ IF Linked(reqs[r].provider, reqs[r].subject) = {}
     THEN GoOn(r, "create") ELSE Done(r)
  /\ UNCHANGED <<tables, past, oauthTables>>

\* The callback of a sign-in: is the identity linked to someone?
Find(r) ==
  /\ At(r, "find")
  /\ \/ \E a \in Linked(reqs[r].provider, reqs[r].subject) :
          Go(r, [reqs[r] EXCEPT !.key = a, !.user = accounts[a].user,
                                !.pc = IF UpdateOnSignIn THEN "update" ELSE "user"])
     \/ /\ Linked(reqs[r].provider, reqs[r].subject) = {}
        /\ GoOn(r, "byEmail")
  /\ UNCHANGED <<tables, past, oauthTables>>

\* update_account writes the new tokens, at a sign-in or a refresh; an account
\* that is gone is an error.
Update(r) ==
  /\ At(r, "update")
  /\ \/ /\ accounts[reqs[r].key] # None
        /\ accounts' = [accounts EXCEPT ![reqs[r].key].grant = reqs[r].subject]
        /\ IF reqs[r].op = "callback" THEN GoOn(r, "user") ELSE Done(r)
     \/ /\ accounts[reqs[r].key] = None
        /\ Done(r) /\ UNCHANGED accounts
  /\ UNCHANGED <<users, sessions, drawn, past, oauthTables>>

ReadUser(r) ==
  /\ At(r, "user")
  /\ IF Exists(reqs[r].user) THEN GoOn(r, "open") ELSE Done(r)
  /\ UNCHANGED <<tables, past, oauthTables>>

\* Nobody has the identity: link it to the user with that address, if the
\* configuration allows it, or create one.
MayLink_always(p) == LinkingEnabled
MayLink(p) == LinkingEnabled /\ (Trusted = {} \/ p \in Trusted)

ByEmail(r) ==
  /\ At(r, "byEmail")
  /\ \/ \E u \in Taken(Mail[reqs[r].subject]) :
          IF MayLink(reqs[r].provider)
          THEN Go(r, [reqs[r] EXCEPT !.user = u, !.pc = "create"])
          ELSE Done(r)
     \/ /\ Taken(Mail[reqs[r].subject]) = {}
        /\ GoOn(r, "newUser")
  /\ UNCHANGED <<tables, past, oauthTables>>

NewUser(r) ==
  /\ At(r, "newUser")
  /\ \/ /\ Taken(Mail[reqs[r].subject]) = {} /\ Users \ drawn # {}
        /\ InsertUser([email |-> Mail[reqs[r].subject], role |-> "user",
                       banned |-> FALSE, pass |-> FALSE])
        /\ founder' = [founder EXCEPT ![Fresh(Users)] = reqs[r].provider]
        /\ Go(r, [reqs[r] EXCEPT !.user = Fresh(Users), !.pc = "create"])
     \/ /\ Taken(Mail[reqs[r].subject]) # {}
        /\ Done(r) /\ UNCHANGED <<tables, founder>>
  /\ UNCHANGED <<past, states, spent, asked>>

Create(r) ==
  /\ At(r, "create")
  /\ \/ /\ CanLink(reqs[r].user, reqs[r].provider, reqs[r].subject)
        /\ InsertAccount([user |-> reqs[r].user, provider |-> reqs[r].provider,
                          subject |-> reqs[r].subject, grant |-> reqs[r].subject])
        /\ GoOn(r, "open")
     \/ /\ ~CanLink(reqs[r].user, reqs[r].provider, reqs[r].subject)
        /\ Done(r) /\ UNCHANGED tables
  /\ UNCHANGED <<past, oauthTables>>

Open(r) ==
  /\ At(r, "open")
  /\ \/ /\ CanOpen(reqs[r].user)
        /\ InsertSession([user |-> reqs[r].user, by |-> None])
     \/ /\ ~CanOpen(reqs[r].user)
        /\ UNCHANGED tables
  /\ Done(r)
  /\ UNCHANGED <<past, oauthTables>>

\* POST /unlink-account: require_session has read whether there is a password.
AskUnlink(r, t, p) ==
  /\ Called(r, "unlink") /\ Exists(Caller(t))
  /\ Go(r, [Idle EXCEPT !.op = "unlink", !.pc = "list", !.provider = p,
                        !.user = Caller(t), !.pass = users[Caller(t)].pass])
  /\ UNCHANGED <<tables, past, oauthTables>>

List(r) ==
  /\ At(r, "list")
  /\ LET own == AccountsOf(reqs[r].user)
         others == {a \in own : accounts[a].provider # reqs[r].provider}
     IN \/ /\ UnlinkAll \/ reqs[r].pass \/ others # {}
           /\ \E a \in own \ others : Go(r, [reqs[r] EXCEPT !.key = a, !.pc = "unlink"])
        \/ /\ own \ others = {} \/ ~(UnlinkAll \/ reqs[r].pass \/ others # {})
           /\ Done(r)
  /\ UNCHANGED <<tables, past, oauthTables>>

Unlink(r) ==
  /\ At(r, "unlink")
  /\ RemoveAccount(reqs[r].key)
  /\ Done(r)
  /\ UNCHANGED <<past, oauthTables>>

\* POST /refresh-token: the provider gets the refresh token of the user's
\* account and returns tokens that act for the same subject.
AskRefresh(r, t, p) ==
  /\ Called(r, "refresh") /\ Caller(t) # None
  /\ Go(r, [Idle EXCEPT !.op = "refresh", !.pc = "tokens", !.provider = p,
                        !.user = Caller(t)])
  /\ UNCHANGED <<tables, past, oauthTables>>

Refreshable(r) == {a \in AccountsOf(reqs[r].user) : accounts[a].provider = reqs[r].provider}

ReadTokens(r) ==
  /\ At(r, "tokens")
  /\ \/ \E a \in Refreshable(r) :
          Go(r, [reqs[r] EXCEPT !.key = a, !.subject = accounts[a].grant, !.pc = "update"])
     \/ Refreshable(r) = {} /\ Done(r)
  /\ UNCHANGED <<tables, past, oauthTables>>

AskOAuth(r) ==
  \/ \E p \in Providers : AskSignIn(r, p)
  \/ \E p \in Providers, t \in Tokens : AskLink(r, t, p) \/ AskRefresh(r, t, p)
  \/ \E p \in Providers \cup {Credential}, t \in Tokens : AskUnlink(r, t, p)
  \/ \E p \in Providers, s \in States, x \in Subjects : AskCallback(r, p, s, x)

OAuthStep(r) ==
  \/ Store(r) \/ Consume(r) \/ LinkUser(r) \/ LinkCheck(r) \/ Find(r) \/ Update(r)
  \/ ReadUser(r) \/ ByEmail(r) \/ NewUser(r) \/ Create(r) \/ Open(r) \/ List(r)
  \/ Unlink(r) \/ ReadTokens(r)

=============================================================================
