---------------------------- MODULE OidcProvider ----------------------------
(***************************************************************************)
(* The OIDC provider plugin: the authorization-code flow with PKCE, from   *)
(* /authorize through /token to /userinfo, over the storage ports of       *)
(* crates/core/src/oidc/store.rs.                                          *)
(*                                                                         *)
(* A request is a task that interleaves with the others at every await.    *)
(* Hashes and random values are opaque: a challenge is the only verifier   *)
(* that answers it, a secret is right or wrong, and no random value is     *)
(* drawn twice.  X_y before X is a plausible bug in X.                     *)
(***************************************************************************)
EXTENDS Naturals

CONSTANTS
  Clients, Public,      \* registered clients, and the public ones
  Registered,           \* client -> its redirect URIs
  Allowed,              \* client -> its allowed scopes
  Uris, Scopes, OpenId, \* OpenId is the scope "openid"
  Users, Verifiers,
  Codes, AccessTokens,  \* what the generators can return
  Requests, None,
  Prompts,              \* the prompt parameters clients send
  LoginHook,            \* config.login_hook is there
  CodeTtl, AccessTtl,
  MaxTime               \* bound: the clock stops here

ASSUME OidcAssumption ==
  /\ Public \subseteq Clients /\ OpenId \in Scopes
  /\ Registered \in [Clients -> SUBSET Uris]
  /\ Allowed \in [Clients -> SUBSET Scopes]
  /\ CodeTtl \in Nat /\ AccessTtl \in Nat /\ MaxTime \in Nat
  /\ Prompts \subseteq {"default", "none", "login"}
  /\ LoginHook \in BOOLEAN
  /\ None \notin Clients \cup Users \cup Uris \cup Verifiers \cup Codes \cup AccessTokens

VARIABLES
  now,         \* config.runtime.clock
  users,       \* the users that exist
  codes,       \* oidc_authorization_codes: code -> row or None
  tokens,      \* oidc_access_tokens: token -> row or None
  reqs,        \* the state of every task
  authorized,  \* history: code -> what was authorized under it, or None
  minted       \* history: the token responses sent

vars == <<now, users, codes, tokens, reqs, authorized, minted>>

-----------------------------------------------------------------------------

\* An authorization: the row of a code.
Authorization == [client : Clients, user : Users, uri : Uris,
                  scope : SUBSET Scopes, challenge : Verifiers, expires : Nat]
\* The row of an access token.
Access == [client : Clients, user : Users, scope : SUBSET Scopes, expires : Nat]
\* A token response.
Response == [client : Clients, user : Users, scope : SUBSET Scopes,
             code : Codes, token : AccessTokens]

Pcs == {"idle", "subject", "store", "consume", "sign", "mint",
        "lookup", "info", "closed"}
\* "refused" stands for every error answer, "login" for the redirect to the
\* login hook.
Results == {"none", "refused", "login", "ok"}

\* scope and challenge are what an authorize asks for; verifier is what a token
\* request shows; at is the clock it read; grant is the row it consumed.
Request == [pc : Pcs, client : Clients \cup {None}, uri : Uris \cup {None},
            scope : SUBSET Scopes, challenge : Verifiers \cup {None},
            prompt : {"default", "none", "login"}, back : BOOLEAN,
            secret : {"none", "right", "wrong"}, code : Codes \cup {None},
            verifier : Verifiers \cup {None},
            grant : Authorization \cup {None}, at : Nat,
            token : AccessTokens \cup {None}, access : Access \cup {None},
            result : Results]

Blank == [pc |-> "idle", client |-> None, uri |-> None, scope |-> {},
          challenge |-> None, prompt |-> "default", back |-> FALSE,
          secret |-> "none", code |-> None, verifier |-> None, grant |-> None, at |-> 0,
          token |-> None, access |-> None, result |-> "none"]

Close(q, res) == [q EXCEPT !.pc = "closed", !.result = res]
Answer(res) == Close(Blank, res)

Become(r, q) == reqs' = [reqs EXCEPT ![r] = q]
At(r, pc) == reqs[r].pc = pc
Free(r) == reqs[r].pc \in {"idle", "closed"}

Init ==
  /\ now = 0
  /\ users = Users
  /\ codes = [c \in Codes |-> None]
  /\ tokens = [t \in AccessTokens |-> None]
  /\ reqs = [r \in Requests |-> Blank]
  /\ authorized = [c \in Codes |-> None]
  /\ minted = {}

-----------------------------------------------------------------------------
(* GET /authorize.                                                         *)

\* Bug: the redirect URI is not checked against the client's own.
UriKnown_Any(c, u) == \E d \in Clients : u \in Registered[d]
UriKnown(c, u) == u \in Registered[c]

\* Both kinds of client need a challenge: the second check refuses what
\* require_pkce_at_authorize lets through.
ParamsGood(c, scope, challenge) ==
  OpenId \in scope /\ scope \subseteq Allowed[c] /\ challenge # None

\* The checks before the session is looked up.  Nothing is redirected to an
\* URI that is not the client's.
AskAuthorize(r) ==
  /\ Free(r)
  /\ \E c \in Clients, u \in Uris, scope \in SUBSET Scopes,
        ch \in Verifiers \cup {None}, p \in Prompts :
       Become(r, IF ~UriKnown(c, u) \/ ~ParamsGood(c, scope, ch)
                 THEN Answer("refused")
                 ELSE [Blank EXCEPT !.pc = "subject", !.client = c, !.uri = u,
                         !.scope = scope, !.challenge = ch, !.prompt = p])
  /\ UNCHANGED <<now, users, codes, tokens, authorized, minted>>

\* require_session has answered with a user or with nothing (module Sessions),
\* and decide_authorization decides.
Decide(r) ==
  /\ At(r, "subject")
  /\ LET q == reqs[r] IN
     \E u \in users \cup {None} :
       /\ q.back => u # None
       /\ Become(r,
            IF u # None /\ q.prompt # "login"
            THEN [q EXCEPT !.pc = "store", !.at = now,
                    !.grant = [client |-> q.client, user |-> u, uri |-> q.uri,
                               scope |-> q.scope, challenge |-> q.challenge,
                               expires |-> now + CodeTtl]]
            ELSE IF LoginHook /\ q.prompt # "none" THEN Close(q, "login")
            ELSE Answer("refused"))
  /\ UNCHANGED <<now, users, codes, tokens, authorized, minted>>

\* The host logs the user in and sends the browser back to the authorize URL
\* it was given, query and all.
ComeBack(r) ==
  /\ At(r, "closed") /\ reqs[r].result = "login"
  /\ Become(r, [reqs[r] EXCEPT !.pc = "subject", !.result = "none", !.back = TRUE])
  /\ UNCHANGED <<now, users, codes, tokens, authorized, minted>>

\* create_authorization_code, under a code never drawn before.
StoreCode(r) ==
  /\ At(r, "store")
  /\ \E c \in Codes :
       /\ authorized[c] = None
       /\ codes' = [codes EXCEPT ![c] = reqs[r].grant]
       /\ authorized' = [authorized EXCEPT ![c] = reqs[r].grant]
  /\ Become(r, Answer("ok"))
  /\ UNCHANGED <<now, users, tokens, minted>>

-----------------------------------------------------------------------------
(* POST /token.                                                            *)

\* Bug: a client that shows no secret is taken for a public one.
Authentic_NoSecret(c, secret) == secret = "none" \/ (c \notin Public /\ secret = "right")
\* A confidential client shows its secret, a public one shows none.
Authentic(c, secret) == IF c \in Public THEN secret = "none" ELSE secret = "right"

\* The client authenticates before the code is touched; then the form is parsed
\* (what is missing or malformed is turned away as bad credentials are) and the
\* clock is read.  What a client shows need not be its own.
AskToken(r) ==
  /\ Free(r)
  /\ \E c \in Clients, secret \in {"none", "right", "wrong"}, k \in Codes,
        u \in Uris, v \in Verifiers \cup {None} :
       /\ authorized[k] # None
       /\ Become(r, IF ~Authentic(c, secret) THEN Answer("refused")
                    ELSE [Blank EXCEPT !.pc = "consume", !.client = c, !.uri = u,
                            !.secret = secret, !.code = k, !.verifier = v, !.at = now])
  /\ UNCHANGED <<now, users, codes, tokens, authorized, minted>>

\* Bug: the row is read here and deleted later, if at all.
AfterConsume_ReadOnly(k, at) == codes
\* DELETE ... WHERE code = k AND expires_at > at: one statement.
AfterConsume(k, at) ==
  IF codes[k] # None /\ codes[k].expires > at THEN [codes EXCEPT ![k] = None]
                                              ELSE codes

\* Bug: a request without a verifier skips PKCE.
Matches_NoPkce(q, row) == /\ row.client = q.client /\ row.uri = q.uri
                          /\ q.verifier \in {None, row.challenge}
                          /\ row.expires > q.at
\* decide_token_grant.
Matches(q, row) == /\ row.client = q.client /\ row.uri = q.uri
                   /\ row.challenge = q.verifier /\ row.expires > q.at

\* The consume, then the pure decision: a mismatch is found out after the code
\* is gone.
Consume(r) ==
  /\ At(r, "consume")
  /\ LET q == reqs[r]
         row == codes[q.code]
     IN /\ codes' = AfterConsume(q.code, q.at)
        /\ Become(r, IF row # None /\ Matches(q, row)
                     THEN [q EXCEPT !.pc = "sign", !.grant = row]
                     ELSE Answer("refused"))
  /\ UNCHANGED <<now, users, tokens, authorized, minted>>

\* issue_tokens loads the user (a missing one only leaves the claims empty) and
\* signs.  Either may fail: the code is spent all the same.
Sign(r) ==
  /\ At(r, "sign")
  /\ \/ Become(r, [reqs[r] EXCEPT !.pc = "mint"])
     \/ Become(r, Answer("refused"))
  /\ UNCHANGED <<now, users, codes, tokens, authorized, minted>>

NewAccess(q) == [client |-> q.grant.client, user |-> q.grant.user,
                 scope |-> q.grant.scope, expires |-> q.at + AccessTtl]

\* create_access_token, by the hash of a token never drawn before, and the
\* response.
Mint(r) ==
  /\ At(r, "mint")
  /\ LET q == reqs[r] IN
     \E t \in AccessTokens \ {m.token : m \in minted} :
       /\ tokens' = [tokens EXCEPT ![t] = NewAccess(q)]
       /\ minted' = minted \cup {[client |-> q.grant.client, user |-> q.grant.user,
                                  scope |-> q.grant.scope, code |-> q.code,
                                  token |-> t]}
       /\ Become(r, Answer("ok"))
  /\ UNCHANGED <<now, users, codes, authorized>>

-----------------------------------------------------------------------------
(* /userinfo.                                                              *)

AskInfo(r) ==
  /\ Free(r)
  /\ \E m \in minted : Become(r, [Blank EXCEPT !.pc = "lookup", !.token = m.token])
  /\ UNCHANGED <<now, users, codes, tokens, authorized, minted>>

\* Bug: a token is good without looking at the clock.
AccessExpired_Never(row) == FALSE
AccessExpired(row) == row.expires <= now

Lookup(r) ==
  /\ At(r, "lookup")
  /\ LET row == tokens[reqs[r].token] IN
       Become(r, IF row = None \/ (row # None /\ AccessExpired(row))
                 THEN Answer("refused")
                 ELSE [reqs[r] EXCEPT !.pc = "info", !.access = row, !.at = now])
  /\ UNCHANGED <<now, users, codes, tokens, authorized, minted>>

\* The claims of row.scope about row.user, if the user is still there.
Info(r) ==
  /\ At(r, "info")
  /\ Become(r, IF reqs[r].access.user \in users THEN Close(reqs[r], "ok")
                                                ELSE Answer("refused"))
  /\ UNCHANGED <<now, users, codes, tokens, authorized, minted>>

-----------------------------------------------------------------------------
(* The rest of the world.                                                  *)

\* delete_expired_authorization_codes and delete_expired_access_tokens, when the
\* host runs them.
DeleteExpiredCodes ==
  /\ codes' = [c \in Codes |-> IF codes[c] # None /\ codes[c].expires <= now
                               THEN None ELSE codes[c]]
  /\ UNCHANGED <<now, users, tokens, reqs, authorized, minted>>

DeleteExpiredTokens ==
  /\ tokens' = [t \in AccessTokens |-> IF tokens[t] # None /\ tokens[t].expires <= now
                                       THEN None ELSE tokens[t]]
  /\ UNCHANGED <<now, users, codes, reqs, authorized, minted>>

DeleteUser ==
  /\ \E u \in users : users' = users \ {u}
  /\ UNCHANGED <<now, codes, tokens, reqs, authorized, minted>>

Tick ==
  /\ now < MaxTime
  /\ now' = now + 1
  /\ UNCHANGED <<users, codes, tokens, reqs, authorized, minted>>

Begin(r) == AskAuthorize(r) \/ AskToken(r) \/ AskInfo(r)
Step(r) == \/ Decide(r) \/ StoreCode(r) \/ Consume(r) \/ Sign(r)
           \/ Mint(r) \/ Lookup(r) \/ Info(r)

Next == \/ \E r \in Requests : Begin(r) \/ ComeBack(r) \/ Step(r)
        \/ DeleteExpiredCodes \/ DeleteExpiredTokens \/ DeleteUser \/ Tick

Spec == Init /\ [][Next]_vars

-----------------------------------------------------------------------------
(* Properties.                                                             *)

\* Every variable holds a value of its type.
TypeOK ==
  /\ now \in 0..MaxTime
  /\ users \subseteq Users
  /\ codes \in [Codes -> Authorization \cup {None}]
  /\ tokens \in [AccessTokens -> Access \cup {None}]
  /\ reqs \in [Requests -> Request]
  /\ authorized \in [Codes -> Authorization \cup {None}]
  /\ minted \subseteq Response

\* "two racing redemptions cannot both win" (oidc/store.rs): a code yields one
\* token response, whoever redeems it and however the redemptions interleave.
SingleUse == \A m, n \in minted : m.code = n.code => m = n

\* A token response says what the user authorized under its code, and that is
\* within what the client is registered for.
GrantHonoured ==
  \A m \in minted : LET a == authorized[m.code] IN
    /\ a # None
    /\ m.client = a.client /\ m.user = a.user /\ m.scope = a.scope
    /\ a.uri \in Registered[a.client]
    /\ OpenId \in a.scope /\ a.scope \subseteq Allowed[a.client]

\* A task that is about to answer with tokens was the client the code was issued
\* to, at its redirect URI, knew the verifier, and came before the code expired.
HolderOnly ==
  \A r \in Requests : LET q == reqs[r] IN
    q.pc \in {"sign", "mint"} =>
      /\ authorized[q.code] # None
      /\ q.client = authorized[q.code].client /\ q.uri = authorized[q.code].uri
      /\ q.verifier = authorized[q.code].challenge
      /\ q.at < authorized[q.code].expires

\* "a client-auth failure never burns a valid code" (handle_token): a code that
\* has not expired goes only to a client that authenticated as its kind must.
OnlyClientsSpend ==
  [][\A k \in Codes :
       codes[k] # None /\ codes'[k] = None =>
         \/ codes[k].expires <= now
         \/ \E r \in Requests :
              /\ At(r, "consume") /\ ~At(r, "consume")' /\ reqs[r].code = k
              /\ reqs[r].secret = IF reqs[r].client \in Public THEN "none"
                                                              ELSE "right"]_vars

\* /userinfo answers within the lifetime of the access token, about the user and
\* within the scope authorized to the client under some code.
InfoAuthorized ==
  \A r \in Requests : LET q == reqs[r] IN
    q.access # None =>
      /\ q.at < q.access.expires
      /\ \E m \in minted : /\ m.token = q.token
                           /\ authorized[m.code].user = q.access.user
                           /\ authorized[m.code].client = q.access.client
                           /\ q.access.scope \subseteq authorized[m.code].scope

-----------------------------------------------------------------------------
(* What these rest on.                                                     *)

\* A client, URI and scope that passed the checks of /authorize.
Sound(c, u, scope) == /\ c \in Clients /\ u \in Registered[c]
                      /\ OpenId \in scope /\ scope \subseteq Allowed[c]

\* What a task at each place has already established.
Placed(q) ==
  /\ (q.pc = "subject" \/ q.result = "login") =>
       Sound(q.client, q.uri, q.scope) /\ q.challenge \in Verifiers
  /\ q.pc = "store" =>
       q.grant \in Authorization /\ Sound(q.grant.client, q.grant.uri, q.grant.scope)
  /\ q.pc = "consume" => /\ q.code \in Codes /\ authorized[q.code] # None
                         /\ Authentic(q.client, q.secret)
  /\ q.pc \in {"sign", "mint"} =>
       /\ q.code \in Codes /\ authorized[q.code] # None /\ codes[q.code] = None
       /\ q.grant = authorized[q.code]
       /\ q.client = q.grant.client /\ q.uri = q.grant.uri
       /\ q.verifier = q.grant.challenge /\ q.at < q.grant.expires
       /\ \A m \in minted : m.code # q.code
  /\ q.pc = "lookup" => q.token \in AccessTokens
  /\ q.pc = "info" => q.access \in Access
  /\ q.access # None =>
       /\ \/ q.pc = "info"
          \/ q.pc = "closed" /\ q.result = "ok"
       /\ q.at < q.access.expires
       /\ \E m \in minted : /\ m.token = q.token
                            /\ m.client = q.access.client /\ m.user = q.access.user
                            /\ m.scope = q.access.scope

\* Two tasks that redeemed a code redeemed different codes.
SpentApart == \A r, s \in Requests :
  (/\ r # s
   /\ reqs[r].pc \in {"sign", "mint"}
   /\ reqs[s].pc \in {"sign", "mint"}) => reqs[r].code # reqs[s].code

\* The tables agree with the history.
TablesAgree ==
  /\ \A k \in Codes :
       /\ codes[k] # None => codes[k] = authorized[k]
       /\ authorized[k] # None =>
            Sound(authorized[k].client, authorized[k].uri, authorized[k].scope)
  /\ \A t \in AccessTokens : tokens[t] # None =>
       \E m \in minted : /\ m.token = t /\ m.client = tokens[t].client
                        /\ m.user = tokens[t].user /\ m.scope = tokens[t].scope
  /\ \A m \in minted : /\ codes[m.code] = None /\ authorized[m.code] # None
                       /\ m.client = authorized[m.code].client
                       /\ m.user = authorized[m.code].user
                       /\ m.scope = authorized[m.code].scope

\* The inductive invariant.
IInv == /\ TypeOK
        /\ \A r \in Requests : Placed(reqs[r])
        /\ SpentApart
        /\ TablesAgree
        /\ SingleUse
=============================================================================
