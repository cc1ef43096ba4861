----------------------------- MODULE OidcProofs -----------------------------
(***************************************************************************)
(* Proofs about OidcProvider, for any clients, registrations, codes, tasks  *)
(* and lifetimes.  IInv is inductive: the proof goes action by action.      *)
(***************************************************************************)
EXTENDS OidcProvider, TLAPS

USE OidcAssumption

Redeeming(q) == q.pc \in {"sign", "mint"}

-----------------------------------------------------------------------------
(* What the operators on tasks yield.                                       *)

\* The blank task is a task.
LEMMA BlankFacts == Blank \in Request /\ Blank.access = None /\ Blank.result = "none"
BY DEF Blank, Request, Pcs, Results

\* A closed task is a task and keeps what it was about.
LEMMA CloseFacts ==
  ASSUME NEW q \in Request, NEW res \in Results
  PROVE  /\ Close(q, res) \in Request
         /\ Close(q, res).pc = "closed" /\ Close(q, res).result = res
         /\ Close(q, res).client = q.client /\ Close(q, res).uri = q.uri
         /\ Close(q, res).scope = q.scope /\ Close(q, res).challenge = q.challenge
         /\ Close(q, res).access = q.access /\ Close(q, res).at = q.at
         /\ Close(q, res).token = q.token
BY ZenonT(120) DEF Close, Request, Pcs

\* An answer remembers nothing.
LEMMA AnswerFacts ==
  ASSUME NEW res \in Results, res # "login"
  PROVE  /\ Answer(res) \in Request /\ Answer(res).pc = "closed"
         /\ Placed(Answer(res)) /\ Placed(Answer(res))'
<1>1. /\ Answer(res) \in Request /\ Answer(res).pc = "closed"
      /\ Answer(res).result = res /\ Answer(res).access = None
  BY BlankFacts, CloseFacts DEF Answer
<1> QED  BY <1>1 DEF Placed

-----------------------------------------------------------------------------
(* One task changes; the others are left where the invariant had them.      *)

LEMMA Frame ==
  ASSUME IInv, NEW r \in Requests, NEW q \in Request, Become(r, q), TypeOK',
         \A k \in Codes : authorized[k] # None =>
           /\ authorized'[k] = authorized[k]
           /\ codes[k] = None => codes'[k] = None,
         minted \subseteq minted',
         \A m \in minted' \ minted, s \in Requests :
           s # r /\ Redeeming(reqs[s]) => m.code # reqs[s].code,
         Redeeming(q) => \A s \in Requests :
           s # r /\ Redeeming(reqs[s]) => reqs[s].code # q.code,
         Placed(q)', TablesAgree', SingleUse'
  PROVE  IInv'
<1>1. reqs' = [reqs EXCEPT ![r] = q] /\ reqs \in [Requests -> Request]
  BY DEF Become, IInv, TypeOK
<1>2. reqs'[r] = q
  BY <1>1
<1>3. ASSUME NEW s \in Requests, s # r
      PROVE  reqs'[s] = reqs[s] /\ reqs[s] \in Request
  BY <1>1, <1>3
<1>4. ASSUME NEW s \in Requests PROVE Placed(reqs[s])'
  <2>1. CASE s = r  BY <2>1, <1>2 DEF Placed
  <2>2. CASE s # r
    <3>1. PICK p : p = reqs[s] /\ p = reqs'[s]
      BY <2>2, <1>3
    <3>2. Placed(p)
      BY <3>1 DEF IInv
    <3>3. ASSUME Redeeming(p), NEW m \in minted'
          PROVE  m.code # p.code
      <4>1. CASE m \in minted   BY <3>2, <3>3, <4>1 DEF Placed, Redeeming
      <4>2. CASE m \notin minted
        <5>1. m \in minted' \ minted /\ s # r /\ Redeeming(reqs[s])
          BY <2>2, <3>1, <3>3, <4>2
        <5> HIDE DEF Redeeming
        <5>2. m.code # reqs[s].code
          BY <5>1
        <5> QED  BY <5>2, <3>1
      <4> QED  BY <4>1, <4>2
    <3>4. Placed(p)'
      BY <3>2, <3>3 DEF Placed, Redeeming, Sound, Authentic
    <3> QED  BY <3>1, <3>4 DEF Placed
  <2> QED  BY <2>1, <2>2
<1>5. SpentApart'
  BY <1>2, <1>3 DEF IInv, SpentApart, Redeeming
<1> QED  BY <1>4, <1>5 DEF IInv

\* Nothing but the task changes.
LEMMA Quietly ==
  ASSUME IInv, NEW r \in Requests, NEW q \in Request, Become(r, q),
         UNCHANGED <<now, users, codes, tokens, authorized, minted>>,
         Redeeming(q) => Redeeming(reqs[r]) /\ q.code = reqs[r].code,
         Placed(q)
  PROVE  IInv'
<1>1. TypeOK'
  BY DEF IInv, TypeOK, Become
<1>2. Placed(q)'
  BY DEF Placed
<1>3. TablesAgree' /\ SingleUse'
  BY DEF IInv, TablesAgree, SingleUse
<1>4. ASSUME NEW s \in Requests, Redeeming(q), s # r, Redeeming(reqs[s])
      PROVE  reqs[s].code # q.code
  BY <1>4 DEF IInv, SpentApart, Redeeming
<1> QED  BY <1>1, <1>2, <1>3, <1>4, Frame

\* A task that answers at once.
LEMMA Answering ==
  ASSUME IInv, NEW r \in Requests, NEW res \in Results, res # "login",
         Become(r, Answer(res)),
         UNCHANGED <<now, users, codes, tokens, authorized, minted>>
  PROVE  IInv'
<1>1. PICK q \in Request : q = Answer(res) /\ q.pc = "closed" /\ Placed(q)
  BY AnswerFacts
<1>2. Become(r, q) /\ ~Redeeming(q)
  BY <1>1 DEF Become, Redeeming
<1> QED  BY <1>1, <1>2, Quietly

-----------------------------------------------------------------------------
(* /authorize.                                                              *)

LEMMA AskAuthorizeStep == ASSUME IInv, NEW r \in Requests, AskAuthorize(r) PROVE IInv'
<1>1. PICK c \in Clients, u \in Uris, scope \in SUBSET Scopes,
           ch \in Verifiers \cup {None}, p \in Prompts :
        Become(r, IF ~UriKnown(c, u) \/ ~ParamsGood(c, scope, ch)
                  THEN Answer("refused")
                  ELSE [Blank EXCEPT !.pc = "subject", !.client = c, !.uri = u,
                          !.scope = scope, !.challenge = ch, !.prompt = p])
  BY DEF AskAuthorize
<1>2. CASE ~UriKnown(c, u) \/ ~ParamsGood(c, scope, ch)
  <2>1. Become(r, Answer("refused"))  BY <1>1, <1>2
  <2> QED  BY <2>1, Answering DEF AskAuthorize, Results
<1>3. CASE UriKnown(c, u) /\ ParamsGood(c, scope, ch)
  <2>1. PICK q : q = [Blank EXCEPT !.pc = "subject", !.client = c, !.uri = u,
                        !.scope = scope, !.challenge = ch, !.prompt = p]
    OBVIOUS
  <2>2. /\ q \in Request /\ q.pc = "subject" /\ q.client = c /\ q.uri = u
        /\ q.scope = scope /\ q.challenge = ch /\ q.access = None
    <3>1. p \in {"default", "none", "login"}
      OBVIOUS
    <3> QED  BY <2>1, <3>1 DEF Blank, Request, Pcs, Results
  <2>3. Sound(q.client, q.uri, q.scope) /\ q.challenge \in Verifiers
    BY <1>3, <2>2 DEF UriKnown, ParamsGood, Sound
  <2>4. Placed(q) /\ ~Redeeming(q)
    BY <2>2, <2>3 DEF Placed, Redeeming
  <2>5. Become(r, q)
    BY <1>1, <1>3, <2>1
  <2> QED  BY <2>2, <2>4, <2>5, Quietly DEF AskAuthorize
<1> QED  BY <1>2, <1>3

LEMMA DecideStep == ASSUME IInv, NEW r \in Requests, Decide(r) PROVE IInv'
<1>1. PICK p \in Request : p = reqs[r] /\ p.pc = "subject" /\ Placed(p)
  BY DEF Decide, At, IInv, TypeOK
<1>2. Sound(p.client, p.uri, p.scope) /\ p.challenge \in Verifiers
  BY <1>1 DEF Placed
<1>3. PICK u \in users \cup {None} :
        Become(r,
          IF u # None /\ p.prompt # "login"
          THEN [p EXCEPT !.pc = "store", !.at = now,
                  !.grant = [client |-> p.client, user |-> u, uri |-> p.uri,
                             scope |-> p.scope, challenge |-> p.challenge,
                             expires |-> now + CodeTtl]]
          ELSE IF LoginHook /\ p.prompt # "none" THEN Close(p, "login")
          ELSE Answer("refused"))
  BY <1>1 DEF Decide
<1>4. CASE u # None /\ p.prompt # "login"
  <2>1. PICK g : g = [client |-> p.client, user |-> u, uri |-> p.uri,
                      scope |-> p.scope, challenge |-> p.challenge,
                      expires |-> now + CodeTtl]
    OBVIOUS
  <2>2. now + CodeTtl \in Nat /\ now \in Nat /\ u \in Users /\ p.uri \in Uris
    BY <1>2, <1>4 DEF IInv, TypeOK, Sound
  <2>3. /\ g \in Authorization
        /\ g.client = p.client /\ g.uri = p.uri /\ g.scope = p.scope
    BY <1>2, <2>1, <2>2 DEF Authorization, Sound, Request
  <2>4. PICK q : q = [p EXCEPT !.pc = "store", !.at = now, !.grant = g]
    OBVIOUS
  <2>5. /\ q \in Request /\ q.pc = "store" /\ q.grant = g
        /\ q.result = p.result /\ q.access = p.access
    BY <2>2, <2>3, <2>4 DEF Request, Pcs
  <2>6. q.client = p.client /\ q.uri = p.uri /\ q.scope = p.scope
        /\ q.challenge = p.challenge
    BY <2>4 DEF Request
  <2>7. p.access = None
    BY <1>1 DEF Placed
  <2>8. Placed(q) /\ ~Redeeming(q)
    BY <1>1, <1>2, <2>3, <2>5, <2>6, <2>7 DEF Placed, Redeeming
  <2>9. Become(r, q)
    BY <1>3, <1>4, <2>1, <2>4
  <2> QED  BY <2>5, <2>8, <2>9, Quietly DEF Decide
<1>5. CASE ~(u # None /\ p.prompt # "login") /\ LoginHook /\ p.prompt # "none"
  <2>1. PICK q : q = Close(p, "login")
    OBVIOUS
  <2>2. /\ q \in Request /\ q.pc = "closed" /\ q.result = "login"
        /\ q.client = p.client /\ q.uri = p.uri /\ q.scope = p.scope
        /\ q.challenge = p.challenge /\ q.access = p.access /\ q.at = p.at
        /\ q.token = p.token
    BY <2>1, CloseFacts DEF Results
  <2>3. Placed(q) /\ ~Redeeming(q)
    BY <1>1, <1>2, <2>2 DEF Placed, Redeeming
  <2>4. Become(r, q)
    BY <1>3, <1>5, <2>1
  <2> QED  BY <2>2, <2>3, <2>4, Quietly DEF Decide
<1>6. CASE ~(u # None /\ p.prompt # "login") /\ ~(LoginHook /\ p.prompt # "none")
  <2>1. Become(r, Answer("refused"))  BY <1>3, <1>6
  <2> QED  BY <2>1, Answering DEF Decide, Results
<1> QED  BY <1>4, <1>5, <1>6

LEMMA ComeBackStep == ASSUME IInv, NEW r \in Requests, ComeBack(r) PROVE IInv'
<1>1. PICK p \in Request :
        p = reqs[r] /\ p.pc = "closed" /\ p.result = "login" /\ Placed(p)
  BY DEF ComeBack, At, IInv, TypeOK
<1>2. /\ Sound(p.client, p.uri, p.scope) /\ p.challenge \in Verifiers
      /\ p.access = None
  BY <1>1 DEF Placed
<1>3. PICK q : q = [p EXCEPT !.pc = "subject", !.result = "none", !.back = TRUE]
  OBVIOUS
<1>4. /\ q \in Request /\ q.pc = "subject" /\ q.access = None
      /\ q.client = p.client /\ q.uri = p.uri /\ q.scope = p.scope
      /\ q.challenge = p.challenge
  <2>1. q \in Request
    BY <1>3, ZenonT(120) DEF Request, Pcs, Results
  <2>2. /\ q.pc = "subject" /\ q.access = p.access
        /\ q.client = p.client /\ q.uri = p.uri /\ q.scope = p.scope
        /\ q.challenge = p.challenge
    BY <1>3 DEF Request
  <2> QED  BY <1>2, <2>1, <2>2
<1>5. Placed(q) /\ ~Redeeming(q)
  BY <1>2, <1>4 DEF Placed, Redeeming
<1>6. Become(r, q)
  BY <1>1, <1>3 DEF ComeBack
<1> QED  BY <1>4, <1>5, <1>6, Quietly DEF ComeBack

\* What a waiting task is about is authorized from now on, and was not before.
LEMMA StoreCodeStep == ASSUME IInv, NEW r \in Requests, StoreCode(r) PROVE IInv'
<1>1. PICK g \in Authorization :
        g = reqs[r].grant /\ Sound(g.client, g.uri, g.scope)
  BY DEF StoreCode, At, IInv, TypeOK, Placed
<1>2. PICK c \in Codes : /\ authorized[c] = None
                         /\ codes' = [codes EXCEPT ![c] = g]
                         /\ authorized' = [authorized EXCEPT ![c] = g]
  BY <1>1 DEF StoreCode
<1>3. PICK q \in Request :
        q = Answer("ok") /\ q.pc = "closed" /\ Placed(q)'
  BY AnswerFacts DEF Results
<1>4. Become(r, q) /\ ~Redeeming(q)
  BY <1>3 DEF StoreCode, Redeeming
<1>5. TypeOK'
  BY <1>1, <1>2, <1>4 DEF IInv, TypeOK, StoreCode, Become
<1>6. /\ codes'[c] = g /\ authorized'[c] = g
      /\ \A k \in Codes : k # c => /\ codes'[k] = codes[k]
                                   /\ authorized'[k] = authorized[k]
  BY <1>2 DEF IInv, TypeOK
<1>7. TablesAgree'
  <2>1. \A k \in Codes :
          /\ codes'[k] # None => codes'[k] = authorized'[k]
          /\ authorized'[k] # None => Sound(authorized'[k].client,
                                            authorized'[k].uri, authorized'[k].scope)
    BY <1>1, <1>6 DEF IInv, TablesAgree
  <2>2. ASSUME NEW m \in minted
        PROVE  /\ codes'[m.code] = None /\ authorized'[m.code] # None
               /\ m.client = authorized'[m.code].client
               /\ m.user = authorized'[m.code].user
               /\ m.scope = authorized'[m.code].scope
    <3>1. m.code \in Codes /\ m.code # c
      BY <1>2 DEF IInv, TypeOK, Response, TablesAgree
    <3> QED  BY <3>1, <1>6 DEF IInv, TablesAgree
  <2>3. UNCHANGED <<tokens, minted>> /\ TablesAgree
    BY DEF StoreCode, IInv
  <2> QED  BY <2>1, <2>2, <2>3 DEF TablesAgree
<1>8. SingleUse'
  BY DEF IInv, SingleUse, StoreCode
<1>9. \A k \in Codes : authorized[k] # None =>
        /\ authorized'[k] = authorized[k]
        /\ codes[k] = None => codes'[k] = None
  BY <1>2, <1>6
<1> QED  BY <1>3, <1>4, <1>5, <1>7, <1>8, <1>9, Frame DEF StoreCode

-----------------------------------------------------------------------------
(* /token.                                                                  *)

LEMMA AskTokenStep == ASSUME IInv, NEW r \in Requests, AskToken(r) PROVE IInv'
<1>1. PICK c \in Clients, secret \in {"none", "right", "wrong"}, k \in Codes,
           u \in Uris, v \in Verifiers \cup {None} :
        /\ authorized[k] # None
        /\ Become(r, IF ~Authentic(c, secret) THEN Answer("refused")
                     ELSE [Blank EXCEPT !.pc = "consume", !.client = c, !.uri = u,
                             !.secret = secret, !.code = k, !.verifier = v, !.at = now])
  BY DEF AskToken
<1>2. CASE ~Authentic(c, secret)
  <2>1. Become(r, Answer("refused"))  BY <1>1, <1>2
  <2> QED  BY <2>1, Answering DEF AskToken, Results
<1>3. CASE Authentic(c, secret)
  <2>1. PICK q : q = [Blank EXCEPT !.pc = "consume", !.client = c, !.uri = u,
                        !.secret = secret, !.code = k, !.verifier = v, !.at = now]
    OBVIOUS
  <2>2. now \in Nat
    BY DEF IInv, TypeOK
  <2>3. /\ q \in Request /\ q.pc = "consume" /\ q.client = c /\ q.secret = secret
        /\ q.code = k /\ q.access = None /\ q.result = "none"
    BY <2>1, <2>2 DEF Blank, Request, Pcs, Results
  <2>4. Placed(q) /\ ~Redeeming(q)
    BY <1>1, <1>3, <2>3 DEF Placed, Redeeming
  <2>5. Become(r, q)
    BY <1>1, <1>3, <2>1
  <2> QED  BY <2>3, <2>4, <2>5, Quietly DEF AskToken
<1> QED  BY <1>2, <1>3

\* Only a code that was there comes back matched, and then it is there no more.
LEMMA ConsumeStep == ASSUME IInv, NEW r \in Requests, Consume(r) PROVE IInv'
<1>1. PICK p \in Request : /\ p = reqs[r] /\ p.pc = "consume" /\ Placed(p)
                           /\ p.code \in Codes /\ authorized[p.code] # None
                           /\ p.access = None
  BY DEF Consume, At, IInv, TypeOK, Placed
<1>2. PICK row \in Authorization \cup {None} : row = codes[p.code]
  BY <1>1 DEF IInv, TypeOK
<1>3. /\ codes' = AfterConsume(p.code, p.at)
      /\ Become(r, IF row # None /\ Matches(p, row)
                   THEN [p EXCEPT !.pc = "sign", !.grant = row]
                   ELSE Answer("refused"))
  BY <1>1, <1>2 DEF Consume
<1>4. /\ codes' \in [Codes -> Authorization \cup {None}]
      /\ \A k \in Codes : codes'[k] \in {None, codes[k]}
  BY <1>1, <1>3 DEF AfterConsume, IInv, TypeOK
<1>5. TablesAgree' /\ SingleUse'
  <2>1. \A m \in minted : m.code \in Codes
    BY DEF IInv, TypeOK, Response
  <2>2. UNCHANGED <<tokens, authorized, minted>> /\ TablesAgree /\ SingleUse
    BY DEF Consume, IInv
  <2>3. TablesAgree'
    BY <1>4, <2>1, <2>2 DEF TablesAgree, Sound
  <2> QED  BY <2>2, <2>3 DEF SingleUse
<1>6. \A k \in Codes : authorized[k] # None =>
        /\ authorized'[k] = authorized[k]
        /\ codes[k] = None => codes'[k] = None
  BY <1>4 DEF Consume
<1>7. ASSUME NEW q \in Request, Become(r, q) PROVE TypeOK'
  BY <1>4, <1>7 DEF IInv, TypeOK, Become, Consume
<1>8. CASE row # None /\ Matches(p, row)
  <2>1. PICK q : q = [p EXCEPT !.pc = "sign", !.grant = row]
    OBVIOUS
  <2>2. /\ q \in Request /\ q.pc = "sign" /\ q.grant = row /\ q.code = p.code
        /\ q.client = p.client /\ q.uri = p.uri /\ q.verifier = p.verifier
        /\ q.at = p.at /\ q.access = None /\ q.result = p.result
        /\ q.scope = p.scope /\ q.challenge = p.challenge
    <3>1. q \in Request
      BY <1>8, <2>1 DEF Request, Pcs
    <3>2. /\ q.pc = "sign" /\ q.grant = row /\ q.code = p.code /\ q.client = p.client
          /\ q.uri = p.uri /\ q.verifier = p.verifier /\ q.at = p.at
          /\ q.access = p.access /\ q.result = p.result
          /\ q.scope = p.scope /\ q.challenge = p.challenge
      BY <2>1 DEF Request
    <3> QED  BY <1>1, <3>1, <3>2
  <2>3. /\ row = authorized[p.code] /\ row.client = p.client /\ row.uri = p.uri
        /\ row.challenge = p.verifier /\ row.expires > p.at
    BY <1>1, <1>2, <1>8 DEF Matches, IInv, TablesAgree
  <2>4. codes'[p.code] = None
    BY <1>1, <1>2, <1>3, <1>8, <2>3 DEF AfterConsume, IInv, TypeOK
  <2>5. \A m \in minted : m.code # p.code
    BY <1>1, <1>2, <1>8 DEF IInv, TablesAgree
  <2>7. q.at < q.grant.expires
    <3>1. row \in Authorization /\ row.expires \in Nat /\ p.at \in Nat
      BY <1>8 DEF Authorization, Request
    <3> QED  BY <3>1, <2>2, <2>3
  <2>8. Placed(q)'
    <3>1. UNCHANGED <<authorized, minted>>
      BY DEF Consume
    <3> QED  BY <1>1, <2>2, <2>3, <2>4, <2>5, <2>7, <3>1 DEF Placed
  <2>9. Become(r, q) /\ Redeeming(q)
    BY <1>3, <1>8, <2>1, <2>2 DEF Redeeming
  <2>10. ASSUME NEW s \in Requests, s # r, Redeeming(reqs[s])
         PROVE  reqs[s].code # q.code
    <3>1. codes[reqs[s].code] = None
      BY <2>10 DEF IInv, Placed, Redeeming
    <3> QED  BY <3>1, <1>2, <1>8, <2>2
  <2>11. TypeOK'
    BY <1>7, <2>2, <2>9
  <2> QED  BY <1>5, <1>6, <2>2, <2>8, <2>9, <2>10, <2>11, Frame DEF Consume
<1>9. CASE ~(row # None /\ Matches(p, row))
  <2>1. PICK q \in Request : q = Answer("refused") /\ q.pc = "closed" /\ Placed(q)'
    BY AnswerFacts DEF Results
  <2>2. Become(r, q) /\ ~Redeeming(q)
    BY <1>3, <1>9, <2>1 DEF Redeeming
  <2>3. TypeOK'
    BY <1>7, <2>1, <2>2
  <2> QED  BY <1>5, <1>6, <2>1, <2>2, <2>3, Frame DEF Consume
<1> QED  BY <1>8, <1>9


LEMMA SignStep == ASSUME IInv, NEW r \in Requests, Sign(r) PROVE IInv'
<1>1. PICK p \in Request : p = reqs[r] /\ p.pc = "sign" /\ Placed(p)
  BY DEF Sign, At, IInv, TypeOK
<1>2. CASE Become(r, [p EXCEPT !.pc = "mint"])
  <2>1. PICK q : q = [p EXCEPT !.pc = "mint"]
    OBVIOUS
  <2>2. q \in Request
    BY <2>1 DEF Request, Pcs
  <2>3. /\ q.pc = "mint" /\ q.client = p.client /\ q.uri = p.uri
        /\ q.scope = p.scope /\ q.challenge = p.challenge /\ q.result = p.result
        /\ q.verifier = p.verifier /\ q.code = p.code /\ q.grant = p.grant
        /\ q.at = p.at /\ q.access = p.access /\ q.token = p.token
    BY <2>1 DEF Request
  <2>4. Placed(q)
    BY <1>1, <2>3 DEF Placed, Sound
  <2>5. Redeeming(reqs[r]) /\ q.code = reqs[r].code /\ Become(r, q)
    BY <1>1, <1>2, <2>1, <2>3 DEF Redeeming
  <2> QED  BY <2>2, <2>4, <2>5, Quietly DEF Sign
<1>3. CASE Become(r, Answer("refused"))
  BY <1>3, Answering DEF Sign, Results
<1> QED  BY <1>1, <1>2, <1>3 DEF Sign

\* The response is the only one under its code: the task was the only one that
\* redeemed it, and no response was sent before.
LEMMA MintStep == ASSUME IInv, NEW r \in Requests, Mint(r) PROVE IInv'
<1>1. PICK p \in Request : p = reqs[r] /\ p.pc = "mint" /\ Placed(p)
  BY DEF Mint, At, IInv, TypeOK
<1>2. PICK g : g = p.grant /\ g = authorized[p.code]
  BY <1>1 DEF Placed
<1>3. /\ g \in Authorization \cup {None} /\ g # None
      /\ p.code \in Codes /\ codes[p.code] = None
      /\ \A m \in minted : m.code # p.code
  BY <1>1, <1>2 DEF Placed, Request
<1>4. PICK t \in AccessTokens :
        /\ \A m \in minted : m.token # t
        /\ tokens' = [tokens EXCEPT ![t] = NewAccess(p)]
        /\ minted' = minted \cup {[client |-> g.client, user |-> g.user,
                                   scope |-> g.scope, code |-> p.code, token |-> t]}
  BY <1>1, <1>2 DEF Mint
<1>5. PICK n : n = [client |-> g.client, user |-> g.user, scope |-> g.scope,
                    code |-> p.code, token |-> t]
  OBVIOUS
<1>6. /\ n \in Response /\ n.client = g.client /\ n.user = g.user
      /\ n.scope = g.scope /\ n.code = p.code /\ n.token = t
      /\ minted' = minted \cup {n}
  BY <1>3, <1>4, <1>5 DEF Authorization, Response
<1>7. PICK a : a = NewAccess(p)
  OBVIOUS
<1>8. /\ a \in Access /\ a.client = g.client /\ a.user = g.user /\ a.scope = g.scope
      /\ tokens' = [tokens EXCEPT ![t] = a]
  <2>1. p.at + AccessTtl \in Nat
    BY DEF Request
  <2>2. g.client \in Clients /\ g.user \in Users /\ g.scope \in SUBSET Scopes
    BY <1>3 DEF Authorization
  <2>3. a = [client |-> g.client, user |-> g.user, scope |-> g.scope,
             expires |-> p.at + AccessTtl]
    BY <1>2, <1>7 DEF NewAccess
  <2>4. a \in Access
    BY <2>1, <2>2, <2>3 DEF Access
  <2>5. a.client = g.client /\ a.user = g.user /\ a.scope = g.scope
    BY <2>3
  <2>6. tokens' = [tokens EXCEPT ![t] = a]
    BY <1>4, <1>7
  <2> QED  BY <2>4, <2>5, <2>6
<1>9. PICK q \in Request : q = Answer("ok") /\ q.pc = "closed" /\ Placed(q)'
  BY AnswerFacts DEF Results
<1>10. Become(r, q) /\ ~Redeeming(q)
  BY <1>9 DEF Mint, Redeeming
<1>11. TypeOK'
  BY <1>6, <1>8, <1>10 DEF IInv, TypeOK, Mint, Become
<1>12. TablesAgree'
  <2>1. ASSUME NEW u \in AccessTokens, tokens'[u] # None
        PROVE  \E m \in minted' : /\ m.token = u
                 /\ m.client = tokens'[u].client /\ m.user = tokens'[u].user
                 /\ m.scope = tokens'[u].scope
    <3>1. CASE u = t
      <4>1. tokens'[u] = a
        BY <3>1, <1>8 DEF IInv, TypeOK
      <4> QED  BY <4>1, <3>1, <1>6, <1>8
    <3>2. CASE u # t
      <4>1. tokens'[u] = tokens[u]
        BY <3>2, <1>8 DEF IInv, TypeOK
      <4> QED  BY <4>1, <2>1, <1>6 DEF IInv, TablesAgree
    <3> QED  BY <3>1, <3>2
  <2>2. ASSUME NEW m \in minted'
        PROVE  /\ codes[m.code] = None /\ authorized[m.code] # None
               /\ m.client = authorized[m.code].client
               /\ m.user = authorized[m.code].user
               /\ m.scope = authorized[m.code].scope
    <3>1. CASE m = n
      BY <3>1, <1>2, <1>3, <1>6
    <3>2. CASE m \in minted
      BY <3>2 DEF IInv, TablesAgree
    <3> QED  BY <3>1, <3>2, <1>6
  <2> QED  BY <2>1, <2>2 DEF IInv, TablesAgree, Mint, Sound
<1>13. SingleUse'
  BY <1>3, <1>6 DEF IInv, SingleUse
<1>14. ASSUME NEW m \in minted' \ minted, NEW s \in Requests, s # r, Redeeming(reqs[s])
       PROVE  m.code # reqs[s].code
  <2>1. reqs[s].code # p.code
    BY <1>1, <1>14 DEF IInv, SpentApart, Redeeming
  <2>2. m = n
    BY <1>6
  <2> QED  BY <2>1, <2>2, <1>6
<1> QED  BY <1>9, <1>10, <1>11, <1>12, <1>13, <1>14, Frame DEF Mint

-----------------------------------------------------------------------------
(* /userinfo.                                                               *)

LEMMA AskInfoStep == ASSUME IInv, NEW r \in Requests, AskInfo(r) PROVE IInv'
<1>1. PICK m \in minted : Become(r, [Blank EXCEPT !.pc = "lookup", !.token = m.token])
  BY DEF AskInfo
<1>2. PICK q : q = [Blank EXCEPT !.pc = "lookup", !.token = m.token]
  OBVIOUS
<1>3. m.token \in AccessTokens
  BY DEF IInv, TypeOK, Response
<1>4. /\ q \in Request /\ q.pc = "lookup" /\ q.access = None /\ q.result = "none"
      /\ q.token = m.token
  BY <1>2, <1>3 DEF Blank, Request, Pcs, Results
<1>5. Placed(q) /\ ~Redeeming(q)
  BY <1>3, <1>4 DEF Placed, Redeeming
<1> QED  BY <1>1, <1>2, <1>4, <1>5, Quietly DEF AskInfo

LEMMA LookupStep == ASSUME IInv, NEW r \in Requests, Lookup(r) PROVE IInv'
<1>1. PICK p \in Request : /\ p = reqs[r] /\ p.pc = "lookup" /\ Placed(p)
                           /\ p.token \in AccessTokens
  BY DEF Lookup, At, IInv, TypeOK, Placed
<1>2. PICK row \in Access \cup {None} : row = tokens[p.token]
  BY <1>1 DEF IInv, TypeOK
<1>3. Become(r, IF row = None \/ (row # None /\ AccessExpired(row))
                THEN Answer("refused")
                ELSE [p EXCEPT !.pc = "info", !.access = row, !.at = now])
  BY <1>1, <1>2 DEF Lookup
<1>4. CASE row = None \/ AccessExpired(row)
  <2>1. Become(r, Answer("refused"))
    BY <1>3, <1>4
  <2> QED  BY <2>1, Answering DEF Lookup, Results
<1>5. CASE row # None /\ ~AccessExpired(row)
  <2>1. PICK q : q = [p EXCEPT !.pc = "info", !.access = row, !.at = now]
    OBVIOUS
  <2>2. now \in Nat /\ row \in Access /\ row.expires \in Nat
    BY <1>5 DEF IInv, TypeOK, Access
  <2>3. q \in Request
    BY <2>1, <2>2 DEF Request, Pcs
  <2>4. /\ q.pc = "info" /\ q.access = row /\ q.at = now /\ q.token = p.token
        /\ q.client = p.client /\ q.uri = p.uri /\ q.scope = p.scope
        /\ q.challenge = p.challenge /\ q.result = p.result
    BY <2>1 DEF Request
  <2>5. q.at < q.access.expires
    BY <1>5, <2>2, <2>4 DEF AccessExpired
  <2>6. \E m \in minted : /\ m.token = p.token /\ m.client = row.client
                          /\ m.user = row.user /\ m.scope = row.scope
    BY <1>1, <1>2, <1>5 DEF IInv, TablesAgree
  <2>7. Placed(q) /\ ~Redeeming(q)
    BY <1>1, <2>2, <2>4, <2>5, <2>6 DEF Placed, Redeeming, Sound
  <2>8. Become(r, q)
    BY <1>3, <1>5, <2>1
  <2> QED  BY <2>3, <2>7, <2>8, Quietly DEF Lookup
<1> QED  BY <1>4, <1>5

LEMMA InfoStep == ASSUME IInv, NEW r \in Requests, Info(r) PROVE IInv'
<1>1. PICK p \in Request : p = reqs[r] /\ p.pc = "info" /\ Placed(p)
  BY DEF Info, At, IInv, TypeOK
<1>2. Become(r, Close(p, "ok")) \/ Become(r, Answer("refused"))
  BY <1>1 DEF Info
<1>3. CASE Become(r, Answer("refused"))
  BY <1>3, Answering DEF Info, Results
<1>4. CASE Become(r, Close(p, "ok"))
  <2>1. PICK q : q = Close(p, "ok")
    OBVIOUS
  <2>2. /\ q \in Request /\ q.pc = "closed" /\ q.result = "ok"
        /\ q.access = p.access /\ q.at = p.at /\ q.token = p.token
    BY <2>1, CloseFacts DEF Results
  <2>3. Placed(q) /\ ~Redeeming(q)
    BY <1>1, <2>2 DEF Placed, Redeeming
  <2> QED  BY <1>4, <2>1, <2>2, <2>3, Quietly DEF Info
<1> QED  BY <1>2, <1>3, <1>4

-----------------------------------------------------------------------------
(* The rest of the world.                                                   *)

\* No task changes, and codes and tokens at most go.
LEMMA World ==
  ASSUME IInv, TypeOK', UNCHANGED <<reqs, authorized, minted>>,
         \A k \in Codes : codes'[k] \in {None, codes[k]},
         \A t \in AccessTokens : tokens'[t] \in {None, tokens[t]}
  PROVE  IInv'
<1>1. ASSUME NEW r \in Requests PROVE Placed(reqs[r])'
  <2>1. Placed(reqs[r])
    BY DEF IInv
  <2> QED  BY <2>1 DEF Placed
<1>2. TablesAgree'
  <2>1. \A m \in minted : m.code \in Codes
    BY DEF IInv, TypeOK, Response
  <2>2. \A k \in Codes :
          /\ codes'[k] # None => codes'[k] = authorized[k]
          /\ authorized[k] # None => Sound(authorized[k].client, authorized[k].uri,
                                           authorized[k].scope)
    BY DEF IInv, TablesAgree
  <2>3. ASSUME NEW t \in AccessTokens, tokens'[t] # None
        PROVE  \E m \in minted : /\ m.token = t
                 /\ m.client = tokens'[t].client /\ m.user = tokens'[t].user
                 /\ m.scope = tokens'[t].scope
    <3>1. tokens'[t] = tokens[t]
      BY <2>3
    <3> QED  BY <2>3, <3>1 DEF IInv, TablesAgree
  <2>4. ASSUME NEW m \in minted
        PROVE  /\ codes'[m.code] = None /\ authorized[m.code] # None
               /\ m.client = authorized[m.code].client
               /\ m.user = authorized[m.code].user
               /\ m.scope = authorized[m.code].scope
    BY <2>1 DEF IInv, TablesAgree
  <2> QED  BY <2>2, <2>3, <2>4 DEF TablesAgree, Sound
<1>3. SpentApart' /\ SingleUse'
  BY DEF IInv, SpentApart, SingleUse
<1> QED  BY <1>1, <1>2, <1>3 DEF IInv

LEMMA WorldSteps ==
  ASSUME IInv, DeleteExpiredCodes \/ DeleteExpiredTokens \/ DeleteUser \/ Tick
  PROVE  IInv'
<1>1. CASE DeleteExpiredCodes
  <2>1. /\ codes' \in [Codes -> Authorization \cup {None}]
        /\ \A k \in Codes : codes'[k] \in {None, codes[k]}
    BY <1>1 DEF DeleteExpiredCodes, IInv, TypeOK
  <2>2. TypeOK'
    BY <1>1, <2>1 DEF DeleteExpiredCodes, IInv, TypeOK
  <2> QED  BY <1>1, <2>1, <2>2, World DEF DeleteExpiredCodes
<1>2. CASE DeleteExpiredTokens
  <2>1. /\ tokens' \in [AccessTokens -> Access \cup {None}]
        /\ \A t \in AccessTokens : tokens'[t] \in {None, tokens[t]}
    BY <1>2 DEF DeleteExpiredTokens, IInv, TypeOK
  <2>2. TypeOK'
    BY <1>2, <2>1 DEF DeleteExpiredTokens, IInv, TypeOK
  <2> QED  BY <1>2, <2>1, <2>2, World DEF DeleteExpiredTokens
<1>3. CASE DeleteUser
  <2>1. TypeOK'
    BY <1>3 DEF DeleteUser, IInv, TypeOK
  <2> QED  BY <1>3, <2>1, World DEF DeleteUser
<1>4. CASE Tick
  <2>1. TypeOK'
    BY <1>4 DEF Tick, IInv, TypeOK
  <2> QED  BY <1>4, <2>1, World DEF Tick
<1> QED  BY <1>1, <1>2, <1>3, <1>4

-----------------------------------------------------------------------------

LEMMA InitIInv == Init => IInv
<1> SUFFICES ASSUME Init PROVE IInv
  OBVIOUS
<1>1. TypeOK
  BY BlankFacts DEF Init, TypeOK
<1>2. ASSUME NEW r \in Requests PROVE Placed(reqs[r]) /\ ~Redeeming(reqs[r])
  BY DEF Init, Blank, Placed, Redeeming
<1>3. SpentApart
  BY <1>2 DEF SpentApart, Redeeming
<1>4. TablesAgree /\ SingleUse
  BY DEF Init, TablesAgree, SingleUse
<1> QED  BY <1>1, <1>2, <1>3, <1>4 DEF IInv

LEMMA NextIInv == IInv /\ [Next]_vars => IInv'
<1> SUFFICES ASSUME IInv, [Next]_vars PROVE IInv'
  OBVIOUS
<1>1. CASE UNCHANGED vars
  BY <1>1 DEF vars, IInv, TypeOK, Placed, SpentApart, TablesAgree, SingleUse
<1>2. ASSUME NEW r \in Requests, Begin(r) \/ ComeBack(r)
      PROVE  IInv'
  BY <1>2, AskAuthorizeStep, AskTokenStep, AskInfoStep, ComeBackStep DEF Begin
<1>3. ASSUME NEW r \in Requests, Step(r)
      PROVE  IInv'
  BY <1>3, DecideStep, StoreCodeStep, ConsumeStep, SignStep, MintStep, LookupStep,
     InfoStep DEF Step
<1>4. CASE DeleteExpiredCodes \/ DeleteExpiredTokens \/ DeleteUser \/ Tick
  BY <1>4, WorldSteps
<1> QED  BY <1>1, <1>2, <1>3, <1>4 DEF Next

\* Whatever the interleaving, the invariant holds.
THEOREM Invariance == Spec => []IInv
BY InitIInv, NextIInv, PTL DEF Spec

\* The variables keep their types.
THEOREM TypeCorrect == Spec => []TypeOK
<1>1. IInv => TypeOK  BY DEF IInv
<1> QED  BY <1>1, Invariance, PTL

\* A code yields at most one token response, for any number of racing
\* redemptions.
THEOREM CodeUsedOnce == Spec => []SingleUse
<1>1. IInv => SingleUse  BY DEF IInv
<1> QED  BY <1>1, Invariance, PTL

\* A token response is what the user authorized, within the registration of
\* the client.
THEOREM GrantsHonoured == Spec => []GrantHonoured
<1>1. IInv => GrantHonoured
  BY DEF IInv, TypeOK, Response, TablesAgree, GrantHonoured, Sound
<1> QED  BY <1>1, Invariance, PTL

\* Only the client a code was issued to, with its verifier, gets to tokens.
THEOREM OnlyHolders == Spec => []HolderOnly
<1>1. IInv => HolderOnly
  <2> SUFFICES ASSUME IInv, NEW r \in Requests, reqs[r].pc \in {"sign", "mint"}
               PROVE  /\ authorized[reqs[r].code] # None
                      /\ reqs[r].client = authorized[reqs[r].code].client
                      /\ reqs[r].uri = authorized[reqs[r].code].uri
                      /\ reqs[r].verifier = authorized[reqs[r].code].challenge
                      /\ reqs[r].at < authorized[reqs[r].code].expires
    BY DEF HolderOnly
  <2>1. Placed(reqs[r])
    BY DEF IInv
  <2> QED  BY <2>1 DEF Placed
<1> QED  BY <1>1, Invariance, PTL

\* /userinfo answers within the lifetime, the user and the scope authorized.
THEOREM InfoIsAuthorized == Spec => []InfoAuthorized
<1>1. IInv => InfoAuthorized
  <2> SUFFICES ASSUME IInv, NEW r \in Requests, reqs[r].access # None
               PROVE  /\ reqs[r].at < reqs[r].access.expires
                      /\ \E m \in minted :
                           /\ m.token = reqs[r].token
                           /\ authorized[m.code].user = reqs[r].access.user
                           /\ authorized[m.code].client = reqs[r].access.client
                           /\ reqs[r].access.scope \subseteq authorized[m.code].scope
    BY DEF InfoAuthorized
  <2>1. Placed(reqs[r])
    BY DEF IInv
  <2>2. PICK m \in minted :
          /\ m.token = reqs[r].token /\ m.client = reqs[r].access.client
          /\ m.user = reqs[r].access.user /\ m.scope = reqs[r].access.scope
    BY <2>1 DEF Placed
  <2>3. /\ m.client = authorized[m.code].client /\ m.user = authorized[m.code].user
        /\ m.scope = authorized[m.code].scope
    BY DEF IInv, TablesAgree
  <2> QED  BY <2>1, <2>2, <2>3 DEF Placed
<1> QED  BY <1>1, Invariance, PTL


\* What a code that has not expired goes to is a client that authenticated.
THEOREM ClientsOnlySpend == Spec => OnlyClientsSpend
<1> DEFINE Spent(k) ==
      \/ codes[k].expires <= now
      \/ \E r \in Requests :
           /\ At(r, "consume") /\ ~At(r, "consume")' /\ reqs[r].code = k
           /\ reqs[r].secret = IF reqs[r].client \in Public THEN "none" ELSE "right"
<1>1. ASSUME IInv, [Next]_vars, NEW k \in Codes, codes[k] # None, codes'[k] = None
      PROVE  Spent(k)
  <2>1. codes' # codes
    BY <1>1
  <2>2. CASE \E r \in Requests : StoreCode(r)
    <3>1. PICK r \in Requests : StoreCode(r)
      BY <2>2
    <3>2. PICK c \in Codes : /\ authorized[c] = None
                             /\ codes' = [codes EXCEPT ![c] = reqs[r].grant]
      BY <3>1 DEF StoreCode
    <3>3. c # k
      BY <1>1, <3>2 DEF IInv, TablesAgree
    <3>4. codes'[k] = codes[k]
      BY <1>1, <3>2, <3>3 DEF IInv, TypeOK
    <3> QED  BY <1>1, <3>4
  <2>3. CASE \E r \in Requests : Consume(r)
    <3>1. PICK r \in Requests : Consume(r)
      BY <2>3
    <3>2. PICK p \in Request : /\ p = reqs[r] /\ p.pc = "consume"
                               /\ Authentic(p.client, p.secret)
      BY <1>1, <3>1 DEF Consume, At, IInv, TypeOK, Placed
    <3>3. k = p.code
      BY <1>1, <3>1, <3>2 DEF Consume, AfterConsume, IInv, TypeOK
    <3>4. PICK q : Become(r, q) /\ q.pc # "consume"
      <4>1. PICK row : /\ row = codes[p.code]
                       /\ Become(r, IF row # None /\ Matches(p, row)
                                    THEN [p EXCEPT !.pc = "sign", !.grant = row]
                                    ELSE Answer("refused"))
        BY <3>1, <3>2 DEF Consume
      <4>2. [p EXCEPT !.pc = "sign", !.grant = row].pc = "sign"
        BY DEF Request
      <4>3. Answer("refused").pc = "closed"
        BY AnswerFacts DEF Results
      <4> QED  BY <4>1, <4>2, <4>3
    <3>5. reqs'[r] = q
      BY <1>1, <3>4 DEF Become, IInv, TypeOK
    <3> QED  BY <3>2, <3>3, <3>4, <3>5 DEF At, Authentic
  <2>4. CASE DeleteExpiredCodes
    BY <1>1, <2>4 DEF DeleteExpiredCodes
  <2>5. CASE ~(\E r \in Requests : StoreCode(r) \/ Consume(r)) /\ ~DeleteExpiredCodes
    <3>1. codes' = codes
      BY <1>1, <2>5 DEF Next, Begin, Step, vars, AskAuthorize, AskToken, AskInfo,
         ComeBack, Decide, Sign, Mint, Lookup, Info, DeleteExpiredTokens, DeleteUser, Tick
    <3> QED  BY <2>1, <3>1
  <2> QED  BY <2>2, <2>3, <2>4, <2>5
<1>2. IInv /\ [Next]_vars =>
        [\A k \in Codes : codes[k] # None /\ codes'[k] = None => Spent(k)]_vars
  BY <1>1
<1>3. IInv /\ [Next]_vars =>
        [\A k \in Codes :
           codes[k] # None /\ codes'[k] = None =>
             \/ codes[k].expires <= now
             \/ \E r \in Requests :
                  /\ At(r, "consume") /\ ~At(r, "consume")' /\ reqs[r].code = k
                  /\ reqs[r].secret = IF reqs[r].client \in Public THEN "none"
                                                                  ELSE "right"]_vars
  BY <1>2
<1> QED  BY <1>3, Invariance, PTL DEF Spec, OnlyClientsSpend

=============================================================================
