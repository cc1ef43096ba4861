--------------------------- MODULE SessionsProofs ---------------------------
(***************************************************************************)
(* Proofs about Sessions, for any users, tokens, tasks, lifetimes and      *)
(* failures.  IInv is inductive: the proof goes action by action.          *)
(***************************************************************************)
EXTENDS Sessions, TLAPS

USE ConstantsAssumption, NoneAssumption

-----------------------------------------------------------------------------
(* What the operators on tasks yield.                                      *)

\* Closing a task leaves a task that is closed, keeps what it was about.
LEMMA CloseFacts ==
  ASSUME NEW q \in Request, NEW res \in Results
  PROVE /\ Close(q, res) \in Request
        /\ Close(q, res).pc = "closed" /\ Close(q, res).result = res
        /\ Close(q, res).op = q.op /\ Close(q, res).user = q.user
        /\ Close(q, res).token = q.token /\ Close(q, res).target = q.target
        /\ Close(q, res).alive = q.alive /\ Close(q, res).todo = q.todo
        /\ Close(q, res).people = q.people
BY DEF Close, Request, Pcs

\* A task that get_session hands a row to stays what it is about, and never
\* succeeds by that alone.
LEMMA GivenFacts ==
  ASSUME NEW q \in Request, NEW row \in Session \cup {None},
         q.result = "none"
  PROVE /\ Given(q, row) \in Request
        /\ Given(q, row).pc \in {"closed", "user", "act"}
        /\ Given(q, row).result # "ok"
        /\ Given(q, row).pc # "closed" => Given(q, row).result = "none"
        /\ Given(q, row).pc = "user" => /\ Given(q, row).call = "auth"
                                        /\ Given(q, row).held \in Session
        /\ Given(q, row).op = q.op /\ Given(q, row).user = q.user
        /\ Given(q, row).token = q.token /\ Given(q, row).target = q.target
        /\ Given(q, row).alive = q.alive /\ Given(q, row).people = q.people
<1>1. CASE q.call = "auth" /\ row = None
  <2>1. Given(q, row) = Close(q, "unauthenticated")  BY <1>1 DEF Given
  <2> QED  BY <2>1, CloseFacts DEF Results
<1>2. CASE q.call = "auth" /\ row # None
  <2>1. Given(q, row) = [q EXCEPT !.pc = "user", !.held = row]  BY <1>2 DEF Given
  <2> QED  BY <2>1, <1>2 DEF Request, Pcs
<1>3. CASE q.call = "owner" /\ row # None /\ row.user # q.user
  <2>1. Given(q, row) = Close(q, "forbidden")  BY <1>3 DEF Given
  <2> QED  BY <2>1, CloseFacts DEF Results
<1>4. CASE q.call = "exists" /\ row = None
  <2>1. Given(q, row) = Close(q, "absent")  BY <1>4 DEF Given
  <2> QED  BY <2>1, CloseFacts DEF Results
<1>5. CASE /\ q.call # "auth"
           /\ ~(q.call = "owner" /\ row # None /\ row.user # q.user)
           /\ ~(q.call = "exists" /\ row = None)
  <2> DEFINE kept == IF row = None THEN q.held ELSE None
             g == [q EXCEPT !.pc = "act", !.bump = 0, !.held = kept]
  <2>1. Given(q, row) = g
    BY <1>5 DEF Given
  <2>2. /\ g \in Request /\ g.pc = "act" /\ g.result = q.result
        /\ g.op = q.op /\ g.user = q.user /\ g.token = q.token
        /\ g.target = q.target /\ g.alive = q.alive /\ g.people = q.people
    BY ZenonT(120) DEF Request, Pcs
  <2> QED  BY <2>1, <2>2
<1> QED  BY <1>1, <1>2, <1>3, <1>4, <1>5

-----------------------------------------------------------------------------
(* One task changes; the rest of the invariant follows from what the step   *)
(* does to the database.                                                    *)

LEMMA Frame ==
  ASSUME IInv, NEW r \in Requests, NEW q \in Request, Become(r, q),
         now' = now, users' \subseteq users, issued' = issued,
         sessions' \in [Tokens -> Session \cup {None}],
         Live' \subseteq Live, NoReturn,
         Placed(q)', OnItsWay(q)', Gone(q)', IdleTimeout',
         q.pc = "insert" => q.token \notin Drawn
  PROVE  IInv'
<1>1. reqs' = [reqs EXCEPT ![r] = q] /\ reqs' \in [Requests -> Request]
  BY DEF Become, IInv, TypeOK
<1>2. TypeOK'
  BY <1>1 DEF IInv, TypeOK
<1>3. ASSUME NEW s \in Requests, s # r
      PROVE  reqs'[s] = reqs[s] /\ reqs[s] \in Request
  BY <1>1, <1>3 DEF IInv, TypeOK
<1>4. reqs'[r] = q
  BY <1>1 DEF IInv, TypeOK
<1>5. ASSUME NEW s \in Requests PROVE Placed(reqs[s])'
  <2>1. CASE s = r  BY <2>1, <1>4 DEF Placed, Subject
  <2>2. CASE s # r  BY <2>2, <1>3 DEF IInv, Placed, Subject
  <2> QED  BY <2>1, <2>2
<1>6. DrawnOnce'
  BY <1>3, <1>4 DEF IInv, DrawnOnce, At, Drawn
<1>7. ASSUME NEW s \in Requests PROVE OnItsWay(reqs[s])'
  <2>1. CASE s = r  BY <2>1, <1>4 DEF OnItsWay
  <2>2. CASE s # r
    <3>1. OnItsWay(reqs[s]) /\ reqs[s].alive \subseteq issued
      BY DEF IInv, Placed
    <3> QED  BY <2>2, <3>1, <1>3 DEF OnItsWay, NoReturn
  <2> QED  BY <2>1, <2>2
<1>8. ASSUME NEW s \in Requests PROVE Gone(reqs[s])'
  <2>1. CASE s = r  BY <2>1, <1>4 DEF Gone, Spared
  <2>2. CASE s # r
    <3>1. Gone(reqs[s]) /\ Placed(reqs[s]) /\ reqs[s] \in Request
      BY <1>3, <2>2 DEF IInv, RevokedMeansGone
    <3>2. reqs[s].result = "ok" => reqs[s].pc = "closed"
      BY <3>1 DEF Placed
    <3> QED  BY <2>2, <3>1, <3>2, <1>3 DEF Gone, Spared, NoReturn, Placed, AuthOps
  <2> QED  BY <2>1, <2>2
<1> QED  BY <1>2, <1>5, <1>6, <1>7, <1>8 DEF IInv, RevokedMeansGone

-----------------------------------------------------------------------------
(* Steps that leave the database alone.                                    *)

\* Nothing but the task changes: it is enough that the task is well placed.
LEMMA Quietly ==
  ASSUME IInv, NEW r \in Requests, NEW q \in Request, Become(r, q),
         UNCHANGED <<now, users, sessions, issued>>,
         Placed(q), OnItsWay(q), Gone(q),
         q.pc = "insert" => q.token \notin Drawn
  PROVE  IInv'
<1>1. Live' = Live /\ NoReturn
  BY DEF Live, NoReturn
<1>2. Placed(q)'
  BY DEF Placed, Subject
<1>3. OnItsWay(q)'
  BY DEF OnItsWay
<1>4. Gone(q)'
  BY DEF Gone, Spared
<1>5. IdleTimeout'
  BY <1>1 DEF IInv, IdleTimeout
<1> QED  BY <1>1, <1>2, <1>3, <1>4, <1>5, Frame DEF IInv, TypeOK

\* A fresh task.
LEMMA TaskFacts ==
  ASSUME IInv, NEW pc \in Pcs, NEW op \in AllOps,
         NEW call \in {"auth", "owner", "exists"}, NEW u \in Users \cup {None},
         NEW t \in Tokens \cup {None}, NEW x \in Tokens \cup {None}, NEW bump \in Nat,
         NEW q, q = Task(pc, op, call, u, t, x, bump)
  PROVE  /\ q \in Request
         /\ q.pc = pc /\ q.op = op /\ q.call = call /\ q.user = u /\ q.token = t
         /\ q.target = x /\ q.bump = bump /\ q.result = "none" /\ q.alive = Live
         /\ Live \subseteq issued
BY DEF IInv, TypeOK, Task, Request, Results, Live

LEMMA AskStep == ASSUME IInv, NEW r \in Requests, Ask(r) PROVE IInv'
<1>1. PICK op \in Ops \cap AuthOps, t \in issued, x \in issued \cup {None} :
        /\ (x # None) <=> (op = "revoke")
        /\ Become(r, Task("read", op, "auth", None, t, x, 0))
  BY DEF Ask
<1>2. PICK q : q = Task("read", op, "auth", None, t, x, 0)
  OBVIOUS
<1>3. issued \subseteq Tokens /\ op \in AllOps
  BY DEF IInv, TypeOK, AllOps
<1>4. /\ q \in Request /\ q.pc = "read" /\ q.op = op /\ q.call = "auth"
      /\ q.token = t /\ q.target = x /\ q.result = "none" /\ q.alive = Live
      /\ Live \subseteq issued
  <2>1. /\ "read" \in Pcs /\ "auth" \in {"auth", "owner", "exists"} /\ 0 \in Nat
        /\ op \in AllOps /\ None \in Users \cup {None}
        /\ t \in Tokens \cup {None} /\ x \in Tokens \cup {None}
    BY <1>3 DEF Pcs
  <2> QED  BY <2>1, <1>2, TaskFacts
<1>5. Placed(q)
  BY <1>1, <1>4 DEF Placed, Subject, Holding, Looking, AuthOps
<1>6. OnItsWay(q) /\ Gone(q)
  BY <1>4 DEF OnItsWay, Gone
<1> QED  BY <1>1, <1>2, <1>4, <1>5, <1>6, Quietly DEF Ask

LEMMA AskManagerStep == ASSUME IInv, NEW r \in Requests, AskManager(r) PROVE IInv'
<1>0. issued \subseteq Tokens
  BY DEF IInv, TypeOK
<1>1. PICK q :
        /\ Become(r, q)
        /\ \/ \E x \in issued : q = Task("read", "mgrRevoke", "exists", None, None, x, 0)
           \/ \E u \in Users : q = Task("act", "mgrRevokeAll", "auth", u, None, None, 0)
           \/ \E u \in Users, t \in issued :
                q = Task("act", "mgrRevokeOthers", "auth", u, t, None, 0)
  BY DEF AskManager
<1>2. /\ q \in Request /\ q.pc \in {"read", "act"}
      /\ q.op \in ManagerOps /\ q.result = "none" /\ q.alive \subseteq issued
      /\ q.op = "mgrRevoke" => q.target \in issued
      /\ q.pc = "read" => q.call = "exists" /\ q.target \in issued
  <2>1. /\ {"read", "act"} \subseteq Pcs
        /\ {"mgrRevoke", "mgrRevokeAll", "mgrRevokeOthers"} \subseteq AllOps
        /\ 0 \in Nat
    BY DEF Pcs, AllOps, ManagerOps
  <2>2. CASE \E x \in issued : q = Task("read", "mgrRevoke", "exists", None, None, x, 0)
    <3>1. PICK x \in issued : q = Task("read", "mgrRevoke", "exists", None, None, x, 0)
      BY <2>2
    <3> QED  BY <1>0, <2>1, <3>1, TaskFacts DEF ManagerOps
  <2>3. CASE \E u \in Users : q = Task("act", "mgrRevokeAll", "auth", u, None, None, 0)
    <3>1. PICK u \in Users : q = Task("act", "mgrRevokeAll", "auth", u, None, None, 0)
      BY <2>3
    <3> QED  BY <2>1, <3>1, TaskFacts DEF ManagerOps
  <2>4. CASE \E u \in Users, t \in issued :
               q = Task("act", "mgrRevokeOthers", "auth", u, t, None, 0)
    <3>1. PICK u \in Users, t \in issued :
            q = Task("act", "mgrRevokeOthers", "auth", u, t, None, 0)
      BY <2>4
    <3> QED  BY <1>0, <2>1, <3>1, TaskFacts, SMTT(60) DEF ManagerOps
  <2> QED  BY <1>1, <2>2, <2>3, <2>4
<1>3. Placed(q)
  BY <1>2 DEF Placed, Subject, Holding, Looking, AuthOps, ManagerOps
<1>4. OnItsWay(q) /\ Gone(q)
  BY <1>2 DEF OnItsWay, Gone
<1> QED  BY <1>1, <1>2, <1>3, <1>4, Quietly DEF AskManager

LEMMA AskSignInStep == ASSUME IInv, NEW r \in Requests, AskSignIn(r) PROVE IInv'
<1>1. PICK u \in users, t \in Tokens \ (issued \cup Drawn) :
        Become(r, Task("insert", "signIn", "auth", u, t, None, now + ExpiresIn))
  BY DEF AskSignIn
<1>2. PICK q : q = Task("insert", "signIn", "auth", u, t, None, now + ExpiresIn)
  OBVIOUS
<1>3. users \subseteq Users /\ now \in Nat /\ now + ExpiresIn \in Nat
  BY DEF IInv, TypeOK
<1>b. PICK b \in Nat : b = now + ExpiresIn
  BY <1>3
<1>4. /\ q \in Request /\ q.pc = "insert" /\ q.op = "signIn" /\ q.call = "auth"
      /\ q.user = u /\ q.token = t /\ q.bump = now + ExpiresIn
      /\ q.result = "none" /\ q.alive = Live /\ Live \subseteq issued
  <2>1. "insert" \in Pcs /\ "signIn" \in AllOps /\ "auth" \in {"auth", "owner", "exists"}
        /\ u \in Users \cup {None} /\ t \in Tokens \cup {None} /\ b \in Nat
    BY <1>3 DEF Pcs, AllOps
  <2>2. q = Task("insert", "signIn", "auth", u, t, None, b)
    BY <1>2, <1>b
  <2> QED  BY <2>1, <2>2, <1>b, TaskFacts
<1>5. Placed(q)
  BY <1>3, <1>4 DEF Placed, Holding, Looking, AuthOps
<1>6. OnItsWay(q) /\ Gone(q)
  BY <1>4 DEF OnItsWay, Gone
<1> QED  BY <1>1, <1>2, <1>4, <1>5, <1>6, Quietly DEF AskSignIn

-----------------------------------------------------------------------------
(* get_session.                                                            *)

\* What get_session returns, wherever it returns from.
LEMMA GivenStep ==
  ASSUME IInv, NEW r \in Requests, NEW row \in Session \cup {None},
         reqs[r].pc \in Looking
  PROVE  LET q == Given(reqs[r], row) IN
           q \in Request /\ Placed(q) /\ OnItsWay(q) /\ Gone(q) /\ q.pc # "insert"
<1> DEFINE p == reqs[r]
<1>1. p \in Request /\ Placed(p) /\ p.pc # "closed" /\ p.pc # "idle"
  BY DEF IInv, TypeOK, Looking
<1>2. PICK q : q = Given(p, row)
  OBVIOUS
<1>3. /\ q \in Request /\ q.pc \in {"closed", "user", "act"}
      /\ q.result # "ok" /\ (q.pc # "closed" => q.result = "none")
      /\ q.pc = "user" => q.call = "auth" /\ q.held \in Session
      /\ q.op = p.op /\ q.user = p.user /\ q.token = p.token
      /\ q.target = p.target /\ q.alive = p.alive
  BY <1>1, <1>2, GivenFacts DEF Placed
<1>4. Placed(q)
  BY <1>1, <1>3 DEF Placed, Looking, Holding
<1>5. OnItsWay(q) /\ Gone(q)
  BY <1>3 DEF OnItsWay, Gone
<1> QED  BY <1>2, <1>3, <1>4, <1>5

\* A task that goes on to another await of get_session.
LEMMA GoOn ==
  ASSUME IInv, NEW r \in Requests, NEW q \in Request,
         reqs[r].pc \in Looking, q.pc \in Looking,
         q.op = reqs[r].op, q.call = reqs[r].call, q.token = reqs[r].token,
         q.target = reqs[r].target, q.alive = reqs[r].alive,
         q.result = reqs[r].result,
         q.pc \in Holding => q.held \in Session,
         q.pc = "update" => q.bump <= now + ExpiresIn
  PROVE  Placed(q) /\ OnItsWay(q) /\ Gone(q) /\ q.pc # "insert"
<1>1. Placed(reqs[r])
  BY DEF IInv
<1> QED  BY <1>1 DEF Placed, OnItsWay, Gone, Subject, Looking, Holding

LEMMA ReadSessionStep == ASSUME IInv, NEW r \in Requests, ReadSession(r) PROVE IInv'
<1> DEFINE p == reqs[r]
<1>1. p \in Request /\ Placed(p) /\ p.pc = "read" /\ p.pc \in Looking
  BY DEF IInv, TypeOK, ReadSession, At, Looking
<1>2. PICK row \in Session \cup {None} : row = sessions[Subject(p)]
  BY <1>1 DEF IInv, TypeOK, Placed
<1>3. CASE row = None
  <2>1. PICK q : q = Given(p, None)
    OBVIOUS
  <2>2. Become(r, q)
    BY <1>2, <1>3, <2>1 DEF ReadSession
  <2> QED  BY <1>1, <2>1, <2>2, GivenStep, Quietly DEF ReadSession
<1>4. CASE row # None
  <2>1. PICK q : q = [p EXCEPT !.pc = "judge", !.held = row]
    OBVIOUS
  <2>2. Become(r, q)
    BY <1>2, <1>4, <2>1 DEF ReadSession
  <2>3. /\ q \in Request /\ q.pc = "judge" /\ q.held \in Session /\ q.op = p.op
        /\ q.call = p.call /\ q.token = p.token /\ q.target = p.target
        /\ q.alive = p.alive /\ q.result = p.result
    BY <1>1, <1>4, <2>1 DEF Request, Pcs
  <2>4. Placed(q) /\ OnItsWay(q) /\ Gone(q) /\ q.pc # "insert"
    BY <1>1, <2>3, GoOn DEF Looking
  <2> QED  BY <2>2, <2>3, <2>4, Quietly DEF ReadSession
<1> QED  BY <1>3, <1>4

LEMMA JudgeStep == ASSUME IInv, NEW r \in Requests, Judge(r) PROVE IInv'
<1> DEFINE p == reqs[r]
<1>1. /\ p \in Request /\ Placed(p) /\ p.pc = "judge" /\ p.pc \in Looking
      /\ p.held \in Session
  BY DEF IInv, TypeOK, Judge, At, Looking, Placed, Holding
<1>2. now + ExpiresIn \in Nat
  BY DEF IInv, TypeOK
<1>3. PICK b \in Nat : b = now + ExpiresIn
  BY <1>2
<1>4. PICK q : /\ Become(r, q)
               /\ \/ q = [p EXCEPT !.pc = "purge"]
                  \/ q = [p EXCEPT !.pc = "update", !.bump = b]
                  \/ q = Given(p, p.held)
  BY <1>3 DEF Judge
<1>5. CASE q = Given(p, p.held)
  BY <1>1, <1>4, <1>5, GivenStep, Quietly DEF Judge
<1>6. CASE q = [p EXCEPT !.pc = "purge"] \/ q = [p EXCEPT !.pc = "update", !.bump = b]
  <2>1. /\ q \in Request /\ q.pc \in {"purge", "update"} /\ q.held = p.held
        /\ q.op = p.op /\ q.call = p.call /\ q.token = p.token
        /\ q.target = p.target /\ q.alive = p.alive /\ q.result = p.result
        /\ q.pc = "update" => q.bump = b
    BY <1>1, <1>6, ZenonT(120) DEF Request, Pcs
  <2>2. b <= now + ExpiresIn
    BY <1>2, <1>3
  <2>3. Placed(q) /\ OnItsWay(q) /\ Gone(q) /\ q.pc # "insert"
    BY <1>1, <1>3, <2>1, <2>2, GoOn DEF Looking
  <2> QED  BY <1>4, <2>1, <2>3, Quietly DEF Judge
<1> QED  BY <1>4, <1>5, <1>6

LEMMA ReReadStep == ASSUME IInv, NEW r \in Requests, ReRead(r) PROVE IInv'
<1> DEFINE p == reqs[r]
<1>1. /\ p \in Request /\ Placed(p) /\ p.pc = "reread" /\ p.pc \in Looking
      /\ p.held \in Session
  BY DEF IInv, TypeOK, ReRead, At, Looking, Placed, Holding
<1>2. PICK row \in Session \cup {None} : row = sessions[Subject(p)]
  BY <1>1 DEF IInv, TypeOK, Placed
<1>3. PICK got \in Session \cup {None} : Become(r, Given(p, got))
  BY <1>1, <1>2 DEF ReRead
<1>4. PICK q : q = Given(p, got)
  OBVIOUS
<1> QED  BY <1>1, <1>3, <1>4, GivenStep, Quietly DEF ReRead

-----------------------------------------------------------------------------
(* Steps that delete.                                                      *)

LEMMA WithoutFacts ==
  ASSUME TypeOK, NEW T, sessions' = Without(T), UNCHANGED <<now, issued>>
  PROVE  /\ sessions' \in [Tokens -> Session \cup {None}]
         /\ \A t \in Tokens : sessions'[t] # None =>
                                t \notin T /\ sessions'[t] = sessions[t]
         /\ \A t \in Tokens \cap T : sessions'[t] = None
         /\ Live' \subseteq Live /\ NoReturn
         /\ IdleTimeout => IdleTimeout'
<1>1. sessions' \in [Tokens -> Session \cup {None}]
  BY DEF TypeOK, Without
<1>2. \A t \in Tokens : sessions'[t] # None => t \notin T /\ sessions'[t] = sessions[t]
  BY DEF Without
<1>3. \A t \in Tokens \cap T : sessions'[t] = None
  BY DEF Without
<1>4. Live' \subseteq Live /\ NoReturn
  BY <1>2 DEF Live, NoReturn, TypeOK
<1>5. IdleTimeout => IdleTimeout'
  BY <1>2, <1>4 DEF IdleTimeout, Live
<1> QED  BY <1>1, <1>2, <1>3, <1>4, <1>5

LEMMA Removing ==
  ASSUME IInv, NEW r \in Requests, NEW q \in Request, Become(r, q),
         NEW T, sessions' = Without(T), UNCHANGED <<now, issued>>,
         users' \subseteq users, Placed(q), OnItsWay(q)', Gone(q)',
         q.pc # "insert"
  PROVE  IInv'
<1>1. TypeOK /\ IdleTimeout
  BY DEF IInv
<1>2. Placed(q)'
  BY DEF Placed, Subject
<1> QED  BY <1>1, <1>2, WithoutFacts, Frame

LEMMA PurgeStep == ASSUME IInv, NEW r \in Requests, Purge(r) PROVE IInv'
<1> DEFINE p == reqs[r]
<1>1. p \in Request /\ Placed(p) /\ p.pc \in Looking /\ p.result = "none"
  BY DEF IInv, TypeOK, Purge, At, Looking, Placed
<1>2. PICK q : q = Given(p, None)
  OBVIOUS
<1>3. Become(r, q)
  BY <1>2 DEF Purge
<1>4. /\ q \in Request /\ Placed(q) /\ OnItsWay(q) /\ Gone(q)
      /\ q.pc \in {"closed", "user", "act"} /\ q.result # "ok"
  BY <1>1, <1>2, GivenStep, GivenFacts
<1>5. OnItsWay(q)' /\ Gone(q)'
  BY <1>4 DEF OnItsWay, Gone
<1>6. CASE sessions' = Without({Subject(p)})
  BY <1>3, <1>4, <1>5, <1>6, Removing DEF Purge
<1>7. CASE sessions' = sessions
  BY <1>3, <1>4, <1>7, Quietly DEF Purge
<1> QED  BY <1>6, <1>7 DEF Purge

LEMMA DeleteOneStep == ASSUME IInv, NEW r \in Requests, DeleteOne(r) PROVE IInv'
<1> DEFINE p == reqs[r]
<1>1. p \in Request /\ Placed(p) /\ p.pc = "act" /\ issued \subseteq Tokens
  BY DEF IInv, TypeOK, DeleteOne, At
<1>2. PICK q : q = Close(p, "ok")
  OBVIOUS
<1>3. /\ q \in Request /\ q.pc = "closed" /\ q.op = p.op /\ q.token = p.token
      /\ q.target = p.target /\ q.alive = p.alive
  BY <1>1, <1>2, CloseFacts DEF Results
<1>4. Placed(q)
  BY <1>1, <1>3 DEF Placed, Looking, Holding
<1>5. PICK x : x = Doomed(p)
  OBVIOUS
<1>6. sessions' = Without({x}) /\ Become(r, q) /\ p.op \in {"signOut", "revoke", "mgrRevoke"}
  BY <1>2, <1>5 DEF DeleteOne
<1>7. x \in Tokens
  BY <1>1, <1>5, <1>6 DEF Placed, AuthOps, Doomed
<1>8. sessions'[x] = None
  BY <1>6, <1>7 DEF Without
<1>9. OnItsWay(q)' /\ Gone(q)'
  BY <1>3, <1>5, <1>6, <1>8 DEF OnItsWay, Gone, Doomed
<1> QED  BY <1>3, <1>4, <1>6, <1>9, Removing DEF DeleteOne

LEMMA DeleteAllStep == ASSUME IInv, NEW r \in Requests, DeleteAll(r) PROVE IInv'
<1> DEFINE p == reqs[r]
<1>1. p \in Request /\ Placed(p) /\ p.pc = "act" /\ p.result = "none"
  BY DEF IInv, TypeOK, DeleteAll, At, Placed
<1>2. PICK q : q = IF p.op = "delete" THEN [p EXCEPT !.pc = "drop"] ELSE Close(p, "ok")
  OBVIOUS
<1>3. /\ q \in Request /\ q.op = p.op /\ q.user = p.user /\ q.alive = p.alive
      /\ q.token = p.token /\ q.target = p.target
      /\ \/ q.pc = "drop" /\ q.op = "delete" /\ q.result = "none"
         \/ q.pc = "closed"
  BY <1>1, <1>2, CloseFacts DEF Results, Request, Pcs
<1>4. Placed(q)
  BY <1>1, <1>3 DEF Placed, Looking, Holding
<1>5. PICK T : T = SessionsOf(p.user)
  OBVIOUS
<1>6. /\ sessions' = Without(T) /\ Become(r, q)
      /\ p.op \in {"revokeAll", "delete", "mgrRevokeAll"}
  BY <1>2, <1>5 DEF DeleteAll
<1>7. \A t \in Tokens : sessions'[t] # None => sessions'[t].user # p.user
  BY <1>5, <1>6 DEF Without, SessionsOf, Live
<1>8. q.alive \subseteq Tokens
  BY <1>3 DEF Request
<1>9. OnItsWay(q)' /\ Gone(q)'
  BY <1>3, <1>6, <1>7, <1>8 DEF OnItsWay, Gone
<1> QED  BY <1>3, <1>4, <1>6, <1>9, Removing DEF DeleteAll

LEMMA DeleteUserStep == ASSUME IInv, NEW r \in Requests, DeleteUser(r) PROVE IInv'
<1> DEFINE p == reqs[r]
<1>1. p \in Request /\ Placed(p) /\ OnItsWay(p) /\ p.pc = "drop" /\ p.op = "delete"
  BY DEF IInv, TypeOK, DeleteUser, At, Placed
<1>2. PICK q : q = Close(p, "ok")
  OBVIOUS
<1>3. /\ q \in Request /\ q.pc = "closed" /\ q.op = "delete" /\ q.user = p.user
      /\ q.token = p.token /\ q.alive = p.alive
  BY <1>1, <1>2, CloseFacts DEF Results
<1>4. Placed(q)'
  BY <1>1, <1>3 DEF Placed, Looking, Holding, DeleteUser
<1>5. \A t \in p.alive : sessions[t] # None => sessions[t].user # p.user
  BY <1>1 DEF OnItsWay
<1>6. OnItsWay(q)' /\ Gone(q)'
  BY <1>3, <1>5 DEF OnItsWay, Gone, DeleteUser
<1>7. /\ Live' \subseteq Live /\ NoReturn /\ users' \subseteq users
      /\ sessions' \in [Tokens -> Session \cup {None}]
      /\ Become(r, q) /\ now' = now /\ issued' = issued
  BY <1>2 DEF DeleteUser, Live, NoReturn, IInv, TypeOK
<1>8. IdleTimeout'
  BY <1>7 DEF IInv, IdleTimeout, DeleteUser, Live
<1> QED  BY <1>3, <1>4, <1>6, <1>7, <1>8, Frame

LEMMA DeleteNextStep == ASSUME IInv, NEW r \in Requests, DeleteNext(r) PROVE IInv'
<1> DEFINE p == reqs[r]
<1>1. /\ p \in Request /\ Placed(p) /\ OnItsWay(p) /\ p.pc = "loop"
      /\ p.result = "none" /\ p.alive \subseteq Tokens
  BY DEF IInv, TypeOK, DeleteNext, At, Placed, Request
<1>2. PICK t \in p.todo : /\ sessions' = Without({t})
                          /\ Become(r, [p EXCEPT !.todo = @ \ {t}])
  BY DEF DeleteNext
<1>3. PICK q : q = [p EXCEPT !.todo = @ \ {t}]
  OBVIOUS
<1>4. /\ q \in Request /\ q.pc = "loop" /\ q.op = p.op /\ q.user = p.user
      /\ q.token = p.token /\ q.target = p.target /\ q.alive = p.alive
      /\ q.todo = p.todo \ {t} /\ q.result = "none"
  BY <1>1, <1>3 DEF Request
<1>5. Placed(q)
  BY <1>1, <1>4 DEF Placed, Looking, Holding
<1>6. \A s \in Tokens : sessions'[s] # None => s # t /\ sessions'[s] = sessions[s]
  BY <1>2 DEF Without
<1>7. OnItsWay(q)' /\ Gone(q)'
  BY <1>1, <1>4, <1>6 DEF OnItsWay, Gone
<1> QED  BY <1>2, <1>3, <1>4, <1>5, <1>7, Removing DEF DeleteNext

-----------------------------------------------------------------------------
(* The remaining steps of a task.                                          *)

LEMMA LoadUserStep == ASSUME IInv, NEW r \in Requests, LoadUser(r) PROVE IInv'
<1> DEFINE p == reqs[r]
           known == [p EXCEPT !.user = p.held.user, !.held = None, !.bump = 0]
<1>1. /\ p \in Request /\ Placed(p) /\ p.pc = "user" /\ p.held \in Session
      /\ p.result = "none"
  BY DEF IInv, TypeOK, LoadUser, At, Placed, Holding
<1>2. CASE Become(r, Close(p, "unauthenticated"))
  <2>1. PICK q : q = Close(p, "unauthenticated")
    OBVIOUS
  <2>2. /\ q \in Request /\ q.pc = "closed" /\ q.result = "unauthenticated"
        /\ q.op = p.op /\ q.token = p.token /\ q.target = p.target /\ q.alive = p.alive
    BY <1>1, <2>1, CloseFacts DEF Results
  <2>3. Placed(q) /\ OnItsWay(q) /\ Gone(q)
    BY <1>1, <2>2 DEF Placed, Looking, Holding, OnItsWay, Gone
  <2> QED  BY <1>2, <2>1, <2>2, <2>3, Quietly DEF LoadUser
<1>3. CASE Become(r, CASE p.op = "get" -> Close(known, "ok")
                       [] p.op = "revoke" ->
                            [known EXCEPT !.pc = "read", !.call = "owner"]
                       [] OTHER -> [known EXCEPT !.pc = "act"])
  <2>1. PICK k : k = known
    OBVIOUS
  <2>2. /\ k \in Request /\ k.op = p.op /\ k.token = p.token /\ k.target = p.target
        /\ k.alive = p.alive /\ k.result = "none"
    BY <1>1, <2>1 DEF Request, Session
  <2>3. PICK q : q = CASE p.op = "get" -> Close(k, "ok")
                       [] p.op = "revoke" -> [k EXCEPT !.pc = "read", !.call = "owner"]
                       [] OTHER -> [k EXCEPT !.pc = "act"]
    OBVIOUS
  <2>4. /\ q \in Request /\ q.op = p.op /\ q.token = p.token /\ q.target = p.target
        /\ q.alive = p.alive
        /\ \/ q.op = "get" /\ q.pc = "closed"
           \/ q.op = "revoke" /\ q.pc = "read" /\ q.call = "owner" /\ q.result = "none"
           \/ q.pc = "act" /\ q.result = "none"
    <3>1. CASE p.op = "get"  BY <2>2, <2>3, <3>1, CloseFacts DEF Results
    <3>2. CASE p.op = "revoke"
      <4>1. q = [k EXCEPT !.pc = "read", !.call = "owner"]  BY <2>3, <3>2
      <4> QED  BY <2>2, <3>2, <4>1 DEF Request, Pcs
    <3>3. CASE p.op \notin {"get", "revoke"}
      <4>1. q = [k EXCEPT !.pc = "act"]  BY <2>3, <3>3
      <4> QED  BY <2>2, <3>3, <4>1 DEF Request, Pcs
    <3> QED  BY <3>1, <3>2, <3>3
  <2>5. Placed(q)
    BY <1>1, <2>4 DEF Placed, Looking, Holding, Subject
  <2>6. OnItsWay(q) /\ Gone(q)
    BY <2>4 DEF OnItsWay, Gone
  <2>7. Become(r, q)
    BY <1>3, <2>1, <2>3
  <2> QED  BY <2>4, <2>5, <2>6, <2>7, Quietly DEF LoadUser
<1> QED  BY <1>2, <1>3 DEF LoadUser

LEMMA ListOthersStep == ASSUME IInv, NEW r \in Requests, ListOthers(r) PROVE IInv'
<1> DEFINE p == reqs[r]
<1>1. p \in Request /\ Placed(p) /\ p.pc = "act" /\ p.result = "none"
  BY DEF IInv, TypeOK, ListOthers, At, Placed
<1>2. PICK T \in SUBSET Tokens :
        /\ Become(r, [p EXCEPT !.pc = "loop", !.todo = T])
        /\ p.op \in {"revokeOthers", "mgrRevokeOthers"}
        /\ p.op = "revokeOthers" => T = SessionsOf(p.user) \ {p.token}
  BY DEF ListOthers, SessionsOf, Live
<1>3. PICK q : q = [p EXCEPT !.pc = "loop", !.todo = T]
  OBVIOUS
<1>4. /\ q \in Request /\ q.pc = "loop" /\ q.op = p.op /\ q.user = p.user
      /\ q.token = p.token /\ q.target = p.target /\ q.alive = p.alive
      /\ q.todo = T /\ q.result = "none"
  BY <1>1, <1>3 DEF Request, Pcs
<1>5. Placed(q)
  BY <1>1, <1>2, <1>4 DEF Placed, Looking, Holding
<1>6. q.alive \subseteq Tokens
  BY <1>4 DEF Request
<1>7. OnItsWay(q) /\ Gone(q)
  BY <1>2, <1>4, <1>6 DEF OnItsWay, Gone, SessionsOf, Live
<1> QED  BY <1>2, <1>3, <1>4, <1>5, <1>7, Quietly DEF ListOthers

LEMMA EndLoopStep == ASSUME IInv, NEW r \in Requests, EndLoop(r) PROVE IInv'
<1> DEFINE p == reqs[r]
<1>1. /\ p \in Request /\ Placed(p) /\ OnItsWay(p) /\ p.pc = "loop" /\ p.todo = {}
      /\ p.op \in {"revokeOthers", "mgrRevokeOthers"}
  BY DEF IInv, TypeOK, EndLoop, At, Placed
<1>2. PICK q : q = Close(p, "ok")
  OBVIOUS
<1>3. /\ q \in Request /\ q.pc = "closed" /\ q.op = p.op /\ q.user = p.user
      /\ q.token = p.token /\ q.target = p.target /\ q.alive = p.alive
  BY <1>1, <1>2, CloseFacts DEF Results
<1>4. Placed(q)
  BY <1>1, <1>3 DEF Placed, Looking, Holding
<1>5. OnItsWay(q) /\ Gone(q)
  BY <1>1, <1>3 DEF OnItsWay, Gone, Spared
<1> QED  BY <1>2, <1>3, <1>4, <1>5, Quietly DEF EndLoop

LEMMA FailStep == ASSUME IInv, NEW r \in Requests, Fail(r) PROVE IInv'
<1> DEFINE p == reqs[r]
<1>1. p \in Request /\ Placed(p) /\ p.pc # "idle"
  BY DEF IInv, TypeOK, Fail, At
<1>2. PICK q : q = Close(p, "error")
  OBVIOUS
<1>3. /\ q \in Request /\ q.pc = "closed" /\ q.result = "error" /\ q.op = p.op
      /\ q.token = p.token /\ q.target = p.target /\ q.alive = p.alive
  BY <1>1, <1>2, CloseFacts DEF Results
<1>4. Placed(q) /\ OnItsWay(q) /\ Gone(q)
  BY <1>1, <1>3 DEF Placed, Looking, Holding, OnItsWay, Gone
<1> QED  BY <1>2, <1>3, <1>4, Quietly DEF Fail

-----------------------------------------------------------------------------
(* The refresh, the insert, and what no task does.                         *)

LEMMA UpdateExpiryStep == ASSUME IInv, NEW r \in Requests, UpdateExpiry(r) PROVE IInv'
<1> DEFINE p == reqs[r]
<1>1. /\ p \in Request /\ Placed(p) /\ p.pc = "update" /\ p.pc \in Looking
      /\ p.held \in Session /\ p.bump \in Nat /\ p.bump <= now + ExpiresIn
      /\ p.result = "none"
  BY DEF IInv, TypeOK, UpdateExpiry, At, Looking, Placed, Holding, Request
<1>2. CASE Become(r, Given(p, p.held)) /\ UNCHANGED sessions
  <2>1. PICK q : q = Given(p, p.held)
    OBVIOUS
  <2> QED  BY <1>1, <1>2, <2>1, GivenStep, Quietly DEF UpdateExpiry
<1>3. CASE Become(r, [p EXCEPT !.pc = "reread"]) /\ sessions' = Refreshed(p)
  <2>1. PICK q : q = [p EXCEPT !.pc = "reread"]
    OBVIOUS
  <2>2. /\ q \in Request /\ q.pc = "reread" /\ q.held \in Session /\ q.op = p.op
        /\ q.call = p.call /\ q.token = p.token /\ q.target = p.target
        /\ q.alive = p.alive /\ q.result = p.result
    BY <1>1, <2>1 DEF Request, Pcs
  <2>3. Placed(q) /\ q.pc # "insert"
    BY <1>1, <2>2, GoOn DEF Looking
  <2>4. \A t \in Tokens :
          \/ sessions'[t] = sessions[t]
          \/ /\ sessions[t] \in Session
             /\ sessions'[t] = [sessions[t] EXCEPT !.expires = p.bump, !.updated = now]
    BY <1>3 DEF Refreshed, Live, IInv, TypeOK
  <2>5. now \in Nat /\ sessions \in [Tokens -> Session \cup {None}]
        /\ issued \subseteq Tokens
    BY DEF IInv, TypeOK
  <2>6. \A t \in Tokens :
          \/ sessions'[t] = sessions[t]
          \/ /\ sessions[t] \in Session /\ sessions'[t] \in Session
             /\ sessions'[t].user = sessions[t].user
             /\ sessions'[t].expires = p.bump /\ sessions'[t].updated = now
    BY <1>1, <2>4, <2>5, ZenonT(120) DEF Session
  <2>7. sessions' \in [Tokens -> Session \cup {None}]
    <3>1. \A t \in Tokens : sessions'[t] \in Session \cup {None}
      BY <2>5, <2>6
    <3>2. sessions' = [t \in Tokens |-> sessions'[t]]
      BY <1>3 DEF Refreshed
    <3> QED  BY <3>1, <3>2
  <2>8. \A t \in Tokens : sessions'[t] # None =>
                            sessions[t] # None /\ sessions'[t].user = sessions[t].user
    <3> SUFFICES ASSUME NEW t \in Tokens, sessions'[t] # None
                 PROVE  sessions[t] # None /\ sessions'[t].user = sessions[t].user
      OBVIOUS
    <3>1. CASE sessions[t] = None
      <4>1. t \notin Live  BY <3>1 DEF Live
      <4> QED  BY <1>3, <3>1, <4>1 DEF Refreshed
    <3>2. CASE sessions[t] # None  BY <2>6, <3>2
    <3> QED  BY <3>1, <3>2
  <2>9. Live' \subseteq Live /\ NoReturn
    BY <2>5, <2>8 DEF Live, NoReturn
  <2>10. IdleTimeout'
    <3> SUFFICES ASSUME NEW t \in Live'
                 PROVE  /\ sessions'[t].updated <= now'
                        /\ sessions'[t].expires <= sessions'[t].updated + ExpiresIn
      BY DEF IdleTimeout
    <3>1. t \in Tokens /\ t \in Live /\ now' = now
      BY <2>9 DEF Live, UpdateExpiry
    <3>2. CASE sessions'[t] = sessions[t]
      BY <3>1, <3>2 DEF IInv, IdleTimeout
    <3>3. CASE sessions'[t].expires = p.bump /\ sessions'[t].updated = now
      BY <1>1, <2>5, <3>1, <3>3
    <3> QED  BY <2>6, <3>1, <3>2, <3>3
  <2>11. UNCHANGED <<now, users, issued>> /\ Become(r, q)
    BY <1>3, <2>1 DEF UpdateExpiry
  <2>12. Placed(q)' /\ OnItsWay(q)' /\ Gone(q)'
    BY <1>1, <2>2, <2>3, <2>11 DEF Placed, Subject, OnItsWay, Gone
  <2> QED  BY <2>2, <2>7, <2>9, <2>10, <2>11, <2>12, Frame
<1> QED  BY <1>2, <1>3 DEF UpdateExpiry

LEMMA InsertStep == ASSUME IInv, NEW r \in Requests, Insert(r) PROVE IInv'
<1> DEFINE p == reqs[r]
<1>1. /\ p \in Request /\ Placed(p) /\ p.pc = "insert" /\ p.op = "signIn"
      /\ p.user \in Users /\ p.token \in Tokens \ issued /\ p.bump \in Nat
      /\ ExpiresIn <= p.bump /\ p.bump <= now + ExpiresIn
  BY DEF IInv, TypeOK, Insert, At, Placed, Request
<1>2. PICK q : q = Close(p, "ok")
  OBVIOUS
<1>3. /\ q \in Request /\ q.pc = "closed" /\ q.op = "signIn" /\ q.alive = p.alive
  BY <1>1, <1>2, CloseFacts DEF Results
<1>4. PICK k \in Tokens : k = p.token
  BY <1>1
<1>5. /\ sessions' = [sessions EXCEPT ![k] = NewRow(p)]
      /\ issued' = issued \cup {k} /\ Become(r, q) /\ now' = now /\ users' = users
  BY <1>2, <1>4 DEF Insert
<1>6. /\ NewRow(p) \in Session /\ NewRow(p).updated <= now
      /\ NewRow(p).expires <= NewRow(p).updated + ExpiresIn
  BY <1>1 DEF NewRow, Session, IInv, TypeOK
<1>7. /\ now \in 0..MaxTime /\ users \subseteq Users /\ issued \subseteq Tokens
      /\ sessions \in [Tokens -> Session \cup {None}] /\ Live \subseteq issued
      /\ reqs \in [Requests -> Request]
  BY DEF IInv, TypeOK
<1>8. /\ reqs' = [reqs EXCEPT ![r] = q] /\ reqs'[r] = q
      /\ \A s \in Requests \ {r} : reqs'[s] = reqs[s]
  BY <1>5, <1>7 DEF Become
<1>9. \A t \in Tokens : t # k => sessions'[t] = sessions[t]
  BY <1>5, <1>7
<1>10. sessions'[k] = NewRow(p) /\ Live' \subseteq Live \cup {k}
  BY <1>5, <1>7, <1>9 DEF Live
<1>11. TypeOK'
  BY <1>3, <1>5, <1>6, <1>7, <1>8, <1>10 DEF TypeOK
<1>12. ASSUME NEW s \in Requests PROVE Placed(reqs[s])'
  <2>1. CASE s = r
    BY <1>1, <1>3, <1>8, <2>1, <1>5 DEF Placed, Looking, Holding, AuthOps
  <2>2. CASE s # r
    <3>1. Placed(reqs[s]) /\ reqs'[s] = reqs[s]
      BY <1>8, <2>2 DEF IInv
    <3>2. reqs[s].pc = "insert" => reqs[s].token # k
      BY <1>1, <1>4, <2>2 DEF IInv, DrawnOnce, At
    <3> QED  BY <3>1, <3>2, <1>5 DEF Placed, Subject
  <2> QED  BY <2>1, <2>2
<1>13. DrawnOnce'
  BY <1>3, <1>8 DEF IInv, DrawnOnce, At
\* A task that began earlier knew nothing of the new token.
<1>14. ASSUME NEW s \in Requests
       PROVE  reqs[s].alive \subseteq Tokens \ {k} /\ reqs[s].alive \subseteq issued
  BY <1>1, <1>4, <1>7 DEF IInv, Placed
<1>15. ASSUME NEW s \in Requests PROVE OnItsWay(reqs[s])'
  <2>1. CASE s = r  BY <1>3, <1>8, <2>1 DEF OnItsWay
  <2>2. CASE s # r
    <3>1. OnItsWay(reqs[s]) /\ reqs'[s] = reqs[s]
      BY <1>8, <2>2 DEF IInv
    <3> QED  BY <3>1, <1>9, <1>14 DEF OnItsWay
  <2> QED  BY <2>1, <2>2
<1>16. ASSUME NEW s \in Requests PROVE Gone(reqs[s])'
  <2>1. CASE s = r  BY <1>3, <1>8, <2>1 DEF Gone
  <2>2. CASE s # r
    <3>1. Gone(reqs[s]) /\ Placed(reqs[s]) /\ reqs'[s] = reqs[s]
      BY <1>8, <2>2 DEF IInv, RevokedMeansGone
    <3>2. reqs[s].result = "ok" => reqs[s].pc = "closed"
      BY <3>1 DEF Placed
    <3>3. k \notin issued /\ issued \subseteq Tokens
      BY <1>1, <1>4, <1>7
    <3>4. reqs[s].result = "ok" =>
            /\ reqs[s].op = "signOut" => reqs[s].token \in Tokens \ {k}
            /\ reqs[s].op \in {"revoke", "mgrRevoke"} => reqs[s].target \in Tokens \ {k}
      BY <3>1, <3>2, <3>3 DEF Placed, AuthOps
    <3> QED  BY <3>1, <3>4, <1>9, <1>14 DEF Gone, Spared
  <2> QED  BY <2>1, <2>2
<1>17. IdleTimeout'
  <2> SUFFICES ASSUME NEW t \in Live'
               PROVE  /\ sessions'[t].updated <= now'
                      /\ sessions'[t].expires <= sessions'[t].updated + ExpiresIn
    BY DEF IdleTimeout
  <2>1. CASE t = k  BY <2>1, <1>5, <1>6, <1>10
  <2>2. CASE t # k
    BY <2>2, <1>5, <1>9, <1>10 DEF IInv, IdleTimeout, Live
  <2> QED  BY <2>1, <2>2
<1> QED  BY <1>11, <1>12, <1>13, <1>15, <1>16, <1>17 DEF IInv, RevokedMeansGone

\* No task changes and no row appears.
LEMMA Outside ==
  ASSUME IInv, UNCHANGED <<users, issued, reqs>>,
         now' \in 0..MaxTime, now <= now',
         NEW T \in SUBSET Tokens, sessions' = Without(T)
  PROVE  IInv'
<1>1. /\ sessions \in [Tokens -> Session \cup {None}] /\ issued \subseteq Tokens
      /\ now \in Nat /\ now' \in Nat /\ reqs \in [Requests -> Request]
  BY DEF IInv, TypeOK
<1>2. \A t \in Tokens : sessions'[t] # None => sessions'[t] = sessions[t]
  BY DEF Without
<1>3. sessions' \in [Tokens -> Session \cup {None}]
  BY <1>1 DEF Without
<1>4. Live' \subseteq Live
  BY <1>2 DEF Live
<1>5. TypeOK'
  BY <1>1, <1>3, <1>4 DEF IInv, TypeOK
<1>6. ASSUME NEW r \in Requests PROVE Placed(reqs[r])'
  <2>1. Placed(reqs[r]) /\ reqs[r].bump \in Nat
    BY <1>1 DEF IInv, Request
  <2> QED  BY <2>1, <1>1 DEF Placed, Subject
<1>7. DrawnOnce'
  BY DEF IInv, DrawnOnce, At
<1>8. ASSUME NEW r \in Requests
      PROVE  reqs[r].alive \subseteq Tokens
  BY <1>1 DEF Request
<1>9. ASSUME NEW r \in Requests PROVE OnItsWay(reqs[r])'
  <2>1. OnItsWay(reqs[r])  BY DEF IInv
  <2> QED  BY <2>1, <1>2, <1>8 DEF OnItsWay
<1>10. ASSUME NEW r \in Requests PROVE Gone(reqs[r])'
  <2>1. Gone(reqs[r]) /\ Placed(reqs[r])
    BY DEF IInv, RevokedMeansGone
  <2>2. reqs[r].result = "ok" => reqs[r].pc = "closed"
    BY <2>1 DEF Placed
  <2> QED  BY <2>1, <2>2, <1>1, <1>2, <1>8 DEF Gone, Spared, Placed, AuthOps
<1>11. IdleTimeout'
  <2> SUFFICES ASSUME NEW t \in Live'
               PROVE  /\ sessions'[t].updated <= now'
                      /\ sessions'[t].expires <= sessions'[t].updated + ExpiresIn
    BY DEF IdleTimeout
  <2>1. t \in Live /\ sessions'[t] = sessions[t] /\ sessions[t] \in Session
    BY <1>1, <1>2, <1>4 DEF Live
  <2>2. /\ sessions[t].updated <= now
        /\ sessions[t].expires <= sessions[t].updated + ExpiresIn
    BY <2>1 DEF IInv, IdleTimeout
  <2> QED  BY <2>1, <2>2, <1>1 DEF Session
<1> QED  BY <1>5, <1>6, <1>7, <1>9, <1>10, <1>11 DEF IInv, RevokedMeansGone

LEMMA SweepStep == ASSUME IInv, Sweep PROVE IInv'
<1>1. PICK T \in SUBSET Tokens : sessions' = Without(T)
  BY DEF Sweep, Live
<1>2. now' \in 0..MaxTime /\ now <= now'
  BY DEF Sweep, IInv, TypeOK
<1> QED  BY <1>1, <1>2, Outside DEF Sweep

LEMMA TickStep == ASSUME IInv, Tick PROVE IInv'
<1>1. sessions' = Without({})
  BY DEF Tick, Without, IInv, TypeOK
<1>2. now' \in 0..MaxTime /\ now <= now'
  BY DEF Tick, IInv, TypeOK
<1> QED  BY <1>1, <1>2, Outside DEF Tick

-----------------------------------------------------------------------------

LEMMA InitIInv == Init => IInv
<1> SUFFICES ASSUME Init PROVE IInv
  OBVIOUS
<1>1. TypeOK
  BY DEF Init, TypeOK, Live, Request, Pcs, Results, AllOps, AuthOps
<1>2. ASSUME NEW r \in Requests
      PROVE  Placed(reqs[r]) /\ OnItsWay(reqs[r]) /\ Gone(reqs[r])
  BY DEF Init, Placed, Looking, Holding, OnItsWay, Gone
<1>3. DrawnOnce
  BY DEF Init, DrawnOnce, At
<1>4. IdleTimeout
  BY DEF Init, IdleTimeout, Live
<1> QED  BY <1>1, <1>2, <1>3, <1>4 DEF IInv, RevokedMeansGone

LEMMA NextIInv == IInv /\ [Next]_vars => IInv'
<1> SUFFICES ASSUME IInv, [Next]_vars PROVE IInv'
  OBVIOUS
<1>1. CASE UNCHANGED vars
  BY <1>1 DEF vars, IInv, TypeOK, Live, Placed, Subject, DrawnOnce, At,
              OnItsWay, RevokedMeansGone, Gone, Spared, IdleTimeout
<1>2. ASSUME NEW r \in Requests, Ask(r) \/ AskManager(r) \/ AskSignIn(r)
      PROVE  IInv'
  BY <1>2, AskStep, AskManagerStep, AskSignInStep
<1>3. ASSUME NEW r \in Requests, GetSession(r)
      PROVE  IInv'
  BY <1>3, ReadSessionStep, JudgeStep, PurgeStep, UpdateExpiryStep, ReReadStep
     DEF GetSession
<1>4. ASSUME NEW r \in Requests, Operate(r)
      PROVE  IInv'
  BY <1>4, DeleteOneStep, DeleteAllStep, DeleteUserStep, ListOthersStep,
     DeleteNextStep, EndLoopStep, InsertStep DEF Operate
<1>5. ASSUME NEW r \in Requests, LoadUser(r) \/ Fail(r)
      PROVE  IInv'
  BY <1>5, LoadUserStep, FailStep
<1>6. CASE Sweep  BY <1>6, SweepStep
<1>7. CASE Tick   BY <1>7, TickStep
<1> QED  BY <1>1, <1>2, <1>3, <1>4, <1>5, <1>6, <1>7 DEF Next, Step

\* Whatever the interleaving, the invariant holds.
THEOREM Invariance == Spec => []IInv
BY InitIInv, NextIInv, PTL DEF Spec

\* The variables keep their types, and every row belongs to an issued token.
THEOREM TypeCorrect == Spec => []TypeOK
<1>1. IInv => TypeOK  BY DEF IInv
<1> QED  BY <1>1, Invariance, PTL

\* A revocation that has answered with success has revoked what it is about,
\* for any number of tasks, tokens and users, however their awaits interleave
\* and whichever statements fail.
THEOREM RevocationHolds == Spec => []RevokedMeansGone
<1>1. IInv => RevokedMeansGone  BY DEF IInv
<1> QED  BY <1>1, Invariance, PTL

\* A session nobody refreshed for expires_in has run out.
THEOREM TimeoutHolds == Spec => []IdleTimeout
<1>1. IInv => IdleTimeout  BY DEF IInv
<1> QED  BY <1>1, Invariance, PTL

-----------------------------------------------------------------------------
(* What a step does to the database and the clock.                         *)

\* Users only leave, tokens are only added, no session returns or changes
\* hands, and time goes forward.
Onward == /\ NoReturn
          /\ users' \subseteq users /\ issued \subseteq issued'
          /\ now \in Nat /\ now' \in Nat /\ now <= now'

\* A refresh keeps the sessions there are, and their owners.
LEMMA RefreshedFacts ==
  ASSUME TypeOK, NEW q \in Request, sessions' = Refreshed(q)
  PROVE  /\ \A t \in Tokens : sessions'[t] = None <=> sessions[t] = None
         /\ \A t \in Tokens : sessions[t] # None => sessions'[t].user = sessions[t].user
<1> SUFFICES ASSUME NEW t \in Tokens
             PROVE  /\ sessions'[t] = None <=> sessions[t] = None
                    /\ sessions[t] # None => sessions'[t].user = sessions[t].user
  OBVIOUS
<1>1. CASE sessions[t] = None
  BY <1>1 DEF Refreshed, Live
<1>2. CASE sessions[t] # None
  <2>1. sessions[t] \in Session
    BY <1>2 DEF TypeOK
  <2>2. CASE t = Subject(q)
    <3>1. sessions'[t] = [sessions[t] EXCEPT !.expires = q.bump, !.updated = now]
      BY <1>2, <2>2 DEF Refreshed, Live
    <3>2. now \in Nat /\ q.bump \in Nat
      BY DEF TypeOK, Request
    <3>3. sessions'[t].user = sessions[t].user /\ sessions'[t] \in Session
      BY <2>1, <3>1, <3>2 DEF Session
    <3> QED  BY <1>2, <3>3
  <2>3. CASE t # Subject(q)
    BY <2>3 DEF Refreshed
  <2> QED  BY <2>2, <2>3
<1> QED  BY <1>1, <1>2

LEMMA OnwardStep == ASSUME IInv, [Next]_vars PROVE Onward
<1>1. /\ TypeOK /\ issued \subseteq Tokens /\ now \in Nat
      /\ sessions \in [Tokens -> Session \cup {None}]
  BY DEF IInv, TypeOK
<1>2. CASE UNCHANGED <<now, users, sessions, issued>>
  BY <1>1, <1>2 DEF Onward, NoReturn
<1>3. ASSUME NEW T, sessions' = Without(T), UNCHANGED <<now, issued>>,
             users' \subseteq users
      PROVE  Onward
  BY <1>1, <1>3, WithoutFacts DEF Onward
<1>4. ASSUME NEW q \in Request, sessions' = Refreshed(q), UNCHANGED <<now, users, issued>>
      PROVE  Onward
  <2>1. NoReturn
    BY <1>1, <1>4, RefreshedFacts DEF NoReturn
  <2> QED  BY <1>1, <1>4, <2>1 DEF Onward
<1>5. ASSUME NEW r \in Requests, Insert(r) PROVE Onward
  <2>1. Placed(reqs[r]) /\ reqs[r].pc = "insert"
    BY <1>5 DEF IInv, Insert, At
  <2>2. reqs[r].token \notin issued
    BY <2>1 DEF Placed
  <2>3. NoReturn
    BY <1>1, <1>5, <2>2 DEF NoReturn, Insert
  <2> QED  BY <1>1, <1>5, <2>3 DEF Onward, Insert
<1>6. CASE Tick
  BY <1>1, <1>6 DEF Tick, Onward, NoReturn
<1>7. ASSUME NEW r \in Requests, GetSession(r) PROVE Onward
  <2>1. reqs[r] \in Request
    BY <1>1 DEF TypeOK
  <2> QED  BY <1>2, <1>3, <1>4, <1>7, <2>1
           DEF GetSession, ReadSession, Judge, Purge, UpdateExpiry, ReRead
<1>8. ASSUME NEW r \in Requests, Operate(r) PROVE Onward
  <2>1. CASE DeleteOne(r) \/ DeleteAll(r) \/ DeleteNext(r)
    BY <1>3, <2>1 DEF DeleteOne, DeleteAll, DeleteNext
  <2>2. CASE DeleteUser(r)
    BY <1>1, <2>2 DEF DeleteUser, Onward, NoReturn
  <2>3. CASE ListOthers(r) \/ EndLoop(r)
    BY <1>2, <2>3 DEF ListOthers, EndLoop
  <2> QED  BY <1>5, <1>8, <2>1, <2>2, <2>3 DEF Operate
<1> QED
  BY <1>2, <1>3, <1>6, <1>7, <1>8
     DEF Next, vars, Ask, AskManager, AskSignIn, Step, LoadUser, Fail, Sweep

-----------------------------------------------------------------------------
(* What tasks remember and learn.                                          *)

\* The tasks that a step does not touch keep what they know.
LEMMA Untouched ==
  ASSUME KInv, Onward, NEW s \in Requests, reqs'[s] = reqs[s]
  PROVE  Remembers(reqs[s])' /\ Learnt(reqs[s])'
<1> DEFINE q == reqs[s]
<1>1. Placed(q) /\ Remembers(q) /\ Learnt(q) /\ q \in Request /\ issued \subseteq Tokens
  BY DEF KInv, IInv, TypeOK
<1>2. ASSUME NEW u, NEW T, T \subseteq issued, Owns(u, T) PROVE Owns(u, T)'
  BY <1>2 DEF Owns, Onward, NoReturn
<1>3. q.op \in AuthOps /\ q.pc # "idle" => {q.token} \subseteq issued
  BY <1>1 DEF Placed
<1>4. Remembers(reqs[s])'
  BY <1>1, <1>2, <1>3 DEF Remembers, Onward, NoReturn
<1>5. q.pc \in Looking \cup {"user"} => Subject(q) \in issued
  BY <1>1 DEF Placed, Learnt, Subject, Looking
<1>6. q.held \in Session /\ Expired(q.held) => Expired(q.held)'
  BY DEF Expired, Onward, Session
<1>7. Learnt(reqs[s])'
  <2>1. q.op = "revoke" /\ q.pc = "act" => {q.target} \subseteq issued
    BY <1>1 DEF Placed
  <2>2. q.pc \in Holding => {Subject(q)} \subseteq issued
    BY <1>5 DEF Holding, Looking
  <2>3. q.held \in Session \cup {None}
    BY <1>1 DEF Request
  <2>4. q.pc \in Holding => Owns(q.held.user, {Subject(q)})'
    BY <1>1, <1>2, <2>2 DEF Learnt
  <2>5. q.pc = "purge" => Expired(q.held)'
    BY <1>1, <1>6 DEF Learnt, Placed, Holding
  <2>6. q.pc = "act" /\ q.op = "revoke" =>
             \/ q.held # None /\ Expired(q.held)'
             \/ Owns(q.user, {q.target})'
    BY <1>1, <1>2, <1>6, <2>1, <2>3 DEF Learnt
  <2>7. q.pc = "loop" => /\ q.todo \subseteq issued'
                         /\ q.op = "revokeOthers" => Owns(q.user, q.todo)'
    BY <1>1, <1>2 DEF Learnt, Onward
  <2> QED  BY <1>1, <2>4, <2>5, <2>6, <2>7 DEF Learnt, Subject
<1> QED  BY <1>4, <1>7

\* It is enough to look at the task that moves.
LEMMA Moves ==
  ASSUME KInv, [Next]_vars, NEW r \in Requests, NEW q \in Request, Become(r, q),
         Remembers(q)', Learnt(q)'
  PROVE  KInv'
<1>1. IInv' /\ Onward
  BY NextIInv, OnwardStep DEF KInv
<1>2. reqs'[r] = q /\ \A s \in Requests \ {r} : reqs'[s] = reqs[s]
  BY DEF KInv, IInv, TypeOK, Become
<1>3. ASSUME NEW s \in Requests PROVE (Remembers(reqs[s]) /\ Learnt(reqs[s]))'
  <2>1. CASE s = r
    BY <1>2, <2>1 DEF Remembers, Learnt, Owns, Subject, Expired
  <2>2. CASE s # r
    BY <1>1, <1>2, <2>2, Untouched
  <2> QED  BY <2>1, <2>2
<1> QED  BY <1>1, <1>3 DEF KInv

\* A task whose user, token and beginning do not change remembers what it did.
LEMMA Remembered ==
  ASSUME KInv, Onward, NEW r \in Requests, NEW q \in Request,
         reqs[r].pc # "idle", q.pc # "idle",
         q.op = reqs[r].op, q.user = reqs[r].user, q.token = reqs[r].token,
         q.alive = reqs[r].alive, q.people = reqs[r].people
  PROVE  Remembers(q)'
<1> DEFINE p == reqs[r]
<1>1. Placed(p) /\ Remembers(p)
  BY DEF KInv, IInv
<1>2. q.op \in AuthOps => q.token \in issued
  BY <1>1 DEF Placed
<1> QED  BY <1>1, <1>2 DEF Remembers, Owns, Onward, NoReturn

\* A task that has been answered has nothing more to learn.
LEMMA Ending ==
  ASSUME KInv, [Next]_vars, NEW r \in Requests, NEW res \in Results,
         reqs[r].pc # "idle", Become(r, Close(reqs[r], res))
  PROVE  KInv'
<1>1. PICK q : q = Close(reqs[r], res)
  OBVIOUS
<1>2. reqs[r] \in Request /\ Onward
  BY OnwardStep DEF KInv, IInv, TypeOK
<1>3. /\ q \in Request /\ q.pc = "closed" /\ q.op = reqs[r].op
      /\ q.user = reqs[r].user /\ q.token = reqs[r].token
      /\ q.alive = reqs[r].alive /\ q.people = reqs[r].people
  BY <1>1, <1>2, CloseFacts
<1>4. Remembers(q)'
  BY <1>2, <1>3, Remembered
<1>5. Learnt(q)'
  BY <1>3 DEF Learnt, Looking, Holding
<1> QED  BY <1>1, <1>3, <1>4, <1>5, Moves

LEMMA AskKInv == ASSUME KInv, NEW r \in Requests, Ask(r), [Next]_vars PROVE KInv'
<1>1. PICK op \in Ops \cap AuthOps, t \in issued, x \in issued \cup {None} :
        Become(r, Task("read", op, "auth", None, t, x, 0))
  BY DEF Ask
<1>2. PICK q : q = Task("read", op, "auth", None, t, x, 0)
  OBVIOUS
<1>3. issued \subseteq Tokens /\ op \in AllOps /\ IInv
  BY DEF KInv, IInv, TypeOK, AllOps
<1>4. /\ "read" \in Pcs /\ "auth" \in {"auth", "owner", "exists"} /\ 0 \in Nat
      /\ None \in Users \cup {None} /\ t \in Tokens \cup {None} /\ x \in Tokens \cup {None}
  BY <1>3 DEF Pcs
<1>5. /\ q \in Request /\ q.pc = "read" /\ q.op = op /\ q.call = "auth" /\ q.user = None
      /\ q.token = t /\ q.alive = Live
  BY <1>2, <1>3, <1>4, TaskFacts
<1>6. q.people = users /\ q.held = None
  BY <1>2 DEF Task
<1>7. Remembers(q)'
  BY <1>3, <1>5, <1>6 DEF Remembers, Ask, Live
<1>8. Learnt(q)'
  BY <1>5, <1>6 DEF Learnt, Looking, Holding
<1> QED  BY <1>1, <1>2, <1>5, <1>7, <1>8, Moves

LEMMA AskManagerKInv ==
  ASSUME KInv, NEW r \in Requests, AskManager(r), [Next]_vars PROVE KInv'
<1>0. issued \subseteq Tokens /\ IInv
  BY DEF KInv, IInv, TypeOK
<1>1. PICK q :
        /\ Become(r, q)
        /\ \/ \E x \in issued : q = Task("read", "mgrRevoke", "exists", None, None, x, 0)
           \/ \E u \in Users : q = Task("act", "mgrRevokeAll", "auth", u, None, None, 0)
           \/ \E u \in Users, t \in issued :
                q = Task("act", "mgrRevokeOthers", "auth", u, t, None, 0)
  BY DEF AskManager
<1>2. /\ {"read", "act"} \subseteq Pcs /\ ManagerOps \subseteq AllOps /\ 0 \in Nat
      /\ {"mgrRevoke", "mgrRevokeAll", "mgrRevokeOthers"} = ManagerOps
  BY DEF Pcs, AllOps, ManagerOps
<1>3. /\ q \in Request /\ q.op \in ManagerOps
      /\ \/ q.pc = "read" /\ q.call = "exists" /\ q.op = "mgrRevoke"
         \/ q.pc = "act"
  <2>1. CASE \E x \in issued : q = Task("read", "mgrRevoke", "exists", None, None, x, 0)
    <3>1. PICK x \in issued : q = Task("read", "mgrRevoke", "exists", None, None, x, 0)
      BY <2>1
    <3> QED  BY <1>0, <1>2, <3>1, TaskFacts DEF ManagerOps
  <2>2. CASE \E u \in Users : q = Task("act", "mgrRevokeAll", "auth", u, None, None, 0)
    <3>1. PICK u \in Users : q = Task("act", "mgrRevokeAll", "auth", u, None, None, 0)
      BY <2>2
    <3> QED  BY <1>0, <1>2, <3>1, TaskFacts DEF ManagerOps
  <2>3. CASE \E u \in Users, t \in issued :
               q = Task("act", "mgrRevokeOthers", "auth", u, t, None, 0)
    <3>1. PICK u \in Users, t \in issued :
            q = Task("act", "mgrRevokeOthers", "auth", u, t, None, 0)
      BY <2>3
    <3> QED  BY <1>0, <1>2, <3>1, TaskFacts DEF ManagerOps
  <2> QED  BY <1>1, <2>1, <2>2, <2>3
<1>4. q.people = users /\ q.held = None
  BY <1>1 DEF Task
<1>5. Remembers(q)'
  BY <1>3, <1>4 DEF Remembers, AskManager, AuthOps, ManagerOps
<1>6. Learnt(q)'
  BY <1>3, <1>4 DEF Learnt, Looking, Holding, AuthOps, ManagerOps
<1> QED  BY <1>1, <1>3, <1>5, <1>6, Moves

LEMMA AskSignInKInv ==
  ASSUME KInv, NEW r \in Requests, AskSignIn(r), [Next]_vars PROVE KInv'
<1>1. PICK u \in users, t \in Tokens \ (issued \cup Drawn) :
        Become(r, Task("insert", "signIn", "auth", u, t, None, now + ExpiresIn))
  BY DEF AskSignIn
<1>2. users \subseteq Users /\ now + ExpiresIn \in Nat /\ IInv
  BY DEF KInv, IInv, TypeOK
<1>3. PICK b \in Nat : b = now + ExpiresIn
  BY <1>2
<1>4. PICK q : q = Task("insert", "signIn", "auth", u, t, None, b)
  OBVIOUS
<1>5. /\ "insert" \in Pcs /\ "signIn" \in AllOps /\ "auth" \in {"auth", "owner", "exists"}
      /\ u \in Users \cup {None} /\ t \in Tokens \cup {None}
  BY <1>2 DEF Pcs, AllOps
<1>6. q \in Request /\ q.pc = "insert" /\ q.op = "signIn"
  BY <1>2, <1>4, <1>5, TaskFacts
<1>7. q.people = users
  BY <1>4 DEF Task
<1>8. Remembers(q)' /\ Learnt(q)'
  BY <1>6, <1>7 DEF Remembers, Learnt, AskSignIn, AuthOps, Looking, Holding
<1> QED  BY <1>1, <1>3, <1>4, <1>6, <1>8, Moves

\* What get_session's answer teaches a task: a row it was given belongs to the
\* token's owner; without one there was none, or the one it read had expired.
LEMMA GivenKInv ==
  ASSUME KInv, [Next]_vars, NEW r \in Requests, NEW row \in Session \cup {None},
         NEW p, p = reqs[r], p.pc \in Looking, Become(r, Given(p, row)),
         row # None => /\ Owns(row.user, {Subject(p)})'
                       /\ p.call = "auth" => p.token \in p.alive,
         row = None => \/ p.held # None /\ Expired(p.held)'
                       \/ p.held = None /\ sessions'[Subject(p)] = None
  PROVE  KInv'
<1>1. p \in Request /\ Placed(p) /\ Learnt(p) /\ Onward /\ p.pc # "idle" /\ p.pc # "closed"
  BY OnwardStep DEF KInv, IInv, TypeOK, Looking
<1>2. PICK q : q = Given(p, row)
  OBVIOUS
<1>3. /\ q \in Request /\ q.pc \in {"closed", "user", "act"}
      /\ q.op = p.op /\ q.user = p.user /\ q.token = p.token /\ q.target = p.target
      /\ q.alive = p.alive /\ q.people = p.people
  BY <1>1, <1>2, GivenFacts DEF Placed
<1>4. Remembers(q)'
  BY <1>1, <1>3, Remembered
<1>5. CASE q.pc = "closed"
  <2>1. Learnt(q)'
    BY <1>5 DEF Learnt, Looking, Holding
  <2> QED  BY <1>2, <1>3, <1>4, <2>1, Moves
<1>6. CASE q.pc = "user"
  <2>1. p.call = "auth" /\ row # None
    BY <1>2, <1>6 DEF Given, Close, Request
  <2>2. q.held = row /\ q.call = "auth" /\ Subject(q) = Subject(p)
    BY <1>1, <1>2, <1>3, <2>1 DEF Given, Request, Subject
  <2>3. Learnt(q)'
    BY <1>1, <1>3, <1>6, <2>1, <2>2 DEF Learnt, Looking, Holding, Subject
  <2> QED  BY <1>2, <1>3, <1>4, <2>3, Moves
<1>7. CASE q.pc = "act"
  <2>1. /\ p.call # "auth"
        /\ ~(p.call = "owner" /\ row # None /\ row.user # p.user)
        /\ ~(p.call = "exists" /\ row = None)
    BY <1>2, <1>7 DEF Given, Close, Request
  <2>2. q = [p EXCEPT !.pc = "act", !.bump = 0, !.held = IF row = None THEN @ ELSE None]
    BY <1>2, <2>1 DEF Given
  <2>3. q.call = p.call /\ q.held = IF row = None THEN p.held ELSE None
    BY <1>1, <2>2 DEF Request
  <2>4. /\ q.op \in {"revoke", "mgrRevoke"} /\ q.op = "revoke" => q.call = "owner"
        /\ q.op \in AuthOps => q.user # None
    BY <1>1, <1>3, <2>1, <2>3 DEF Learnt, Request, AuthOps
  <2>5. q.op = "revoke" => /\ q.call = "owner"
                           /\ \/ q.held # None /\ Expired(q.held)'
                              \/ Owns(q.user, {q.target})'
    BY <1>3, <2>1, <2>3, <2>4 DEF Owns, Subject
  <2>6. Learnt(q)'
    BY <1>7, <2>4, <2>5 DEF Learnt, Looking, Holding
  <2> QED  BY <1>2, <1>3, <1>4, <2>6, Moves
<1> QED  BY <1>3, <1>5, <1>6, <1>7

\* A task that goes on inside get_session with the row it holds.
LEMMA HoldingKInv ==
  ASSUME KInv, [Next]_vars, NEW r \in Requests, NEW q \in Request, Become(r, q),
         reqs[r].pc \in Looking, q.pc \in Looking \ {"read"},
         q.op = reqs[r].op, q.user = reqs[r].user, q.token = reqs[r].token,
         q.target = reqs[r].target, q.call = reqs[r].call,
         q.alive = reqs[r].alive, q.people = reqs[r].people,
         Owns(q.held.user, {Subject(q)})',
         q.call = "auth" => q.token \in q.alive,
         q.pc = "purge" => Expired(q.held)'
  PROVE  KInv'
<1>1. Learnt(reqs[r]) /\ Onward /\ reqs[r].pc # "idle" /\ q.pc # "idle"
  BY OnwardStep DEF KInv, Looking
<1>2. Remembers(q)'
  BY <1>1, Remembered
<1>3. Learnt(q)'
  BY <1>1 DEF Learnt, Looking, Holding, Subject
<1> QED  BY <1>2, <1>3, Moves

\* What a task that is in get_session and holds a row knows of it.
LEMMA HeldFacts ==
  ASSUME KInv, Onward, NEW r \in Requests, NEW p, p = reqs[r],
         p.pc \in Looking \ {"read"}
  PROVE  /\ p.held \in Session
         /\ Owns(p.held.user, {Subject(p)})'
         /\ p.call = "auth" => p.token \in p.alive
<1>1. Placed(p) /\ Learnt(p)
  BY DEF KInv, IInv
<1>2. Subject(p) \in issued /\ p.held \in Session
  BY <1>1 DEF Placed, Looking, Holding
<1>3. Owns(p.held.user, {Subject(p)})'
  BY <1>1, <1>2 DEF Learnt, Owns, Onward, NoReturn, Looking, Holding
<1> QED  BY <1>1, <1>2, <1>3 DEF Learnt, Looking, Holding

\* A session that is there belonged to a token that was alive all along.
LEMMA ReadFacts ==
  ASSUME KInv, Onward, NEW r \in Requests, NEW p, p = reqs[r], p.pc \in Looking,
         NEW row \in Session, row = sessions[Subject(p)]
  PROVE  /\ Owns(row.user, {Subject(p)})'
         /\ p.call = "auth" => p.token \in p.alive
<1>1. Placed(p) /\ Remembers(p) /\ Learnt(p)
  BY DEF KInv, IInv
<1>2. Subject(p) \in issued
  BY <1>1 DEF Placed
<1>3. Owns(row.user, {Subject(p)})'
  BY <1>2 DEF Owns, Onward, NoReturn
<1>4. ASSUME p.call = "auth" PROVE p.token \in p.alive
  BY <1>1, <1>4 DEF Remembers, Learnt, Looking, Subject
<1> QED  BY <1>3, <1>4

LEMMA ReadSessionKInv ==
  ASSUME KInv, NEW r \in Requests, ReadSession(r), [Next]_vars PROVE KInv'
<1>1. PICK p : p = reqs[r]
  OBVIOUS
<1>2. /\ p \in Request /\ p.pc = "read" /\ p.pc \in Looking /\ Subject(p) \in Tokens
      /\ p.held = None /\ Onward /\ sessions' = sessions
  BY <1>1, OnwardStep DEF KInv, IInv, TypeOK, ReadSession, At, Looking, Learnt, Placed
<1>3. PICK row \in Session \cup {None} : row = sessions[Subject(p)]
  BY <1>2 DEF KInv, IInv, TypeOK
<1>4. CASE row = None
  BY <1>1, <1>2, <1>3, <1>4, GivenKInv DEF ReadSession
<1>5. CASE row # None
  <2>1. PICK q : q = [p EXCEPT !.pc = "judge", !.held = row]
    OBVIOUS
  <2>2. /\ q \in Request /\ q.pc = "judge" /\ q.held = row
        /\ q.op = p.op /\ q.user = p.user /\ q.token = p.token /\ q.target = p.target
        /\ q.call = p.call /\ q.alive = p.alive /\ q.people = p.people
    BY <1>2, <2>1, ZenonT(120) DEF Request, Pcs
  <2>3. /\ Owns(row.user, {Subject(p)})' /\ Subject(q) = Subject(p)
        /\ p.call = "auth" => p.token \in p.alive
    BY <1>1, <1>2, <1>3, <1>5, <2>2, ReadFacts DEF Subject
  <2>4. Become(r, q)
    BY <1>1, <1>3, <1>5, <2>1 DEF ReadSession
  <2> QED  BY <1>1, <1>2, <2>2, <2>3, <2>4, HoldingKInv DEF Looking
<1> QED  BY <1>4, <1>5

LEMMA JudgeKInv == ASSUME KInv, NEW r \in Requests, Judge(r), [Next]_vars PROVE KInv'
<1>1. PICK p : p = reqs[r]
  OBVIOUS
<1>2. /\ p \in Request /\ p.pc = "judge" /\ p.pc \in Looking \ {"read"} /\ Onward
      /\ now' = now
  BY <1>1, OnwardStep DEF KInv, IInv, TypeOK, Judge, At, Looking
<1>3. /\ p.held \in Session /\ Owns(p.held.user, {Subject(p)})'
      /\ p.call = "auth" => p.token \in p.alive
  BY <1>1, <1>2, HeldFacts
<1>4. now + ExpiresIn \in Nat
  BY <1>2 DEF Onward
<1>5. PICK b \in Nat : b = now + ExpiresIn
  BY <1>4
<1>6. CASE Become(r, Given(p, p.held))
  BY <1>1, <1>2, <1>3, <1>6, GivenKInv
<1>7. ASSUME NEW q, Become(r, q),
             \/ q = [p EXCEPT !.pc = "purge"] /\ Expired(p.held)
             \/ q = [p EXCEPT !.pc = "update", !.bump = b]
      PROVE  KInv'
  <2>1. /\ q \in Request /\ q.pc \in {"purge", "update"} /\ q.held = p.held
        /\ q.pc = "purge" => Expired(p.held)
        /\ q.op = p.op /\ q.user = p.user /\ q.token = p.token /\ q.target = p.target
        /\ q.call = p.call /\ q.alive = p.alive /\ q.people = p.people
    BY <1>2, <1>7, ZenonT(120) DEF Request, Pcs
  <2>2. Subject(q) = Subject(p) /\ (q.pc = "purge" => Expired(q.held)')
    BY <1>2, <2>1 DEF Subject, Expired
  <2> QED  BY <1>1, <1>2, <1>3, <1>7, <2>1, <2>2, HoldingKInv DEF Looking
<1> QED  BY <1>1, <1>5, <1>6, <1>7 DEF Judge

LEMMA PurgeKInv == ASSUME KInv, NEW r \in Requests, Purge(r), [Next]_vars PROVE KInv'
<1>1. PICK p : p = reqs[r]
  OBVIOUS
<1>2. /\ p \in Request /\ p.pc = "purge" /\ p.pc \in Looking \ {"read"} /\ Onward
      /\ Expired(p.held)
  BY <1>1, OnwardStep DEF KInv, IInv, TypeOK, Purge, At, Looking, Learnt
<1>3. p.held \in Session
  BY <1>1, <1>2, HeldFacts
<1>4. Expired(p.held)'
  BY <1>2 DEF Expired, Purge
<1> QED  BY <1>1, <1>2, <1>3, <1>4, GivenKInv DEF Purge

LEMMA UpdateExpiryKInv ==
  ASSUME KInv, NEW r \in Requests, UpdateExpiry(r), [Next]_vars PROVE KInv'
<1>1. PICK p : p = reqs[r]
  OBVIOUS
<1>2. p \in Request /\ p.pc = "update" /\ p.pc \in Looking \ {"read"} /\ Onward
  BY <1>1, OnwardStep DEF KInv, IInv, TypeOK, UpdateExpiry, At, Looking
<1>3. /\ p.held \in Session /\ Owns(p.held.user, {Subject(p)})'
      /\ p.call = "auth" => p.token \in p.alive
  BY <1>1, <1>2, HeldFacts
<1>4. CASE Become(r, Given(p, p.held))
  BY <1>1, <1>2, <1>3, <1>4, GivenKInv
<1>5. CASE Become(r, [p EXCEPT !.pc = "reread"])
  <2>1. PICK q : q = [p EXCEPT !.pc = "reread"]
    OBVIOUS
  <2>2. /\ q \in Request /\ q.pc = "reread" /\ q.held = p.held
        /\ q.op = p.op /\ q.user = p.user /\ q.token = p.token /\ q.target = p.target
        /\ q.call = p.call /\ q.alive = p.alive /\ q.people = p.people
    BY <1>2, <2>1 DEF Request, Pcs
  <2>3. Subject(q) = Subject(p)
    BY <2>2 DEF Subject
  <2> QED  BY <1>1, <1>2, <1>3, <1>5, <2>1, <2>2, <2>3, HoldingKInv DEF Looking
<1> QED  BY <1>1, <1>4, <1>5 DEF UpdateExpiry

LEMMA ReReadKInv == ASSUME KInv, NEW r \in Requests, ReRead(r), [Next]_vars PROVE KInv'
<1>1. PICK p : p = reqs[r]
  OBVIOUS
<1>2. /\ p \in Request /\ p.pc = "reread" /\ p.pc \in Looking \ {"read"} /\ Onward
      /\ Subject(p) \in Tokens
  BY <1>1, OnwardStep DEF KInv, IInv, TypeOK, ReRead, At, Looking, Placed
<1>3. /\ p.held \in Session /\ Owns(p.held.user, {Subject(p)})'
      /\ p.call = "auth" => p.token \in p.alive
  BY <1>1, <1>2, HeldFacts
<1>4. PICK row \in Session \cup {None} : row = sessions[Subject(p)]
  BY <1>2 DEF KInv, IInv, TypeOK
<1>5. CASE row # None /\ Become(r, Given(p, row))
  <2>1. Owns(row.user, {Subject(p)})'
    BY <1>1, <1>2, <1>4, <1>5, ReadFacts
  <2> QED  BY <1>1, <1>2, <1>3, <1>5, <2>1, GivenKInv
<1>6. CASE Become(r, Given(p, p.held))
  BY <1>1, <1>2, <1>3, <1>6, GivenKInv
<1> QED  BY <1>1, <1>4, <1>5, <1>6 DEF ReRead

LEMMA LoadUserKInv == ASSUME KInv, NEW r \in Requests, LoadUser(r), [Next]_vars PROVE KInv'
<1>1. PICK p : p = reqs[r]
  OBVIOUS
<1>2. /\ p \in Request /\ p.pc = "user" /\ p.call = "auth" /\ p.held \in Session
      /\ p.op \in AuthOps /\ p.token \in p.alive /\ p.token \in issued
      /\ Owns(p.held.user, {p.token}) /\ users \subseteq p.people
  BY <1>1 DEF KInv, IInv, TypeOK, LoadUser, At, Placed, Learnt, Remembers, Holding,
              Looking, Subject
<1>3. Onward /\ UNCHANGED <<now, users, sessions, issued>>
  BY OnwardStep DEF KInv, LoadUser
<1>4. CASE Become(r, Close(p, "unauthenticated"))
  BY <1>1, <1>2, <1>4, Ending DEF Results
<1>5. ASSUME p.held.user \in users,
             Become(r, CASE p.op = "get" ->
                              Close([p EXCEPT !.user = p.held.user, !.held = None, !.bump = 0], "ok")
                         [] p.op = "revoke" ->
                              [[p EXCEPT !.user = p.held.user, !.held = None, !.bump = 0]
                                 EXCEPT !.pc = "read", !.call = "owner"]
                         [] OTHER ->
                              [[p EXCEPT !.user = p.held.user, !.held = None, !.bump = 0]
                                 EXCEPT !.pc = "act"])
      PROVE  KInv'
  <2>1. PICK k : k = [p EXCEPT !.user = p.held.user, !.held = None, !.bump = 0]
    OBVIOUS
  <2>2. /\ k \in Request /\ k.op = p.op /\ k.user = p.held.user /\ k.token = p.token
        /\ k.alive = p.alive /\ k.people = p.people /\ k.held = None
    BY <1>2, <2>1 DEF Request, Session
  <2>3. PICK q : q = CASE p.op = "get" -> Close(k, "ok")
                       [] p.op = "revoke" -> [k EXCEPT !.pc = "read", !.call = "owner"]
                       [] OTHER -> [k EXCEPT !.pc = "act"]
    OBVIOUS
  <2>4. /\ q \in Request /\ q.op = p.op /\ q.user = p.held.user /\ q.token = p.token
        /\ q.alive = p.alive /\ q.people = p.people
        /\ \/ q.pc = "closed"
           \/ q.op = "revoke" /\ q.pc = "read" /\ q.call = "owner" /\ q.held = None
           \/ q.op # "revoke" /\ q.pc = "act"
    <3>1. CASE p.op = "get"  BY <2>2, <2>3, <3>1, CloseFacts DEF Results
    <3>2. CASE p.op = "revoke"
      <4>1. q = [k EXCEPT !.pc = "read", !.call = "owner"]  BY <2>3, <3>2
      <4> QED  BY <2>2, <3>2, <4>1 DEF Request, Pcs
    <3>3. CASE p.op \notin {"get", "revoke"}
      <4>1. q = [k EXCEPT !.pc = "act"]  BY <2>3, <3>3
      <4> QED  BY <2>2, <3>3, <4>1 DEF Request, Pcs
    <3> QED  BY <3>1, <3>2, <3>3
  <2>5. q.user # None /\ q.pc # "idle"
    BY <1>2, <2>4 DEF Session
  <2>6. Remembers(q)'
    BY <1>2, <1>3, <1>5, <2>4, <2>5 DEF Remembers, Owns
  <2>7. Learnt(q)'
    BY <2>4, <2>5 DEF Learnt, Looking, Holding
  <2>8. Become(r, q)
    BY <1>5, <2>1, <2>3
  <2> QED  BY <2>4, <2>6, <2>7, <2>8, Moves
<1> QED  BY <1>1, <1>4, <1>5 DEF LoadUser, UserGone

LEMMA DeleteAllKInv == ASSUME KInv, NEW r \in Requests, DeleteAll(r), [Next]_vars PROVE KInv'
<1>1. PICK p : p = reqs[r]
  OBVIOUS
<1>2. p \in Request /\ p.pc = "act" /\ Learnt(p) /\ Onward
  BY <1>1, OnwardStep DEF KInv, IInv, TypeOK, DeleteAll, At
<1>3. CASE Become(r, Close(p, "ok"))
  BY <1>1, <1>2, <1>3, Ending DEF Results
<1>4. CASE Become(r, [p EXCEPT !.pc = "drop"])
  <2>1. PICK q : q = [p EXCEPT !.pc = "drop"]
    OBVIOUS
  <2>2. /\ q \in Request /\ q.pc = "drop" /\ q.op = p.op /\ q.user = p.user
        /\ q.token = p.token /\ q.alive = p.alive /\ q.people = p.people
    BY <1>2, <2>1 DEF Request, Pcs
  <2>3. Remembers(q)'
    BY <1>1, <1>2, <2>2, Remembered
  <2>4. Learnt(q)'
    BY <1>2, <2>2 DEF Learnt, Looking, Holding
  <2> QED  BY <1>4, <2>1, <2>2, <2>3, <2>4, Moves
<1> QED  BY <1>1, <1>3, <1>4 DEF DeleteAll

LEMMA ListOthersKInv ==
  ASSUME KInv, NEW r \in Requests, ListOthers(r), [Next]_vars PROVE KInv'
<1>1. PICK p : p = reqs[r]
  OBVIOUS
<1>2. p \in Request /\ p.pc = "act" /\ Learnt(p) /\ Onward /\ UNCHANGED <<sessions, issued>>
  BY <1>1, OnwardStep DEF KInv, IInv, TypeOK, ListOthers, At
<1>3. PICK T \in SUBSET SessionsOf(p.user) :
        /\ Become(r, [p EXCEPT !.pc = "loop", !.todo = T])
        /\ p.op \in {"revokeOthers", "mgrRevokeOthers"}
  BY <1>1 DEF ListOthers
<1>4. PICK q : q = [p EXCEPT !.pc = "loop", !.todo = T]
  OBVIOUS
<1>5. T \subseteq issued /\ T \subseteq Tokens
  BY <1>3 DEF KInv, IInv, TypeOK, SessionsOf, Live
<1>6. /\ q \in Request /\ q.pc = "loop" /\ q.todo = T /\ q.op = p.op /\ q.user = p.user
      /\ q.token = p.token /\ q.alive = p.alive /\ q.people = p.people
  BY <1>2, <1>4, <1>5 DEF Request, Pcs
<1>7. Remembers(q)'
  BY <1>1, <1>2, <1>6, Remembered
<1>8. Owns(p.user, T)
  BY <1>3 DEF Owns, SessionsOf
<1>9. Learnt(q)'
  BY <1>2, <1>5, <1>6, <1>8 DEF Learnt, Looking, Holding, Owns
<1> QED  BY <1>3, <1>4, <1>6, <1>7, <1>9, Moves

LEMMA DeleteNextKInv ==
  ASSUME KInv, NEW r \in Requests, DeleteNext(r), [Next]_vars PROVE KInv'
<1>1. PICK p : p = reqs[r]
  OBVIOUS
<1>2. p \in Request /\ p.pc = "loop" /\ Learnt(p) /\ Onward /\ issued' = issued
  BY <1>1, OnwardStep DEF KInv, IInv, TypeOK, DeleteNext, At
<1>3. PICK t \in p.todo : Become(r, [p EXCEPT !.todo = @ \ {t}])
  BY <1>1 DEF DeleteNext
<1>4. PICK q : q = [p EXCEPT !.todo = @ \ {t}]
  OBVIOUS
<1>5. /\ q \in Request /\ q.pc = "loop" /\ q.todo \subseteq p.todo /\ q.op = p.op
      /\ q.user = p.user /\ q.token = p.token /\ q.alive = p.alive /\ q.people = p.people
  BY <1>2, <1>4 DEF Request
<1>6. Remembers(q)'
  BY <1>1, <1>2, <1>5, Remembered
<1>7. q.op = "revokeOthers" => Owns(q.user, q.todo)'
  BY <1>2, <1>5 DEF Learnt, Owns, Onward, NoReturn
<1>8. Learnt(q)'
  BY <1>2, <1>5, <1>7 DEF Learnt, Looking, Holding
<1> QED  BY <1>3, <1>4, <1>5, <1>6, <1>8, Moves

LEMMA InitKInv == Init => KInv
<1> SUFFICES ASSUME Init PROVE KInv
  OBVIOUS
<1>1. ASSUME NEW r \in Requests PROVE Remembers(reqs[r]) /\ Learnt(reqs[r])
  BY DEF Init, Remembers, Learnt, Looking, Holding
<1> QED  BY <1>1, InitIInv DEF KInv

LEMMA NextKInv == KInv /\ [Next]_vars => KInv'
<1> SUFFICES ASSUME KInv, [Next]_vars PROVE KInv'
  OBVIOUS
<1>1. CASE UNCHANGED reqs
  <2>1. IInv' /\ Onward
    BY NextIInv, OnwardStep DEF KInv
  <2>2. ASSUME NEW s \in Requests PROVE (Remembers(reqs[s]) /\ Learnt(reqs[s]))'
    BY <1>1, <2>1, Untouched
  <2> QED  BY <2>1, <2>2 DEF KInv
<1>2. ASSUME NEW r \in Requests, Ask(r) \/ AskManager(r) \/ AskSignIn(r)
      PROVE  KInv'
  BY <1>2, AskKInv, AskManagerKInv, AskSignInKInv
<1>3. ASSUME NEW r \in Requests, GetSession(r)
      PROVE  KInv'
  BY <1>3, ReadSessionKInv, JudgeKInv, PurgeKInv, UpdateExpiryKInv, ReReadKInv
     DEF GetSession
<1>4. ASSUME NEW r \in Requests,
             DeleteOne(r) \/ DeleteUser(r) \/ EndLoop(r) \/ Insert(r) \/ Fail(r)
      PROVE  KInv'
  <2>1. reqs[r].pc # "idle"
    BY <1>4 DEF DeleteOne, DeleteUser, EndLoop, Insert, Fail, At
  <2>2. \E res \in Results : Become(r, Close(reqs[r], res))
    BY <1>4 DEF DeleteOne, DeleteUser, EndLoop, Insert, Fail, Results
  <2> QED  BY <2>1, <2>2, Ending
<1>5. ASSUME NEW r \in Requests, Operate(r)
      PROVE  KInv'
  BY <1>4, <1>5, DeleteAllKInv, ListOthersKInv, DeleteNextKInv DEF Operate
<1>6. ASSUME NEW r \in Requests, LoadUser(r) \/ Fail(r)
      PROVE  KInv'
  BY <1>4, <1>6, LoadUserKInv
<1> QED  BY <1>1, <1>2, <1>3, <1>5, <1>6 DEF Next, Step, vars, Sweep, Tick

\* The invariant behind the next three, whatever the interleaving.
THEOREM Knowledge == Spec => []KInv
BY InitKInv, NextKInv, PTL DEF Spec

\* No endpoint is granted to a user whose account was gone when the request
\* began, whatever sessions raced the deletion.
THEOREM DeletedStayOut == Spec => []DeletedUserStaysOut
<1>1. KInv => DeletedUserStaysOut
  BY DEF KInv, Remembers, DeletedUserStaysOut, Granted
<1> QED  BY <1>1, Knowledge, PTL

-----------------------------------------------------------------------------
(* Only owners end sessions.                                               *)

\* Each way for a session to go is somebody's right.
LEMMA EndingStep == ASSUME KInv, Next PROVE EndedByRight
<1> DEFINE Right(r, t) == /\ reqs[r] # reqs'[r]
                          /\ \/ FoundExpired(reqs[r], t)
                             \/ reqs[r].pc # "purge" /\ reqs[r].op \in ManagerOps
                             \/ reqs[r].pc # "purge" /\ reqs[r].user = sessions[t].user
<1> SUFFICES ASSUME NEW t \in Live, sessions'[t] = None
             PROVE  \/ sessions[t].expires <= now
                    \/ \E r \in Requests : Right(r, t)
  BY DEF EndedByRight
<1>1. /\ t \in Tokens /\ t \in issued /\ sessions[t] \in Session /\ sessions[t] # None
      /\ now \in Nat /\ IInv /\ TypeOK
  BY DEF KInv, IInv, TypeOK, Live
<1>2. ASSUME NEW r \in Requests
      PROVE  /\ reqs[r] \in Request /\ Placed(reqs[r]) /\ Learnt(reqs[r])
             /\ Remembers(reqs[r])
             /\ \A q : Become(r, q) => reqs'[r] = q
  BY DEF KInv, IInv, TypeOK, Become
<1>3. ASSUME NEW r \in Requests, Purge(r) PROVE Right(r, t)
  <2>1. PICK p : p = reqs[r]
    OBVIOUS
  <2>2. p \in Request /\ p.pc = "purge" /\ p.held \in Session /\ Expired(p.held)
        /\ p.result = "none"
    BY <1>2, <1>3, <2>1 DEF Purge, At, Placed, Learnt, Holding
  <2>3. t = Subject(p)
    BY <1>1, <1>3, <2>1 DEF Purge, Without
  <2>4. reqs'[r].pc # "purge"
    BY <1>2, <1>3, <2>1, <2>2, GivenFacts DEF Purge
  <2> QED  BY <2>1, <2>2, <2>3, <2>4 DEF FoundExpired
<1>4. ASSUME NEW r \in Requests, DeleteOne(r) PROVE Right(r, t)
  <2>1. PICK p : p = reqs[r]
    OBVIOUS
  <2>2. /\ p \in Request /\ p.pc = "act" /\ p.op \in {"signOut", "revoke", "mgrRevoke"}
        /\ Placed(p) /\ Learnt(p) /\ Remembers(p)
    BY <1>2, <1>4, <2>1 DEF DeleteOne, At
  <2>3. t = Doomed(p)
    BY <1>1, <1>4, <2>1 DEF DeleteOne, Without
  <2>4. reqs'[r].pc = "closed"
    BY <1>2, <1>4, <2>1, <2>2, CloseFacts DEF DeleteOne, Results
  <2>5. CASE p.op = "signOut"
    BY <1>1, <2>1, <2>2, <2>3, <2>4, <2>5 DEF Doomed, Learnt, Remembers, Owns, AuthOps
  <2>6. CASE p.op = "revoke"
    BY <1>1, <2>1, <2>2, <2>3, <2>4, <2>6 DEF Doomed, Learnt, Owns, FoundExpired, Subject
  <2>7. CASE p.op = "mgrRevoke"
    BY <2>1, <2>2, <2>4, <2>7 DEF ManagerOps
  <2> QED  BY <2>2, <2>5, <2>6, <2>7
<1>5. ASSUME NEW r \in Requests, DeleteAll(r) PROVE Right(r, t)
  <2>1. PICK p : p = reqs[r]
    OBVIOUS
  <2>2. p \in Request /\ p.pc = "act"
    BY <1>2, <1>5, <2>1 DEF DeleteAll, At
  <2>3. sessions[t].user = p.user
    BY <1>1, <1>5, <2>1 DEF DeleteAll, Without, SessionsOf
  <2>4. reqs'[r].pc \in {"closed", "drop"}
    <3>1. reqs'[r] = IF p.op = "delete" THEN [p EXCEPT !.pc = "drop"] ELSE Close(p, "ok")
      BY <1>2, <1>5, <2>1 DEF DeleteAll
    <3>2. CASE p.op = "delete"
      BY <2>2, <3>1, <3>2 DEF Request
    <3>3. CASE p.op # "delete"
      BY <2>2, <3>1, <3>3, CloseFacts DEF Results
    <3> QED  BY <3>2, <3>3
  <2> QED  BY <2>1, <2>2, <2>3, <2>4
<1>6. ASSUME NEW r \in Requests, DeleteNext(r) PROVE Right(r, t)
  <2>1. PICK p : p = reqs[r]
    OBVIOUS
  <2>2. /\ p \in Request /\ p.pc = "loop" /\ p.op \in {"revokeOthers", "mgrRevokeOthers"}
        /\ Learnt(p)
    BY <1>2, <1>6, <2>1 DEF DeleteNext, At, Placed
  <2>3. t \in p.todo /\ reqs'[r] = [p EXCEPT !.todo = @ \ {t}]
    BY <1>1, <1>2, <1>6, <2>1 DEF DeleteNext, Without
  <2>4. reqs'[r] # p
    <3>1. reqs'[r].todo = p.todo \ {t}
      BY <2>2, <2>3 DEF Request
    <3> QED  BY <2>3, <3>1
  <2>5. p.op = "revokeOthers" => p.user = sessions[t].user
    BY <1>1, <2>2, <2>3 DEF Learnt, Owns
  <2> QED  BY <2>1, <2>2, <2>4, <2>5 DEF ManagerOps
<1>7. CASE Sweep
  <2>1. Swept(sessions[t])
    BY <1>1, <1>7 DEF Sweep, Without
  <2> QED  BY <1>1, <2>1 DEF Swept, Session
<1>8. ASSUME NEW r \in Requests PROVE ~UpdateExpiry(r)
  BY <1>1, <1>2, RefreshedFacts DEF UpdateExpiry
<1>9. ASSUME NEW r \in Requests PROVE ~Insert(r)
  BY <1>1, <1>2 DEF Insert, Placed, At, TypeOK
<1>10. sessions' # sessions
  BY <1>1
<1> QED
  BY <1>3, <1>4, <1>5, <1>6, <1>7, <1>8, <1>9, <1>10
     DEF Next, Step, GetSession, Operate, Ask, AskManager, AskSignIn, ReadSession,
         Judge, ReRead, LoadUser, Fail, DeleteUser, ListOthers, EndLoop, Tick

\* A session ends because its owner or the application asked, or because it
\* had expired: no request ends the good session of another user.
THEOREM OwnersDecide == Spec => OwnerOnly
<1>1. KInv /\ [Next]_vars => [EndedByRight]_vars
  BY EndingStep
<1> QED  BY <1>1, Knowledge, PTL DEF Spec, OwnerOnly

-----------------------------------------------------------------------------
(* The session layer implements SessionLife.                               *)

\* A token lives from its insert to the delete that reaches it.
LEMMA LifeStep ==
  ASSUME KInv, [Next]_vars
  PROVE  \/ \E t \in Tokens : Promise!Issue(t)
         \/ \E T \in SUBSET Tokens : Promise!End(T)
<1>1. Onward /\ IInv /\ TypeOK /\ Live \subseteq issued
  BY OnwardStep DEF KInv, IInv, TypeOK
<1>2. CASE issued' = issued
  <2> DEFINE T == {t \in Live : sessions'[t] = None}
  <2>1. T \in SUBSET Tokens /\ \A t \in T : lifeOf[t] = "live"
    BY <1>1 DEF Live, lifeOf
  <2>2. lifeOf' = [t \in Tokens |-> IF t \in T THEN "ended" ELSE lifeOf[t]]
    <3>1. ASSUME NEW t \in Tokens
          PROVE  lifeOf'[t] = IF t \in T THEN "ended" ELSE lifeOf[t]
      <4>1. CASE t \notin issued
        BY <1>1, <1>2, <4>1 DEF lifeOf
      <4>2. CASE t \in issued /\ sessions[t] = None
        BY <1>1, <1>2, <4>2 DEF lifeOf, Onward, NoReturn, Live
      <4>3. CASE t \in issued /\ sessions[t] # None
        BY <1>1, <1>2, <4>3 DEF lifeOf, Live
      <4> QED  BY <4>1, <4>2, <4>3
    <3> QED  BY <3>1 DEF lifeOf
  <2> QED  BY <2>1, <2>2 DEF Promise!End
<1>3. ASSUME NEW r \in Requests, Insert(r) PROVE \E t \in Tokens : Promise!Issue(t)
  <2>1. PICK k : k = reqs[r].token
    OBVIOUS
  <2>2. /\ reqs[r] \in Request /\ reqs[r].op = "signIn" /\ reqs[r].user \in Users
        /\ k \in Tokens /\ k \notin issued /\ ExpiresIn <= reqs[r].bump
    BY <1>1, <1>3, <2>1 DEF IInv, TypeOK, Insert, At, Placed
  <2>3. NewRow(reqs[r]) \in Session
    BY <2>2 DEF NewRow, Session, Request
  <2>4. /\ sessions' = [sessions EXCEPT ![k] = NewRow(reqs[r])]
        /\ issued' = issued \cup {k}
    BY <1>3, <2>1 DEF Insert
  <2>5. lifeOf[k] = "unissued"
    BY <2>2 DEF lifeOf
  <2>6. lifeOf' = [lifeOf EXCEPT ![k] = "live"]
    <3>1. ASSUME NEW t \in Tokens PROVE lifeOf'[t] = IF t = k THEN "live" ELSE lifeOf[t]
      <4>1. CASE t = k
        BY <1>1, <2>2, <2>3, <2>4, <4>1 DEF lifeOf, TypeOK
      <4>2. CASE t # k
        BY <1>1, <2>4, <4>2 DEF lifeOf, TypeOK
      <4> QED  BY <4>1, <4>2
    <3> QED  BY <3>1 DEF lifeOf
  <2> QED  BY <2>2, <2>5, <2>6 DEF Promise!Issue
<1>4. issued' = issued \/ \E r \in Requests : Insert(r)
  BY DEF Next, vars, Ask, AskManager, AskSignIn, Step, GetSession, Operate, ReadSession,
         Judge, Purge, UpdateExpiry, ReRead, LoadUser, DeleteOne, DeleteAll, DeleteUser,
         ListOthers, DeleteNext, EndLoop, Fail, Sweep, Tick
<1> QED  BY <1>2, <1>3, <1>4

\* One question changes at a time.
LEMMA AskingStep ==
  ASSUME TypeOK, NEW r \in Requests, NEW q \in Request, Become(r, q)
  PROVE  askOf' = [askOf EXCEPT ![r] = Asking(q)]
<1>1. reqs' = [reqs EXCEPT ![r] = q]
  BY DEF Become
<1>2. ASSUME NEW s \in Requests
      PROVE  askOf'[s] = IF s = r THEN Asking(q) ELSE askOf[s]
  BY <1>1 DEF TypeOK, askOf, Asking
<1> QED  BY <1>2 DEF askOf

\* How a step of get_session, or of an operation, moves its task: what it is
\* about stays, and only require_session gives it a user.
LEMMA StepMoves ==
  ASSUME KInv, NEW r \in Requests, Step(r), NEW p, p = reqs[r]
  PROVE  \E q \in Request :
           /\ Become(r, q) /\ p.pc \notin {"idle", "closed"} /\ q.pc # "idle"
           /\ q.op = p.op /\ q.token = p.token /\ q.alive = p.alive
           /\ \/ q.user = p.user
              \/ q.user # None /\ p.token \in p.alive
<1>1. p \in Request /\ Placed(p) /\ Learnt(p)
  BY DEF KInv, IInv, TypeOK
<1>2. ASSUME NEW q \in Request, Become(r, q), p.pc \notin {"idle", "closed"},
             q.pc # "idle", q.op = p.op, q.token = p.token, q.alive = p.alive,
             q.user = p.user
      PROVE  \E x \in Request :
               /\ Become(r, x) /\ p.pc \notin {"idle", "closed"} /\ x.pc # "idle"
               /\ x.op = p.op /\ x.token = p.token /\ x.alive = p.alive
               /\ \/ x.user = p.user
                  \/ x.user # None /\ p.token \in p.alive
  BY <1>2
<1>3. ASSUME NEW res \in Results, Become(r, Close(p, res)), p.pc \notin {"idle", "closed"}
      PROVE  \E q \in Request :
               /\ Become(r, q) /\ p.pc \notin {"idle", "closed"} /\ q.pc # "idle"
               /\ q.op = p.op /\ q.token = p.token /\ q.alive = p.alive
               /\ q.user = p.user
  BY <1>1, <1>3, CloseFacts
<1>4. ASSUME NEW row \in Session \cup {None}, Become(r, Given(p, row)),
             p.pc \in Looking
      PROVE  \E q \in Request :
               /\ Become(r, q) /\ p.pc \notin {"idle", "closed"} /\ q.pc # "idle"
               /\ q.op = p.op /\ q.token = p.token /\ q.alive = p.alive
               /\ q.user = p.user
  BY <1>1, <1>4, GivenFacts DEF Placed, Looking
<1>5. CASE DeleteOne(r) \/ DeleteUser(r) \/ EndLoop(r) \/ Insert(r) \/ Fail(r)
  <2>1. p.pc \notin {"idle", "closed"}
    BY <1>5 DEF DeleteOne, DeleteUser, EndLoop, Insert, Fail, At
  <2>2. \E res \in Results : Become(r, Close(p, res))
    BY <1>5 DEF DeleteOne, DeleteUser, EndLoop, Insert, Fail, Results
  <2> QED  BY <1>3, <2>1, <2>2
<1>6. CASE ReadSession(r)
  <2>1. p.pc = "read" /\ p.pc \in Looking /\ Subject(p) \in Tokens
    BY <1>1, <1>6 DEF ReadSession, At, Looking, Placed, KInv, IInv, TypeOK
  <2>2. PICK row \in Session \cup {None} : row = sessions[Subject(p)]
    BY <2>1 DEF KInv, IInv, TypeOK
  <2>3. CASE row = None
    BY <1>4, <1>6, <2>1, <2>2, <2>3 DEF ReadSession
  <2>4. CASE row # None
    <3>1. PICK q : q = [p EXCEPT !.pc = "judge", !.held = row]
      OBVIOUS
    <3>2. /\ q \in Request /\ q.pc = "judge" /\ q.op = p.op /\ q.token = p.token
          /\ q.alive = p.alive /\ q.user = p.user
      BY <1>1, <3>1, ZenonT(120) DEF Request, Pcs
    <3>3. Become(r, q)
      BY <1>6, <2>2, <2>4, <3>1 DEF ReadSession
    <3> QED  BY <1>2, <2>1, <3>2, <3>3
  <2> QED  BY <2>3, <2>4
<1>7. CASE Judge(r)
  <2>1. p.pc = "judge" /\ p.pc \in Looking /\ p.held \in Session
    BY <1>1, <1>7 DEF Judge, At, Looking, Holding, Placed
  <2>2. now + ExpiresIn \in Nat
    BY DEF KInv, IInv, TypeOK
  <2>3. PICK b \in Nat : b = now + ExpiresIn
    BY <2>2
  <2>4. ASSUME NEW q, Become(r, q),
               q = [p EXCEPT !.pc = "purge"] \/ q = [p EXCEPT !.pc = "update", !.bump = b]
        PROVE  /\ q \in Request /\ q.pc \in {"purge", "update"} /\ q.op = p.op
               /\ q.token = p.token /\ q.alive = p.alive /\ q.user = p.user
    <3>1. CASE q = [p EXCEPT !.pc = "purge"]
      BY <1>1, <3>1 DEF Request, Pcs
    <3>2. CASE q = [p EXCEPT !.pc = "update", !.bump = b]
      BY <1>1, <2>3, <3>2 DEF Request, Pcs
    <3> QED  BY <2>4, <3>1, <3>2
  <2> QED  BY <1>2, <1>4, <1>7, <2>1, <2>3, <2>4 DEF Judge
<1>8. CASE Purge(r)
  <2>1. p.pc \in Looking
    BY <1>8 DEF Purge, At, Looking
  <2> QED  BY <1>4, <1>8, <2>1 DEF Purge
<1>9. CASE UpdateExpiry(r) \/ ReRead(r)
  <2>1. p.pc \in {"update", "reread"} /\ p.pc \in Looking /\ p.held \in Session
    BY <1>1, <1>9 DEF UpdateExpiry, ReRead, At, Looking, Holding, Placed
  <2>2. Subject(p) \in Tokens
    BY <1>1, <2>1 DEF Placed, KInv, IInv, TypeOK
  <2>3. PICK row \in Session \cup {None} : row = sessions[Subject(p)]
    BY <2>2 DEF KInv, IInv, TypeOK
  <2>4. ASSUME NEW q, q = [p EXCEPT !.pc = "reread"]
        PROVE  /\ q \in Request /\ q.pc = "reread" /\ q.op = p.op
               /\ q.token = p.token /\ q.alive = p.alive /\ q.user = p.user
    BY <1>1, <2>4 DEF Request, Pcs
  <2> QED  BY <1>2, <1>4, <1>9, <2>1, <2>3, <2>4 DEF UpdateExpiry, ReRead
<1>10. CASE LoadUser(r)
  <2>1. /\ p.pc = "user" /\ p.held \in Session /\ p.op \in AuthOps /\ p.token \in p.alive
    BY <1>1, <1>10 DEF LoadUser, At, Placed, Learnt, Holding
  <2>2. CASE Become(r, Close(p, "unauthenticated"))
    BY <1>3, <2>1, <2>2 DEF Results
  <2>3. PICK k : k = [p EXCEPT !.user = p.held.user, !.held = None, !.bump = 0]
    OBVIOUS
  <2>4. /\ k \in Request /\ k.op = p.op /\ k.user # None /\ k.token = p.token
        /\ k.alive = p.alive
    BY <1>1, <2>1, <2>3 DEF Request, Session
  <2>5. ASSUME NEW q, \/ q = Close(k, "ok")
                      \/ q = [k EXCEPT !.pc = "read", !.call = "owner"]
                      \/ q = [k EXCEPT !.pc = "act"]
        PROVE  /\ q \in Request /\ q.pc # "idle" /\ q.op = p.op /\ q.user # None
               /\ q.token = p.token /\ q.alive = p.alive
    <3>1. CASE q = Close(k, "ok")
      BY <2>4, <3>1, CloseFacts DEF Results
    <3>2. CASE q = [k EXCEPT !.pc = "read", !.call = "owner"] \/ q = [k EXCEPT !.pc = "act"]
      BY <2>4, <3>2, ZenonT(120) DEF Request, Pcs
    <3> QED  BY <2>5, <3>1, <3>2
  <2>6. ASSUME ~Become(r, Close(p, "unauthenticated"))
        PROVE  \E q : Become(r, q) /\ \/ q = Close(k, "ok")
                                      \/ q = [k EXCEPT !.pc = "read", !.call = "owner"]
                                      \/ q = [k EXCEPT !.pc = "act"]
    BY <1>10, <2>3, <2>6 DEF LoadUser
  <2> QED  BY <2>1, <2>2, <2>5, <2>6
<1>11. CASE DeleteAll(r) \/ ListOthers(r)
  <2>1. p.pc = "act"
    BY <1>11 DEF DeleteAll, ListOthers, At
  <2>2. PICK q : /\ Become(r, q)
                 /\ \/ q = Close(p, "ok")
                    \/ q = [p EXCEPT !.pc = "drop"]
                    \/ \E T \in SUBSET Tokens : q = [p EXCEPT !.pc = "loop", !.todo = T]
    BY <1>11, ZenonT(120) DEF DeleteAll, ListOthers, SessionsOf, Live
  <2>3. CASE q = Close(p, "ok")
    BY <1>3, <2>1, <2>2, <2>3 DEF Results
  <2>4. CASE q # Close(p, "ok")
    <3>1. /\ q \in Request /\ q.pc \in {"drop", "loop"} /\ q.op = p.op
          /\ q.token = p.token /\ q.alive = p.alive /\ q.user = p.user
      <4>1. CASE q = [p EXCEPT !.pc = "drop"]
        BY <1>1, <4>1 DEF Request, Pcs
      <4>2. ASSUME NEW T \in SUBSET Tokens, q = [p EXCEPT !.pc = "loop", !.todo = T]
            PROVE  /\ q \in Request /\ q.pc = "loop" /\ q.op = p.op
                   /\ q.token = p.token /\ q.alive = p.alive /\ q.user = p.user
        BY <1>1, <4>2, ZenonT(120) DEF Request, Pcs
      <4> QED  BY <2>2, <2>4, <4>1, <4>2
    <3> QED  BY <1>2, <2>1, <2>2, <3>1
  <2> QED  BY <2>3, <2>4
<1>12. CASE DeleteNext(r)
  <2>1. PICK t \in p.todo : Become(r, [p EXCEPT !.todo = @ \ {t}]) /\ p.pc = "loop"
    BY <1>12 DEF DeleteNext, At
  <2>2. PICK q : q = [p EXCEPT !.todo = @ \ {t}]
    OBVIOUS
  <2>3. /\ q \in Request /\ q.pc = "loop" /\ q.op = p.op
        /\ q.token = p.token /\ q.alive = p.alive /\ q.user = p.user
    BY <1>1, <2>1, <2>2 DEF Request
  <2> QED  BY <1>2, <2>1, <2>2, <2>3
<1> QED
  BY <1>5, <1>6, <1>7, <1>8, <1>9, <1>10, <1>11, <1>12 DEF Step, GetSession, Operate

\* A step leaves the questions alone, asks one, or answers one as promised.
LEMMA QuestionStep ==
  ASSUME KInv, [Next]_vars
  PROVE  \/ UNCHANGED askOf
         \/ \E r \in Requests : \/ Promise!Leave(r) \/ Promise!Grant(r)
                                \/ Promise!Refuse(r)
         \/ \E r \in Requests, t \in Tokens : Promise!AskFor(r, t)
<1>1. TypeOK /\ IInv /\ Live \subseteq issued /\ issued \subseteq Tokens
  BY DEF KInv, IInv, TypeOK
<1>2. ASSUME NEW r \in Requests
      PROVE  askOf[r] = Asking(reqs[r]) /\ reqs[r] \in Request
  BY <1>1 DEF askOf, TypeOK
<1>3. CASE UNCHANGED reqs
  BY <1>3 DEF askOf, Asking
<1>0. ASSUME NEW r \in Requests, Free(r) PROVE askOf[r].status # "open"
  <2>1. CASE reqs[r].pc = "idle" \/ reqs[r].op \notin AuthOps
    <3>1. Asking(reqs[r]) = [status |-> "quiet", late |-> FALSE]
      BY <2>1 DEF Asking
    <3> QED  BY <1>2, <3>1
  <2>2. CASE reqs[r].pc = "closed" /\ reqs[r].op \in AuthOps
    <3>1. Asking(reqs[r]) = [status |-> IF reqs[r].user # None THEN "granted" ELSE "refused",
                             late |-> reqs[r].token \notin reqs[r].alive]
      BY <2>2 DEF Asking
    <3> QED  BY <1>2, <3>1
  <2> QED  BY <1>0, <2>1, <2>2 DEF Free
<1>4. ASSUME NEW r \in Requests, Ask(r)
      PROVE  \E t \in Tokens : Promise!AskFor(r, t)
  <2>1. PICK op \in Ops \cap AuthOps, t \in issued, x \in issued \cup {None} :
          Become(r, Task("read", op, "auth", None, t, x, 0))
    BY <1>4 DEF Ask
  <2>2. PICK q : q = Task("read", op, "auth", None, t, x, 0)
    OBVIOUS
  <2>3. /\ op \in AllOps /\ "read" \in Pcs /\ "auth" \in {"auth", "owner", "exists"}
        /\ 0 \in Nat /\ None \in Users \cup {None} /\ t \in Tokens \cup {None}
        /\ x \in Tokens \cup {None}
    BY <1>1 DEF Pcs, AllOps
  <2>4. /\ q \in Request /\ q.pc = "read" /\ q.op = op /\ q.user = None
        /\ q.token = t /\ q.alive = Live
    BY <1>1, <2>2, <2>3, TaskFacts
  <2>5. t \in Tokens /\ lifeOf[t] # "unissued" /\ (lifeOf[t] = "ended" <=> t \notin Live)
    BY <1>1 DEF lifeOf, Live
  <2>6. askOf' = [askOf EXCEPT ![r] = [status |-> "open", late |-> lifeOf[t] = "ended"]]
    <3>1. Asking(q) = [status |-> "open", late |-> lifeOf[t] = "ended"]
      BY <2>4, <2>5 DEF Asking
    <3>2. Become(r, q)
      BY <2>1, <2>2
    <3> QED  BY <1>1, <2>4, <3>1, <3>2, AskingStep
  <2>7. askOf[r].status # "open"
    BY <1>0, <1>4 DEF Ask
  <2> QED  BY <2>5, <2>6, <2>7 DEF Promise!AskFor
<1>5. ASSUME NEW r \in Requests, AskManager(r) \/ AskSignIn(r)
      PROVE  Promise!Leave(r)
  <2>1. PICK q : /\ Become(r, q) /\ q.op \notin AuthOps
    <3>1. ASSUME NEW pc, NEW op, NEW call, NEW u, NEW t, NEW x, NEW b,
                 op \in ManagerOps \cup {"signIn"}, Become(r, Task(pc, op, call, u, t, x, b))
          PROVE  \E q : /\ Become(r, q) /\ q.op \notin AuthOps
      <4>1. Task(pc, op, call, u, t, x, b).op \notin AuthOps
        BY <3>1 DEF Task, AuthOps, ManagerOps
      <4> QED  BY <3>1, <4>1
    <3> QED  BY <1>5, <3>1 DEF AskManager, AskSignIn, ManagerOps
  <2>2. askOf' = [askOf EXCEPT ![r] = Promise!Quiet]
    <3>1. reqs' = [reqs EXCEPT ![r] = q] /\ Asking(q) = Promise!Quiet
      BY <2>1 DEF Become, Asking, Promise!Quiet
    <3>2. ASSUME NEW s \in Requests
          PROVE  askOf'[s] = IF s = r THEN Promise!Quiet ELSE askOf[s]
      BY <1>1, <3>1 DEF TypeOK, askOf, Asking
    <3> QED  BY <3>2 DEF askOf
  <2>3. askOf[r].status # "open"
    BY <1>0, <1>5 DEF AskManager, AskSignIn
  <2> QED  BY <2>2, <2>3 DEF Promise!Leave
<1>6. ASSUME NEW r \in Requests, Step(r)
      PROVE  UNCHANGED askOf \/ Promise!Grant(r) \/ Promise!Refuse(r)
  <2>1. PICK p : p = reqs[r]
    OBVIOUS
  <2>2. PICK q \in Request :
           /\ Become(r, q) /\ p.pc \notin {"idle", "closed"} /\ q.pc # "idle"
           /\ q.op = p.op /\ q.token = p.token /\ q.alive = p.alive
           /\ \/ q.user = p.user
              \/ q.user # None /\ p.token \in p.alive
    BY <1>6, <2>1, StepMoves
  <2>3. /\ askOf' = [askOf EXCEPT ![r] = Asking(q)] /\ askOf[r] = Asking(p)
        /\ askOf = [askOf EXCEPT ![r] = Asking(p)]
    BY <1>1, <1>2, <2>1, <2>2, AskingStep DEF askOf
  <2>4. CASE p.op \notin AuthOps \/ p.user # None \/ (q.user = None /\ q.pc # "closed")
    <3>1. Asking(q) = Asking(p)
      BY <2>2, <2>4 DEF Asking
    <3> QED  BY <2>3, <3>1
  <2>5. CASE p.op \in AuthOps /\ p.user = None /\ q.user # None
    <3>1. /\ Asking(p).status = "open" /\ ~Asking(p).late
          /\ Asking(q) = [Asking(p) EXCEPT !.status = "granted"]
      <4>1. /\ Asking(p) = [status |-> "open", late |-> p.token \notin p.alive]
            /\ Asking(q) = [status |-> "granted", late |-> p.token \notin p.alive]
        BY <2>2, <2>5 DEF Asking
      <4>a. p.token \in p.alive
        BY <2>2, <2>5
      <4>b. Asking(p).status = "open" /\ Asking(p).late = (p.token \notin p.alive)
        BY <4>1
      <4>2. Asking(p).status = "open" /\ ~Asking(p).late
        BY <4>a, <4>b, Zenon
      <4>3. Asking(q) = [Asking(p) EXCEPT !.status = "granted"]
        BY <4>1
      <4> QED  BY <4>2, <4>3
    <3>2. /\ askOf[r].status = "open" /\ ~askOf[r].late
          /\ Asking(q) = [askOf[r] EXCEPT !.status = "granted"]
      BY <2>3, <3>1
    <3>3. askOf' = [askOf EXCEPT ![r] = [askOf[r] EXCEPT !.status = "granted"]]
      BY <2>3, <3>2
    <3> QED  BY <3>2, <3>3 DEF Promise!Grant
  <2>6. CASE p.op \in AuthOps /\ p.user = None /\ q.user = None /\ q.pc = "closed"
    <3>1. Asking(p).status = "open" /\ Asking(q) = [Asking(p) EXCEPT !.status = "refused"]
      BY <2>2, <2>6 DEF Asking
    <3> QED  BY <2>3, <3>1 DEF Promise!Refuse
  <2> QED  BY <2>4, <2>5, <2>6
<1> QED  BY <1>3, <1>4, <1>5, <1>6 DEF Next, vars, Sweep, Tick

\* Every behaviour of the session layer is one that SessionLife allows: tokens
\* are issued once and ended once, and a request that asks after its token has
\* ended is never granted.
THEOREM Refinement == Spec => KeepsPromise
<1>1. Init => Promise!Init
  <2> SUFFICES ASSUME Init PROVE Promise!Init
    OBVIOUS
  <2>1. lifeOf = [t \in Tokens |-> "unissued"]
    BY DEF Init, lifeOf
  <2>2. askOf = [r \in Requests |-> Promise!Quiet]
    BY DEF Init, askOf, Asking, Promise!Quiet
  <2> QED  BY <2>1, <2>2 DEF Promise!Init
<1>2. KInv /\ [Next]_vars => [Promise!Next]_Promise!lifeVars
  BY LifeStep, QuestionStep DEF Promise!Next
<1> QED  BY <1>1, <1>2, Knowledge, PTL DEF Spec, KeepsPromise, Promise!Spec

=============================================================================
