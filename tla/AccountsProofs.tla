----------------------------- MODULE AccountsProofs -----------------------------
(***************************************************************************)
(* Proofs about how users get in: first the second factor and passkeys,     *)
(* then accounts and the links mailed about them; for any users, addresses, *)
(* links, codes, credentials, menus and requests in flight, on every        *)
(* adapter and under every configuration but for what a theorem assumes.    *)
(***************************************************************************)
EXTENDS Accounts, TLAPS

-----------------------------------------------------------------------------
(* The second factor and passkeys (Factors), of the same users.             *)

CONSTANTS Pendings, Otps, Secrets, Codes, Challenges, Passkeys, Credentials, BatchSize,
          FactorMenus, FactorFailing

VARIABLES flag, secret, codes, rows, passkeys, factorReqs, factorMenu, given, used,
          factorSpent

F == INSTANCE Factors WITH Menus <- FactorMenus, Failing <- FactorFailing,
       reqs <- factorReqs, menu <- factorMenu, spent <- factorSpent

\* What Factors takes for granted of its constants.
KindsDiffer == F!KindsAssumption
FactorConstants == F!FactorsAssumption /\ KindsDiffer

USE DEF FactorConstants, F!FactorsAssumption

-----------------------------------------------------------------------------
(* Things.                                                                  *)

LEMMA KindsApart ==
  ASSUME FactorConstants
  PROVE  /\ Pendings \cap Otps = {} /\ Pendings \cap Secrets = {} /\ Pendings \cap Codes = {}
         /\ Pendings \cap Challenges = {} /\ Otps \cap Secrets = {} /\ Otps \cap Codes = {}
         /\ Otps \cap Challenges = {} /\ Secrets \cap Challenges = {}
         /\ Codes \cap Challenges = {}
         /\ Pendings \cap Passkeys = {}
<1> DEFINE Kinds == <<Pendings, Otps, Secrets, Codes, Challenges, Passkeys>>
<1>1. \A i, j \in 1..6 : i # j => Kinds[i] \cap Kinds[j] = {}
  BY DEF KindsDiffer, F!KindsAssumption
<1>2. /\ Kinds[1] = Pendings /\ Kinds[2] = Otps /\ Kinds[3] = Secrets
      /\ Kinds[4] = Codes /\ Kinds[5] = Challenges /\ Kinds[6] = Passkeys
  OBVIOUS
<1> HIDE DEF Kinds
<1> QED  BY <1>1, <1>2

LEMMA FreshFacts ==
  ASSUME FactorConstants, NEW S, NEW x \in F!Fresh(S)
  PROVE  x \in S /\ given[x] = None
<1>1. PICK y \in S : given[y] = None
  BY DEF F!Fresh, F!Unused
<1>2. x = CHOOSE z \in S : given[z] = None
  BY DEF F!Fresh
<1> QED  BY <1>1, <1>2

LEMMA BatchFacts ==
  ASSUME FactorConstants, NEW B \in F!Batches
  PROVE  B \subseteq Codes /\ \A x \in B : given[x] = None
<1> DEFINE all == {C \in SUBSET F!Unused(Codes) : F!Cardinality(C) = BatchSize}
<1>1. all # {} /\ B = CHOOSE C \in all : TRUE
  BY DEF F!Batches
<1>2. B \in all
  <2> HIDE DEF all
  <2> QED  BY <1>1
<1> QED  BY <1>2 DEF F!Unused

\* What has been handed out stays with whom it was handed to.
LEMMA HandFacts ==
  ASSUME FactorConstants, F!RowsFine, NEW S \in SUBSET F!Things, \A x \in S : given[x] = None,
         NEW u \in Users \cup {F!Anyone}, F!Hand(S, u)
  PROVE  /\ given' \in [F!Things -> Users \cup {None, F!Anyone}]
         /\ \A x \in F!Things : given'[x] = IF x \in S THEN u ELSE given[x]
         /\ \A x \in F!Things : given[x] # None => given'[x] = given[x]
         /\ \A x \in S : given'[x] = u /\ u # None
         /\ F!Handed(F!Things) \subseteq F!Handed(F!Things)'
BY DEF F!Hand, F!RowsFine, F!Handed
-----------------------------------------------------------------------------
(* Tasks.                                                                   *)

LEMMA FactorIdleFacts ==
  ASSUME FactorConstants, NEW ok \in BOOLEAN
  PROVE  /\ F!Idle(ok) \in F!Task /\ F!Idle(ok).pc = "idle" /\ F!Idle(ok).op = None
         /\ F!Idle(ok).thing = None /\ F!Idle(ok).ok = ok
BY DEF F!Idle, F!Task, F!Pcs

\* The task is the same but for its place, and what it has read.
FactorSame(q, t) ==
  /\ t.op = q.op /\ t.token = q.token /\ t.thing = q.thing /\ t.cred = q.cred
  /\ t.guarded = q.guarded /\ t.late = q.late /\ t.ok = q.ok

\* As far as the invariant sees them, two tasks are alike.
FactorAlike(q, t) ==
  /\ t.op = q.op /\ t.pc = q.pc /\ t.user = q.user /\ t.token = q.token
  /\ t.thing = q.thing /\ t.key = q.key /\ t.cred = q.cred /\ t.seen = q.seen
  /\ t.late = q.late /\ ~t.ok
  /\ t.guarded => q.guarded /\ (q.user \in Users /\ flag[q.user] => flag'[q.user])

\* The task of r becomes t, and the answers of the others are forgotten.
FactorMoves(r, t) ==
  /\ t \in F!Task /\ factorReqs' \in [Requests -> F!Task] /\ factorReqs'[r] = t
  /\ \A s \in Requests \ {r} : FactorAlike(factorReqs[s], factorReqs'[s])

LEMMA FactorBecomeFacts ==
  ASSUME FactorConstants, factorReqs \in [Requests -> F!Task], NEW r \in Requests,
         NEW t \in F!Task, F!Become(r, t),
         flag' = flag
  PROVE  FactorMoves(r, t)
<1>1. ASSUME NEW s \in Requests \ {r}
      PROVE  factorReqs'[s] \in F!Task /\ FactorAlike(factorReqs[s], factorReqs'[s])
  <2>1. PICK q \in F!Task : q = factorReqs[s]
    OBVIOUS
  <2>2. PICK x : x = [q EXCEPT !.ok = FALSE]
    OBVIOUS
  <2>3. x \in F!Task /\ FactorAlike(q, x)
    BY <2>1, <2>2 DEF F!Task, FactorAlike
  <2>4. factorReqs'[s] = x
    BY <2>1, <2>2 DEF F!Become
  <2> QED  BY <2>1, <2>3, <2>4
<1>2. factorReqs' \in [Requests -> F!Task] /\ factorReqs'[r] = t
  BY <1>1 DEF F!Become
<1> QED  BY <1>1, <1>2 DEF FactorMoves
-----------------------------------------------------------------------------
(* Steps.                                                                   *)

\* What a step of r leaves as it is.
FactorEvolves(r) ==
  /\ \A x \in F!Things : given[x] # None => given'[x] = given[x]
  /\ rows' \cap F!Handed(F!Things) \subseteq rows
  /\ factorSpent \subseteq factorSpent'
  /\ used' \cap Challenges \subseteq
         used \cup {x \in {factorReqs[r].thing} : F!Takes(factorReqs[r])}

LEMMA BringsGrows ==
  ASSUME FactorConstants, NEW t, F!Brings(t), NEW r, FactorEvolves(r)
  PROVE  F!Brings(t)'
<1>1. \A S \in SUBSET F!Things : \A x \in F!Handed(S) : x \in {y \in S : given'[y] # None}
  BY DEF F!Handed, FactorEvolves
<1>2. t.op \in F!PendingOps => t.token \in {y \in Pendings : given'[y] # None}
  BY <1>1 DEF F!Things, F!Brings
<1>3. t.op \in F!VerifyOps \cup F!ChallengeOps =>
        t.thing \in {y \in F!Presents(t.op) : given'[y] # None}
  <2>1. F!Presents(t.op) \subseteq F!Things
    BY DEF F!Presents, F!Things
  <2> QED  BY <1>1, <2>1 DEF F!Brings
<1> QED  BY <1>2, <1>3 DEF F!Brings, F!Handed

LEMMA FactorCarriesStays ==
  ASSUME FactorConstants, F!RowsFine, NEW r, FactorEvolves(r), NEW q \in F!Task, F!Carries(q),
         NEW t \in F!Task, FactorAlike(q, t),
         F!Takes(q) /\ F!Takes(factorReqs[r]) => q.thing # factorReqs[r].thing
  PROVE  F!Carries(t)'
<1> USE DEF FactorAlike
<1>1. CASE q.pc # "idle"
  <2>1. F!Brings(q) /\ F!Learnt(q) /\ F!Barred(q)
    BY <1>1 DEF F!Carries
  <2>2. \A S \in SUBSET F!Things : \A x \in F!Handed(S) :
          x \in F!Things /\ given[x] # None /\ given'[x] = given[x]
    BY DEF F!Handed, FactorEvolves
  <2>4. q.op \in F!PendingOps => q.token \in F!Handed(Pendings) /\ q.token \in F!Things
    BY <2>1 DEF F!Brings, F!Handed, F!Things
  <2>5. q.op \in F!VerifyOps \cup F!ChallengeOps =>
          q.thing \in F!Handed(F!Presents(q.op)) /\ q.thing \in F!Handed(F!Things)
    BY <2>1 DEF F!Brings, F!Handed, F!Things, F!Presents, F!VerifyOps
  <2>6. F!Brings(t)'
    <3>1. F!Brings(t)
      BY <2>1 DEF F!Brings
    <3> QED  BY <3>1, BringsGrows
  <2>7. F!Learnt(t)'
    <3>1. t.op = "signIn" /\ t.guarded => t.pc # "insert" /\ flag'[t.user]
      BY <2>1 DEF F!Learnt, F!Brings, F!OwnerOps
    <3>2. t.op \in F!PendingOps /\ t.pc # "pending" =>
            t.user \in Users /\ given'[t.token] = t.user
      BY <2>1, <2>2, <2>4 DEF F!Learnt, F!Things
    <3>3. F!Passed(t) => given'[t.thing] = t.user
      BY <2>1, <2>2, <2>5 DEF F!Learnt, F!Passed
    <3>4. t.pc = "writeCodes" => \A c \in t.seen : given'[c] = t.user
      <4>1. \A c \in q.seen : c \in F!Things
        BY DEF F!Task, F!Things
      <4>2. q.pc = "writeCodes" => q.user \in Users
        BY <2>1 DEF F!Brings, F!Stops, F!Learnt, F!PendingOps, F!VerifyOps
      <4> QED  BY <2>1, <4>1, <4>2 DEF F!Learnt, FactorEvolves
    <3>5. t.op = "verifyOtp" /\ t.pc = "clear" => t.thing \notin rows'
      BY <2>1, <2>5 DEF F!Learnt, F!VerifyOps, FactorEvolves
    <3>6. F!Takes(t) => t.thing \notin rows' \cup used'
      <4>1. F!Takes(t) => q.thing \in F!Handed(F!Things) /\ q.thing \in Challenges
        BY <2>5 DEF F!Takes, F!Presents, F!Handed, F!ChallengeOps
      <4> QED  BY <2>1, <4>1 DEF F!Learnt, FactorEvolves, F!Takes
    <3>7. t.pc = "counter" => t.key \in Passkeys
      BY <2>1 DEF F!Learnt
    <3> QED  BY <3>1, <3>2, <3>3, <3>4, <3>5, <3>6, <3>7 DEF F!Learnt, F!Passed, F!Takes
  <2>8. F!Barred(t)'
    BY <2>1 DEF F!Barred, FactorEvolves
  <2> QED  BY <1>1, <2>6, <2>7, <2>8 DEF F!Carries
<1>2. CASE q.pc = "idle"
  BY <1>2 DEF F!Carries
<1> QED  BY <1>1, <1>2

LEMMA FactorStepKeeps ==
  ASSUME FactorConstants, F!FactorsInv, NEW r \in Requests, NEW t, FactorMoves(r, t),
         FactorEvolves(r), F!Carries(t)',
         \A s \in Requests \ {r} : F!Takes(t) /\ F!Takes(factorReqs[s]) =>
             factorReqs[s].thing # t.thing,
         F!SettingsFine', F!PasskeysFine', F!RowsFine', factorMenu' = factorMenu
  PROVE  F!FactorsInv'
<1>1. ASSUME NEW s \in Requests \ {r} PROVE F!Carries(factorReqs[s])'
  <2>1. PICK x \in F!Task : x = factorReqs'[s]
    BY DEF FactorMoves
  <2>2. factorReqs[s] \in F!Task /\ F!Carries(factorReqs[s]) /\ FactorAlike(factorReqs[s], x)
    BY <2>1 DEF F!FactorsInv, F!TasksFine, FactorMoves
  <2>3. F!Takes(factorReqs[s]) /\ F!Takes(factorReqs[r]) =>
            factorReqs[s].thing # factorReqs[r].thing
    BY DEF F!FactorsInv, F!TasksFine
  <2>4. F!Carries(x)'
    BY <2>2, <2>3, FactorCarriesStays DEF F!FactorsInv
  <2> QED  BY <2>1, <2>4
<1>2. \A s \in Requests : F!Carries(factorReqs[s])'
  BY <1>1 DEF FactorMoves
<1>3. \A s \in Requests \ {r} : /\ F!Takes(factorReqs'[s]) <=> F!Takes(factorReqs[s])
                                /\ factorReqs'[s].thing = factorReqs[s].thing
  BY DEF FactorMoves, FactorAlike, F!Takes
<1>4. ASSUME NEW s \in Requests, NEW z \in Requests, s # z, F!Takes(factorReqs'[s]),
             F!Takes(factorReqs'[z])
      PROVE  factorReqs'[s].thing # factorReqs'[z].thing
  <2>1. CASE s = r
    BY <1>3, <1>4, <2>1 DEF FactorMoves
  <2>2. CASE z = r
    BY <1>3, <1>4, <2>2 DEF FactorMoves
  <2>3. CASE s # r /\ z # r
    BY <1>3, <1>4, <2>3 DEF F!FactorsInv, F!TasksFine
  <2> QED  BY <2>1, <2>2, <2>3
<1>5. F!TasksFine'
  BY <1>2, <1>4 DEF F!TasksFine, FactorMoves, F!Takes
<1> QED  BY <1>5 DEF F!FactorsInv
\* What a task carries depends on these variables.
LEMMA CarriesSame ==
  ASSUME FactorConstants, NEW t, F!Carries(t), flag' = flag, given' = given, rows' = rows,
         used' = used,
         factorSpent' = factorSpent
  PROVE  F!Carries(t)'
<1>1. \A S : F!Handed(S)' = F!Handed(S)
  BY DEF F!Handed
<1>2. F!Brings(t) => F!Brings(t)'
  BY <1>1 DEF F!Brings
<1>3. F!Learnt(t) => F!Learnt(t)'
  BY DEF F!Learnt
<1>4. F!Barred(t) => F!Barred(t)'
  BY DEF F!Barred
<1> QED  BY <1>2, <1>3, <1>4 DEF F!Carries

LEMMA FinesSame ==
  ASSUME FactorConstants, F!FactorsInv, UNCHANGED <<F!factor, rows, passkeys, F!history>>
  PROVE  /\ F!SettingsFine' /\ F!PasskeysFine' /\ F!RowsFine' /\ factorMenu' = factorMenu
         /\ \A r : FactorEvolves(r)
<1>1. F!SettingsFine'
  BY DEF F!FactorsInv, F!SettingsFine, F!factor, F!history
<1>2. F!PasskeysFine'
  BY DEF F!FactorsInv, F!PasskeysFine, F!Live
<1>3. F!RowsFine'
  BY DEF F!FactorsInv, F!RowsFine, F!Handed, F!history
<1> QED  BY <1>1, <1>2, <1>3 DEF FactorEvolves, F!history

\* A step of r that changes nothing but the tasks.
LEMMA FactorQuietKeeps ==
  ASSUME FactorConstants, F!FactorsInv, NEW r \in Requests, NEW t \in F!Task, F!Become(r, t),
         F!Carries(t),
         F!Takes(t) => F!Takes(factorReqs[r]) /\ t.thing = factorReqs[r].thing,
         UNCHANGED <<F!factor, rows, passkeys, F!history>>
  PROVE  F!FactorsInv'
<1>1. FactorMoves(r, t)
  BY FactorBecomeFacts DEF F!FactorsInv, F!TasksFine, F!factor
<1>2. F!Carries(t)'
  BY CarriesSame DEF F!factor, F!history
<1>3. \A s \in Requests \ {r} : F!Takes(t) /\ F!Takes(factorReqs[s]) =>
          factorReqs[s].thing # t.thing
  BY DEF F!FactorsInv, F!TasksFine
<1> QED  BY <1>1, <1>2, <1>3, FinesSame, FactorStepKeeps

\* A step of r that ends its task.
LEMMA EndKeeps ==
  ASSUME FactorConstants, F!FactorsInv, NEW r \in Requests, NEW ok \in BOOLEAN, F!Become(r,
         F!Idle(ok)),
         flag' = flag, FactorEvolves(r), F!SettingsFine', F!PasskeysFine', F!RowsFine',
         factorMenu' = factorMenu
  PROVE  F!FactorsInv'
<1>1. PICK t \in F!Task : t = F!Idle(ok)
  BY FactorIdleFacts
<1>2. t.pc = "idle" /\ t.op = None /\ t.thing = None
  BY <1>1, FactorIdleFacts
<1>3. FactorMoves(r, t)
  BY <1>1, FactorBecomeFacts DEF F!FactorsInv, F!TasksFine
<1>4. F!Carries(t)'
  BY <1>2 DEF F!Carries
<1>5. ~F!Takes(t)
  BY <1>2 DEF F!Takes
<1> QED  BY <1>3, <1>4, <1>5, FactorStepKeeps

LEMMA FactorErrorKeeps ==
  ASSUME FactorConstants, F!FactorsInv, NEW r \in Requests, F!Error(r),
         UNCHANGED <<F!factor, rows, passkeys, F!history>>
  PROVE  F!FactorsInv'
BY EndKeeps, FinesSame DEF F!Error, F!factor
-----------------------------------------------------------------------------
(* A client begins an operation.                                            *)

\* Nothing but its operation, its place and its user is in the task yet.
Starts(t, op, pc, u) ==
  /\ t \in F!Task /\ t.pc = pc /\ t.op = op /\ t.user = u /\ t.token = None
  /\ t.thing = None /\ t.key = None /\ t.cred = None /\ t.seen = {} /\ ~t.guarded
  /\ ~t.late /\ ~t.ok

LEMMA NewFacts ==
  ASSUME FactorConstants, NEW op \in F!AllOps, NEW pc \in F!Pcs, NEW u \in Users \cup {None}
  PROVE  Starts(F!New(op, pc, u), op, pc, u)
<1>1. Starts(F!Idle(FALSE), None, "idle", None)
  BY DEF F!Idle, Starts, F!Task, F!Pcs
<1>2. PICK q : q = F!Idle(FALSE)
  OBVIOUS
<1>3. Starts([q EXCEPT !.op = op, !.pc = pc, !.user = u], op, pc, u)
  BY <1>1, <1>2 DEF Starts, F!Task
<1> QED  BY <1>2, <1>3 DEF F!New

LEMMA BeginKeeps ==
  ASSUME FactorConstants, F!FactorsInv, NEW r \in Requests, NEW t \in F!Task, F!Begin(r, t),
         F!Carries(t),
         t.pc \in {"consume"} \/ t.op \notin F!ChallengeOps
  PROVE  F!FactorsInv'
<1>1. ~F!Takes(t)
  BY DEF F!Takes
<1> QED  BY <1>1, FactorQuietKeeps DEF F!Begin

LEMMA FactorAskUserKeeps ==
  ASSUME FactorConstants, F!FactorsInv, NEW r \in Requests, F!AskUser(r)
  PROVE  F!FactorsInv'
<1>1. PICK op \in factorMenu \cap DOMAIN F!First :
        \E u \in Users : F!Begin(r, [F!New(op, F!First[op], u) EXCEPT !.guarded = flag[u]])
  BY DEF F!AskUser
<1>2. PICK u \in Users : F!Begin(r, [F!New(op, F!First[op], u) EXCEPT !.guarded = flag[u]])
  BY <1>1
<1>3. PICK n : n = F!New(op, F!First[op], u)
  OBVIOUS
<1>4. /\ op \in {"signIn", "enable", "disable", "regenerate"}
      /\ F!First[op] \in {"user", "create", "drop", "regen"}
  BY DEF F!First
<1>5. op \in F!Stops[F!First[op]]
  BY <1>4 DEF F!First, F!Stops
<1>6. Starts(n, op, F!First[op], u)
  BY <1>3, <1>4, NewFacts DEF F!Pcs, F!AllOps, F!FactorOps
<1>7. PICK t : t = [n EXCEPT !.guarded = flag[u]]
  OBVIOUS
<1>8. /\ t \in F!Task /\ t.pc = F!First[op] /\ t.op = op /\ t.user = u /\ t.token = None
      /\ t.thing = None /\ t.guarded = flag[u] /\ ~t.late /\ ~t.ok
  BY <1>6, <1>7 DEF Starts, F!Task, F!FactorsInv, F!SettingsFine
<1>9. F!Carries(t)
  <2>1. F!Brings(t)
    BY <1>4, <1>5, <1>8 DEF F!Brings, F!PendingOps, F!VerifyOps, F!ChallengeOps
  <2>2. F!Learnt(t)
    BY <1>4, <1>8 DEF F!Learnt, F!PendingOps, F!VerifyOps, F!ChallengeOps, F!Passed, F!Takes
  <2>3. F!Barred(t) /\ t.pc # "idle"
    BY <1>4, <1>8 DEF F!Barred
  <2> QED  BY <2>1, <2>2, <2>3 DEF F!Carries
<1>10. t.op \notin F!ChallengeOps
  BY <1>4, <1>8 DEF F!ChallengeOps
<1> QED  BY <1>2, <1>3, <1>7, <1>8, <1>9, <1>10, BeginKeeps
LEMMA AskVerifyKeeps ==
  ASSUME FactorConstants, F!FactorsInv, NEW r \in Requests, F!AskVerify(r)
  PROVE  F!FactorsInv'
<1> DEFINE Brought(op) == CASE op = "sendOtp" -> {None}
                            [] op = "verifyTotp" -> F!Handed(Secrets)
                            [] op = "verifyOtp" -> F!Handed(Otps)
                            [] op = "verifyBackup" -> F!Handed(Codes)
<1>1. PICK op \in F!PendingOps : \E p \in F!Handed(Pendings) : \E x \in Brought(op) :
        F!Begin(r, [F!New(op, "pending", None) EXCEPT !.token = p, !.thing = x,
                    !.late = p \in factorSpent \/ x \in factorSpent \cap Otps])
  BY Zenon DEF F!AskVerify, F!PendingOps
<1>2. PICK p \in F!Handed(Pendings) : \E x \in Brought(op) :
        F!Begin(r, [F!New(op, "pending", None) EXCEPT !.token = p, !.thing = x,
                    !.late = p \in factorSpent \/ x \in factorSpent \cap Otps])
  BY <1>1, Zenon
<1>3. PICK x \in Brought(op) :
        F!Begin(r, [F!New(op, "pending", None) EXCEPT !.token = p, !.thing = x,
                    !.late = p \in factorSpent \/ x \in factorSpent \cap Otps])
  BY <1>2, Zenon
<1>4. /\ op \in {"sendOtp", "verifyTotp", "verifyOtp", "verifyBackup"}
      /\ op = "sendOtp" => x = None
      /\ op # "sendOtp" => x \in F!Handed(F!Presents(op))
  <2>1. op \in {"sendOtp", "verifyTotp", "verifyOtp", "verifyBackup"}
    BY DEF F!PendingOps, F!VerifyOps
  <2>2. CASE op = "sendOtp"
    BY <2>2
  <2>3. CASE op = "verifyTotp"
    <3>1. F!Presents(op) = Secrets
      BY <2>3 DEF F!Presents, F!ChallengeOps
    <3>2. Brought(op) = F!Handed(Secrets)
      BY <2>3
    <3> QED  BY <2>3, <3>1, <3>2
  <2>4. CASE op = "verifyOtp"
    <3>1. F!Presents(op) = Otps
      BY <2>4 DEF F!Presents, F!ChallengeOps
    <3>2. Brought(op) = F!Handed(Otps)
      BY <2>4
    <3> QED  BY <2>4, <3>1, <3>2
  <2>5. CASE op = "verifyBackup"
    <3>1. F!Presents(op) = Codes
      BY <2>5 DEF F!Presents, F!ChallengeOps
    <3>2. Brought(op) = F!Handed(Codes)
      BY <2>5
    <3> QED  BY <2>5, <3>1, <3>2
  <2> QED  BY <2>1, <2>2, <2>3, <2>4, <2>5
<1> HIDE DEF Brought
<1>5. PICK n : n = F!New(op, "pending", None)
  OBVIOUS
<1>6. Starts(n, op, "pending", None)
  BY <1>4, <1>5, NewFacts DEF F!Pcs, F!AllOps, F!FactorOps, F!VerifyOps
<1>7. PICK late \in BOOLEAN : late = (p \in factorSpent \/ x \in factorSpent \cap Otps)
  OBVIOUS
<1>8. PICK t : t = [n EXCEPT !.token = p, !.thing = x, !.late = late]
  OBVIOUS
<1>9. p \in Pendings /\ x \in F!Things \cup {None}
  BY <1>4 DEF F!Handed, F!Presents, F!Things, F!ChallengeOps
<1>10. /\ t \in F!Task /\ t.pc = "pending" /\ t.op = op /\ t.token = p
       /\ t.thing = x /\ ~t.guarded /\ t.late = late /\ ~t.ok
  BY <1>6, <1>8, <1>9 DEF Starts, F!Task
<1>11. late => p \in factorSpent \/ (op = "verifyOtp" /\ x \in factorSpent)
  <2>1. x \in Otps => op = "verifyOtp"
    BY <1>4, KindsApart DEF F!Handed, F!Presents, F!Things
  <2> QED  BY <1>7, <2>1
<1>12. F!Carries(t)
  <2>1. F!Brings(t)
    BY <1>4, <1>10
       DEF F!Brings, F!PendingOps, F!VerifyOps, F!ChallengeOps, F!OwnerOps, F!Stops
  <2>2. F!Learnt(t)
    BY <1>4, <1>10 DEF F!Learnt, F!VerifyOps, F!ChallengeOps, F!Passed, F!Takes
  <2>3. F!Barred(t) /\ t.pc # "idle"
    BY <1>10, <1>11 DEF F!Barred
  <2> QED  BY <2>1, <2>2, <2>3 DEF F!Carries
<1>13. t.op \notin F!ChallengeOps
  BY <1>4, <1>10 DEF F!ChallengeOps
<1> QED  BY <1>3, <1>5, <1>7, <1>8, <1>10, <1>12, <1>13, BeginKeeps

\* A request that brings a challenge, with a session (u is its user) or without.
LEMMA ChallengedKeeps ==
  ASSUME FactorConstants, F!FactorsInv, NEW r \in Requests, NEW op \in F!ChallengeOps,
         NEW u \in Users \cup {None}, op = "register" => u \in Users,
         NEW x \in F!Handed(Challenges), NEW c \in Credentials,
         F!Begin(r, [F!New(op, "consume", u) EXCEPT !.thing = x, !.cred = c,
                     !.late = x \in factorSpent])
  PROVE  F!FactorsInv'
<1>1. PICK n : n = F!New(op, "consume", u)
  OBVIOUS
<1>2. Starts(n, op, "consume", u) /\ op \in {"register", "authenticate"}
  BY <1>1, NewFacts DEF F!Pcs, F!AllOps, F!PasskeyOps, F!ChallengeOps
<1>3. PICK late \in BOOLEAN : late = (x \in factorSpent)
  <2>1. (x \in factorSpent) \in BOOLEAN
    OBVIOUS
  <2> QED  BY <2>1, Zenon
<1>4. PICK t : t = [n EXCEPT !.thing = x, !.cred = c, !.late = late]
  OBVIOUS
<1>5. x \in F!Things
  BY DEF F!Handed, F!Things
<1>6. /\ t \in F!Task /\ t.pc = "consume" /\ t.op = op /\ t.user = u /\ t.token = None
      /\ t.thing = x /\ t.cred = c /\ t.late = late /\ ~t.ok
  BY <1>2, <1>4, <1>5 DEF Starts, F!Task
<1>7. F!Carries(t)
  <2>1. F!Brings(t)
    <3>1. F!Presents(op) = Challenges
      BY <1>2 DEF F!Presents, F!ChallengeOps
    <3> QED  BY <1>2, <1>6, <3>1
                DEF F!Brings, F!PendingOps, F!VerifyOps, F!ChallengeOps, F!OwnerOps, F!Stops
  <2>2. F!Learnt(t)
    BY <1>2, <1>6 DEF F!Learnt, F!PendingOps, F!VerifyOps, F!Passed, F!Takes
  <2>3. F!Barred(t) /\ t.pc # "idle"
    BY <1>3, <1>6 DEF F!Barred
  <2> QED  BY <2>1, <2>2, <2>3 DEF F!Carries
<1> QED  BY <1>1, <1>3, <1>4, <1>6, <1>7, BeginKeeps

LEMMA AskPasskeyKeeps ==
  ASSUME FactorConstants, F!FactorsInv, NEW r \in Requests, F!AskPasskey(r)
  PROVE  F!FactorsInv'
<1>1. ASSUME NEW op \in {"regOptions", "authOptions"}, NEW u \in Users \cup {None},
             op = "regOptions" => u \in Users, F!Begin(r, F!New(op, "draw", u))
      PROVE  F!FactorsInv'
  <2>1. PICK t : t = F!New(op, "draw", u)
    OBVIOUS
  <2>2. Starts(t, op, "draw", u)
    BY <2>1, NewFacts DEF F!Pcs, F!AllOps, F!PasskeyOps
  <2>3. F!Brings(t)
    BY <1>1, <2>2 DEF Starts, F!Brings, F!PendingOps, F!VerifyOps, F!ChallengeOps,
       F!OwnerOps, F!Stops
  <2>4. F!Learnt(t) /\ F!Barred(t)
    BY <2>2 DEF Starts, F!Learnt, F!PendingOps, F!VerifyOps, F!ChallengeOps, F!Passed,
       F!Takes, F!Barred
  <2>5. F!Carries(t) /\ t \in F!Task /\ t.op \notin F!ChallengeOps
    BY <2>2, <2>3, <2>4 DEF F!Carries, Starts, F!ChallengeOps
  <2> QED  BY <1>1, <2>1, <2>5, BeginKeeps
<1>2. ASSUME NEW u \in Users, NEW k \in Passkeys,
             F!Begin(r, [F!New("deleteKey", "owner", u) EXCEPT !.key = k])
      PROVE  F!FactorsInv'
  <2>1. PICK n : n = F!New("deleteKey", "owner", u)
    OBVIOUS
  <2>2. Starts(n, "deleteKey", "owner", u)
    BY <2>1, NewFacts DEF F!Pcs, F!AllOps, F!PasskeyOps
  <2>3. PICK t : t = [n EXCEPT !.key = k]
    OBVIOUS
  <2>4. /\ t \in F!Task /\ t.pc = "owner" /\ t.op = "deleteKey" /\ t.user = u
        /\ t.token = None /\ t.thing = None /\ t.key = k /\ ~t.late /\ ~t.ok
    BY <2>2, <2>3 DEF Starts, F!Task
  <2>5. F!Brings(t)
    BY <2>4 DEF F!Brings, F!PendingOps, F!VerifyOps, F!ChallengeOps, F!OwnerOps, F!Stops
  <2>6. F!Learnt(t) /\ F!Barred(t)
    BY <2>4 DEF F!Learnt, F!PendingOps, F!VerifyOps, F!ChallengeOps, F!Passed, F!Takes,
       F!Barred
  <2>7. F!Carries(t) /\ t.op \notin F!ChallengeOps
    BY <2>4, <2>5, <2>6 DEF F!Carries, F!ChallengeOps
  <2> QED  BY <1>2, <2>1, <2>3, <2>4, <2>7, BeginKeeps
<1>3. CASE \E u \in Users : F!Begin(r, F!New("regOptions", "draw", u))
  BY <1>1, <1>3
<1>4. CASE F!Begin(r, F!New("authOptions", "draw", None))
  BY <1>1, <1>4
<1>5. CASE \E u \in Users, x \in F!Handed(Challenges), c \in Credentials :
             F!Begin(r, [F!New("register", "consume", u) EXCEPT !.thing = x,
                         !.cred = c, !.late = x \in factorSpent])
  <2>1. "register" \in F!ChallengeOps /\ Users \subseteq Users \cup {None}
    BY DEF F!ChallengeOps
  <2> QED  BY <1>5, <2>1, ChallengedKeeps, Zenon
<1>6. CASE \E x \in F!Handed(Challenges), c \in Credentials :
             F!Begin(r, [F!New("authenticate", "consume", None) EXCEPT !.thing = x,
                         !.cred = c, !.late = x \in factorSpent])
  <2>1. "authenticate" \in F!ChallengeOps /\ "authenticate" # "register"
    BY DEF F!ChallengeOps
  <2>2. None \in Users \cup {None}
    OBVIOUS
  <2> QED  BY <1>6, <2>1, <2>2, ChallengedKeeps, Zenon
<1>7. CASE \E u \in Users, k \in Passkeys :
             F!Begin(r, [F!New("deleteKey", "owner", u) EXCEPT !.key = k])
  BY <1>2, <1>7
<1> QED  BY <1>3, <1>4, <1>5, <1>6, <1>7, Zenon DEF F!AskPasskey
-----------------------------------------------------------------------------
(* A task goes on.                                                          *)

LEMMA ReqFacts ==
  ASSUME FactorConstants, F!FactorsInv, NEW r \in Requests, factorReqs[r].pc # "idle"
  PROVE  /\ factorReqs[r] \in F!Task /\ F!Brings(factorReqs[r]) /\ F!Learnt(factorReqs[r])
         /\ F!Barred(factorReqs[r])
         /\ factorReqs[r].op \in F!Stops[factorReqs[r].pc] /\ ~factorReqs[r].ok
         /\ factorReqs[r].pc \notin {"pending", "otp", "consume"} => ~factorReqs[r].late
BY DEF F!FactorsInv, F!TasksFine, F!Carries, F!Brings, F!Barred

\* The task goes on to a place where its operation comes.
Goes(q, t) ==
  /\ q \in F!Task /\ t \in F!Task /\ FactorSame(q, t) /\ q.pc # "idle" /\ t.pc # "idle"
  /\ t.op \in F!Stops[t.pc]
  /\ t.user = q.user \/ t.user \in Users
  /\ t.key = q.key \/ t.key \in Passkeys

LEMMA FactorGoFacts ==
  ASSUME FactorConstants, NEW q \in F!Task, q.pc # "idle", NEW pc \in F!Pcs \ {"idle"},
         q.op \in F!Stops[pc]
  PROVE  LET t == [q EXCEPT !.pc = pc] IN
         /\ Goes(q, t)
         /\ t.user = q.user /\ t.pc = pc /\ t.op = q.op /\ t.key = q.key /\ t.seen = q.seen
<1>1. PICK t : t = [q EXCEPT !.pc = pc]
  OBVIOUS
<1>2. Goes(q, t) /\ t.user = q.user /\ t.pc = pc /\ t.op = q.op /\ t.key = q.key
      /\ t.seen = q.seen
  BY <1>1 DEF Goes, FactorSame, F!Task
<1> QED  BY <1>1, <1>2

LEMMA BringsStays ==
  ASSUME FactorConstants, NEW q, NEW t, Goes(q, t), F!Brings(q)
  PROVE  F!Brings(t)
BY DEF Goes, FactorSame, F!Brings

LEMMA GoesKeeps ==
  ASSUME FactorConstants, F!FactorsInv, NEW r \in Requests, NEW t, Goes(factorReqs[r], t),
         F!Become(r, t),
         F!Learnt(t), F!Barred(t), F!Takes(t) => F!Takes(factorReqs[r]),
         UNCHANGED <<F!factor, rows, passkeys, F!history>>
  PROVE  F!FactorsInv'
<1>1. F!Brings(t) /\ t \in F!Task /\ t.pc # "idle"
  BY BringsStays, ReqFacts DEF Goes
<1>2. F!Carries(t)
  BY <1>1 DEF F!Carries
<1>3. t.thing = factorReqs[r].thing
  BY DEF Goes, FactorSame
<1> QED  BY <1>1, <1>2, <1>3, FactorQuietKeeps

LEMMA ReadUserKeeps ==
  ASSUME FactorConstants, F!FactorsInv, NEW r \in Requests, F!ReadUser(r)
  PROVE  F!FactorsInv'
<1>1. PICK q : q = factorReqs[r]
  OBVIOUS
<1>2. PICK pc : pc = IF F!Asks(q.user) THEN "pend" ELSE "insert"
  OBVIOUS
<1>3. /\ q.pc = "user" /\ q.op = "signIn" /\ q \in F!Task /\ F!Learnt(q) /\ F!Brings(q)
      /\ ~q.late
  BY <1>1, ReqFacts DEF F!ReadUser, F!At, F!Stops
<1>4. PICK t : t = [q EXCEPT !.pc = pc]
  OBVIOUS
<1>5. /\ Goes(q, t) /\ t.user = q.user /\ t.pc = pc /\ t.op = "signIn"
      /\ pc \in {"pend", "insert"}
  BY <1>2, <1>3, <1>4, FactorGoFacts DEF F!Stops, F!Pcs
<1>6. t.guarded = q.guarded /\ ~t.late
  BY <1>3, <1>5 DEF Goes, FactorSame
<1>7. F!Learnt(t)
  <2>1. t.guarded => t.pc # "insert" /\ flag[t.user]
    BY <1>2, <1>3, <1>5, <1>6 DEF F!Learnt, F!Asks
  <2> QED  BY <1>5, <2>1 DEF F!Learnt, F!PendingOps, F!VerifyOps, F!ChallengeOps, F!Passed,
              F!Takes
<1>8. F!Barred(t) /\ ~F!Takes(t)
  BY <1>5, <1>6 DEF F!Barred, F!Takes, F!ChallengeOps
<1>9. F!Become(r, t) /\ UNCHANGED <<F!factor, rows, passkeys, F!history>>
  BY <1>1, <1>2, <1>4 DEF F!ReadUser, F!Go
<1> QED  BY <1>1, <1>5, <1>7, <1>8, <1>9, GoesKeeps

LEMMA ReadPendingKeeps ==
  ASSUME FactorConstants, F!FactorsInv, NEW r \in Requests, F!ReadPending(r)
  PROVE  F!FactorsInv'
<1>1. PICK q : q = factorReqs[r]
  OBVIOUS
<1>2. /\ q.pc = "pending" /\ q.op \in F!PendingOps /\ q \in F!Task /\ F!Brings(q)
      /\ F!Barred(q)
  BY <1>1, ReqFacts DEF F!ReadPending, F!At, F!Stops
<1>3. CASE q.token \in rows /\ ~F!Error(r)
  <2>1. PICK pc : pc = CASE q.op = "sendOtp" -> "mail"
                          [] q.op = "verifyOtp" -> "otp"
                          [] OTHER -> "record"
    OBVIOUS
  <2>2. /\ pc \in {"mail", "otp", "record"} /\ q.op \in F!Stops[pc]
        /\ pc = "otp" <=> q.op = "verifyOtp"
    BY <1>2, <2>1 DEF F!Stops, F!PendingOps, F!VerifyOps
  <2>3. PICK t : t = [q EXCEPT !.user = given[q.token], !.pc = pc]
    OBVIOUS
  <2>4. q.token \in F!Handed(Pendings) /\ q.token \in F!Things
    BY <1>2 DEF F!Brings, F!Handed, F!Things
  <2>5. given[q.token] \in Users
    BY <2>4 DEF F!FactorsInv, F!RowsFine
  <2>6. /\ Goes(q, t) /\ t.pc = pc /\ t.user = given[q.token] /\ t.token = q.token
        /\ t.op = q.op /\ t.thing = q.thing /\ t.late = q.late
    BY <1>2, <2>2, <2>3, <2>5 DEF Goes, FactorSame, F!Task, F!Pcs
  <2>7. q.op \notin F!ChallengeOps /\ q.op # "signIn"
    BY <1>2 DEF F!PendingOps, F!VerifyOps, F!ChallengeOps
  <2>8. F!Learnt(t)
    BY <2>2, <2>5, <2>6, <2>7 DEF F!Learnt, F!Passed, F!Takes
  <2>9. F!Barred(t)
    BY <1>2, <1>3, <2>2, <2>6 DEF F!Barred, F!FactorsInv, F!RowsFine
  <2>10. F!Become(r, t) /\ UNCHANGED <<F!factor, rows, passkeys, F!history>>
    BY <1>1, <1>3, <2>1, <2>3 DEF F!ReadPending
  <2> QED  BY <1>1, <2>6, <2>7, <2>8, <2>9, <2>10, GoesKeeps DEF F!Takes
<1>4. CASE F!Error(r)
  BY <1>4, FactorErrorKeeps DEF F!ReadPending
<1> QED  BY <1>1, <1>3, <1>4 DEF F!ReadPending
LEMMA ReadRecordKeeps ==
  ASSUME FactorConstants, F!FactorsInv, NEW r \in Requests, F!ReadRecord(r)
  PROVE  F!FactorsInv'
<1>1. PICK q : q = factorReqs[r]
  OBVIOUS
<1>2. /\ q.pc = "record" /\ q.op \in {"verifyTotp", "verifyBackup"} /\ q \in F!Task
      /\ F!Learnt(q) /\ F!Brings(q) /\ ~q.late /\ q.user \in Users
  BY <1>1, ReqFacts DEF F!ReadRecord, F!At, F!Stops, F!Learnt, F!PendingOps, F!VerifyOps
<1>3. UNCHANGED <<F!factor, rows, passkeys, F!history>>
  BY DEF F!ReadRecord
<1>4. CASE /\ q.op = "verifyTotp" /\ secret[q.user] # None /\ q.thing = secret[q.user]
           /\ F!Go(r, "insert")
  <2>1. PICK t : t = [q EXCEPT !.pc = "insert"]
    OBVIOUS
  <2>2. /\ Goes(q, t) /\ t.user = q.user /\ t.pc = "insert" /\ t.op = q.op
    BY <1>2, <2>1, FactorGoFacts DEF F!Stops, F!Pcs, F!VerifyOps
  <2>3. t.thing = q.thing /\ t.token = q.token /\ ~t.late
    BY <1>2, <2>2 DEF Goes, FactorSame
  <2>4. given[q.thing] = q.user
    BY <1>2, <1>4 DEF F!FactorsInv, F!SettingsFine
  <2>5. F!Learnt(t)
    BY <1>2, <1>4, <2>2, <2>3, <2>4 DEF F!Learnt, F!PendingOps, F!VerifyOps, F!ChallengeOps,
       F!Takes
  <2>6. F!Barred(t) /\ ~F!Takes(t)
    BY <1>4, <2>2, <2>3 DEF F!Barred, F!Takes, F!ChallengeOps
  <2>7. F!Become(r, t)
    BY <1>1, <1>4, <2>1 DEF F!Go
  <2> QED  BY <1>1, <1>3, <2>2, <2>5, <2>6, <2>7, GoesKeeps
<1>5. CASE /\ q.op # "verifyTotp" /\ secret[q.user] # None /\ q.thing \in codes[q.user]
           /\ F!Become(r, [q EXCEPT !.pc = "writeCodes", !.seen = codes[q.user]])
  <2>1. PICK t : t = [q EXCEPT !.pc = "writeCodes", !.seen = codes[q.user]]
    OBVIOUS
  <2>2. /\ codes[q.user] \subseteq Codes /\ \A c \in codes[q.user] : given[c] = q.user
    BY <1>2 DEF F!FactorsInv, F!SettingsFine
  <2>3. q.op = "verifyBackup"
    BY <1>2, <1>5
  <2>4. /\ Goes(q, t) /\ t.user = q.user /\ t.pc = "writeCodes" /\ t.op = "verifyBackup"
        /\ t.seen = codes[q.user] /\ t.thing = q.thing /\ t.token = q.token /\ ~t.late
    BY <1>2, <2>1, <2>2, <2>3 DEF Goes, FactorSame, F!Task, F!Stops, F!Pcs
  <2>5. F!Learnt(t)
    BY <1>2, <1>5, <2>2, <2>3, <2>4
       DEF F!Learnt, F!PendingOps, F!VerifyOps, F!ChallengeOps, F!Takes
  <2>6. F!Barred(t) /\ ~F!Takes(t)
    BY <2>4 DEF F!Barred, F!Takes, F!ChallengeOps
  <2> QED  BY <1>1, <1>3, <1>5, <2>1, <2>4, <2>5, <2>6, GoesKeeps
<1>6. CASE F!Error(r)
  BY <1>3, <1>6, FactorErrorKeeps
<1> QED  BY <1>1, <1>4, <1>5, <1>6 DEF F!ReadRecord

LEMMA ReadOtpKeeps ==
  ASSUME FactorConstants, F!FactorsInv, NEW r \in Requests, F!ReadOtp(r)
  PROVE  F!FactorsInv'
<1>1. PICK q : q = factorReqs[r]
  OBVIOUS
<1>2. /\ q.pc = "otp" /\ q.op = "verifyOtp" /\ q \in F!Task /\ F!Learnt(q) /\ F!Brings(q)
      /\ F!Barred(q)
  BY <1>1, ReqFacts DEF F!ReadOtp, F!At, F!Stops
<1>3. UNCHANGED <<F!factor, rows, passkeys, F!history>>
  BY DEF F!ReadOtp
<1>4. CASE q.thing \in F!OtpsOf(q.user) /\ F!Go(r, "insert")
  <2>1. PICK t : t = [q EXCEPT !.pc = "insert"]
    OBVIOUS
  <2>2. /\ Goes(q, t) /\ t.user = q.user /\ t.pc = "insert" /\ t.op = "verifyOtp"
    BY <1>2, <2>1, FactorGoFacts DEF F!Stops, F!Pcs, F!VerifyOps
  <2>3. t.thing = q.thing /\ t.token = q.token /\ t.late = q.late
    BY <2>2 DEF Goes, FactorSame
  <2>4. q.thing \in rows /\ given[q.thing] = q.user
    BY <1>4 DEF F!OtpsOf
  <2>5. ~q.late
    BY <1>2, <2>4 DEF F!Barred, F!FactorsInv, F!RowsFine
  <2>6. F!Learnt(t)
    BY <1>2, <2>2, <2>3, <2>4 DEF F!Learnt, F!PendingOps, F!VerifyOps, F!ChallengeOps, F!Takes
  <2>7. F!Barred(t) /\ ~F!Takes(t)
    BY <2>2, <2>3, <2>5 DEF F!Barred, F!Takes, F!ChallengeOps
  <2>8. F!Become(r, t)
    BY <1>1, <1>4, <2>1 DEF F!Go
  <2> QED  BY <1>1, <1>3, <2>2, <2>6, <2>7, <2>8, GoesKeeps
<1>5. CASE F!Error(r)
  BY <1>3, <1>5, FactorErrorKeeps
<1> QED  BY <1>1, <1>4, <1>5 DEF F!ReadOtp

LEMMA FindKeyKeeps ==
  ASSUME FactorConstants, F!FactorsInv, NEW r \in Requests, F!FindKey(r)
  PROVE  F!FactorsInv'
<1>1. PICK q : q = factorReqs[r]
  OBVIOUS
<1>2. /\ q.pc = "findKey" /\ q.op = "authenticate" /\ q \in F!Task /\ F!Learnt(q)
      /\ F!Brings(q) /\ ~q.late
  <2>1. q.pc = "findKey"
    BY <1>1, Zenon DEF F!FindKey, F!At
  <2> QED  BY <1>1, <2>1, ReqFacts DEF F!Stops
<1>3. UNCHANGED <<F!factor, rows, passkeys, F!history>>
  BY Zenon DEF F!FindKey
<1>4. ASSUME NEW k \in F!KeyOf(q.cred),
             F!Become(r, [q EXCEPT !.pc = "counter", !.key = k, !.user = passkeys[k].user])
      PROVE  F!FactorsInv'
  <2>1. PICK u : u = passkeys[k].user
    OBVIOUS
  <2>2. k \in Passkeys /\ u \in Users
    BY <2>1 DEF F!KeyOf, F!FactorsInv, F!PasskeysFine
  <2>3. PICK t : t = [q EXCEPT !.pc = "counter", !.key = k, !.user = u]
    OBVIOUS
  <2>4. /\ Goes(q, t) /\ t.pc = "counter" /\ t.key = k /\ t.op = "authenticate"
        /\ t.thing = q.thing /\ ~t.late
    BY <1>2, <2>2, <2>3 DEF Goes, FactorSame, F!Task, F!Stops, F!Pcs
  <2>5. F!Learnt(t)
    BY <1>2, <2>2, <2>4
       DEF F!Learnt, F!PendingOps, F!VerifyOps, F!ChallengeOps, F!Passed, F!Takes
  <2>6. F!Barred(t) /\ F!Takes(q)
    BY <1>2, <2>4 DEF F!Barred, F!Takes, F!ChallengeOps
  <2> QED  BY <1>1, <1>3, <1>4, <2>1, <2>3, <2>4, <2>5, <2>6, GoesKeeps
<1>5. CASE F!Error(r)
  BY <1>3, <1>5, FactorErrorKeeps
<1> QED  BY <1>1, <1>4, <1>5, Zenon DEF F!FindKey

LEMMA CounterKeeps ==
  ASSUME FactorConstants, F!FactorsInv, NEW r \in Requests, F!Counter(r)
  PROVE  F!FactorsInv'
<1>1. PICK q : q = factorReqs[r]
  OBVIOUS
<1>2. /\ q.pc = "counter" /\ q.op = "authenticate" /\ q \in F!Task /\ F!Learnt(q)
      /\ F!Brings(q) /\ ~q.late
  BY <1>1, ReqFacts DEF F!Counter, F!At, F!Stops
<1>3. UNCHANGED <<F!factor, rows, passkeys, F!history>>
  BY DEF F!Counter
<1>4. CASE F!Go(r, "insert")
  <2>1. PICK t : t = [q EXCEPT !.pc = "insert"]
    OBVIOUS
  <2>2. /\ Goes(q, t) /\ t.pc = "insert" /\ t.op = "authenticate"
    BY <1>2, <2>1, FactorGoFacts DEF F!Stops, F!Pcs
  <2>3. t.thing = q.thing /\ ~t.late
    BY <1>2, <2>2 DEF Goes, FactorSame
  <2>4. F!Learnt(t)
    BY <1>2, <2>2, <2>3 DEF F!Learnt, F!PendingOps, F!VerifyOps, F!ChallengeOps, F!Passed,
       F!Takes
  <2>5. F!Barred(t) /\ F!Takes(q)
    BY <1>2, <2>3 DEF F!Barred, F!Takes, F!ChallengeOps
  <2>6. F!Become(r, t)
    BY <1>1, <1>4, <2>1 DEF F!Go
  <2> QED  BY <1>1, <1>3, <2>2, <2>4, <2>5, <2>6, GoesKeeps
<1>5. CASE F!Error(r)
  BY <1>3, <1>5, FactorErrorKeeps
<1> QED  BY <1>4, <1>5 DEF F!Counter

LEMMA CheckOwnerKeeps ==
  ASSUME FactorConstants, F!FactorsInv, NEW r \in Requests, F!CheckOwner(r)
  PROVE  F!FactorsInv'
<1>1. PICK q : q = factorReqs[r]
  OBVIOUS
<1>2. q.pc = "owner" /\ q.op = "deleteKey" /\ q \in F!Task /\ F!Brings(q) /\ ~q.late
  BY <1>1, ReqFacts DEF F!CheckOwner, F!At, F!Stops
<1>3. UNCHANGED <<F!factor, rows, passkeys, F!history>>
  BY DEF F!CheckOwner
<1>4. CASE F!Go(r, "dropKey")
  <2>1. PICK t : t = [q EXCEPT !.pc = "dropKey"]
    OBVIOUS
  <2>2. /\ Goes(q, t) /\ t.pc = "dropKey" /\ t.op = "deleteKey"
    BY <1>2, <2>1, FactorGoFacts DEF F!Stops, F!Pcs
  <2>3. ~t.late
    BY <1>2, <2>2 DEF Goes, FactorSame
  <2>4. F!Learnt(t) /\ F!Barred(t) /\ ~F!Takes(t)
    BY <2>2, <2>3
       DEF F!Learnt, F!PendingOps, F!VerifyOps, F!ChallengeOps, F!Passed, F!Takes, F!Barred
  <2>5. F!Become(r, t)
    BY <1>1, <1>4, <2>1 DEF F!Go
  <2> QED  BY <1>1, <1>3, <2>2, <2>4, <2>5, GoesKeeps
<1>5. CASE F!Error(r)
  BY <1>3, <1>5, FactorErrorKeeps
<1> QED  BY <1>4, <1>5 DEF F!CheckOwner

LEMMA FactorFailKeeps ==
  ASSUME FactorConstants, F!FactorsInv, NEW r \in Requests, F!Fail(r)
  PROVE  F!FactorsInv'
BY FactorErrorKeeps DEF F!Fail
-----------------------------------------------------------------------------
(* A row is written, or goes.                                               *)

LEMMA SettingsStay ==
  ASSUME FactorConstants, F!SettingsFine, UNCHANGED F!factor,
         \A x \in F!Things : given[x] # None => given'[x] = given[x]
  PROVE  F!SettingsFine'
<1>1. UNCHANGED flag /\ UNCHANGED secret /\ UNCHANGED codes
  BY DEF F!factor
<1>2. ASSUME NEW u \in Users, secret[u] # None PROVE given'[secret[u]] = u
  <2>1. secret[u] \in F!Things /\ given[secret[u]] = u /\ u # None
    BY <1>2 DEF F!SettingsFine, F!Things
  <2> QED  BY <2>1
<1>3. ASSUME NEW u \in Users, NEW c \in codes[u] PROVE given'[c] = u
  <2>1. c \in F!Things /\ given[c] = u /\ u # None
    BY DEF F!SettingsFine, F!Things
  <2> QED  BY <2>1
<1> QED  BY <1>1, <1>2, <1>3 DEF F!SettingsFine

LEMMA PasskeysStay ==
  ASSUME FactorConstants, F!PasskeysFine, passkeys' = passkeys
  PROVE  F!PasskeysFine'
BY DEF F!PasskeysFine, F!Live

\* A new thing, of a kind that is kept in the table, is handed out.
LEMMA RowAdded ==
  ASSUME FactorConstants, F!FactorsInv, NEW S \in {Pendings, Otps, Challenges},
         NEW x \in F!Fresh(S),
         NEW u \in Users \cup {F!Anyone}, S = Pendings => u \in Users,
         rows' = rows \cup {x}, F!Hand({x}, u),
         UNCHANGED <<F!factor, passkeys, factorMenu, used, factorSpent>>
  PROVE  /\ F!SettingsFine' /\ F!PasskeysFine' /\ F!RowsFine' /\ factorMenu' = factorMenu
         /\ \A r : FactorEvolves(r)
<1>1. x \in S /\ x \in F!Things /\ given[x] = None
  BY FreshFacts DEF F!Things
<1>2. /\ given' \in [F!Things -> Users \cup {None, F!Anyone}]
      /\ \A y \in F!Things : given'[y] = IF y = x THEN u ELSE given[y]
      /\ \A y \in F!Things : given[y] # None => given'[y] = given[y]
      /\ given'[x] = u /\ u # None
      /\ F!Handed(F!Things) \subseteq F!Handed(F!Things)'
  <2>1. {x} \in SUBSET F!Things /\ \A y \in {x} : given[y] = None
    BY <1>1
  <2>2. /\ given' \in [F!Things -> Users \cup {None, F!Anyone}]
        /\ \A y \in F!Things : given'[y] = IF y \in {x} THEN u ELSE given[y]
        /\ \A y \in F!Things : given[y] # None => given'[y] = given[y]
        /\ \A y \in {x} : given'[y] = u /\ u # None
        /\ F!Handed(F!Things) \subseteq F!Handed(F!Things)'
    BY <2>1, HandFacts DEF F!FactorsInv
  <2> QED  BY <2>2
<1>3. F!SettingsFine' /\ F!PasskeysFine'
  BY <1>2, SettingsStay, PasskeysStay DEF F!FactorsInv
<1>4. x \notin F!Handed(F!Things) /\ x \notin used /\ x \notin factorSpent
  BY <1>1 DEF F!FactorsInv, F!RowsFine, F!Handed
<1>5. F!RowsFine'
  <2>1. rows' \subseteq F!Handed(Pendings \cup Otps \cup Challenges)'
    <3>1. x \in Pendings \cup Otps \cup Challenges
      BY <1>1
    <3>2. \A y \in rows : y \in Pendings \cup Otps \cup Challenges /\ y \in F!Things
                          /\ given[y] # None
      BY DEF F!FactorsInv, F!RowsFine, F!Handed, F!Things
    <3> QED  BY <1>2, <3>1, <3>2 DEF F!Handed
  <2>2. \A y \in F!Handed(Pendings)' : given'[y] \in Users
    <3>1. \A y \in Pendings : given[y] # None => given[y] \in Users
      BY DEF F!FactorsInv, F!RowsFine, F!Handed
    <3>2. x \in Pendings => S = Pendings
      BY <1>1, KindsApart
    <3> QED  BY <1>2, <3>1, <3>2 DEF F!Handed, F!Things
  <2>3. used' \cup factorSpent' \subseteq F!Handed(F!Things)'
    BY <1>2 DEF F!FactorsInv, F!RowsFine
  <2>4. rows' \cap factorSpent' = {} /\ rows' \cap used' \cap Challenges = {}
    BY <1>4 DEF F!FactorsInv, F!RowsFine
  <2> QED  BY <1>2, <2>1, <2>2, <2>3, <2>4 DEF F!RowsFine
<1>6. \A r : FactorEvolves(r)
  BY <1>2, <1>4 DEF FactorEvolves
<1> QED  BY <1>3, <1>5, <1>6

\* Nothing is handed out, and no row is written.
LEMMA RowsShrink ==
  ASSUME FactorConstants, F!FactorsInv, rows' \subseteq rows, given' = given, used' = used,
         factorSpent' = factorSpent
  PROVE  F!RowsFine' /\ \A r : FactorEvolves(r)
BY DEF F!FactorsInv, F!RowsFine, F!Handed, FactorEvolves

LEMMA PendKeeps ==
  ASSUME FactorConstants, F!FactorsInv, NEW r \in Requests, F!Pend(r)
  PROVE  F!FactorsInv'
<1>1. PICK p \in F!Fresh(Pendings) : rows' = rows \cup {p} /\ F!Hand({p}, factorReqs[r].user)
  BY DEF F!Pend
<1>2. factorReqs[r].pc = "pend"
  BY DEF F!Pend, F!At
<1>3. factorReqs[r].user \in Users
  BY <1>2, ReqFacts DEF F!Stops, F!Brings, F!OwnerOps
<1>4. F!Become(r, F!Idle(TRUE)) /\ UNCHANGED <<F!factor, passkeys, factorMenu, used,
      factorSpent>>
  BY DEF F!Pend, F!Done
<1>5. F!SettingsFine' /\ F!PasskeysFine' /\ F!RowsFine' /\ factorMenu' = factorMenu
      /\ FactorEvolves(r)
  BY <1>1, <1>3, <1>4, RowAdded
<1> QED  BY <1>4, <1>5, EndKeeps DEF F!factor

LEMMA SendOtpKeeps ==
  ASSUME FactorConstants, F!FactorsInv, NEW r \in Requests, F!SendOtp(r)
  PROVE  F!FactorsInv'
<1>1. PICK o \in F!Fresh(Otps) : rows' = rows \cup {o} /\ F!Hand({o}, factorReqs[r].user)
  BY DEF F!SendOtp
<1>2. factorReqs[r].pc = "mail"
  BY DEF F!SendOtp, F!At
<1>3. factorReqs[r].user \in Users
  BY <1>2, ReqFacts DEF F!Stops, F!Learnt, F!PendingOps
<1>4. F!Become(r, F!Idle(TRUE)) /\ UNCHANGED <<F!factor, passkeys, factorMenu, used,
      factorSpent>>
  BY DEF F!SendOtp, F!Done
<1>5. F!SettingsFine' /\ F!PasskeysFine' /\ F!RowsFine' /\ factorMenu' = factorMenu
      /\ FactorEvolves(r)
  BY <1>1, <1>3, <1>4, RowAdded
<1> QED  BY <1>4, <1>5, EndKeeps DEF F!factor

LEMMA DrawKeeps ==
  ASSUME FactorConstants, F!FactorsInv, NEW r \in Requests, F!Draw(r)
  PROVE  F!FactorsInv'
<1>1. PICK u : u = IF factorReqs[r].op = "regOptions" THEN factorReqs[r].user ELSE F!Anyone
  OBVIOUS
<1>2. PICK x \in F!Fresh(Challenges) : rows' = rows \cup {x} /\ F!Hand({x}, u)
  BY <1>1 DEF F!Draw
<1>3. factorReqs[r].pc = "draw"
  BY DEF F!Draw, F!At
<1>4. u \in Users \cup {F!Anyone}
  BY <1>1, <1>3, ReqFacts DEF F!Brings, F!OwnerOps
<1>5. F!Become(r, F!Idle(TRUE)) /\ UNCHANGED <<F!factor, passkeys, factorMenu, used,
      factorSpent>>
  BY DEF F!Draw, F!Done
<1>6. Challenges = Pendings => u \in Users
  BY <1>2, FreshFacts, KindsApart
<1>7. F!SettingsFine' /\ F!PasskeysFine' /\ F!RowsFine' /\ factorMenu' = factorMenu
      /\ FactorEvolves(r)
  BY <1>2, <1>4, <1>5, <1>6, RowAdded
<1> QED  BY <1>5, <1>7, EndKeeps DEF F!factor
\* A step of r that changes tables, after which its task goes on.
LEMMA ChangeKeeps ==
  ASSUME FactorConstants, F!FactorsInv, NEW r \in Requests, NEW t, Goes(factorReqs[r], t),
         F!Become(r, t),
         flag' = flag, FactorEvolves(r), F!SettingsFine', F!PasskeysFine', F!RowsFine',
         factorMenu' = factorMenu,
         F!Learnt(t)', F!Barred(t)',
         \A s \in Requests \ {r} : F!Takes(t) /\ F!Takes(factorReqs[s]) =>
             factorReqs[s].thing # t.thing
  PROVE  F!FactorsInv'
<1>1. F!Brings(t) /\ t \in F!Task /\ t.pc # "idle"
  BY BringsStays, ReqFacts DEF Goes
<1>2. F!Carries(t)'
  BY <1>1, BringsGrows DEF F!Carries
<1>3. FactorMoves(r, t)
  BY <1>1, FactorBecomeFacts DEF F!FactorsInv, F!TasksFine
<1> QED  BY <1>2, <1>3, FactorStepKeeps

LEMMA ClearOtpKeeps ==
  ASSUME FactorConstants, F!FactorsInv, NEW r \in Requests, F!ClearOtp(r)
  PROVE  F!FactorsInv'
<1>1. PICK q : q = factorReqs[r]
  OBVIOUS
<1>2. PICK t : t = [q EXCEPT !.pc = "clear"]
  OBVIOUS
<1>3. /\ q.pc = "clearOtp" /\ q.op = "verifyOtp" /\ q \in F!Task /\ F!Learnt(q) /\ ~q.late
  BY <1>1, ReqFacts DEF F!ClearOtp, F!At, F!Stops
<1>4. /\ Goes(q, t) /\ t.user = q.user /\ t.pc = "clear" /\ t.op = "verifyOtp"
  BY <1>2, <1>3, FactorGoFacts DEF F!Stops, F!Pcs, F!VerifyOps
<1>5. t.thing = q.thing /\ t.token = q.token /\ ~t.late
  BY <1>3, <1>4 DEF Goes, FactorSame
<1>6. /\ rows' = rows \ {q.thing} /\ F!Become(r, t)
      /\ UNCHANGED <<F!factor, passkeys, F!history>>
  BY <1>1, <1>2 DEF F!ClearOtp, F!Go
<1>7. F!Learnt(t)'
  BY <1>3, <1>4, <1>5, <1>6
     DEF F!Learnt, F!PendingOps, F!VerifyOps, F!ChallengeOps, F!Passed, F!Takes, F!history
<1>8. F!Barred(t)' /\ ~F!Takes(t)
  BY <1>4, <1>5 DEF F!Barred, F!Takes, F!ChallengeOps
<1>9. F!RowsFine' /\ FactorEvolves(r)
  BY <1>6, RowsShrink DEF F!history
<1>10. F!SettingsFine' /\ F!PasskeysFine' /\ flag' = flag /\ factorMenu' = factorMenu
  BY <1>6, SettingsStay, PasskeysStay DEF F!FactorsInv, F!history, F!factor
<1> QED  BY <1>1, <1>4, <1>6, <1>7, <1>8, <1>9, <1>10, ChangeKeeps

\* What a task that verifies presents is of these kinds.
LEMMA PresentedFacts ==
  ASSUME FactorConstants, NEW q, F!Brings(q), q.pc # "idle"
  PROVE  /\ F!Presented(q) \subseteq F!Handed(F!Things)
         /\ q.op \in F!VerifyOps =>
              /\ F!Presented(q) \cap Challenges = {}
              /\ q.token \in Pendings
              /\ q.thing \in Secrets \cup Otps \cup Codes
              /\ q.op # "verifyOtp" => q.thing \in Secrets \cup Codes
         /\ q.op \in F!ChallengeOps =>
              F!Presented(q) \subseteq {q.thing} /\ q.thing \in Challenges
         /\ q.op \notin F!PendingOps \cup F!ChallengeOps => F!Presented(q) = {}
<1>1. q.op \in F!PendingOps => q.token \in F!Handed(F!Things) /\ q.token \in Pendings
  BY DEF F!Brings, F!Handed, F!Things
<1>2. q.op \notin F!PendingOps => q.token = None
  BY DEF F!Brings
<1>3. q.op \in F!VerifyOps \cup F!ChallengeOps =>
        q.thing \in F!Handed(F!Things) /\ q.thing \in F!Presents(q.op)
  BY DEF F!Brings, F!Handed, F!Things, F!Presents
<1>4. q.op \notin F!VerifyOps \cup F!ChallengeOps => q.thing = None
  BY DEF F!Brings
<1>5. q.op \in F!VerifyOps =>
        /\ q.thing \in Secrets \cup Otps \cup Codes
        /\ q.op # "verifyOtp" => q.thing \in Secrets \cup Codes
  BY <1>3 DEF F!Presents, F!VerifyOps, F!ChallengeOps
<1>6. q.op \in F!ChallengeOps => q.thing \in Challenges /\ q.op \notin F!PendingOps
  BY <1>3 DEF F!Presents, F!ChallengeOps, F!PendingOps, F!VerifyOps
<1>7. F!Presented(q) \subseteq F!Handed(F!Things)
  BY <1>1, <1>2, <1>3, <1>4 DEF F!Presented
<1>8. q.op \in F!VerifyOps => q.token \in Pendings /\ F!Presented(q) \cap Challenges = {}
  BY <1>1, <1>5, KindsApart DEF F!Presented, F!PendingOps
<1>9. q.op \in F!ChallengeOps => F!Presented(q) \subseteq {q.thing}
  BY <1>2, <1>6 DEF F!Presented
<1>10. q.op \notin F!PendingOps \cup F!ChallengeOps => F!Presented(q) = {}
  BY <1>2, <1>4 DEF F!Presented, F!PendingOps
<1> QED  BY <1>5, <1>6, <1>7, <1>8, <1>9, <1>10

LEMMA ClearKeeps ==
  ASSUME FactorConstants, F!FactorsInv, NEW r \in Requests, F!Clear(r)
  PROVE  F!FactorsInv'
<1>1. PICK q : q = factorReqs[r]
  OBVIOUS
<1>2. /\ q.pc = "clear" /\ q.op \in F!VerifyOps /\ q \in F!Task /\ F!Learnt(q) /\ F!Brings(q)
  BY <1>1, ReqFacts DEF F!Clear, F!At, F!Stops
<1>3. /\ rows' = rows \ {q.token} /\ F!Become(r, F!Idle(TRUE))
      /\ factorSpent' = factorSpent \cup F!Presented(q)
      /\ UNCHANGED <<F!factor, passkeys, factorMenu, given, used>>
  BY <1>1 DEF F!Clear, F!Cleared, F!Done
<1>4. q.thing \notin rows
  <2>1. CASE q.op = "verifyOtp"
    BY <1>2, <2>1 DEF F!Learnt
  <2>2. CASE q.op # "verifyOtp"
    <3>1. q.thing \in Secrets \cup Codes
      BY <1>2, <2>2, PresentedFacts
    <3> QED  BY <3>1, KindsApart DEF F!FactorsInv, F!RowsFine, F!Handed
  <2> QED  BY <2>1, <2>2
<1>5. F!Presented(q) \subseteq F!Handed(F!Things) /\ F!Presented(q) \subseteq {q.token,
      q.thing}
  BY <1>2, PresentedFacts DEF F!Presented
<1>6. rows' \cap factorSpent' = {}
  BY <1>3, <1>4, <1>5 DEF F!FactorsInv, F!RowsFine
<1>7. F!RowsFine'
  BY <1>3, <1>5, <1>6 DEF F!FactorsInv, F!RowsFine, F!Handed
<1>8. FactorEvolves(r)
  BY <1>3 DEF FactorEvolves
<1>9. F!SettingsFine' /\ F!PasskeysFine' /\ flag' = flag
  BY <1>3, SettingsStay, PasskeysStay DEF F!FactorsInv, F!factor
<1> QED  BY <1>3, <1>7, <1>8, <1>9, EndKeeps
LEMMA InsertRows ==
  ASSUME FactorConstants, F!FactorsInv, NEW r \in Requests, F!Insert(r)
  PROVE  /\ F!SettingsFine' /\ F!PasskeysFine' /\ F!RowsFine' /\ flag' = flag
         /\ factorMenu' = factorMenu /\ FactorEvolves(r)
<1>1. PICK q : q = factorReqs[r]
  OBVIOUS
<1>2. q.pc = "insert" /\ used' = used \cup F!Presented(q)
  BY <1>1 DEF F!Insert, F!At
<1>3. /\ q.op \in F!VerifyOps \cup {"signIn", "authenticate"} /\ F!Learnt(q) /\ F!Brings(q)
  BY <1>1, <1>2, ReqFacts DEF F!Stops
<1>4. UNCHANGED <<F!factor, rows, passkeys, factorMenu, given>>
  BY DEF F!Insert
<1>5. factorSpent' = IF q.op \in F!VerifyOps THEN factorSpent
          ELSE factorSpent \cup F!Presented(q)
  BY <1>1 DEF F!Insert
<1>6. q.op \in F!ChallengeOps <=> q.op = "authenticate"
  BY <1>3 DEF F!VerifyOps, F!ChallengeOps
<1>7. q.op = "authenticate" => F!Takes(q) /\ F!Presented(q) \subseteq {q.thing}
                            /\ q.thing \notin rows
  BY <1>2, <1>3, <1>6, PresentedFacts DEF F!Takes, F!Learnt
<1>8. q.op = "signIn" => F!Presented(q) = {} /\ q.op \notin F!VerifyOps
  BY <1>2, <1>3, PresentedFacts DEF F!PendingOps, F!VerifyOps, F!ChallengeOps
<1>9. q.op \in F!VerifyOps => F!Presented(q) \cap Challenges = {}
  BY <1>2, <1>3, PresentedFacts
<1>10. F!Presented(q) \subseteq F!Handed(F!Things)
  BY <1>2, <1>3, PresentedFacts
<1>11. rows' \cap factorSpent' = {}
  BY <1>3, <1>4, <1>5, <1>7, <1>8 DEF F!FactorsInv, F!RowsFine
<1>12. rows' \cap used' \cap Challenges = {}
  BY <1>2, <1>3, <1>4, <1>7, <1>8, <1>9 DEF F!FactorsInv, F!RowsFine
<1>13. F!RowsFine'
  BY <1>2, <1>4, <1>5, <1>10, <1>11, <1>12 DEF F!FactorsInv, F!RowsFine, F!Handed
<1>14. used' \cap Challenges \subseteq used \cup {x \in {q.thing} : F!Takes(q)}
  BY <1>2, <1>3, <1>7, <1>8, <1>9
<1>15. FactorEvolves(r)
  BY <1>1, <1>4, <1>5, <1>14 DEF FactorEvolves
<1> QED  BY <1>4, <1>13, <1>15, SettingsStay, PasskeysStay DEF F!FactorsInv, F!factor

LEMMA FactorInsertKeeps ==
  ASSUME FactorConstants, F!FactorsInv, NEW r \in Requests, F!Insert(r)
  PROVE  F!FactorsInv'
<1>1. PICK q : q = factorReqs[r]
  OBVIOUS
<1>2. q.pc = "insert"
  BY <1>1 DEF F!Insert, F!At
<1>3. /\ q.op \in F!VerifyOps \cup {"signIn", "authenticate"} /\ F!Learnt(q) /\ F!Brings(q)
      /\ q \in F!Task /\ ~q.late
  BY <1>1, <1>2, ReqFacts DEF F!Stops
<1>4. ASSUME NEW pc \in {"clearOtp", "clear"}, q.op \in F!VerifyOps, F!Go(r, pc),
             pc = "clearOtp" <=> q.op = "verifyOtp"
      PROVE  F!FactorsInv'
  <2>1. PICK t : t = [q EXCEPT !.pc = pc]
    OBVIOUS
  <2>2. /\ Goes(q, t) /\ t.user = q.user /\ t.pc = pc /\ t.op = q.op
    BY <1>2, <1>3, <1>4, <2>1, FactorGoFacts DEF F!Stops, F!Pcs, F!VerifyOps
  <2>3. t.thing = q.thing /\ t.token = q.token /\ ~t.late
    BY <1>3, <2>2 DEF Goes, FactorSame
  <2>4. t.op # "signIn" /\ t.op \notin F!ChallengeOps
    BY <1>4, <2>2 DEF F!VerifyOps, F!ChallengeOps
  <2>5. given' = given /\ F!Become(r, t)
    BY <1>1, <1>4, <2>1 DEF F!Insert, F!Go
  <2>6. F!Learnt(t)'
    BY <1>2, <1>3, <1>4, <2>2, <2>3, <2>4, <2>5 DEF F!Learnt, F!PendingOps, F!Passed, F!Takes
  <2>7. F!Barred(t)' /\ ~F!Takes(t)
    BY <2>3, <2>4 DEF F!Barred, F!Takes
  <2> QED  BY <1>1, <2>2, <2>5, <2>6, <2>7, InsertRows, ChangeKeeps
<1>5. CASE F!Done(r)
  BY <1>5, InsertRows, EndKeeps DEF F!Done
<1>6. \/ q.op = "verifyOtp" /\ F!Go(r, "clearOtp")
      \/ q.op \in {"verifyTotp", "verifyBackup"} /\ F!Go(r, "clear")
      \/ F!Done(r)
  BY <1>1 DEF F!Insert
<1> QED  BY <1>4, <1>5, <1>6 DEF F!VerifyOps

LEMMA ConsumeKeeps ==
  ASSUME FactorConstants, F!FactorsInv, NEW r \in Requests, F!Consume(r)
  PROVE  F!FactorsInv'
<1>1. PICK q : q = factorReqs[r]
  OBVIOUS
<1>2. q.pc = "consume"
  BY <1>1 DEF F!Consume, F!At
<1>3. /\ q.op \in F!ChallengeOps /\ F!Brings(q) /\ F!Barred(q) /\ q \in F!Task
  BY <1>1, <1>2, ReqFacts DEF F!Stops
<1>4. PICK pc : pc = IF q.op = "register" THEN "createKey" ELSE "findKey"
  OBVIOUS
<1>5. UNCHANGED <<F!factor, passkeys, F!history>>
  BY DEF F!Consume
<1>6. CASE q.thing \in rows /\ rows' = rows \ {q.thing} /\ F!Go(r, pc)
  <2>1. PICK t : t = [q EXCEPT !.pc = pc]
    OBVIOUS
  <2>2. /\ Goes(q, t) /\ t.pc = pc /\ t.op = q.op /\ pc \in {"createKey", "findKey"}
    BY <1>2, <1>3, <1>4, <2>1, FactorGoFacts DEF F!Stops, F!Pcs, F!ChallengeOps
  <2>3. t.thing = q.thing /\ ~t.late
    BY <1>2, <1>3, <1>6, <2>2 DEF Goes, FactorSame, F!Barred, F!FactorsInv, F!RowsFine
  <2>4. q.thing \in Challenges
    BY <1>2, <1>3, PresentedFacts
  <2>5. q.thing \notin rows' \cup used'
    BY <1>5, <1>6, <2>4 DEF F!FactorsInv, F!RowsFine, F!history
  <2>6. F!Learnt(t)'
    BY <1>3, <2>2, <2>3, <2>5
       DEF F!Learnt, F!PendingOps, F!VerifyOps, F!ChallengeOps, F!Passed
  <2>7. F!Barred(t)'
    BY <2>3 DEF F!Barred
  <2>8. ASSUME NEW s \in Requests \ {r},
               F!Takes(factorReqs[s]) PROVE factorReqs[s].thing # t.thing
    <3>1. factorReqs[s].thing \notin rows
      BY <2>8, ReqFacts DEF F!Takes, F!Learnt
    <3> QED  BY <1>6, <2>3, <3>1
  <2>9. F!RowsFine' /\ FactorEvolves(r)
    BY <1>5, <1>6, RowsShrink DEF F!history
  <2>10. F!SettingsFine' /\ F!PasskeysFine' /\ flag' = flag /\ factorMenu' = factorMenu
    BY <1>5, SettingsStay, PasskeysStay DEF F!FactorsInv, F!history, F!factor
  <2>11. F!Become(r, t)
    BY <1>1, <1>6, <2>1 DEF F!Go
  <2> QED  BY <1>1, <2>2, <2>6, <2>7, <2>8, <2>9, <2>10, <2>11, ChangeKeeps
<1>7. CASE F!Error(r) /\ rows' = rows
  BY <1>5, <1>7, FactorErrorKeeps
<1> QED  BY <1>1, <1>4, <1>6, <1>7 DEF F!Consume, F!Taken

LEMMA LapseKeeps ==
  ASSUME FactorConstants, F!FactorsInv, F!Lapse
  PROVE  F!FactorsInv'
<1>1. rows' \subseteq rows /\ UNCHANGED <<F!factor, passkeys, factorReqs, F!history>>
  BY DEF F!Lapse
<1>2. F!RowsFine' /\ \A r : FactorEvolves(r)
  BY <1>1, RowsShrink DEF F!history
<1>3. F!SettingsFine' /\ F!PasskeysFine' /\ factorMenu' = factorMenu
  BY <1>1, SettingsStay, PasskeysStay DEF F!FactorsInv, F!history
<1>4. ASSUME NEW r \in Requests PROVE F!Carries(factorReqs[r])'
  <2>1. PICK q \in F!Task : q = factorReqs[r]
    BY DEF F!FactorsInv, F!TasksFine
  <2>2. F!Carries(q)
    BY <2>1 DEF F!FactorsInv, F!TasksFine
  <2>3. CASE q.pc = "idle"
    BY <1>1, <2>1, <2>2, <2>3 DEF F!Carries
  <2>4. CASE q.pc # "idle"
    <3>1. F!Brings(q)' /\ F!Barred(q)'
      BY <1>1, <1>2, <2>2, <2>4, BringsGrows DEF F!Carries, F!Barred, F!history
    <3>2. F!Learnt(q)'
      BY <1>1, <2>2, <2>4 DEF F!Carries, F!Learnt, F!history, F!factor
    <3> QED  BY <1>1, <2>1, <2>4, <3>1, <3>2 DEF F!Carries
  <2> QED  BY <2>3, <2>4
<1>5. F!TasksFine'
  BY <1>1, <1>4 DEF F!FactorsInv, F!TasksFine, F!Takes
<1> QED  BY <1>2, <1>3, <1>5 DEF F!FactorsInv
-----------------------------------------------------------------------------
(* Settings and passkeys.                                                   *)

\* New things, none of them kept in the table, are handed to a user.
LEMMA ThingsGiven ==
  ASSUME FactorConstants, F!FactorsInv, NEW S \in SUBSET (Secrets \cup Codes \cup Passkeys),
         \A x \in S : given[x] = None, NEW u \in Users, F!Hand(S, u),
         UNCHANGED <<rows, used, factorSpent>>
  PROVE  /\ F!RowsFine' /\ \A r : FactorEvolves(r)
         /\ \A x \in S : given'[x] = u
         /\ \A x \in F!Things : given[x] # None => given'[x] = given[x]
<1>1. S \in SUBSET F!Things /\ u \in Users \cup {F!Anyone}
  BY DEF F!Things
<1>2. /\ given' \in [F!Things -> Users \cup {None, F!Anyone}]
      /\ \A x \in F!Things : given'[x] = IF x \in S THEN u ELSE given[x]
      /\ \A x \in F!Things : given[x] # None => given'[x] = given[x]
      /\ \A x \in S : given'[x] = u
      /\ F!Handed(F!Things) \subseteq F!Handed(F!Things)'
  BY <1>1, HandFacts DEF F!FactorsInv
<1>3. rows' \subseteq F!Handed(Pendings \cup Otps \cup Challenges)'
  BY <1>2 DEF F!FactorsInv, F!RowsFine, F!Handed, F!Things
<1>4. \A x \in F!Handed(Pendings)' : given'[x] \in Users
  <2>1. \A x \in Pendings : x \in F!Things
    BY DEF F!Things
  <2> QED  BY <1>2, <2>1 DEF F!FactorsInv, F!RowsFine, F!Handed
<1>5. F!RowsFine'
  BY <1>2, <1>3, <1>4 DEF F!FactorsInv, F!RowsFine
<1>6. \A r : FactorEvolves(r)
  BY <1>2 DEF FactorEvolves
<1> QED  BY <1>2, <1>5, <1>6

LEMMA CreateKeyKeeps ==
  ASSUME FactorConstants, F!FactorsInv, NEW r \in Requests, F!CreateKey(r)
  PROVE  F!FactorsInv'
<1>1. PICK q : q = factorReqs[r]
  OBVIOUS
<1>2. q.pc = "createKey"
  BY <1>1 DEF F!CreateKey, F!At
<1>3. q.user \in Users /\ q.cred \in Credentials
  BY <1>1, <1>2, ReqFacts DEF F!Stops, F!Brings, F!OwnerOps, F!ChallengeOps
<1>4. UNCHANGED <<F!factor, rows, factorMenu, used, factorSpent>>
  BY DEF F!CreateKey
<1>5. CASE F!Error(r) /\ UNCHANGED <<passkeys, given>>
  BY <1>4, <1>5, FactorErrorKeeps DEF F!history
<1>6. ASSUME F!KeyOf(q.cred) = {}, NEW k \in F!Fresh(Passkeys), F!Hand({k}, q.user),
             passkeys' = [passkeys EXCEPT ![k] = [user |-> q.user, cred |-> q.cred]],
             F!Done(r)
      PROVE  F!FactorsInv'
  <2>1. k \in Passkeys /\ given[k] = None
    BY <1>6, FreshFacts
  <2>2. PICK row \in [user : Users, cred : Credentials] :
          row = [user |-> q.user, cred |-> q.cred]
    BY <1>3
  <2>3. row.cred = q.cred
    BY <2>2
  <2>4. passkeys' \in [Passkeys -> [user : Users, cred : Credentials] \cup {None}]
    BY <1>6, <2>1, <2>2 DEF F!FactorsInv, F!PasskeysFine
  <2>5. \A l \in Passkeys : passkeys'[l] = IF l = k THEN row ELSE passkeys[l]
    BY <1>6, <2>1, <2>2 DEF F!FactorsInv, F!PasskeysFine
  <2>6. \A l \in Passkeys : passkeys[l] # None => passkeys[l].cred # q.cred
    BY <1>6 DEF F!KeyOf
  <2>7. \A l,
        m \in Passkeys : F!Live(l)' /\ F!Live(m)' /\ passkeys'[l].cred = passkeys'[m].cred
                               => l = m
    BY <2>3, <2>5, <2>6 DEF F!FactorsInv, F!PasskeysFine, F!Live
  <2>8. F!PasskeysFine'
    BY <2>4, <2>7 DEF F!PasskeysFine
  <2>9. {k} \in SUBSET (Secrets \cup Codes \cup Passkeys) /\ \A x \in {k} : given[x] = None
    BY <2>1
  <2>10. /\ F!RowsFine' /\ FactorEvolves(r)
         /\ \A x \in F!Things : given[x] # None => given'[x] = given[x]
    BY <1>3, <1>4, <1>6, <2>9, ThingsGiven
  <2>11. F!SettingsFine' /\ flag' = flag
    BY <1>4, <2>10, SettingsStay DEF F!FactorsInv, F!factor
  <2> QED  BY <1>4, <1>6, <2>8, <2>10, <2>11, EndKeeps DEF F!Done
<1> QED  BY <1>1, <1>5, <1>6 DEF F!CreateKey, F!Registered

LEMMA DropKeyKeeps ==
  ASSUME FactorConstants, F!FactorsInv, NEW r \in Requests, F!DropKey(r)
  PROVE  F!FactorsInv'
<1>1. PICK k : k = factorReqs[r].key
  OBVIOUS
<1>2. factorReqs[r].pc = "dropKey"
  BY DEF F!DropKey, F!At
<1>3. k \in Passkeys
  BY <1>1, <1>2, ReqFacts DEF F!Stops, F!Brings
<1>4. passkeys' = [passkeys EXCEPT ![k] = None] /\ UNCHANGED <<F!factor, rows, F!history>>
  BY <1>1 DEF F!DropKey
<1>5. \A l \in Passkeys : passkeys'[l] = IF l = k THEN None ELSE passkeys[l]
  BY <1>3, <1>4 DEF F!FactorsInv, F!PasskeysFine
<1>6. F!PasskeysFine'
  BY <1>4, <1>5 DEF F!FactorsInv, F!PasskeysFine, F!Live
<1>7. F!RowsFine' /\ FactorEvolves(r)
  BY <1>4, RowsShrink DEF F!history
<1>8. F!SettingsFine' /\ flag' = flag /\ factorMenu' = factorMenu
  BY <1>4, SettingsStay DEF F!FactorsInv, F!history, F!factor
<1> QED  BY <1>6, <1>7, <1>8, EndKeeps DEF F!DropKey, F!Done

\* The settings of a user u who is given what they hold then.
LEMMA SettingsWritten ==
  ASSUME FactorConstants, F!SettingsFine, flag' \in [Users -> BOOLEAN], NEW u \in Users,
         NEW s \in Secrets \cup {None}, NEW B \in SUBSET Codes,
         secret' = [secret EXCEPT ![u] = s], codes' = [codes EXCEPT ![u] = B],
         s # None => given'[s] = u, \A c \in B : given'[c] = u,
         \A x \in F!Things : given[x] # None => given'[x] = given[x]
  PROVE  F!SettingsFine'
<1>1. /\ secret' \in [Users -> Secrets \cup {None}]
      /\ codes' \in [Users -> SUBSET Codes]
      /\ \A v \in Users : secret'[v] = IF v = u THEN s ELSE secret[v]
      /\ \A v \in Users : codes'[v] = IF v = u THEN B ELSE codes[v]
  BY DEF F!SettingsFine
<1>2. ASSUME NEW v \in Users, secret'[v] # None PROVE given'[secret'[v]] = v
  <2>1. CASE v = u
    BY <1>1, <1>2, <2>1
  <2>2. CASE v # u
    <3>1. secret'[v] = secret[v] /\ secret[v] \in F!Things /\ given[secret[v]] = v /\ v # None
      BY <1>1, <1>2, <2>2 DEF F!SettingsFine, F!Things
    <3> QED  BY <3>1
  <2> QED  BY <2>1, <2>2
<1>3. ASSUME NEW v \in Users, NEW c \in codes'[v] PROVE given'[c] = v
  <2>1. CASE v = u
    BY <1>1, <1>3, <2>1
  <2>2. CASE v # u
    <3>1. c \in F!Things /\ given[c] = v /\ v # None
      BY <1>1, <1>3, <2>2 DEF F!SettingsFine, F!Things
    <3> QED  BY <3>1
  <2> QED  BY <2>1, <2>2
<1> QED  BY <1>1, <1>2, <1>3 DEF F!SettingsFine
LEMMA WriteCodesKeeps ==
  ASSUME FactorConstants, F!FactorsInv, NEW r \in Requests, F!WriteCodes(r)
  PROVE  F!FactorsInv'
<1>1. PICK q : q = factorReqs[r]
  OBVIOUS
<1>2. q.pc = "writeCodes"
  BY <1>1 DEF F!WriteCodes, F!At
<1>3. q \in F!Task /\ q.op = "verifyBackup" /\ F!Learnt(q) /\ q.user \in Users /\ ~q.late
  BY <1>1, <1>2, ReqFacts DEF F!Stops, F!Learnt, F!PendingOps, F!VerifyOps
<1>4. UNCHANGED <<flag, secret, rows, passkeys, F!history>>
  BY DEF F!WriteCodes
<1>5. CASE F!Error(r) /\ UNCHANGED codes
  BY <1>4, <1>5, FactorErrorKeeps DEF F!factor
<1>6. CASE codes' = [codes EXCEPT ![q.user] = q.seen \ {q.thing}] /\ F!Go(r, "insert")
  <2>1. PICK t : t = [q EXCEPT !.pc = "insert"]
    OBVIOUS
  <2>2. /\ Goes(q, t) /\ t.pc = "insert" /\ t.user = q.user /\ t.op = "verifyBackup"
    BY <1>2, <1>3, <2>1, FactorGoFacts DEF F!Stops, F!Pcs, F!VerifyOps
  <2>3. t.thing = q.thing /\ t.token = q.token /\ ~t.late
    BY <1>3, <2>2 DEF Goes, FactorSame
  <2>4. given[q.thing] = q.user /\ given[q.token] = q.user
        /\ \A c \in q.seen : given[c] = q.user
    BY <1>2, <1>3 DEF F!Learnt, F!Passed, F!PendingOps, F!VerifyOps
  <2>5. F!Learnt(t)'
    BY <1>3, <1>4, <2>2, <2>3, <2>4
       DEF F!Learnt, F!PendingOps, F!VerifyOps, F!ChallengeOps, F!Passed, F!Takes, F!history
  <2>6. F!Barred(t)' /\ ~F!Takes(t)
    BY <2>2, <2>3 DEF F!Barred, F!Takes, F!ChallengeOps
  <2>7. F!SettingsFine'
    <3>1. secret' = [secret EXCEPT ![q.user] = secret[q.user]]
      BY <1>4 DEF F!FactorsInv, F!SettingsFine
    <3>2. PICK B \in SUBSET Codes : B = q.seen \ {q.thing}
      BY <1>3 DEF F!Task
    <3>3. secret[q.user] \in Secrets \cup {None}
          /\ (secret[q.user] # None => given[secret[q.user]] = q.user)
      BY <1>3 DEF F!FactorsInv, F!SettingsFine
    <3>4. given' = given /\ flag' \in [Users -> BOOLEAN]
      BY <1>4 DEF F!FactorsInv, F!SettingsFine, F!history
    <3>5. \A c \in B : given'[c] = q.user
      BY <2>4, <3>2, <3>4
    <3> QED  BY <1>3, <1>6, <3>1, <3>2, <3>3, <3>4, <3>5, SettingsWritten DEF F!FactorsInv
  <2>8. F!RowsFine' /\ FactorEvolves(r)
    BY <1>4, RowsShrink DEF F!history
  <2>9. F!PasskeysFine' /\ flag' = flag /\ factorMenu' = factorMenu
    BY <1>4, PasskeysStay DEF F!FactorsInv, F!history
  <2>10. F!Become(r, t)
    BY <1>1, <1>6, <2>1 DEF F!Go
  <2> QED  BY <1>1, <2>2, <2>5, <2>6, <2>7, <2>8, <2>9, <2>10, ChangeKeeps
<1> QED  BY <1>1, <1>5, <1>6 DEF F!WriteCodes

LEMMA DropKeeps ==
  ASSUME FactorConstants, F!FactorsInv, NEW r \in Requests, F!Drop(r)
  PROVE  F!FactorsInv'
<1>1. PICK q : q = factorReqs[r]
  OBVIOUS
<1>2. q.pc = "drop"
  BY <1>1 DEF F!Drop, F!At
<1>3. q \in F!Task /\ q.op = "disable" /\ q.user \in Users /\ ~q.late
  BY <1>1, <1>2, ReqFacts DEF F!Stops, F!Brings, F!OwnerOps
<1>4. PICK t : t = [q EXCEPT !.pc = "flagOff"]
  OBVIOUS
<1>5. Goes(q, t) /\ t.pc = "flagOff" /\ t.op = "disable"
  BY <1>2, <1>3, <1>4, FactorGoFacts DEF F!Stops, F!Pcs
<1>6. ~t.late
  BY <1>3, <1>5 DEF Goes, FactorSame
<1>7. F!Learnt(t)' /\ F!Barred(t)' /\ ~F!Takes(t)
  BY <1>5, <1>6 DEF F!Learnt, F!PendingOps, F!VerifyOps, F!ChallengeOps, F!Passed, F!Takes,
     F!Barred
<1>8. /\ secret' = [secret EXCEPT ![q.user] = None]
      /\ codes' = [codes EXCEPT ![q.user] = {}]
      /\ F!Become(r, t)
      /\ UNCHANGED <<flag, rows, passkeys, F!history>>
  BY <1>1, <1>4 DEF F!Drop, F!Go
<1>9. F!SettingsFine'
  <2>1. flag' \in [Users -> BOOLEAN] /\ given' = given
    BY <1>8 DEF F!FactorsInv, F!SettingsFine, F!history
  <2>2. PICK s \in Secrets \cup {None} : s = None
    OBVIOUS
  <2>3. PICK B \in SUBSET Codes : B = {}
    OBVIOUS
  <2>4. \A c \in B : given'[c] = q.user
    BY <2>3
  <2> QED  BY <1>3, <1>8, <2>1, <2>2, <2>3, <2>4, SettingsWritten DEF F!FactorsInv
<1>10. F!RowsFine' /\ FactorEvolves(r)
  BY <1>8, RowsShrink DEF F!history
<1>11. F!PasskeysFine' /\ flag' = flag /\ factorMenu' = factorMenu
  BY <1>8, PasskeysStay DEF F!FactorsInv, F!history
<1> QED  BY <1>1, <1>5, <1>7, <1>8, <1>9, <1>10, <1>11, ChangeKeeps

LEMMA CreateKeeps ==
  ASSUME FactorConstants, F!FactorsInv, NEW r \in Requests, F!Create(r)
  PROVE  F!FactorsInv'
<1>1. PICK q : q = factorReqs[r]
  OBVIOUS
<1>2. q.pc = "create"
  BY <1>1 DEF F!Create, F!At
<1>3. q \in F!Task /\ q.op = "enable" /\ q.user \in Users /\ ~q.late
  BY <1>1, <1>2, ReqFacts DEF F!Stops, F!Brings, F!OwnerOps
<1>4. UNCHANGED <<flag, rows, passkeys, factorMenu, used, factorSpent>>
  BY DEF F!Create
<1>5. CASE F!Error(r) /\ UNCHANGED <<secret, codes, given>>
  BY <1>4, <1>5, FactorErrorKeeps DEF F!factor, F!history
<1>6. ASSUME NEW s \in F!Fresh(Secrets), NEW B \in F!Batches,
             secret' = [secret EXCEPT ![q.user] = s],
             codes' = [codes EXCEPT ![q.user] = B],
             F!Hand({s} \cup B, q.user), F!Go(r, "flagOn")
      PROVE  F!FactorsInv'
  <2>1. PICK t : t = [q EXCEPT !.pc = "flagOn"]
    OBVIOUS
  <2>2. Goes(q, t) /\ t.pc = "flagOn" /\ t.op = "enable"
    BY <1>2, <1>3, <2>1, FactorGoFacts DEF F!Stops, F!Pcs
  <2>3. ~t.late
    BY <1>3, <2>2 DEF Goes, FactorSame
  <2>4. F!Learnt(t)' /\ F!Barred(t)' /\ ~F!Takes(t)
    BY <2>2, <2>3 DEF F!Learnt, F!PendingOps, F!VerifyOps, F!ChallengeOps, F!Passed, F!Takes,
       F!Barred
  <2>5. /\ s \in Secrets /\ given[s] = None /\ B \subseteq Codes
        /\ \A x \in B : given[x] = None
    BY <1>6, FreshFacts, BatchFacts
  <2>6. PICK S : S = {s} \cup B
    OBVIOUS
  <2>7. /\ S \in SUBSET (Secrets \cup Codes \cup Passkeys) /\ s \in S /\ B \subseteq S
        /\ \A x \in S : given[x] = None
    BY <2>5, <2>6
  <2>8. /\ F!RowsFine' /\ FactorEvolves(r) /\ \A x \in S : given'[x] = q.user
        /\ \A x \in F!Things : given[x] # None => given'[x] = given[x]
    BY <1>3, <1>4, <1>6, <2>6, <2>7, ThingsGiven
  <2>9. F!SettingsFine'
    <3>1. flag' \in [Users -> BOOLEAN]
      BY <1>4 DEF F!FactorsInv, F!SettingsFine
    <3>2. given'[s] = q.user /\ \A c \in B : given'[c] = q.user
      BY <2>7, <2>8
    <3> QED  BY <1>3, <1>6, <2>5, <2>8, <3>1, <3>2, SettingsWritten DEF F!FactorsInv
  <2>10. F!PasskeysFine' /\ flag' = flag /\ factorMenu' = factorMenu
    BY <1>4, PasskeysStay DEF F!FactorsInv
  <2>11. F!Become(r, t)
    BY <1>1, <1>6, <2>1 DEF F!Go
  <2> QED  BY <1>1, <2>2, <2>4, <2>8, <2>9, <2>10, <2>11, ChangeKeeps
<1> QED  BY <1>1, <1>5, <1>6 DEF F!Create

LEMMA RegenerateKeeps ==
  ASSUME FactorConstants, F!FactorsInv, NEW r \in Requests, F!Regenerate(r)
  PROVE  F!FactorsInv'
<1>1. PICK q : q = factorReqs[r]
  OBVIOUS
<1>2. q.pc = "regen"
  BY <1>1 DEF F!Regenerate, F!At
<1>3. q.user \in Users
  BY <1>1, <1>2, ReqFacts DEF F!Stops, F!Brings, F!OwnerOps
<1>4. UNCHANGED <<flag, secret, rows, passkeys, factorMenu, used, factorSpent>>
  BY DEF F!Regenerate
<1>5. CASE F!Error(r) /\ UNCHANGED <<codes, given>>
  BY <1>4, <1>5, FactorErrorKeeps DEF F!factor, F!history
<1>6. ASSUME NEW B \in F!Batches, codes' = [codes EXCEPT ![q.user] = B],
             F!Hand(B, q.user), F!Done(r)
      PROVE  F!FactorsInv'
  <2>1. /\ B \in SUBSET (Secrets \cup Codes \cup Passkeys) /\ B \subseteq Codes
        /\ \A x \in B : given[x] = None
    BY BatchFacts
  <2>2. /\ F!RowsFine' /\ FactorEvolves(r) /\ \A x \in B : given'[x] = q.user
        /\ \A x \in F!Things : given[x] # None => given'[x] = given[x]
    BY <1>3, <1>4, <1>6, <2>1, ThingsGiven
  <2>3. F!SettingsFine'
    <3>1. secret' = [secret EXCEPT ![q.user] = secret[q.user]]
          /\ flag' \in [Users -> BOOLEAN]
      BY <1>4 DEF F!FactorsInv, F!SettingsFine
    <3>2. PICK s \in Secrets \cup {None} : s = secret[q.user]
      BY <1>3 DEF F!FactorsInv, F!SettingsFine
    <3>3. s # None => s \in F!Things /\ given[s] = q.user /\ q.user # None
      BY <1>3, <3>2 DEF F!FactorsInv, F!SettingsFine, F!Things
    <3>4. s # None => given'[s] = q.user
      BY <2>2, <3>3
    <3> QED  BY <1>3, <1>6, <2>1, <2>2, <3>1, <3>2, <3>4, SettingsWritten DEF F!FactorsInv
  <2>4. F!PasskeysFine' /\ flag' = flag /\ factorMenu' = factorMenu
    BY <1>4, PasskeysStay DEF F!FactorsInv
  <2> QED  BY <1>6, <2>2, <2>3, <2>4, EndKeeps DEF F!Done
<1> QED  BY <1>1, <1>5, <1>6 DEF F!Regenerate

LEMMA SetFlagKeeps ==
  ASSUME FactorConstants, F!FactorsInv, NEW r \in Requests, NEW b \in BOOLEAN,
         NEW pc \in {"flagOn", "flagOff"}, F!SetFlag(r, pc, b)
  PROVE  F!FactorsInv'
<1>1. PICK u : u = factorReqs[r].user
  OBVIOUS
<1>2. factorReqs[r].pc = pc
  BY Zenon DEF F!SetFlag, F!At
<1>3. u \in Users
  BY <1>1, <1>2, ReqFacts DEF F!Stops, F!Brings, F!OwnerOps
<1>4. /\ flag' = [flag EXCEPT ![u] = b]
      /\ UNCHANGED <<secret, codes, rows, passkeys, F!history>>
  BY <1>1, Zenon DEF F!SetFlag
<1>5. factorReqs' = [x \in Requests |->
         IF x = r THEN F!Idle(TRUE)
         ELSE [factorReqs[x] EXCEPT !.ok = FALSE,
                                    !.guarded = @ /\ (factorReqs[x].user = u => b)]]
  BY <1>1, Zenon DEF F!SetFlag
<1>6. /\ flag' \in [Users -> BOOLEAN]
      /\ \A v \in Users : flag'[v] = IF v = u THEN b ELSE flag[v]
  BY <1>3, <1>4 DEF F!FactorsInv, F!SettingsFine
<1>7. ASSUME NEW s \in Requests \ {r}
      PROVE  factorReqs'[s] \in F!Task /\ FactorAlike(factorReqs[s], factorReqs'[s])
  <2>1. PICK q \in F!Task : q = factorReqs[s]
    BY DEF F!FactorsInv, F!TasksFine
  <2>2. PICK g \in BOOLEAN : g = (q.guarded /\ (q.user = u => b))
    OBVIOUS
  <2>3. PICK x : x = [q EXCEPT !.ok = FALSE, !.guarded = g]
    OBVIOUS
  <2>4. g => q.guarded /\ (q.user \in Users /\ flag[q.user] => flag'[q.user])
    BY <1>6, <2>2
  <2>5. x \in F!Task /\ FactorAlike(q, x)
    BY <2>1, <2>3, <2>4 DEF F!Task, FactorAlike
  <2>6. factorReqs'[s] = x
    BY <1>5, <2>1, <2>2, <2>3, Zenon
  <2> QED  BY <2>1, <2>5, <2>6
<1>8. PICK t \in F!Task : t = F!Idle(TRUE)
  BY FactorIdleFacts
<1>9. t.pc = "idle" /\ t.op = None /\ t.thing = None
  BY <1>8, FactorIdleFacts
<1>10. factorReqs' \in [Requests -> F!Task] /\ factorReqs'[r] = t
  BY <1>7, <1>8, <1>5, Zenon
<1>11. FactorMoves(r, t)
  BY <1>7, <1>10 DEF FactorMoves
<1>12. F!Carries(t)' /\ ~F!Takes(t)
  BY <1>9 DEF F!Carries, F!Takes
<1>13. F!SettingsFine'
  BY <1>4, <1>6 DEF F!FactorsInv, F!SettingsFine, F!history
<1>14. F!RowsFine' /\ FactorEvolves(r) /\ F!PasskeysFine' /\ factorMenu' = factorMenu
  BY <1>4, RowsShrink, PasskeysStay, Zenon DEF F!FactorsInv, F!history
<1> QED  BY <1>11, <1>12, <1>13, <1>14, FactorStepKeeps
-----------------------------------------------------------------------------
(* The invariant holds, and with it the types and the challenges.           *)

LEMMA FactorInitHolds ==
  ASSUME FactorConstants, F!Init
  PROVE  F!FactorsInv
<1>1. F!SettingsFine /\ F!PasskeysFine
  BY DEF F!Init, F!SettingsFine, F!PasskeysFine, F!Live
<1>2. F!RowsFine
  <2>1. \A S \in SUBSET F!Things : F!Handed(S) = {}
    BY DEF F!Init, F!Handed
  <2>2. F!Handed(Pendings) = {}
    BY <2>1 DEF F!Things
  <2> QED  BY <2>2 DEF F!Init, F!RowsFine
<1>3. ASSUME NEW r \in Requests
      PROVE  factorReqs[r] \in F!Task /\ factorReqs[r].pc = "idle"
             /\ factorReqs[r].op = None /\ factorReqs[r].thing = None
  <2>1. factorReqs[r] = F!Idle(FALSE)
    BY DEF F!Init
  <2> QED  BY <2>1, FactorIdleFacts
<1>4. factorReqs \in [Requests -> F!Task]
  BY <1>3 DEF F!Init
<1>5. F!TasksFine
  BY <1>3, <1>4 DEF F!TasksFine, F!Carries, F!Takes
<1> QED  BY <1>1, <1>2, <1>5 DEF F!Init, F!FactorsInv

LEMMA FactorNextKeeps ==
  ASSUME FactorConstants, F!FactorsInv, [F!Next]_F!vars
  PROVE  F!FactorsInv'
<1>1. ASSUME NEW r \in Requests, F!Ask(r) PROVE F!FactorsInv'
  BY <1>1, FactorAskUserKeeps, AskVerifyKeeps, AskPasskeyKeeps DEF F!Ask
<1>2. ASSUME NEW r \in Requests, F!SecondFactor(r) PROVE F!FactorsInv'
  <2>1. CASE F!Enable(r) \/ F!Disable(r)
    BY <2>1, SetFlagKeeps DEF F!Enable, F!Disable
  <2>2. CASE F!ReadUser(r) \/ F!Pend(r) \/ F!Create(r) \/ F!Drop(r) \/ F!Regenerate(r)
    BY <2>2, ReadUserKeeps, PendKeeps, CreateKeeps, DropKeeps, RegenerateKeeps
  <2>3. CASE F!ReadPending(r) \/ F!SendOtp(r) \/ F!ReadRecord(r) \/ F!ReadOtp(r)
             \/ F!WriteCodes(r)
    BY <2>3, ReadPendingKeeps, SendOtpKeeps, ReadRecordKeeps, ReadOtpKeeps, WriteCodesKeeps
  <2>4. CASE F!Insert(r) \/ F!ClearOtp(r) \/ F!Clear(r) \/ F!Fail(r)
    BY <2>4, FactorInsertKeeps, ClearOtpKeeps, ClearKeeps, FactorFailKeeps
  <2> QED  BY <1>2, <2>1, <2>2, <2>3, <2>4 DEF F!SecondFactor
<1>3. ASSUME NEW r \in Requests, F!Passkey(r) PROVE F!FactorsInv'
  BY <1>3, DrawKeeps, ConsumeKeeps, CreateKeyKeeps, FindKeyKeeps, CounterKeeps,
     CheckOwnerKeeps, DropKeyKeeps DEF F!Passkey
<1>4. CASE UNCHANGED F!vars
  <2>1. UNCHANGED <<F!factor, rows, passkeys, factorReqs, F!history>>
    BY <1>4 DEF F!vars, F!factor, F!history
  <2>2. F!SettingsFine' /\ F!PasskeysFine' /\ F!RowsFine' /\ factorMenu' = factorMenu
    BY <2>1, FinesSame
  <2>3. ASSUME NEW r \in Requests PROVE F!Carries(factorReqs[r])'
    <3>1. PICK t : t = factorReqs[r]
      OBVIOUS
    <3>2. F!Carries(t)
      BY <3>1 DEF F!FactorsInv, F!TasksFine
    <3>3. F!Carries(t)'
      BY <2>1, <3>2, CarriesSame DEF F!factor, F!history
    <3> QED  BY <2>1, <3>1, <3>3
  <2>4. F!TasksFine'
    BY <2>1, <2>3 DEF F!FactorsInv, F!TasksFine, F!Takes
  <2> QED  BY <2>2, <2>4 DEF F!FactorsInv
<1>5. CASE F!Next
  BY <1>1, <1>2, <1>3, <1>5, LapseKeeps DEF F!Next
<1> QED  BY <1>4, <1>5

\* The invariant from which the rest follows: what every task carries, whose the
\* settings, the passkeys and the things handed out are, and that nothing that
\* was spent is in the table.
THEOREM FactorsHolds ==
  ASSUME FactorConstants
  PROVE  F!Spec => []F!FactorsInv
<1>1. F!Init => F!FactorsInv
  BY FactorInitHolds
<1>2. F!FactorsInv /\ [F!Next]_F!vars => F!FactorsInv'
  BY FactorNextKeeps
<1> QED  BY <1>1, <1>2, PTL DEF F!Spec

LEMMA OneKey ==
  ASSUME FactorConstants, F!PasskeysFine
  PROVE  \A c \in Credentials : \A k, l \in F!KeyOf(c) : k = l
BY DEF F!PasskeysFine, F!KeyOf, F!Live

LEMMA TypesFollow ==
  ASSUME FactorConstants, F!FactorsInv
  PROVE  F!TypeOK
<1>1. \A x \in F!Handed(Pendings \cup Otps \cup Challenges) : x \in F!Handed(F!Things)
  BY DEF F!Handed, F!Things
<1>2. \A u \in Users : codes[u] \subseteq F!Handed(Codes)
  BY DEF F!FactorsInv, F!SettingsFine, F!Handed
<1>3. rows \cup used \cup factorSpent \subseteq F!Handed(F!Things)
  BY <1>1 DEF F!FactorsInv, F!RowsFine
<1> QED  BY <1>2, <1>3, OneKey
         DEF F!TypeOK, F!FactorsInv, F!SettingsFine, F!PasskeysFine, F!RowsFine, F!TasksFine

LEMMA ChallengesFollow ==
  ASSUME FactorConstants, F!FactorsInv
  PROVE  F!ChallengeOnce
<1> SUFFICES ASSUME NEW r \in Requests, factorReqs[r].pc \in {"createKey", "findKey",
    "counter"}
             PROVE  /\ factorReqs[r].thing \notin rows \cup used
                    /\ \A s \in Requests \ {r} :
                         factorReqs[s].thing = factorReqs[r].thing => F!At(s, "consume")
  BY DEF F!ChallengeOnce
<1>1. F!Takes(factorReqs[r]) /\ factorReqs[r].thing \in Challenges
      /\ factorReqs[r].thing \notin rows \cup used
  <2>1. factorReqs[r].op \in {"register",
        "authenticate"} /\ F!Brings(factorReqs[r]) /\ F!Learnt(factorReqs[r])
    BY ReqFacts DEF F!Stops
  <2>2. factorReqs[r].op \in F!ChallengeOps
    BY <2>1 DEF F!ChallengeOps
  <2>3. factorReqs[r].thing \in Challenges
    BY <2>1, <2>2, PresentedFacts
  <2> QED  BY <2>1, <2>2, <2>3 DEF F!Takes, F!Learnt
<1>2. ASSUME NEW s \in Requests \ {r}, factorReqs[s].thing = factorReqs[r].thing
      PROVE  F!At(s, "consume")
  <2>1. CASE factorReqs[s].pc = "idle"
    <3>1. factorReqs[s].thing = None
      BY <2>1 DEF F!FactorsInv, F!TasksFine, F!Carries
    <3> QED  BY <1>1, <1>2, <3>1 DEF F!Things
  <2>2. CASE factorReqs[s].pc # "idle" /\ factorReqs[s].op \in F!ChallengeOps
    <3>1. ~F!Takes(factorReqs[s])
      BY <1>1, <1>2 DEF F!FactorsInv, F!TasksFine
    <3> QED  BY <2>2, <3>1 DEF F!Takes, F!At
  <2>3. CASE factorReqs[s].pc # "idle" /\ factorReqs[s].op \notin F!ChallengeOps
    <3>1. F!Brings(factorReqs[s])
      BY <2>3, ReqFacts
    <3>2. factorReqs[s].thing \in Secrets \cup Otps \cup Codes \cup {None}
      BY <2>3, <3>1, PresentedFacts DEF F!Brings
    <3> QED  BY <1>1, <1>2, <3>2, KindsApart DEF F!Things
  <2> QED  BY <2>1, <2>2, <2>3
<1> QED  BY <1>1, <1>2

\* The tables hold what was handed out, a credential names one passkey, and a
\* challenge leads one request on, whoever races for it (consume_verification).
THEOREM FactorsConsistent ==
  ASSUME FactorConstants
  PROVE  F!Spec => []F!Consistent
<1>1. F!FactorsInv => F!Consistent
  BY TypesFollow, ChallengesFollow DEF F!Consistent
<1> QED  BY <1>1, FactorsHolds, PTL
\* Nobody signs in with the password alone once the second factor is on, and the
\* pending token and the second factor of a verification are the user's
\* (sign_in_with_user_core, verify_totp_core and their like).
THEOREM BothFactorsHold ==
  ASSUME FactorConstants
  PROVE  F!Spec => F!BothFactors
<1>1. ASSUME F!FactorsInv, NEW r \in Requests, F!SignsIn(r)
      PROVE  /\ factorReqs[r].op = "signIn" => ~factorReqs[r].guarded
             /\ factorReqs[r].op \in F!VerifyOps =>
                  /\ given[factorReqs[r].token] = factorReqs[r].user
                  /\ given[factorReqs[r].thing] = factorReqs[r].user
  <2>1. factorReqs[r].pc = "insert"
    BY <1>1 DEF F!SignsIn, F!At
  <2>2. F!Learnt(factorReqs[r])
    BY <1>1, <2>1, ReqFacts
  <2> QED  BY <2>1, <2>2 DEF F!Learnt, F!Passed, F!PendingOps
<1>2. F!FactorsInv /\ [F!Next]_F!vars =>
        [\A r \in Requests : F!SignsIn(r) =>
           LET q == factorReqs[r] IN
           /\ q.op = "signIn" => ~q.guarded
           /\ q.op \in F!VerifyOps =>
                given[q.token] = q.user /\ given[q.thing] = q.user]_F!vars
  BY <1>1
<1> QED  BY <1>2, FactorsHolds, PTL DEF F!Spec, F!BothFactors

\* What a request was answered for is of no use to one that begins afterwards.
THEOREM SpentFactorsDead ==
  ASSUME FactorConstants
  PROVE  F!Spec => F!SpentFactors
<1>1. ASSUME F!FactorsInv, NEW r \in Requests, F!SignsIn(r) PROVE ~factorReqs[r].late
  <2>1. factorReqs[r].pc = "insert"
    BY <1>1 DEF F!SignsIn, F!At
  <2> QED  BY <1>1, <2>1, ReqFacts
<1>2. F!FactorsInv /\ [F!Next]_F!vars =>
        [\A r \in Requests : F!SignsIn(r) => ~factorReqs[r].late]_F!vars
  BY <1>1
<1> QED  BY <1>2, FactorsHolds, PTL DEF F!Spec, F!SpentFactors

-----------------------------------------------------------------------------
(* Accounts and the links mailed about them (Accounts).                     *)

HIDE DEF FactorConstants, F!FactorsAssumption

USE AccountsAssumption, NoneAssumption

-----------------------------------------------------------------------------
(* Tasks.                                                                   *)

LEMMA FieldFacts ==
  ASSUME NEW q \in Task
  PROVE  /\ q.pc \in Pcs /\ q.op \in AllOps \cup {None} /\ q.user \in Users \cup {None}
         /\ q.to \in Emails \cup {None} /\ q.email \in Emails \cup {None}
         /\ q.password \in Passwords \cup {None} /\ q.link \in Links \cup {None}
         /\ q.token \in Tokens \cup {None} /\ q.alive \in SUBSET Tokens
         /\ q.late \in BOOLEAN /\ q.stale \in BOOLEAN
BY DEF Task

\* The task is the same but for its place, its user, an address and an answer.
Same(q, t) ==
  /\ t.op = q.op /\ t.email = q.email /\ t.password = q.password /\ t.link = q.link
  /\ t.token = q.token /\ t.others = q.others /\ t.alive = q.alive
  /\ t.late = q.late /\ t.stale = q.stale

LEMMA IdleFacts ==
  ASSUME NEW ok \in BOOLEAN
  PROVE  /\ Idle(ok) \in Task /\ Idle(ok).pc = "idle" /\ Idle(ok).op = None
         /\ Idle(ok).link = None /\ Idle(ok).alive = {} /\ Idle(ok).late = FALSE
         /\ Idle(ok).stale = FALSE /\ Idle(ok).ok = ok
BY DEF Idle, Task, Pcs

LEMMA GoFacts ==
  ASSUME NEW q \in Task, NEW pc \in Pcs
  PROVE  LET t == [q EXCEPT !.pc = pc] IN
         /\ t \in Task /\ t.pc = pc /\ Same(q, t)
         /\ t.user = q.user /\ t.to = q.to /\ t.ok = q.ok
BY DEF Task, Same

LEMMA ReadFacts ==
  ASSUME NEW q \in Task, NEW pc \in Pcs, NEW u \in Users \cup {None},
         NEW e \in Emails \cup {None},
         NEW t, t = [q EXCEPT !.pc = pc, !.user = u, !.to = e]
  PROVE  t \in Task
BY DEF Task

LEMMA HushFacts ==
  ASSUME NEW q \in Task
  PROVE  LET t == [q EXCEPT !.ok = FALSE] IN
         /\ t \in Task /\ Same(q, t)
         /\ t.pc = q.pc /\ t.user = q.user /\ t.to = q.to /\ t.ok = FALSE
BY DEF Task, Same
-----------------------------------------------------------------------------
(* Steps.                                                                   *)

\* As far as the invariant sees them, two tasks are alike.
Alike(q, t) == /\ Same(q, t) /\ t.pc = q.pc /\ t.user = q.user /\ t.to = q.to
               /\ t.pc # "idle" => ~t.ok

\* The task of r becomes t, and the answers of the others are forgotten.
Moves(r, t) ==
  /\ t \in Task /\ reqs' \in [Requests -> Task] /\ reqs'[r] = t
  /\ \A s \in Requests \ {r} : Alike(reqs[s], reqs'[s])

LEMMA BecomeFacts ==
  ASSUME reqs \in [Requests -> Task], NEW r \in Requests, NEW t \in Task, Become(r, t)
  PROVE  Moves(r, t)
<1>1. \A s \in Requests \ {r} : /\ reqs'[s] = [reqs[s] EXCEPT !.ok = FALSE]
                                /\ reqs'[s] \in Task
                                /\ Alike(reqs[s], reqs'[s])
  BY HushFacts DEF Become, Alike
<1>2. reqs' \in [Requests -> Task] /\ reqs'[r] = t
  BY <1>1 DEF Become
<1> QED  BY <1>1, <1>2 DEF Moves

\* What every step leaves as it is: ids are given out once, links stay as they
\* were mailed, what is gone stays gone, and an address is only changed for one
\* that was proven, where it takes a link to change it.
Evolves ==
  /\ born \subseteq born' /\ issued \subseteq issued' /\ proven \subseteq proven'
  /\ spent \subseteq spent' /\ lapsed \subseteq lapsed'
  /\ \A k \in Drawn : links'[k] = links[k]
  /\ stored' \cap Drawn \subseteq stored
  /\ \A t \in issued : sessions'[t] \in {sessions[t], None}
  /\ ProvesFirst => \A u \in born : users'[u] # None =>
       \/ users[u] # None /\ users'[u].email = users[u].email
       \/ users'[u].email \in proven'

LEMMA DrawnStay ==
  ASSUME Evolves, LinksFine
  PROVE  \A k \in Drawn : k \in Drawn'
BY DEF Evolves, Drawn

LEMMA CarriesStays ==
  ASSUME Evolves, LinksFine, UsersFine, SessionsFine, NEW q \in Task, Carries(q),
         NEW t \in Task, Alike(q, t)
  PROVE  Carries(t)'
<1> USE DEF Alike, Same
<1>1. CASE q.pc # "idle"
  <2>1. Brings(t)'
    BY <1>1, DrawnStay DEF Carries, Brings, Evolves
  <2>2. Brings(q) /\ Learnt(q)
    BY <1>1 DEF Carries
  <2>3. q.op \in LinkOps => q.link \in Drawn /\ links'[q.link] = links[q.link]
    BY <2>2 DEF Brings, Evolves
  <2>4. (Shown(t) => Shown(q)) /\ (Met(t) => Met(q)) /\ (Used(t) => Used(q))
    BY DEF Shown, Met, Used
  <2>5. Met(t) => t.user \in born'
    BY <2>2, <2>4 DEF Learnt, Evolves
  <2>6. Shown(t) => Fits(t.op, links'[t.link]) /\ links'[t.link].to \in proven'
    BY <2>2, <2>3, <2>4 DEF Learnt, Evolves, Shown
  <2>7. Used(t) => t.link \notin stored'
    BY <2>2, <2>3, <2>4 DEF Learnt, Evolves, Used, LinkOps
  <2>8. t.op = "deleteVerify" /\ Met(t) => links'[t.link].user = t.user
    BY <2>2, <2>3, <2>4 DEF Learnt, LinkOps
  <2>9. ProvesFirst /\ t.pc = "mark" /\ users'[t.user] # None =>
          users'[t.user].email \in proven'
    BY <2>2 DEF Learnt, Evolves, Met
  <2>10. AtOnce(t) <=> AtOnce(q)
    BY DEF AtOnce
  <2>11. Learnt(t)'
    BY <2>2, <2>5, <2>6, <2>7, <2>8, <2>9, <2>10 DEF Learnt, Shown, Met, Used, Fits, AtOnce,
       ProvesFirst
  <2>12. Barred(t)'
    <3>1. Barred(q)
      BY DEF Carries
    <3>2. Revoked(q) => q.user # None
      BY <2>2 DEF Learnt, Revoked, Met, UsersFine
    <3>3. Revoked(t) <=> Revoked(q)
      BY DEF Revoked
    <3>4. Revoked(t) => \A k \in t.alive : sessions'[k] # t.user
      BY <3>1, <3>2, <3>3 DEF Barred, Evolves
    <3> QED  BY <3>1, <3>4 DEF Barred, Evolves, Revoked
  <2> QED  BY <2>1, <2>11, <2>12 DEF Carries
<1>2. CASE q.pc = "idle"
  <2>1. Barred(t)'
    BY <1>2 DEF Carries, Barred, Revoked, Evolves
  <2> QED  BY <1>2, <2>1 DEF Carries
<1> QED  BY <1>1, <1>2

LEMMA StepKeeps ==
  ASSUME AccountsInv, NEW r \in Requests, NEW t, Moves(r, t), Evolves, Carries(t)',
         UsersFine', SessionsFine', LinksFine', menu' = menu
  PROVE  AccountsInv'
<1>1. ASSUME NEW s \in Requests PROVE Carries(reqs[s])'
  <2>1. PICK x \in Task : x = reqs'[s]
    BY DEF Moves
  <2>2. CASE s = r
    BY <2>2 DEF Moves
  <2>3. CASE s # r
    <3>1. reqs[s] \in Task /\ Carries(reqs[s]) /\ Alike(reqs[s], x)
      BY <2>1, <2>3 DEF AccountsInv, Moves
    <3>2. Carries(x)'
      BY <3>1, CarriesStays DEF AccountsInv
    <3> QED  BY <2>1, <3>2
  <2> QED  BY <2>2, <2>3
<1> QED  BY <1>1 DEF AccountsInv, Moves
LEMMA CarriesOn ==
  ASSUME Evolves, LinksFine, UsersFine, SessionsFine, NEW t \in Task, Carries(t)
  PROVE  Carries(t)'
<1>1. Alike(t, t)
  BY DEF Alike, Same, Carries, Brings
<1> QED  BY <1>1, CarriesStays

\* The task looks, and a link it presents may count as used from now on.
LEMMA LookKeeps ==
  ASSUME AccountsInv, NEW r \in Requests, NEW t, Moves(r, t), Carries(t)',
         UNCHANGED <<tables, lapsed, menu, issued, born>>,
         proven \subseteq proven', proven' \subseteq Emails,
         spent \subseteq spent', spent' \subseteq Drawn \ stored
  PROVE  AccountsInv'
<1> USE DEF tables
<1>1. Evolves
  BY DEF Evolves, AccountsInv, SessionsFine, UsersFine
<1>2. UsersFine'
  BY DEF AccountsInv, UsersFine, VerifiedProven, ProvesFirst
<1>3. SessionsFine' /\ LinksFine'
  BY DEF AccountsInv, SessionsFine, LinksFine, Drawn
<1> QED  BY <1>1, <1>2, <1>3, StepKeeps

LEMMA QuietKeeps ==
  ASSUME AccountsInv, NEW r \in Requests, NEW t, Moves(r, t), Carries(t),
         UNCHANGED <<tables, lapsed, menu, history>>
  PROVE  AccountsInv'
<1> USE DEF history, tables
<1>1. Evolves
  BY DEF Evolves, AccountsInv, SessionsFine, UsersFine
<1>2. Carries(t)'
  BY <1>1, CarriesOn DEF Moves, AccountsInv
<1>3. /\ proven \subseteq Emails /\ spent \subseteq Drawn \ stored
  BY DEF AccountsInv, UsersFine, LinksFine
<1> QED  BY <1>2, <1>3, LookKeeps

LEMMA IdleCarries ==
  ASSUME NEW ok \in BOOLEAN
  PROVE  Carries(Idle(ok)) /\ Carries(Idle(ok))'
BY IdleFacts DEF Carries, Barred, Revoked

LEMMA ErrorKeeps ==
  ASSUME AccountsInv, NEW r \in Requests, Error(r),
         UNCHANGED <<tables, lapsed, menu, issued, born>>,
         proven \subseteq proven', proven' \subseteq Emails
  PROVE  AccountsInv'
<1>1. PICK t : t = Idle(FALSE)
  OBVIOUS
<1>2. t \in Task /\ Carries(t)' /\ Become(r, t) /\ spent' = spent
  BY <1>1, IdleFacts, IdleCarries DEF Error
<1>3. Moves(r, t)
  BY <1>2, BecomeFacts DEF AccountsInv
<1>4. spent \subseteq Drawn \ stored
  BY DEF AccountsInv, LinksFine
<1> QED  BY <1>2, <1>3, <1>4, LookKeeps

\* An answer by which a link counts as spent: it is in the table no more.
LEMMA DoneFacts ==
  ASSUME AccountsInv, NEW r \in Requests, Done(r), reqs[r].pc # "idle"
  PROVE  /\ \E t : Moves(r, t) /\ Carries(t)'
         /\ spent \subseteq spent'
         /\ reqs[r].op \notin LinkOps => spent' = spent
         /\ reqs[r].op \in LinkOps =>
              reqs[r].link \in Drawn /\ spent' = spent \cup {reqs[r].link}
<1>1. PICK t : t = Idle(TRUE)
  OBVIOUS
<1>2. t \in Task /\ Carries(t)' /\ Become(r, t)
  BY <1>1, IdleFacts, IdleCarries DEF Done
<1>3. Moves(r, t)
  BY <1>2, BecomeFacts DEF AccountsInv
<1>4. Brings(reqs[r])
  BY DEF AccountsInv, Carries
<1>5. \A k \in Drawn : k # None
  BY DEF Drawn
<1> QED  BY <1>2, <1>3, <1>4, <1>5 DEF Done, Brings
-----------------------------------------------------------------------------
(* Requests that begin.                                                     *)

\* The sessions a request that ends some will have to answer for.
Doomed(op) == {k \in Tokens : sessions[k] # None /\ op \in Enders}

LEMMA DoomedFacts ==
  ASSUME AccountsInv, NEW op
  PROVE  Doomed(op) \in SUBSET Tokens /\ Doomed(op) \subseteq issued
BY DEF Doomed, AccountsInv, SessionsFine

LEMMA StartFacts ==
  ASSUME NEW op, NEW pc
  PROVE  Start(op, pc) =
           [pc |-> pc, op |-> op, user |-> None, to |-> None, email |-> None,
            password |-> None, current |-> None, link |-> None, token |-> None,
            others |-> FALSE, alive |-> Doomed(op), late |-> FALSE, stale |-> FALSE,
            ok |-> FALSE]
<1>1. PICK S : S = Doomed(op)
  OBVIOUS
<1>2. Start(op, pc) = [Idle(FALSE) EXCEPT !.op = op, !.pc = pc, !.alive = S]
  BY <1>1 DEF Start, Doomed
<1> QED  BY <1>1, <1>2 DEF Idle

LEMMA OpFacts ==
  /\ MailOps \cup LinkOps \cup UserOps \subseteq AllOps
  /\ {"byEmail", "byLink", "auth"} \subseteq Pcs
BY DEF AllOps, Pcs

\* Nobody has learnt anything at the first place of a task.
LEMMA FirstCarries ==
  ASSUME AccountsInv, NEW t \in Task, t.pc \in {"byEmail", "byLink", "auth"}, Brings(t),
         t.alive \subseteq issued, t.late => t.pc = "byLink" /\ t.link \in spent,
         t.stale => t.pc = "byLink" /\ t.link \in lapsed
  PROVE  Carries(t)
<1>1. t.op \in Stops[t.pc]
  BY DEF Brings
<1>2. ~Shown(t) /\ ~Met(t) /\ ~Used(t) /\ ~Revoked(t)
  BY <1>1 DEF Shown, Met, Used, Revoked, Stops, MailOps, LinkOps, UserOps
<1>3. Learnt(t)
  BY <1>2 DEF Learnt
<1>4. Barred(t)
  BY <1>2 DEF Barred
<1> QED  BY <1>3, <1>4 DEF Carries

LEMMA AskMailKeeps ==
  ASSUME AccountsInv, NEW r \in Requests, AskMail(r)
  PROVE  AccountsInv'
<1>1. PICK op \in MailOps, e \in Emails, p \in Passwords \cup {None} :
        Become(r, [Start(op, "byEmail") EXCEPT !.email = e, !.password = p])
  BY DEF AskMail
<1>2. PICK S \in SUBSET Tokens : S = Doomed(op) /\ S \subseteq issued
  BY DoomedFacts
<1>3. PICK t : t = [Start(op, "byEmail") EXCEPT !.email = e, !.password = p]
  OBVIOUS
<1>4. t = [pc |-> "byEmail", op |-> op, user |-> None, to |-> None, email |-> e,
           password |-> p, current |-> None, link |-> None, token |-> None,
           others |-> FALSE, alive |-> S, late |-> FALSE, stale |-> FALSE, ok |-> FALSE]
  BY <1>2, <1>3, StartFacts
<1>5. /\ t \in Task /\ t.op = op /\ t.pc = "byEmail" /\ t.link = None /\ t.email = e
      /\ ~t.late /\ ~t.stale /\ ~t.ok /\ t.alive \subseteq issued
  <2>1. op \in AllOps /\ "byEmail" \in Pcs
    BY OpFacts
  <2>2. t \in Task
    BY <1>1, <1>2, <1>4, <2>1 DEF Task
  <2> QED  BY <1>2, <1>4, <2>2
<1>6. Brings(t)
  BY <1>5 DEF Brings, Stops, MailOps, LinkOps, UserOps
<1>7. Carries(t)
  BY <1>5, <1>6, FirstCarries
<1>8. Moves(r, t)
  BY <1>1, <1>3, <1>5, BecomeFacts DEF AccountsInv
<1> QED  BY <1>7, <1>8, QuietKeeps DEF AskMail

LEMMA AskLinkKeeps ==
  ASSUME AccountsInv, NEW r \in Requests, AskLink(r)
  PROVE  AccountsInv'
<1>1. PICK op \in LinkOps, k \in Drawn, p \in Passwords \cup {None} :
        Become(r, [Start(op, "byLink") EXCEPT
                     !.link = k, !.password = p,
                     !.late = (k \in spent), !.stale = (k \in lapsed)])
  BY DEF AskLink
<1>2. PICK S \in SUBSET Tokens : S = Doomed(op) /\ S \subseteq issued
  BY DoomedFacts
<1>4. PICK late \in BOOLEAN : late <=> k \in spent
  OBVIOUS
<1>5. PICK stale \in BOOLEAN : stale <=> k \in lapsed
  OBVIOUS
<1>6. PICK t : t = [Start(op, "byLink") EXCEPT !.link = k, !.password = p, !.late = late,
                                               !.stale = stale]
  OBVIOUS
<1>7. t = [pc |-> "byLink", op |-> op, user |-> None, to |-> None, email |-> None,
           password |-> p, current |-> None, link |-> k, token |-> None,
           others |-> FALSE, alive |-> S, late |-> late, stale |-> stale, ok |-> FALSE]
  BY <1>2, <1>6, StartFacts
<1>8. /\ t \in Task /\ t.op = op /\ t.pc = "byLink" /\ t.link = k
      /\ t.late = late /\ t.stale = stale /\ ~t.ok /\ t.alive \subseteq issued
  <2>1. k \in Links /\ op \in AllOps /\ "byLink" \in Pcs
    BY OpFacts DEF Drawn
  <2>2. t \in Task
    BY <1>1, <1>2, <1>4, <1>5, <1>7, <2>1 DEF Task
  <2> QED  BY <1>2, <1>7, <2>2
<1>9. Brings(t)
  BY <1>8 DEF Brings, Stops, MailOps, LinkOps, UserOps
<1>10. Carries(t)
  BY <1>4, <1>5, <1>8, <1>9, FirstCarries
<1>11. t = [Start(op, "byLink") EXCEPT
              !.link = k, !.password = p, !.late = (k \in spent), !.stale = (k \in lapsed)]
  BY <1>4, <1>5, <1>6
<1>12. Moves(r, t)
  BY <1>1, <1>8, <1>11, BecomeFacts DEF AccountsInv
<1> QED  BY <1>10, <1>12, QuietKeeps DEF AskLink

LEMMA AskUserKeeps ==
  ASSUME AccountsInv, NEW r \in Requests, AskUser(r)
  PROVE  AccountsInv'
<1>1. PICK op \in UserOps, k \in issued :
        /\ op = "updateUser" => CoreFirst
        /\ \E e \in IF op \in {"changeEmail", "updateUser"} THEN Emails ELSE {None},
             p \in Passwords \cup {None}, c \in Passwords \cup {None}, b \in BOOLEAN :
             Become(r, [Start(op, "auth") EXCEPT !.token = k, !.email = e,
                          !.password = p, !.current = c, !.others = b])
  BY ZenonT(120) DEF AskUser
<1>2. PICK e \in Emails \cup {None}, p \in Passwords \cup {None},
           c \in Passwords \cup {None}, b \in BOOLEAN :
        /\ op \in {"changeEmail", "updateUser"} => e \in Emails
        /\ Become(r, [Start(op, "auth") EXCEPT !.token = k, !.email = e,
                        !.password = p, !.current = c, !.others = b])
  BY <1>1
<1>3. PICK S \in SUBSET Tokens : S = Doomed(op) /\ S \subseteq issued
  BY DoomedFacts
<1>4. PICK t : t = [Start(op, "auth") EXCEPT !.token = k, !.email = e, !.password = p,
                                             !.current = c, !.others = b]
  OBVIOUS
<1>5. t = [pc |-> "auth", op |-> op, user |-> None, to |-> None, email |-> e,
           password |-> p, current |-> c, link |-> None, token |-> k,
           others |-> b, alive |-> S, late |-> FALSE, stale |-> FALSE, ok |-> FALSE]
  BY <1>3, <1>4, StartFacts
<1>6. k \in Tokens
  BY DEF AccountsInv, SessionsFine
<1>7. /\ t \in Task /\ t.op = op /\ t.pc = "auth" /\ t.link = None /\ t.email = e
      /\ t.token = k /\ ~t.late /\ ~t.stale /\ ~t.ok /\ t.alive \subseteq issued
  <2>1. op \in AllOps /\ "auth" \in Pcs
    BY OpFacts
  <2>2. t \in Task
    BY <1>2, <1>3, <1>5, <1>6, <2>1 DEF Task
  <2> QED  BY <1>3, <1>5, <2>2
<1>8. Brings(t)
  BY <1>1, <1>2, <1>7 DEF Brings, Stops, MailOps, LinkOps, UserOps
<1>9. Carries(t)
  BY <1>7, <1>8, FirstCarries
<1>10. Moves(r, t)
  BY <1>2, <1>4, <1>7, BecomeFacts DEF AccountsInv
<1> QED  BY <1>9, <1>10, QuietKeeps DEF AskUser
-----------------------------------------------------------------------------
(* Requests that go on with what they read.                                 *)

LEMMA GoMoves ==
  ASSUME AccountsInv, NEW r \in Requests, NEW pc \in Pcs, Go(r, pc)
  PROVE  /\ spent' = spent
         /\ \E t : /\ Moves(r, t) /\ t.pc = pc /\ Same(reqs[r], t) /\ t.ok = reqs[r].ok
                   /\ t.user = reqs[r].user /\ t.to = reqs[r].to
<1>1. reqs[r] \in Task
  BY DEF AccountsInv
<1>2. PICK t : t = [reqs[r] EXCEPT !.pc = pc]
  OBVIOUS
<1>3. /\ t \in Task /\ t.pc = pc /\ Same(reqs[r], t) /\ t.ok = reqs[r].ok
      /\ t.user = reqs[r].user /\ t.to = reqs[r].to
  BY <1>1, <1>2, GoFacts
<1>4. Moves(r, t) /\ spent' = spent
  BY <1>2, <1>3, BecomeFacts DEF AccountsInv, Go
<1> QED  BY <1>3, <1>4

LEMMA ReadMoves ==
  ASSUME AccountsInv, NEW r \in Requests, NEW pc \in Pcs, NEW u \in Users, users[u] # None,
         Read(r, u, pc)
  PROVE  /\ spent' = spent
         /\ \E t : /\ Moves(r, t) /\ t.pc = pc /\ Same(reqs[r], t) /\ t.ok = reqs[r].ok
                   /\ t.user = u /\ (pc = "newLink" => t.to = users[u].email)
<1>1. PICK q \in Task : q = reqs[r]
  BY DEF AccountsInv
<1>2. users[u].email \in Emails
  BY DEF AccountsInv, UsersFine, User
<1>3. PICK e \in Emails \cup {None} : e = IF pc = "newLink" THEN users[u].email ELSE None
  BY <1>2
<1>4. PICK t : t = [q EXCEPT !.pc = pc, !.user = u, !.to = e]
  OBVIOUS
<1>5. /\ t \in Task /\ t.pc = pc /\ Same(q, t) /\ t.ok = q.ok
      /\ t.user = u /\ t.to = e
  <2>1. q \in Task /\ u \in Users \cup {None} /\ e \in Emails \cup {None}
    BY <1>1, <1>3
  <2>2. t \in Task
    BY <1>4, <2>1, ReadFacts
  <2>3. t.pc = pc /\ t.user = u /\ t.to = e /\ t.ok = q.ok
    BY <1>4, <2>1 DEF Task
  <2>4. Same(q, t)
    BY <1>4, <2>1 DEF Task, Same
  <2> QED  BY <2>2, <2>3, <2>4
<1>6. Become(r, t) /\ spent' = spent
  BY <1>1, <1>3, <1>4 DEF Read
<1>7. Moves(r, t)
  BY <1>5, <1>6, BecomeFacts DEF AccountsInv
<1> QED  BY <1>1, <1>3, <1>5, <1>6, <1>7

LEMMA BringsOn ==
  ASSUME NEW q, NEW t, Brings(q), Same(q, t), t.ok = q.ok, t.op \in Stops[t.pc]
  PROVE  Brings(t)
BY DEF Brings, Same

\* Only a task that has not looked its link up yet may be barred.
LEMMA BarredOn ==
  ASSUME NEW q, NEW t, Barred(q), Same(q, t), q.pc # "byLink", ~Revoked(t)
  PROVE  Barred(t)
BY DEF Barred, Same

LEMMA UserFacts ==
  ASSUME AccountsInv, NEW u \in Users, users[u] # None
  PROVE  u \in born /\ users[u] \in User /\ users[u].email \in Emails
BY DEF AccountsInv, UsersFine, User

LEMMA ReadByEmailKeeps ==
  ASSUME AccountsInv, NEW r \in Requests, ReadByEmail(r)
  PROVE  AccountsInv'
<1>1. PICK q : q = reqs[r]
  OBVIOUS
<1>2. /\ q \in Task /\ q.pc = "byEmail" /\ q.op \in MailOps /\ Brings(q) /\ Learnt(q)
      /\ Barred(q)
  BY <1>1 DEF ReadByEmail, At, AccountsInv, Carries, Brings, Stops
<1>3. q.email \in Emails /\ q.op \notin LinkOps
  BY <1>2 DEF Brings, MailOps, LinkOps
<1>4. PICK u : u = byEmail[q.email]
  OBVIOUS
<1>5. u # None => u \in Users /\ users[u] # None
  BY <1>3, <1>4 DEF AccountsInv, UsersFine
<1>6. UNCHANGED <<tables, lapsed, menu, issued, proven, born>>
  BY DEF ReadByEmail
<1>7. CASE Error(r)
  BY <1>6, <1>7, ErrorKeeps DEF AccountsInv, UsersFine
<1>8. CASE Done(r)
  <2>1. spent' = spent /\ \E t : Moves(r, t) /\ Carries(t)'
    BY <1>1, <1>2, <1>3, <1>8, DoneFacts
  <2>2. spent \subseteq Drawn \ stored /\ proven \subseteq Emails
    BY DEF AccountsInv, LinksFine, UsersFine
  <2> QED  BY <1>6, <2>1, <2>2, LookKeeps
<1>9. CASE q.op = "signUp" /\ Go(r, "create")
  <2>1. PICK t : /\ Moves(r, t) /\ t.pc = "create" /\ Same(q, t) /\ t.ok = q.ok
                 /\ spent' = spent
    BY <1>1, <1>9, GoMoves DEF Pcs
  <2>2. t.op = "signUp"
    BY <1>9, <2>1 DEF Same
  <2>3. Brings(t)
    BY <1>2, <2>1, <2>2, BringsOn DEF Stops
  <2>4. Learnt(t)
    BY <2>1, <2>2 DEF Learnt, Met, Shown, Used, LinkOps
  <2>5. Barred(t)
    BY <1>2, <2>1, <2>2, BarredOn DEF Revoked
  <2> QED  BY <1>6, <2>1, <2>3, <2>4, <2>5, QuietKeeps DEF Carries, history
<1>10. CASE \E pc \in {"newLink", "insert"} :
              /\ u # None /\ Read(r, u, pc)
              /\ q.op = "signIn" \/ (q.op \in {"forget", "sendVerify"} /\ pc = "newLink")
  <2>1. PICK pc \in {"newLink", "insert"} :
              /\ u # None /\ Read(r, u, pc)
              /\ q.op = "signIn" \/ (q.op \in {"forget", "sendVerify"} /\ pc = "newLink")
    BY <1>10
  <2>2. PICK t : /\ Moves(r, t) /\ t.pc = pc /\ Same(q, t) /\ t.ok = q.ok /\ t.user = u
                 /\ spent' = spent
                 /\ pc = "newLink" => t.to = users[u].email
    BY <1>1, <1>5, <2>1, ReadMoves DEF Pcs
  <2>3. t.op = q.op /\ u \in born /\ users[u].email \in Emails
    BY <1>5, <2>1, <2>2, UserFacts DEF Same
  <2>4. Brings(t)
    BY <1>2, <2>1, <2>2, <2>3, BringsOn DEF Stops
  <2>5. Learnt(t)
    BY <2>1, <2>2, <2>3 DEF Learnt, Met, Shown, Used, LinkOps
  <2>6. Barred(t)
    BY <1>2, <2>1, <2>2, <2>3, BarredOn DEF Revoked
  <2> QED  BY <1>6, <2>2, <2>4, <2>5, <2>6, QuietKeeps DEF Carries, history
<1> QED  BY <1>1, <1>4, <1>7, <1>8, <1>9, <1>10 DEF ReadByEmail

\* A link that is still found was not answered for, and has not expired.
LEMMA FoundFacts ==
  ASSUME AccountsInv, NEW q, Brings(q), Barred(q), q.pc = "byLink", Found(q.link)
  PROVE  ~q.late /\ (Adapter # "d1" => ~q.stale)
BY DEF AccountsInv, LinksFine, Barred, Found

LEMMA ReadLinkKeeps ==
  ASSUME AccountsInv, NEW r \in Requests, ReadLink(r)
  PROVE  AccountsInv'
<1>1. PICK q : q = reqs[r]
  OBVIOUS
<1>2. /\ q \in Task /\ q.pc = "byLink" /\ q.op \in LinkOps /\ Brings(q) /\ Learnt(q)
      /\ Barred(q) /\ q.link \in Drawn
  BY <1>1 DEF ReadLink, At, AccountsInv, Carries, Brings, Stops
<1>3. PICK to \in Emails : to = links[q.link].to
  BY <1>2 DEF Drawn, AccountsInv, LinksFine, Link
<1>4. UNCHANGED <<tables, lapsed, menu, issued, born>> /\ proven \subseteq Emails
  BY DEF ReadLink, AccountsInv, UsersFine
<1>5. CASE Error(r) /\ (proven' = proven \/ proven' = proven \cup {to})
  BY <1>4, <1>5, ErrorKeeps
<1>6. CASE /\ Found(q.link) /\ proven' = proven \cup {to}
           /\ \E pc \in {"discard", "owner", "unlink"} :
                /\ Go(r, pc)
                /\ pc = "discard" => q.op \in {"changeVerify", "deleteVerify"}
                /\ pc # "discard" => Fits(q.op, links[q.link])
                /\ pc = "owner" <=> pc # "discard" /\ q.op # "callback"
  <2>1. PICK pc \in {"discard", "owner", "unlink"} :
                /\ Go(r, pc)
                /\ pc = "discard" => q.op \in {"changeVerify", "deleteVerify"}
                /\ pc # "discard" => Fits(q.op, links[q.link])
                /\ pc = "owner" <=> pc # "discard" /\ q.op # "callback"
    BY <1>6
  <2>2. PICK t : /\ Moves(r, t) /\ t.pc = pc /\ Same(q, t) /\ t.ok = q.ok
                 /\ spent' = spent
    BY <1>1, <2>1, GoMoves DEF Pcs
  <2>3. t.op = q.op /\ t.link = q.link
    BY <2>2 DEF Same
  <2>4. Brings(t)
    BY <1>2, <2>1, <2>2, <2>3, BringsOn DEF Stops, LinkOps
  <2>5. ~Met(t) /\ ~Used(t)
    BY <1>2, <2>1, <2>2, <2>3 DEF Met, Used
  <2>6. Learnt(t)'
    <3>1. Shown(t) => Fits(t.op, links[t.link]) /\ links[t.link].to \in proven'
      BY <1>3, <1>6, <2>1, <2>2, <2>3 DEF Shown
    <3>2. links' = links /\ users' = users
      BY <1>4 DEF tables
    <3> QED  BY <2>1, <2>2, <2>5, <3>1, <3>2 DEF Learnt, Met, Shown, Used, Fits, AtOnce
  <2>7. Barred(t)'
    <3>1. ~t.late /\ (Adapter # "d1" => ~t.stale)
      BY <1>2, <1>6, <2>2, FoundFacts DEF Same
    <3>2. t.alive \subseteq issued
      BY <1>2, <2>2 DEF Same, Barred
    <3>3. ~Revoked(t)
      BY <1>2, <2>1, <2>2, <2>3 DEF Revoked, LinkOps, Fits
    <3> QED  BY <1>4, <3>1, <3>2, <3>3 DEF Barred, Revoked, tables
  <2>8. Brings(t)'
    BY <1>4, <2>4 DEF Brings, Drawn, tables
  <2>9. Carries(t)'
    BY <2>6, <2>7, <2>8 DEF Carries
  <2>10. spent \subseteq Drawn \ stored
    BY DEF AccountsInv, LinksFine
  <2> QED  BY <1>3, <1>4, <1>6, <2>2, <2>9, <2>10, LookKeeps
<1> QED  BY <1>1, <1>2, <1>3, <1>5, <1>6 DEF ReadLink

LEMMA OwnerFacts ==
  ASSUME AccountsInv, NEW k \in Drawn, Known(Owner(k))
  PROVE  /\ Owner(k) \in Users
         /\ links[k].kind = "mail" => users[Owner(k)].email = links[k].to
         /\ links[k].kind # "mail" => links[k].user = Owner(k)
<1>1. links[k] \in Link /\ (links[k].kind # "delete" => links[k].to = links[k].email)
  BY DEF AccountsInv, LinksFine, Drawn
<1>2. links[k].to \in Emails /\ links[k].user \in Users \cup {None}
  BY <1>1 DEF Link
<1>3. Owner(k) # None
  BY DEF Known
<1>4. CASE links[k].kind = "mail"
  BY <1>1, <1>2, <1>3, <1>4 DEF Owner, AccountsInv, UsersFine
<1>5. CASE links[k].kind # "mail"
  BY <1>2, <1>3, <1>5 DEF Owner
<1> QED  BY <1>4, <1>5

LEMMA ReadOwnerKeeps ==
  ASSUME AccountsInv, NEW r \in Requests, ReadOwner(r)
  PROVE  AccountsInv'
<1>1. PICK q : q = reqs[r]
  OBVIOUS
<1>2. /\ q \in Task /\ q.pc = "owner" /\ q.op \in LinkOps \ {"callback"} /\ Brings(q)
      /\ Learnt(q) /\ Barred(q) /\ q.link \in Drawn
  BY <1>1 DEF ReadOwner, At, AccountsInv, Carries, Brings, Stops
<1>3. PICK u : u = Owner(q.link)
  OBVIOUS
<1>4. UNCHANGED <<tables, lapsed, menu, issued, proven, born>>
  BY DEF ReadOwner
<1>5. Fits(q.op, links[q.link]) /\ links[q.link].to \in proven
  BY <1>2 DEF Learnt, Shown
<1>6. CASE Error(r)
  BY <1>4, <1>6, ErrorKeeps DEF AccountsInv, UsersFine
<1>7. CASE Become(r, Idle(TRUE)) /\ spent' = spent
  <2>1. PICK t : t = Idle(TRUE)
    OBVIOUS
  <2>2. t \in Task /\ Carries(t)'
    BY <2>1, IdleFacts, IdleCarries
  <2>3. Moves(r, t)
    BY <1>7, <2>1, <2>2, BecomeFacts DEF AccountsInv
  <2>4. spent \subseteq Drawn \ stored /\ proven \subseteq Emails
    BY DEF AccountsInv, LinksFine, UsersFine
  <2> QED  BY <1>4, <1>7, <2>2, <2>3, <2>4, LookKeeps
<1>8. CASE \E pc \in {"write", "mark", "free", "revoke"} :
             /\ Known(u) /\ Read(r, u, pc)
             /\ q.op = [write |-> "reset", mark |-> "verify", free |-> "changeVerify",
                        revoke |-> "deleteVerify"][pc]
  <2>1. PICK pc \in {"write", "mark", "free", "revoke"} :
             /\ Known(u) /\ Read(r, u, pc)
             /\ q.op = [write |-> "reset", mark |-> "verify", free |-> "changeVerify",
                        revoke |-> "deleteVerify"][pc]
    BY <1>8
  <2>2. /\ u \in Users /\ users[u] # None
        /\ links[q.link].kind = "mail" => users[u].email = links[q.link].to
        /\ links[q.link].kind # "mail" => links[q.link].user = u
    BY <1>2, <1>3, <2>1, OwnerFacts DEF Known
  <2>3. PICK t : /\ Moves(r, t) /\ t.pc = pc /\ Same(q, t) /\ t.ok = q.ok
                 /\ t.user = u /\ spent' = spent
    BY <1>1, <2>1, <2>2, ReadMoves DEF Pcs
  <2>4. t.op = q.op /\ t.link = q.link
    BY <2>3 DEF Same
  <2>5. Brings(t)
    BY <1>2, <2>1, <2>3, <2>4, BringsOn DEF Stops, Enders
  <2>6. Learnt(t)
    <3>1. u \in born
      BY <2>2, UserFacts
    <3>2. ~Used(t) /\ t.pc # "newLink"
      BY <2>1, <2>3, <2>4 DEF Used
    <3>3. t.op = "deleteVerify" => links[t.link].user = t.user
      BY <1>5, <2>2, <2>3, <2>4 DEF Fits
    <3>4. t.pc = "mark" => users[t.user].email \in proven
      BY <1>5, <2>1, <2>2, <2>3, <2>4 DEF Fits
    <3>5. t.op # "deleteUser" /\ t.op # "changeEmail"
      BY <1>2, <2>4 DEF LinkOps
    <3> QED  BY <1>5, <2>3, <2>4, <3>1, <3>2, <3>3, <3>4, <3>5 DEF Learnt
  <2>7. Barred(t)
    BY <1>2, <2>1, <2>3, <2>4, BarredOn DEF Revoked
  <2> QED  BY <1>4, <2>3, <2>5, <2>6, <2>7, QuietKeeps DEF Carries, history
<1> QED  BY <1>1, <1>3, <1>6, <1>7, <1>8 DEF ReadOwner

LEMMA AuthenticateKeeps ==
  ASSUME AccountsInv, NEW r \in Requests, Authenticate(r)
  PROVE  AccountsInv'
<1>1. PICK q : q = reqs[r]
  OBVIOUS
<1>2. /\ q \in Task /\ q.pc = "auth" /\ q.op \in UserOps /\ Brings(q) /\ Learnt(q)
      /\ Barred(q) /\ q.token \in issued
  BY <1>1 DEF Authenticate, At, AccountsInv, Carries, Brings, Stops
<1>3. PICK u : u = sessions[q.token]
  OBVIOUS
<1>4. u \in Users \cup {None}
  BY <1>2, <1>3 DEF AccountsInv, SessionsFine
<1>5. UNCHANGED <<tables, lapsed, menu, issued, proven, born>>
  BY DEF Authenticate
<1>6. CASE Error(r)
  BY <1>5, <1>6, ErrorKeeps DEF AccountsInv, UsersFine
<1>7. CASE \E pc \in {"write", "free", "rename", "revoke", "newLink"} :
             /\ Known(u) /\ Read(r, u, pc)
             /\ pc = "write" <=> q.op \in {"changePassword", "setPassword"}
             /\ pc = "free" <=> q.op = "changeEmail"
             /\ pc = "rename" <=> q.op = "updateUser"
             /\ pc = "revoke" => AtOnce(q)
  <2>1. PICK pc \in {"write", "free", "rename", "revoke", "newLink"} :
             /\ Known(u) /\ Read(r, u, pc)
             /\ pc = "write" <=> q.op \in {"changePassword", "setPassword"}
             /\ pc = "free" <=> q.op = "changeEmail"
             /\ pc = "rename" <=> q.op = "updateUser"
             /\ pc = "revoke" => AtOnce(q)
    BY <1>7
  <2>2. u \in Users /\ users[u] # None
    BY <1>4, <2>1 DEF Known
  <2>3. PICK t : /\ Moves(r, t) /\ t.pc = pc /\ Same(q, t) /\ t.ok = q.ok
                 /\ t.user = u /\ spent' = spent
                 /\ pc = "newLink" => t.to = users[u].email
    BY <1>1, <2>1, <2>2, ReadMoves DEF Pcs
  <2>4. t.op = q.op
    BY <2>3 DEF Same
  <2>5. t.op \notin LinkOps
    BY <1>2, <2>4 DEF LinkOps, UserOps
  <2>6. Brings(t)
    BY <1>2, <2>1, <2>3, <2>4, BringsOn DEF Stops, Enders, UserOps
  <2>7. Learnt(t)
    <3>1. u \in born /\ users[u].email \in Emails
      BY <2>2, UserFacts
    <3>2. ~Used(t) /\ ~Shown(t) /\ t.pc \notin {"erase", "mark"}
      BY <2>1, <2>3, <2>5 DEF Used, Shown, LinkOps
    <3>3. t.pc = "revoke" => AtOnce(t)
      BY <2>1, <2>3, <2>4 DEF AtOnce
    <3>4. t.op # "deleteVerify" /\ ~(t.op = "changeEmail" /\ t.pc = "rename")
      BY <2>1, <2>3, <2>4, <2>5 DEF LinkOps
    <3>5. t.pc = "newLink" => t.to \in Emails
      BY <2>3, <3>1
    <3> QED  BY <2>3, <3>1, <3>2, <3>3, <3>4, <3>5 DEF Learnt
  <2>8. Barred(t)
    BY <1>2, <2>1, <2>3, <2>4, BarredOn DEF Revoked
  <2> QED  BY <1>5, <2>3, <2>6, <2>7, <2>8, QuietKeeps DEF Carries, history
<1>8. ASSUME Known(u), ~Error(r)
      PROVE  \E pc \in {"write", "free", "rename", "revoke", "newLink"} :
             /\ Known(u) /\ Read(r, u, pc)
             /\ pc = "write" <=> q.op \in {"changePassword", "setPassword"}
             /\ pc = "free" <=> q.op = "changeEmail"
             /\ pc = "rename" <=> q.op = "updateUser"
             /\ pc = "revoke" => AtOnce(q)
  BY <1>1, <1>2, <1>3, <1>8 DEF Authenticate, UserOps
<1> QED  BY <1>1, <1>3, <1>6, <1>7, <1>8 DEF Authenticate

LEMMA CheckFreeKeeps ==
  ASSUME AccountsInv, NEW r \in Requests, CheckFree(r)
  PROVE  AccountsInv'
<1>1. PICK q : q = reqs[r]
  OBVIOUS
<1>2. /\ q \in Task /\ q.pc = "free" /\ q.op \in {"changeEmail", "changeVerify"}
      /\ Brings(q) /\ Learnt(q) /\ Barred(q)
  BY <1>1 DEF CheckFree, At, AccountsInv, Carries, Brings, Stops
<1>3. UNCHANGED <<tables, lapsed, menu, issued, proven, born>>
  BY DEF CheckFree
<1>4. CASE Error(r)
  BY <1>3, <1>4, ErrorKeeps DEF AccountsInv, UsersFine
<1>5. CASE \E pc \in {"discard", "rename", "newLink"} :
             /\ Go(r, pc)
             /\ pc = "discard" => q.op = "changeVerify"
             /\ pc = "newLink" => q.op = "changeEmail"
             /\ pc = "rename" /\ q.op = "changeEmail" => AtOnce(q)
  <2>1. PICK pc \in {"discard", "rename", "newLink"} :
             /\ Go(r, pc)
             /\ pc = "discard" => q.op = "changeVerify"
             /\ pc = "newLink" => q.op = "changeEmail"
             /\ pc = "rename" /\ q.op = "changeEmail" => AtOnce(q)
    BY <1>5
  <2>2. PICK t : /\ Moves(r, t) /\ t.pc = pc /\ Same(q, t) /\ t.ok = q.ok
                 /\ t.user = q.user /\ spent' = spent
    BY <1>1, <2>1, GoMoves DEF Pcs
  <2>3. t.op = q.op /\ t.link = q.link
    BY <2>2 DEF Same
  <2>4. Brings(t)
    BY <1>2, <2>1, <2>2, <2>3, BringsOn DEF Stops
  <2>5. Learnt(t)
    <3>1. t.user \in born
      BY <1>2, <2>2 DEF Learnt, Met
    <3>2. Shown(t) => Fits(t.op, links[t.link]) /\ links[t.link].to \in proven
      BY <1>2, <2>2, <2>3 DEF Learnt, Shown
    <3>3. ~Used(t) /\ t.op \notin {"deleteVerify", "deleteUser"} /\ t.pc # "mark"
      BY <1>2, <2>1, <2>2, <2>3 DEF Used
    <3>4. t.op = "changeEmail" /\ t.pc = "rename" => AtOnce(t)
      BY <2>1, <2>2, <2>3 DEF AtOnce
    <3>5. t.pc = "newLink" => t.op = "changeEmail"
      BY <2>1, <2>2, <2>3
    <3> QED  BY <3>1, <3>2, <3>3, <3>4, <3>5 DEF Learnt
  <2>6. Barred(t)
    BY <1>2, <2>1, <2>2, <2>3, BarredOn DEF Revoked
  <2> QED  BY <1>3, <2>2, <2>4, <2>5, <2>6, QuietKeeps DEF Carries, history
<1> QED  BY <1>1, <1>2, <1>4, <1>5 DEF CheckFree
-----------------------------------------------------------------------------
(* Requests that write.                                                     *)

LEMMA UsersRest ==
  ASSUME AccountsInv, UNCHANGED <<users, byEmail, proven, born>>
  PROVE  UsersFine'
BY DEF AccountsInv, UsersFine, VerifiedProven, ProvesFirst

LEMMA SessionsRest ==
  ASSUME AccountsInv, UNCHANGED <<sessions, issued>>
  PROVE  SessionsFine'
BY DEF AccountsInv, SessionsFine

LEMMA LinksRest ==
  ASSUME AccountsInv, UNCHANGED <<links, lapsed>>, stored' \subseteq stored,
         spent' \subseteq Drawn \ stored'
  PROVE  LinksFine'
BY DEF AccountsInv, LinksFine, Drawn

LEMMA SpentFacts ==
  ASSUME AccountsInv
  PROVE  spent \subseteq Drawn \ stored
BY DEF AccountsInv, LinksFine

\* A row is written for a user that is there, the address left alone.
LEMMA RowFacts ==
  ASSUME AccountsInv, NEW u \in Users, users[u] # None, NEW row \in User,
         row.email = users[u].email,
         ProvesFirst /\ row.verified => users[u].verified \/ row.email \in proven,
         users' = [users EXCEPT ![u] = row], UNCHANGED <<byEmail, proven, born>>
  PROVE  /\ UsersFine'
         /\ \A v \in born : users'[v] # None =>
              users[v] # None /\ users'[v].email = users[v].email
<1>1. row # None
  BY NoneAssumption
<1>2. users' \in [Users -> User \cup {None}]
  BY DEF AccountsInv, UsersFine
<1>3. \A v \in Users : users'[v] = IF v = u THEN row ELSE users[v]
  BY DEF AccountsInv, UsersFine
<1>4. \A v \in Users : users'[v] # None =>
        users[v] # None /\ users'[v].email = users[v].email
  BY <1>3
<1>5. \A e \in Emails : byEmail[e] # None =>
        users'[byEmail[e]] # None /\ users'[byEmail[e]].email = e
  BY <1>1, <1>3 DEF AccountsInv, UsersFine
<1>6. ProvesFirst => VerifiedProven'
  BY <1>3 DEF AccountsInv, UsersFine, VerifiedProven
<1>7. UsersFine'
  BY <1>2, <1>4, <1>5, <1>6 DEF AccountsInv, UsersFine, ProvesFirst
<1> QED  BY <1>4, <1>7 DEF AccountsInv, UsersFine

\* A task that has met its user goes on to t, or answers.
LEMMA WriterFacts ==
  ASSUME AccountsInv, NEW r \in Requests, NEW q, q = reqs[r], q.pc # "idle"
  PROVE  /\ q \in Task /\ q.op \in Stops[q.pc] /\ Brings(q) /\ Learnt(q) /\ Barred(q)
         /\ Met(q) => q.user \in Users /\ q.user \in born /\ q.user # None
BY DEF AccountsInv, Carries, Brings, Learnt, UsersFine

LEMMA MissingKeeps ==
  ASSUME AccountsInv, NEW r \in Requests, Missing(r),
         UNCHANGED <<sessions, links, stored, lapsed, menu, issued, proven, born>>
  PROVE  AccountsInv'
BY ErrorKeeps DEF Missing, tables, AccountsInv, UsersFine

\* The answer of an operation that presented no link.
LEMMA AnswerKeeps ==
  ASSUME AccountsInv, NEW r \in Requests, reqs[r].pc # "idle", Done(r),
         reqs[r].op \notin LinkOps, Evolves, UsersFine', SessionsFine', menu' = menu,
         spent' = spent => LinksFine'
  PROVE  AccountsInv'
<1>1. spent' = spent /\ \E t : Moves(r, t) /\ Carries(t)'
  BY DoneFacts
<1> QED  BY <1>1, StepKeeps

LEMMA WritePasswordKeeps ==
  ASSUME AccountsInv, NEW r \in Requests, WritePassword(r)
  PROVE  AccountsInv'
<1>1. PICK q : q = reqs[r]
  OBVIOUS
<1>2. /\ q \in Task /\ q.pc = "write" /\ q.op \in {"reset", "changePassword", "setPassword"}
      /\ Brings(q) /\ Learnt(q) /\ Barred(q)
      /\ q.user \in Users /\ q.user \in born
  BY <1>1, WriterFacts DEF WritePassword, At, Stops, Met
<1>3. UNCHANGED <<sessions, links, stored, lapsed, menu, issued, proven, born>>
  BY DEF WritePassword
<1>4. CASE Missing(r)
  BY <1>3, <1>4, MissingKeeps
<1>5. CASE /\ users[q.user] # None
           /\ users' = [users EXCEPT ![q.user].password = q.password]
           /\ UNCHANGED byEmail
           /\ \/ q.op = "reset" /\ Go(r, "unlink")
              \/ q.op = "changePassword" /\ Go(r, "revoke")
              \/ q.op # "reset" /\ Done(r)
  <2>1. PICK row : row = [users[q.user] EXCEPT !.password = q.password]
    OBVIOUS
  <2>2. users[q.user] \in User
    BY <1>2, <1>5, UserFacts
  <2>3. row \in User /\ row.email = users[q.user].email
        /\ row.verified = users[q.user].verified
    BY <1>2, <2>1, <2>2, FieldFacts DEF User
  <2>4. users' = [users EXCEPT ![q.user] = row]
    BY <1>5, <2>1
  <2>5. UsersFine' /\ \A v \in born : users'[v] # None =>
                        users[v] # None /\ users'[v].email = users[v].email
    <3>1. row.verified => users[q.user].verified
      BY <2>3
    <3>2. q.user \in Users /\ row \in User /\ row.email = users[q.user].email
      BY <1>2, <2>3
    <3>3. UNCHANGED <<byEmail, proven, born>>
      BY <1>3, <1>5
    <3> QED  BY <1>5, <2>4, <3>1, <3>2, <3>3, RowFacts
  <2>6. SessionsFine'
    BY <1>3, SessionsRest
  <2>7. spent \subseteq spent' => Evolves
    BY <1>3, <2>5 DEF Evolves
  <2>8. spent' = spent => LinksFine'
    BY <1>3, SpentFacts, LinksRest
  <2>9. CASE \E pc \in {"unlink", "revoke"} :
               /\ Go(r, pc)
               /\ pc = "unlink" => q.op = "reset"
               /\ pc = "revoke" => q.op = "changePassword"
    <3>1. PICK pc \in {"unlink", "revoke"} :
               /\ Go(r, pc)
               /\ pc = "unlink" => q.op = "reset"
               /\ pc = "revoke" => q.op = "changePassword"
      BY <2>9
    <3>2. PICK t : /\ Moves(r, t) /\ t.pc = pc /\ Same(q, t) /\ t.ok = q.ok
                   /\ t.user = q.user /\ spent' = spent
      BY <1>1, <3>1, GoMoves DEF Pcs
    <3>3. t.op = q.op /\ t.link = q.link
      BY <3>2 DEF Same
    <3>4. Brings(t)
      BY <1>2, <3>1, <3>2, <3>3, BringsOn DEF Stops, LinkOps, Enders
    <3>5. Learnt(t)
      <4>1. Shown(t) => Fits(t.op, links[t.link]) /\ links[t.link].to \in proven
        BY <1>2, <3>2, <3>3 DEF Learnt, Shown
      <4>2. ~Used(t)
        BY <3>1, <3>2, <3>3 DEF Used
      <4> QED  BY <1>2, <3>1, <3>2, <3>3, <4>1, <4>2 DEF Learnt
    <3>6. Barred(t)
      BY <1>2, <3>1, <3>2, <3>3, BarredOn DEF Revoked
    <3>7. Evolves /\ LinksFine'
      BY <2>7, <2>8, <3>2
    <3>8. Carries(t)'
      BY <3>2, <3>4, <3>5, <3>6, <3>7, CarriesOn DEF Carries, Moves, AccountsInv
    <3> QED  BY <1>3, <2>5, <2>6, <3>2, <3>7, <3>8, StepKeeps
  <2>10. CASE q.op # "reset" /\ Done(r)
    <3>1. q.op \notin LinkOps
      BY <1>2, <2>10 DEF LinkOps
    <3>2. spent' = spent
      BY <1>1, <1>2, <2>10, <3>1, DoneFacts
    <3> QED  BY <1>1, <1>2, <1>3, <2>5, <2>6, <2>7, <2>8, <2>10, <3>1, <3>2, AnswerKeeps
  <2> QED  BY <1>5, <2>9, <2>10
<1> QED  BY <1>1, <1>2, <1>4, <1>5 DEF WritePassword, Present

LEMMA MarkVerifiedKeeps ==
  ASSUME AccountsInv, NEW r \in Requests, MarkVerified(r)
  PROVE  AccountsInv'
<1>1. PICK q : q = reqs[r]
  OBVIOUS
<1>2. /\ q \in Task /\ q.pc = "mark" /\ q.op = "verify"
      /\ Brings(q) /\ Learnt(q) /\ Barred(q)
      /\ q.user \in Users /\ q.user \in born
  BY <1>1, WriterFacts DEF MarkVerified, At, Stops, Met
<1>3. UNCHANGED <<sessions, links, stored, lapsed, menu, issued, proven, born>>
  BY DEF MarkVerified
<1>4. CASE Missing(r)
  BY <1>3, <1>4, MissingKeeps
<1>5. CASE /\ users[q.user] # None
           /\ users' = [users EXCEPT ![q.user].verified = TRUE]
           /\ UNCHANGED byEmail
           /\ Go(r, "unlink")
  <2>1. PICK row : row = [users[q.user] EXCEPT !.verified = TRUE]
    OBVIOUS
  <2>2. users[q.user] \in User
    BY <1>2, <1>5, UserFacts
  <2>3. row \in User /\ row.email = users[q.user].email
    BY <2>1, <2>2 DEF User
  <2>4. users' = [users EXCEPT ![q.user] = row]
    BY <1>5, <2>1
  <2>5. ProvesFirst => row.email \in proven
    BY <1>2, <1>5, <2>3 DEF Learnt
  <2>6. UsersFine' /\ \A v \in born : users'[v] # None =>
                        users[v] # None /\ users'[v].email = users[v].email
    <3>1. UNCHANGED <<byEmail, proven, born>>
      BY <1>3, <1>5
    <3> QED  BY <1>2, <1>5, <2>3, <2>4, <2>5, <3>1, RowFacts
  <2>7. PICK t : /\ Moves(r, t) /\ t.pc = "unlink" /\ Same(q, t) /\ t.ok = q.ok
                 /\ t.user = q.user /\ spent' = spent
    BY <1>1, <1>5, GoMoves DEF Pcs
  <2>8. t.op = "verify" /\ t.link = q.link
    BY <1>2, <2>7 DEF Same
  <2>9. Brings(t)
    BY <1>2, <2>7, <2>8, BringsOn DEF Stops, LinkOps
  <2>10. Learnt(t)
    <3>1. Shown(t) => Fits(t.op, links[t.link]) /\ links[t.link].to \in proven
      BY <1>2, <2>8 DEF Learnt, Shown
    <3>2. ~Used(t)
      BY <2>7, <2>8 DEF Used
    <3> QED  BY <1>2, <2>7, <2>8, <3>1, <3>2 DEF Learnt
  <2>11. Barred(t)
    BY <1>2, <2>7, <2>8, BarredOn DEF Revoked
  <2>12. Evolves
    BY <1>3, <2>6, <2>7 DEF Evolves
  <2>13. SessionsFine' /\ LinksFine'
    BY <1>3, <2>7, SessionsRest, LinksRest, SpentFacts
  <2>14. Carries(t)'
    BY <2>7, <2>9, <2>10, <2>11, <2>12, CarriesOn DEF Carries, Moves, AccountsInv
  <2> QED  BY <1>3, <2>6, <2>7, <2>12, <2>13, <2>14, StepKeeps
<1> QED  BY <1>1, <1>2, <1>4, <1>5 DEF MarkVerified, Present

\* A user that is there takes an address that it may have.
LEMMA IndexFacts ==
  ASSUME AccountsInv, NEW u \in Users, users[u] # None, NEW e \in Emails,
         NEW row \in User, row.email = e,
         ProvesFirst => e \in proven,
         users' = [users EXCEPT ![u] = row], byEmail' = Indexed(u, e),
         UNCHANGED <<proven, born>>
  PROVE  /\ UsersFine'
         /\ ProvesFirst => \A v \in born : users'[v] # None =>
              (users[v] # None /\ users'[v].email = users[v].email) \/ users'[v].email \in proven
<1>1. row # None
  BY NoneAssumption
<1>2. users[u].email \in Emails
  BY UserFacts
<1>3. \A v \in Users : users'[v] = IF v = u THEN row ELSE users[v]
  BY DEF AccountsInv, UsersFine
<1>4. \A x \in Emails : byEmail'[x] = IF x = e THEN u
                                      ELSE IF x = users[u].email THEN None ELSE byEmail[x]
  BY <1>2 DEF AccountsInv, UsersFine, Indexed
<1>5. users' \in [Users -> User \cup {None}] /\ byEmail' \in [Emails -> Users \cup {None}]
  BY <1>2 DEF AccountsInv, UsersFine, Indexed
<1>6. ASSUME NEW x \in Emails, byEmail'[x] # None
      PROVE  users'[byEmail'[x]] # None /\ users'[byEmail'[x]].email = x
  <2>1. CASE x = e
    BY <1>1, <1>3, <1>4, <2>1
  <2>2. CASE x # e
    <3>1. x # users[u].email /\ byEmail'[x] = byEmail[x]
      BY <1>4, <1>6, <2>2
    <3>2. users[byEmail[x]] # None /\ users[byEmail[x]].email = x /\ byEmail[x] \in Users
      BY <1>6, <3>1 DEF AccountsInv, UsersFine
    <3> QED  BY <1>3, <3>1, <3>2
  <2> QED  BY <2>1, <2>2
<1>7. ProvesFirst => VerifiedProven'
  BY <1>3 DEF AccountsInv, UsersFine, VerifiedProven
<1>8. \A v \in Users : users'[v] # None => v \in born
  BY <1>3 DEF AccountsInv, UsersFine
<1>9. UsersFine'
  BY <1>5, <1>6, <1>7, <1>8 DEF AccountsInv, UsersFine, ProvesFirst
<1> QED  BY <1>3, <1>9 DEF AccountsInv, UsersFine

LEMMA NewEmailFacts ==
  ASSUME AccountsInv, NEW q, q.pc = "rename", Brings(q), Learnt(q)
  PROVE  /\ NewEmail(q) \in Emails
         /\ ProvesFirst => NewEmail(q) \in proven
<1>1. q.op \in {"changeEmail", "updateUser", "changeVerify"}
  BY DEF Brings, Stops
<1>2. CASE q.op = "changeVerify"
  <2>1. q.link \in Drawn /\ links[q.link].kind = "change" /\ links[q.link].to \in proven
    BY <1>2 DEF Brings, Learnt, Shown, LinkOps, Fits
  <2>2. links[q.link].email = links[q.link].to
    BY <2>1 DEF AccountsInv, LinksFine
  <2> QED  BY <1>2, <2>1, <2>2 DEF NewEmail, AccountsInv, UsersFine
<1>3. CASE q.op # "changeVerify"
  <2>1. NewEmail(q) \in Emails
    BY <1>1, <1>3 DEF NewEmail, Brings
  <2>2. ~ProvesFirst
    BY <1>1, <1>3 DEF Brings, Learnt, AtOnce, ProvesFirst
  <2> QED  BY <2>1, <2>2
<1> QED  BY <1>2, <1>3

LEMMA RenameKeeps ==
  ASSUME AccountsInv, NEW r \in Requests, Rename(r)
  PROVE  AccountsInv'
<1>1. PICK q : q = reqs[r]
  OBVIOUS
<1>2. /\ q \in Task /\ q.pc = "rename" /\ q.op \in {"changeEmail", "updateUser", "changeVerify"}
      /\ Brings(q) /\ Learnt(q) /\ Barred(q)
      /\ q.user \in Users /\ q.user \in born
  BY <1>1, WriterFacts DEF Rename, At, Stops, Met
<1>3. UNCHANGED <<sessions, links, stored, lapsed, menu, issued, proven, born>>
  BY DEF Rename
<1>4. CASE Missing(r)
  BY <1>3, <1>4, MissingKeeps
<1>5. CASE Error(r) /\ UNCHANGED <<users, byEmail>>
  BY <1>3, <1>5, ErrorKeeps DEF tables, AccountsInv, UsersFine
<1>6. PICK e : e = NewEmail(q)
  OBVIOUS
<1>7. e \in Emails /\ (ProvesFirst => e \in proven)
  BY <1>2, <1>6, NewEmailFacts
<1>8. CASE /\ users[q.user] # None
           /\ users' = [users EXCEPT ![q.user].email = e, ![q.user].verified = Verified(q)]
           /\ byEmail' = Indexed(q.user, e)
           /\ \/ q.op = "changeVerify" /\ Go(r, "unlink")
              \/ q.op # "changeVerify" /\ Done(r)
  <2>1. PICK row : row = [users[q.user] EXCEPT !.email = e, !.verified = Verified(q)]
    OBVIOUS
  <2>2. users[q.user] \in User
    BY <1>2, <1>8, UserFacts
  <2>3. row \in User /\ row.email = e
    <3>1. Verified(q) \in BOOLEAN
      BY <1>2, <2>2 DEF Verified, User
    <3> QED  BY <1>7, <2>1, <2>2, <3>1 DEF User
  <2>4. users' = [users EXCEPT ![q.user] = row]
    BY <1>8, <2>1
  <2>5. /\ UsersFine'
        /\ ProvesFirst => \A v \in born : users'[v] # None =>
             (users[v] # None /\ users'[v].email = users[v].email) \/ users'[v].email \in proven
    <3>1. UNCHANGED <<proven, born>>
      BY <1>3
    <3> QED  BY <1>2, <1>7, <1>8, <2>3, <2>4, <3>1, IndexFacts
  <2>6. SessionsFine'
    BY <1>3, SessionsRest
  <2>7. spent \subseteq spent' => Evolves
    BY <1>3, <2>5 DEF Evolves
  <2>8. spent' = spent => LinksFine'
    BY <1>3, SpentFacts, LinksRest
  <2>9. CASE q.op = "changeVerify" /\ Go(r, "unlink")
    <3>1. PICK t : /\ Moves(r, t) /\ t.pc = "unlink" /\ Same(q, t) /\ t.ok = q.ok
                   /\ t.user = q.user /\ spent' = spent
      BY <1>1, <2>9, GoMoves DEF Pcs
    <3>2. t.op = "changeVerify" /\ t.link = q.link
      BY <2>9, <3>1 DEF Same
    <3>3. Brings(t)
      BY <1>2, <3>1, <3>2, BringsOn DEF Stops, LinkOps
    <3>4. Learnt(t)
      <4>1. Shown(t) => Fits(t.op, links[t.link]) /\ links[t.link].to \in proven
        BY <1>2, <2>9, <3>2 DEF Learnt, Shown
      <4>2. ~Used(t)
        BY <3>1, <3>2 DEF Used
      <4> QED  BY <1>2, <3>1, <3>2, <4>1, <4>2 DEF Learnt
    <3>5. Barred(t)
      BY <1>2, <3>1, <3>2, BarredOn DEF Revoked
    <3>6. Evolves /\ LinksFine'
      BY <2>7, <2>8, <3>1
    <3>7. Carries(t)'
      BY <3>1, <3>3, <3>4, <3>5, <3>6, CarriesOn DEF Carries, Moves, AccountsInv
    <3> QED  BY <1>3, <2>5, <2>6, <3>1, <3>6, <3>7, StepKeeps
  <2>10. CASE q.op # "changeVerify" /\ Done(r)
    <3>1. q.op \notin LinkOps
      BY <1>2, <2>10 DEF LinkOps
    <3>2. spent' = spent
      BY <1>1, <1>2, <2>10, <3>1, DoneFacts
    <3> QED  BY <1>1, <1>2, <1>3, <2>5, <2>6, <2>7, <2>8, <2>10, <3>1, <3>2, AnswerKeeps
  <2> QED  BY <1>8, <2>9, <2>10
<1> QED  BY <1>1, <1>2, <1>4, <1>5, <1>6, <1>8 DEF Rename, Present

LEMMA CreateUserKeeps ==
  ASSUME AccountsInv, NEW r \in Requests, CreateUser(r)
  PROVE  AccountsInv'
<1>1. PICK q : q = reqs[r]
  OBVIOUS
<1>2. /\ q \in Task /\ q.pc = "create" /\ q.op = "signUp"
      /\ Brings(q) /\ Learnt(q) /\ Barred(q)
      /\ q.email \in Emails /\ q.password \in Passwords \cup {None}
  <2>1. /\ q \in Task /\ q.pc = "create" /\ q.op = "signUp"
        /\ Brings(q) /\ Learnt(q) /\ Barred(q)
    <3>1. q.pc = "create"
      BY <1>1 DEF CreateUser, At
    <3> QED  BY <1>1, <3>1, WriterFacts DEF Stops
  <2> QED  BY <2>1, FieldFacts DEF Brings, MailOps
<1>3. UNCHANGED <<sessions, links, stored, lapsed, menu, issued, proven>>
  BY DEF CreateUser
<1>4. CASE Error(r) /\ UNCHANGED <<users, byEmail, born>>
  BY <1>3, <1>4, ErrorKeeps DEF tables, AccountsInv, UsersFine
<1>5. CASE \E u \in Users \ born :
             /\ byEmail[q.email] = None
             /\ users' = [users EXCEPT ![u] =
                  [email |-> q.email, verified |-> FALSE, password |-> q.password]]
             /\ byEmail' = [byEmail EXCEPT ![q.email] = u]
             /\ born' = born \cup {u}
             /\ Become(r, [q EXCEPT !.pc = "insert", !.user = u])
             /\ spent' = spent
  <2>1. PICK u \in Users \ born :
             /\ byEmail[q.email] = None
             /\ users' = [users EXCEPT ![u] =
                  [email |-> q.email, verified |-> FALSE, password |-> q.password]]
             /\ byEmail' = [byEmail EXCEPT ![q.email] = u]
             /\ born' = born \cup {u}
             /\ Become(r, [q EXCEPT !.pc = "insert", !.user = u])
             /\ spent' = spent
    BY <1>5
  <2>2. PICK row : row = [email |-> q.email, verified |-> FALSE, password |-> q.password]
    OBVIOUS
  <2>3. row \in User /\ row # None /\ row.email = q.email /\ row.verified = FALSE
    <3>1. row \in User
      BY <1>2, <2>2 DEF User
    <3> QED  BY <2>2, <3>1, NoneAssumption
  <2>4. users[u] = None /\ u # None
    BY <2>1 DEF AccountsInv, UsersFine
  <2>5. \A v \in Users : users'[v] = IF v = u THEN row ELSE users[v]
    BY <2>1, <2>2 DEF AccountsInv, UsersFine
  <2>6. \A x \in Emails : byEmail'[x] = IF x = q.email THEN u ELSE byEmail[x]
    BY <1>2, <2>1 DEF AccountsInv, UsersFine
  <2>7. UsersFine'
    <3>1. users' \in [Users -> User \cup {None}] /\ byEmail' \in [Emails -> Users \cup {None}]
      BY <1>2, <2>1, <2>2, <2>3 DEF AccountsInv, UsersFine
    <3>2. \A x \in Emails : byEmail'[x] # None =>
            users'[byEmail'[x]] # None /\ users'[byEmail'[x]].email = x
      <4>1. \A x \in Emails : byEmail[x] # None =>
              byEmail[x] \in Users /\ byEmail[x] # u /\ users[byEmail[x]] # None
              /\ users[byEmail[x]].email = x
        BY <2>4 DEF AccountsInv, UsersFine
      <4>2. ASSUME NEW x \in Emails, byEmail'[x] # None
            PROVE  users'[byEmail'[x]] # None /\ users'[byEmail'[x]].email = x
        <5>1. CASE x = q.email
          BY <2>1, <2>3, <2>5, <2>6, <5>1
        <5>2. CASE x # q.email
          BY <2>5, <2>6, <4>1, <4>2, <5>2
        <5> QED  BY <5>1, <5>2
      <4> QED  BY <4>2
    <3>3. born' \subseteq Users /\ \A v \in Users : users'[v] # None => v \in born'
      BY <2>1, <2>5 DEF AccountsInv, UsersFine
    <3>4. ProvesFirst => VerifiedProven'
      BY <1>3, <2>3, <2>5 DEF AccountsInv, UsersFine, VerifiedProven
    <3> QED  BY <1>3, <3>1, <3>2, <3>3, <3>4 DEF AccountsInv, UsersFine, ProvesFirst
  <2>8. \A v \in born : users'[v] = users[v]
    BY <2>1, <2>5 DEF AccountsInv, UsersFine
  <2>9. Evolves
    BY <1>3, <2>1, <2>8 DEF Evolves
  <2>10. SessionsFine' /\ LinksFine'
    BY <1>3, <2>1, SessionsRest, LinksRest, SpentFacts
  <2>11. PICK t : t = [q EXCEPT !.pc = "insert", !.user = u]
    OBVIOUS
  <2>12. t \in Task /\ t.pc = "insert" /\ Same(q, t) /\ t.user = u /\ t.ok = q.ok
    <3>1. t \in Task
      <4>1. q \in Task /\ "insert" \in Pcs /\ u \in Users \cup {None}
        BY <1>2, <2>1 DEF Pcs
      <4> QED  BY <2>11, <4>1 DEF Task
    <3>2. t.pc = "insert" /\ t.user = u /\ t.ok = q.ok
      BY <1>2, <2>11 DEF Task
    <3>3. Same(q, t)
      BY <1>2, <2>11 DEF Task, Same
    <3> QED  BY <3>1, <3>2, <3>3
  <2>13. Moves(r, t)
    BY <2>1, <2>11, <2>12, BecomeFacts DEF AccountsInv
  <2>14. t.op = "signUp"
    BY <1>2, <2>12 DEF Same
  <2>15. Brings(t)
    BY <1>2, <2>12, <2>14, BringsOn DEF Stops
  <2>16. Carries(t)'
    <3>1. Brings(t)'
      BY <1>3, <2>15 DEF Brings, Drawn
    <3>2. Learnt(t)'
      BY <2>1, <2>12, <2>14 DEF Learnt, Met, Shown, Used, LinkOps
    <3>3. Barred(t)
      BY <1>2, <2>12, <2>14, BarredOn DEF Revoked
    <3>4. Barred(t)'
      BY <1>3, <2>1, <2>12, <2>14, <3>3 DEF Barred, Revoked
    <3> QED  BY <3>1, <3>2, <3>4 DEF Carries
  <2> QED  BY <1>3, <2>7, <2>9, <2>10, <2>13, <2>16, StepKeeps
<1> QED  BY <1>1, <1>4, <1>5 DEF CreateUser

LEMMA LetterFacts ==
  ASSUME AccountsInv, NEW q \in Task, q.pc = "newLink", Brings(q), Learnt(q)
  PROVE  /\ Letter(q) \in Link /\ Letter(q) # None
         /\ Letter(q).kind # "delete" => Letter(q).to = Letter(q).email
<1>1. q.user \in Users /\ (q.op # "changeEmail" => q.to \in Emails)
      /\ (q.op = "changeEmail" => q.email \in Emails)
  BY DEF Brings, Learnt, Met, AccountsInv, UsersFine
<1>2. Letter(q) \in Link /\ (Letter(q).kind # "delete" => Letter(q).to = Letter(q).email)
  BY <1>1 DEF Letter, Link
<1> QED  BY <1>2, NoneAssumption

LEMMA NewLinkKeeps ==
  ASSUME AccountsInv, NEW r \in Requests, NewLink(r)
  PROVE  AccountsInv'
<1>1. PICK q : q = reqs[r]
  OBVIOUS
<1>2. /\ q \in Task /\ q.pc = "newLink" /\ q.op \notin LinkOps
      /\ Brings(q) /\ Learnt(q) /\ Barred(q)
      /\ q.user \in Users /\ q.user \in born
  BY <1>1, WriterFacts DEF NewLink, At, Stops, Met, LinkOps
<1>3. UNCHANGED <<users, byEmail, sessions, lapsed, menu, issued, proven, born>>
  BY DEF NewLink
<1>4. PICK k \in Links \ Drawn : /\ links' = [links EXCEPT ![k] = Letter(q)]
                                 /\ stored' = stored \cup {k}
  BY <1>1 DEF NewLink
<1>5. PICK x : x = Letter(q)
  OBVIOUS
<1>6. x \in Link /\ x # None /\ (x.kind # "delete" => x.to = x.email)
  BY <1>2, <1>5, LetterFacts
<1>7. \A l \in Links : links'[l] = IF l = k THEN x ELSE links[l]
  BY <1>4, <1>5 DEF AccountsInv, LinksFine
<1>8. Drawn' = Drawn \cup {k} /\ k \notin Drawn
  BY <1>4, <1>6, <1>7 DEF Drawn
<1>9. spent' = spent => LinksFine'
  <2>1. links' \in [Links -> Link \cup {None}]
    BY <1>4, <1>5, <1>6 DEF AccountsInv, LinksFine
  <2>2. \A l \in Drawn' : links'[l].kind # "delete" => links'[l].to = links'[l].email
    BY <1>6, <1>7, <1>8 DEF AccountsInv, LinksFine, Drawn
  <2>3. stored' \subseteq Drawn' /\ lapsed' \subseteq Drawn'
    BY <1>3, <1>4, <1>8 DEF AccountsInv, LinksFine
  <2>4. spent \subseteq Drawn' /\ spent \cap stored' = {}
    BY <1>4, <1>8 DEF AccountsInv, LinksFine
  <2> QED  BY <2>1, <2>2, <2>3, <2>4 DEF LinksFine
<1>10. spent \subseteq spent' => Evolves
  <2>1. \A l \in Drawn : links'[l] = links[l]
    BY <1>7, <1>8 DEF Drawn
  <2>2. stored' \cap Drawn \subseteq stored
    BY <1>4, <1>8
  <2> QED  BY <1>3, <2>1, <2>2 DEF Evolves, AccountsInv, SessionsFine, UsersFine
<1>11. UsersFine' /\ SessionsFine'
  BY <1>3, UsersRest, SessionsRest
<1>12. CASE q.op = "signIn" /\ Go(r, "insert")
  <2>1. PICK t : /\ Moves(r, t) /\ t.pc = "insert" /\ Same(q, t) /\ t.ok = q.ok
                 /\ t.user = q.user /\ spent' = spent
    BY <1>1, <1>12, GoMoves DEF Pcs
  <2>2. t.op = "signIn"
    BY <1>12, <2>1 DEF Same
  <2>3. Brings(t)
    BY <1>2, <2>1, <2>2, BringsOn DEF Stops
  <2>4. Learnt(t)
    BY <1>2, <2>1, <2>2 DEF Learnt, Shown, Used, LinkOps
  <2>5. Barred(t)
    BY <1>2, <2>1, <2>2, BarredOn DEF Revoked
  <2>6. Evolves /\ LinksFine'
    BY <1>9, <1>10, <2>1
  <2>7. Carries(t)'
    BY <2>1, <2>3, <2>4, <2>5, <2>6, CarriesOn DEF Carries, Moves, AccountsInv
  <2> QED  BY <1>3, <1>11, <2>1, <2>6, <2>7, StepKeeps
<1>13. CASE Done(r)
  <2>1. spent' = spent
    BY <1>1, <1>2, <1>13, DoneFacts
  <2> QED  BY <1>1, <1>2, <1>3, <1>9, <1>10, <1>11, <1>13, <2>1, AnswerKeeps
<1> QED  BY <1>1, <1>12, <1>13 DEF NewLink

LEMMA UnlinkKeeps ==
  ASSUME AccountsInv, NEW r \in Requests, Unlink(r)
  PROVE  AccountsInv'
<1>1. PICK q : q = reqs[r]
  OBVIOUS
<1>2. q.pc = "unlink"
  BY <1>1 DEF Unlink, At
<1>3. /\ q \in Task /\ q.op \in LinkOps
      /\ Brings(q) /\ Learnt(q) /\ Barred(q) /\ q.link \in Drawn
  BY <1>1, <1>2, WriterFacts DEF Stops, Brings
<1>4. UNCHANGED <<users, byEmail, sessions, links, lapsed, menu, issued, proven, born>>
  BY DEF Unlink
<1>5. stored' = stored \ {q.link}
  BY <1>1 DEF Unlink, Left
<1>6. UsersFine' /\ SessionsFine'
  BY <1>4, UsersRest, SessionsRest
<1>7. spent \subseteq spent' => Evolves
  BY <1>4, <1>5 DEF Evolves, AccountsInv, SessionsFine, UsersFine
<1>8. spent' \subseteq spent \cup {q.link} => LinksFine'
  BY <1>3, <1>4, <1>5, SpentFacts, LinksRest
<1>9. CASE Done(r)
  <2>1. /\ \E t : Moves(r, t) /\ Carries(t)'
        /\ spent' = spent \cup {q.link}
    BY <1>1, <1>2, <1>3, <1>9, DoneFacts
  <2> QED  BY <1>4, <1>6, <1>7, <1>8, <2>1, StepKeeps
<1>10. CASE \E pc \in {"revoke", "insert"} :
              /\ Go(r, pc)
              /\ q.op = [revoke |-> "reset", insert |-> "verify"][pc]
  <2>1. PICK pc \in {"revoke", "insert"} :
              /\ Go(r, pc)
              /\ q.op = [revoke |-> "reset", insert |-> "verify"][pc]
    BY <1>10
  <2>2. PICK t : /\ Moves(r, t) /\ t.pc = pc /\ Same(q, t) /\ t.ok = q.ok
                 /\ t.user = q.user /\ spent' = spent
    BY <1>1, <2>1, GoMoves DEF Pcs
  <2>3. t.op = q.op /\ t.link = q.link
    BY <2>2 DEF Same
  <2>4. Brings(t)
    BY <1>3, <2>1, <2>2, <2>3, BringsOn DEF Stops, Enders
  <2>5. Evolves /\ LinksFine'
    BY <1>7, <1>8, <2>2
  <2>6. Learnt(t)'
    <3>1. t.user \in born
      BY <1>2, <1>3, <2>1, <2>2 DEF Learnt, Met
    <3>2. Fits(t.op, links[t.link]) /\ links[t.link].to \in proven
      BY <1>2, <1>3, <2>3 DEF Learnt, Shown
    <3>3. t.link \notin stored'
      BY <1>5, <2>3
    <3>4. t.op \in {"reset", "verify"} /\ t.pc \in {"revoke", "insert"}
      BY <2>1, <2>2, <2>3
    <3> QED  BY <1>4, <3>1, <3>2, <3>3, <3>4 DEF Learnt, Fits, ProvesFirst, Shown, Used, Met,
             AtOnce
  <2>7. Barred(t)'
    <3>1. Barred(t)
      BY <1>2, <1>3, <2>1, <2>2, <2>3, BarredOn DEF Revoked
    <3>2. ~Revoked(t)
      BY <2>1, <2>2, <2>3 DEF Revoked
    <3> QED  BY <1>4, <2>2, <3>1, <3>2 DEF Barred, Revoked
  <2>8. Carries(t)'
    <3>1. Brings(t)'
      BY <1>4, <2>4 DEF Brings, Drawn
    <3> QED  BY <2>6, <2>7, <3>1 DEF Carries
  <2> QED  BY <1>4, <1>6, <2>2, <2>5, <2>8, StepKeeps
<1> QED  BY <1>1, <1>9, <1>10 DEF Unlink

LEMMA DiscardKeeps ==
  ASSUME AccountsInv, NEW r \in Requests, Discard(r)
  PROVE  AccountsInv'
<1>1. UNCHANGED <<users, byEmail, sessions, links, lapsed, menu, issued, proven, born>>
      /\ stored' \subseteq stored /\ spent' = spent
  BY DEF Discard, Error
<1>2. PICK t : t = Idle(FALSE)
  OBVIOUS
<1>3. t \in Task /\ Carries(t)' /\ Become(r, t)
  BY <1>2, IdleFacts, IdleCarries DEF Discard, Error
<1>4. Moves(r, t)
  BY <1>3, BecomeFacts DEF AccountsInv
<1>5. UsersFine' /\ SessionsFine' /\ LinksFine'
  BY <1>1, UsersRest, SessionsRest, LinksRest, SpentFacts
<1>6. Evolves
  BY <1>1 DEF Evolves, AccountsInv, SessionsFine, UsersFine
<1> QED  BY <1>1, <1>3, <1>4, <1>5, <1>6, StepKeeps

\* Sessions only end.
LEMMA EndedFacts ==
  ASSUME AccountsInv, sessions' \in [Tokens -> Users \cup {None}], issued' = issued,
         \A k \in Tokens : sessions'[k] \in {sessions[k], None}
  PROVE  SessionsFine' /\ \A k \in issued : sessions'[k] \in {sessions[k], None}
BY DEF AccountsInv, SessionsFine

LEMMA RevokeKeeps ==
  ASSUME AccountsInv, NEW r \in Requests, Revoke(r)
  PROVE  AccountsInv'
<1>1. PICK q : q = reqs[r]
  OBVIOUS
<1>2. q.pc = "revoke"
  BY <1>1 DEF Revoke, At
<1>3. /\ q \in Task /\ q.op \in Enders /\ Brings(q) /\ Learnt(q) /\ Barred(q)
      /\ q.user \in Users /\ q.user \in born /\ q.user # None
  BY <1>1, <1>2, WriterFacts DEF Stops, Met
<1>4. UNCHANGED <<users, byEmail, links, stored, lapsed, menu, issued, proven, born>>
  BY DEF Revoke
<1>5. \A k \in Tokens : sessions'[k] = IF sessions[k] = q.user THEN None ELSE sessions[k]
  BY <1>1 DEF Revoke, Ended
<1>6. sessions' \in [Tokens -> Users \cup {None}]
  <2>1. sessions' = [k \in Tokens |-> IF k \in Ended(q) THEN None ELSE sessions[k]]
    BY <1>1 DEF Revoke
  <2> QED  BY <2>1 DEF AccountsInv, SessionsFine
<1>7. SessionsFine' /\ \A k \in issued : sessions'[k] \in {sessions[k], None}
  BY <1>4, <1>5, <1>6, EndedFacts
<1>8. UsersFine'
  BY <1>4, UsersRest
<1>9. spent \subseteq spent' => Evolves
  BY <1>4, <1>7 DEF Evolves, AccountsInv, UsersFine
<1>10. CASE q.op = "reset" /\ Done(r)
  <2>1. /\ \E t : Moves(r, t) /\ Carries(t)'
        /\ spent' = spent \cup {q.link} /\ q.link \in Drawn
    BY <1>1, <1>2, <1>10, DoneFacts DEF LinkOps
  <2>2. q.link \notin stored
    BY <1>2, <1>3, <1>10 DEF Learnt, Used
  <2>3. LinksFine'
    BY <1>4, <2>1, <2>2, SpentFacts, LinksRest
  <2> QED  BY <1>4, <1>7, <1>8, <1>9, <2>1, <2>3, StepKeeps
<1>11. CASE \E pc \in {"insert", "erase"} :
              /\ Go(r, pc) /\ q.op # "reset" /\ (pc = "insert" <=> q.op = "changePassword")
  <2>1. PICK pc \in {"insert", "erase"} :
              /\ Go(r, pc) /\ q.op # "reset" /\ (pc = "insert" <=> q.op = "changePassword")
    BY <1>11
  <2>2. PICK t : /\ Moves(r, t) /\ t.pc = pc /\ Same(q, t) /\ t.ok = q.ok
                 /\ t.user = q.user /\ spent' = spent
    BY <1>1, <2>1, GoMoves DEF Pcs
  <2>3. t.op = q.op /\ t.link = q.link /\ t.alive = q.alive /\ t.late = q.late
        /\ t.stale = q.stale
    BY <2>2 DEF Same
  <2>4. t.op \in {"changePassword", "deleteUser", "deleteVerify"}
    BY <1>3, <2>1, <2>3 DEF Enders
  <2>5. Brings(t)'
    <3>1. Brings(t)
      BY <1>3, <2>1, <2>2, <2>3, <2>4, BringsOn DEF Stops
    <3> QED  BY <1>4, <3>1 DEF Brings, Drawn
  <2>6. Learnt(t)'
    <3>1. Shown(t) => Fits(t.op, links[t.link]) /\ links[t.link].to \in proven
      BY <1>2, <1>3, <2>3 DEF Learnt, Shown
    <3>2. ~Used(t)
      BY <2>4 DEF Used
    <3>3. t.op = "deleteVerify" => links[t.link].user = t.user
      BY <1>2, <1>3, <2>2, <2>3 DEF Learnt, Met
    <3>4. t.op = "deleteUser" => AtOnce(t)
      BY <1>2, <1>3, <2>3 DEF Learnt, AtOnce
    <3>5. t.user \in born' /\ t.pc \in {"insert", "erase"} /\ t.op # "changeEmail"
      BY <1>3, <1>4, <2>1, <2>2, <2>4
    <3> QED  BY <1>4, <3>1, <3>2, <3>3, <3>4, <3>5 DEF Learnt, Fits, ProvesFirst, Shown, Used,
             Met, AtOnce
  <2>7. Barred(t)'
    <3>1. t.alive \subseteq issued /\ issued \subseteq Tokens
      BY <1>3, <2>3 DEF Barred, AccountsInv, SessionsFine
    <3>2. \A k \in t.alive : sessions'[k] # t.user
      BY <1>3, <1>5, <2>2, <3>1
    <3>3. ~t.late /\ (Adapter # "d1" => ~t.stale)
      BY <1>2, <1>3, <2>3 DEF Barred
    <3> QED  BY <1>4, <3>1, <3>2, <3>3 DEF Barred, Revoked
  <2>8. Evolves /\ LinksFine'
    BY <1>4, <1>9, <2>2, LinksRest, SpentFacts
  <2>9. Carries(t)'
    BY <2>5, <2>6, <2>7 DEF Carries
  <2> QED  BY <1>4, <1>7, <1>8, <2>2, <2>8, <2>9, StepKeeps
<1> QED  BY <1>1, <1>3, <1>10, <1>11 DEF Revoke

LEMMA EraseKeeps ==
  ASSUME AccountsInv, NEW r \in Requests, Erase(r)
  PROVE  AccountsInv'
<1>1. PICK q : q = reqs[r]
  OBVIOUS
<1>2. q.pc = "erase"
  BY <1>1 DEF Erase, At
<1>3. /\ q \in Task /\ q.op \in {"deleteUser", "deleteVerify"}
      /\ Brings(q) /\ Learnt(q) /\ Barred(q)
      /\ q.user \in Users /\ q.user \in born /\ q.user # None
  BY <1>1, <1>2, WriterFacts DEF Stops, Met
<1>4. UNCHANGED <<links, stored, lapsed, menu, issued, proven, born>>
  BY DEF Erase
<1>5. /\ users' = [users EXCEPT ![q.user] = None]
      /\ byEmail' = [e \in Emails |->
           IF users[q.user] # None /\ e = users[q.user].email THEN None ELSE byEmail[e]]
      /\ sessions' = [k \in Tokens |->
           IF Adapter # "memory" /\ sessions[k] = q.user THEN None ELSE sessions[k]]
  BY <1>1 DEF Erase, Present
<1>6. UsersFine'
  <2>1. \A v \in Users : users'[v] = IF v = q.user THEN None ELSE users[v]
    BY <1>5 DEF AccountsInv, UsersFine
  <2>2. users' \in [Users -> User \cup {None}] /\ byEmail' \in [Emails -> Users \cup {None}]
    BY <1>5 DEF AccountsInv, UsersFine
  <2>3. ASSUME NEW e \in Emails, byEmail'[e] # None
        PROVE  users'[byEmail'[e]] # None /\ users'[byEmail'[e]].email = e
    <3>1. /\ byEmail'[e] = byEmail[e] /\ byEmail[e] # None
          /\ users[q.user] # None => e # users[q.user].email
      BY <1>5, <2>3
    <3>2. byEmail[e] \in Users /\ users[byEmail[e]] # None /\ users[byEmail[e]].email = e
      BY <3>1 DEF AccountsInv, UsersFine
    <3>3. byEmail[e] # q.user
      BY <3>1, <3>2
    <3> QED  BY <2>1, <3>1, <3>2, <3>3
  <2>4. ProvesFirst => VerifiedProven'
    BY <1>4, <2>1 DEF AccountsInv, UsersFine, VerifiedProven
  <2>5. \A v \in Users : users'[v] # None => v \in born
    BY <2>1 DEF AccountsInv, UsersFine
  <2> QED  BY <1>4, <2>2, <2>3, <2>4, <2>5 DEF AccountsInv, UsersFine, ProvesFirst
<1>7. \A v \in born : users'[v] # None => users[v] # None /\ users'[v] = users[v]
  BY <1>5 DEF AccountsInv, UsersFine
<1>8. /\ sessions' \in [Tokens -> Users \cup {None}]
      /\ \A k \in Tokens : sessions'[k] \in {sessions[k], None}
  BY <1>5 DEF AccountsInv, SessionsFine
<1>9. SessionsFine' /\ \A k \in issued : sessions'[k] \in {sessions[k], None}
  BY <1>4, <1>8, EndedFacts
<1>10. spent \subseteq spent' => Evolves
  BY <1>4, <1>7, <1>9 DEF Evolves
<1>11. spent' = spent => LinksFine'
  BY <1>4, LinksRest, SpentFacts
<1>12. CASE q.op = "deleteUser" /\ Done(r)
  <2>1. q.op \notin LinkOps
    BY <1>12 DEF LinkOps
  <2>2. spent' = spent
    BY <1>1, <1>2, <1>12, <2>1, DoneFacts
  <2> QED  BY <1>1, <1>2, <1>4, <1>6, <1>9, <1>10, <1>11, <1>12, <2>1, <2>2, AnswerKeeps
<1>13. CASE q.op = "deleteVerify" /\ Go(r, "unlink")
  <2>1. PICK t : /\ Moves(r, t) /\ t.pc = "unlink" /\ Same(q, t) /\ t.ok = q.ok
                 /\ t.user = q.user /\ spent' = spent
    BY <1>1, <1>13, GoMoves DEF Pcs
  <2>2. t.op = "deleteVerify" /\ t.link = q.link
    BY <1>13, <2>1 DEF Same
  <2>3. Brings(t)
    BY <1>3, <2>1, <2>2, BringsOn DEF Stops, LinkOps
  <2>4. Learnt(t)
    <3>1. Shown(t) => Fits(t.op, links[t.link]) /\ links[t.link].to \in proven
      BY <1>2, <1>3, <1>13, <2>2 DEF Learnt, Shown
    <3>2. ~Used(t)
      BY <2>2 DEF Used
    <3>3. links[t.link].user = t.user
      BY <1>2, <1>3, <1>13, <2>1, <2>2 DEF Learnt, Met
    <3> QED  BY <1>3, <2>1, <2>2, <3>1, <3>2, <3>3 DEF Learnt
  <2>5. Barred(t)
    <3>1. Revoked(q)
      BY <1>2, <1>3 DEF Revoked
    <3> QED  BY <1>2, <1>3, <2>1, <3>1 DEF Barred, Same
  <2>6. Evolves /\ LinksFine'
    BY <1>10, <1>11, <2>1
  <2>7. Carries(t)'
    BY <2>1, <2>3, <2>4, <2>5, <2>6, CarriesOn DEF Carries, Moves, AccountsInv
  <2> QED  BY <1>4, <1>6, <1>9, <2>1, <2>6, <2>7, StepKeeps
<1> QED  BY <1>1, <1>3, <1>12, <1>13 DEF Erase

LEMMA InsertKeeps ==
  ASSUME AccountsInv, NEW r \in Requests, Insert(r)
  PROVE  AccountsInv'
<1>1. PICK q : q = reqs[r]
  OBVIOUS
<1>2. q.pc = "insert"
  BY <1>1 DEF Insert, At
<1>3. /\ q \in Task /\ q.op \in {"signUp", "signIn", "changePassword", "verify"}
      /\ Brings(q) /\ Learnt(q) /\ Barred(q)
      /\ q.user \in Users /\ q.user \in born /\ q.user # None
  BY <1>1, <1>2, WriterFacts DEF Stops, Met
<1>4. UNCHANGED <<users, byEmail, links, stored, lapsed, menu, proven, born>>
  BY DEF Insert
<1>5. CASE Error(r) /\ UNCHANGED <<sessions, issued>>
  BY <1>4, <1>5, ErrorKeeps DEF tables, AccountsInv, UsersFine
<1>6. CASE /\ \E k \in Tokens \ issued :
                /\ sessions' = [sessions EXCEPT ![k] = q.user]
                /\ issued' = issued \cup {k}
           /\ Done(r)
  <2>1. PICK k \in Tokens \ issued :
                /\ sessions' = [sessions EXCEPT ![k] = q.user]
                /\ issued' = issued \cup {k}
    BY <1>6
  <2>2. SessionsFine' /\ \A t \in issued : sessions'[t] = sessions[t]
    BY <1>3, <2>1 DEF AccountsInv, SessionsFine
  <2>3. spent \subseteq spent' /\ \E t : Moves(r, t) /\ Carries(t)'
    BY <1>1, <1>2, <1>6, DoneFacts
  <2>4. Evolves
    BY <1>4, <2>1, <2>2, <2>3 DEF Evolves, AccountsInv, UsersFine
  <2>5. LinksFine'
    <3>1. CASE q.op \in LinkOps
      <4>1. q.op = "verify"
        BY <1>3, <3>1 DEF LinkOps
      <4>2. q.link \notin stored
        BY <1>2, <1>3, <4>1 DEF Learnt, Used
      <4>3. spent' = spent \cup {q.link} /\ q.link \in Drawn
        BY <1>1, <1>2, <1>6, <3>1, DoneFacts
      <4> QED  BY <1>4, <4>2, <4>3, LinksRest, SpentFacts
    <3>2. CASE q.op \notin LinkOps
      <4>1. spent' = spent
        BY <1>1, <1>2, <1>6, <3>2, DoneFacts
      <4> QED  BY <1>4, <4>1, LinksRest, SpentFacts
    <3> QED  BY <3>1, <3>2
  <2>6. UsersFine'
    BY <1>4, UsersRest
  <2> QED  BY <1>4, <2>2, <2>3, <2>4, <2>5, <2>6, StepKeeps
<1> QED  BY <1>1, <1>5, <1>6 DEF Insert

LEMMA FailKeeps ==
  ASSUME AccountsInv, NEW r \in Requests, Fail(r)
  PROVE  AccountsInv'
<1>1. PICK q : q = reqs[r]
  OBVIOUS
<1>2. UNCHANGED <<tables, lapsed, menu, issued, proven, born>>
  BY DEF Fail
<1>3. CASE Error(r)
  BY <1>2, <1>3, ErrorKeeps DEF AccountsInv, UsersFine
<1>4. CASE q.pc = "newLink" /\ q.op = "signIn" /\ Go(r, "insert")
  <2>1. Brings(q) /\ Learnt(q) /\ Barred(q) /\ q.user \in born
    BY <1>1, <1>4, WriterFacts DEF Met
  <2>2. PICK t : /\ Moves(r, t) /\ t.pc = "insert" /\ Same(q, t) /\ t.ok = q.ok
                 /\ t.user = q.user /\ spent' = spent
    BY <1>1, <1>4, GoMoves DEF Pcs
  <2>3. t.op = "signIn"
    BY <1>4, <2>2 DEF Same
  <2>4. Brings(t)
    BY <2>1, <2>2, <2>3, BringsOn DEF Stops
  <2>5. Learnt(t)
    BY <2>1, <2>2, <2>3 DEF Learnt, Shown, Used, LinkOps
  <2>6. Barred(t)
    BY <1>4, <2>1, <2>2, <2>3, BarredOn DEF Revoked
  <2> QED  BY <1>2, <2>2, <2>4, <2>5, <2>6, QuietKeeps DEF Carries, history
<1> QED  BY <1>1, <1>3, <1>4 DEF Fail, At
-----------------------------------------------------------------------------
(* The invariant.                                                          *)

\* No task takes the step.
LEMMA AsideKeeps ==
  ASSUME AccountsInv, UNCHANGED <<users, byEmail, sessions, links, menu, reqs, history>>,
         stored' \subseteq stored, lapsed \subseteq lapsed', lapsed' \subseteq Drawn
  PROVE  AccountsInv'
<1>1. Evolves
  BY DEF Evolves, AccountsInv, SessionsFine, UsersFine, history
<1>2. UsersFine' /\ SessionsFine'
  BY UsersRest, SessionsRest DEF history
<1>3. LinksFine'
  BY DEF AccountsInv, LinksFine, Drawn, history
<1>4. ASSUME NEW r \in Requests PROVE Carries(reqs[r])'
  <2>1. PICK t : t = reqs[r]
    OBVIOUS
  <2>2. t \in Task /\ Carries(t)
    BY <2>1 DEF AccountsInv
  <2>3. Carries(t)'
    BY <1>1, <2>2, CarriesOn DEF AccountsInv
  <2> QED  BY <2>1, <2>3
<1> QED  BY <1>2, <1>3, <1>4 DEF AccountsInv

LEMMA NextKeeps == AccountsInv /\ [Next]_vars => AccountsInv'
<1> SUFFICES ASSUME AccountsInv, [Next]_vars PROVE AccountsInv'
  OBVIOUS
<1>1. CASE \E r \in Requests : Ask(r)
  BY <1>1, AskMailKeeps, AskLinkKeeps, AskUserKeeps DEF Ask
<1>2. CASE \E r \in Requests : Look(r)
  BY <1>2, ReadByEmailKeeps, ReadLinkKeeps, ReadOwnerKeeps, AuthenticateKeeps, CheckFreeKeeps
     DEF Look
<1>3. CASE \E r \in Requests : Write(r)
  BY <1>3, CreateUserKeeps, WritePasswordKeeps, RenameKeeps, MarkVerifiedKeeps, NewLinkKeeps,
     UnlinkKeeps, DiscardKeeps, RevokeKeeps, EraseKeeps, InsertKeeps, FailKeeps DEF Write
<1>4. lapsed \subseteq Drawn /\ stored \subseteq Drawn
  BY DEF AccountsInv, LinksFine
<1>5. CASE Lapse
  BY <1>4, <1>5, AsideKeeps DEF Lapse, tables
<1>6. CASE Sweep
  BY <1>4, <1>6, AsideKeeps DEF Sweep
<1>7. CASE UNCHANGED vars
  BY <1>4, <1>7, AsideKeeps DEF vars, history
<1> QED  BY <1>1, <1>2, <1>3, <1>5, <1>6, <1>7 DEF Next

LEMMA InitHolds == Init => AccountsInv
<1> SUFFICES ASSUME Init PROVE AccountsInv
  OBVIOUS
<1>1. PICK u \in Users, e \in Emails, v \in BOOLEAN, t \in Tokens, p \in Passwords \cup {None} :
       /\ users = [x \in Users |-> IF x = u
                     THEN [email |-> e, verified |-> v, password |-> p] ELSE None]
       /\ byEmail = [x \in Emails |-> IF x = e THEN u ELSE None]
       /\ sessions = [x \in Tokens |-> IF x = t THEN u ELSE None]
       /\ issued = {t} /\ born = {u}
       /\ proven = IF v THEN {e} ELSE {}
  BY DEF Init
<1>2. PICK row : row = [email |-> e, verified |-> v, password |-> p]
  OBVIOUS
<1>3. row \in User /\ row # None /\ row.email = e /\ row.verified = v
  <2>1. row \in User
    BY <1>1, <1>2 DEF User
  <2> QED  BY <1>2, <2>1, NoneAssumption
<1>4. UsersFine
  <2>1. users \in [Users -> User \cup {None}] /\ byEmail \in [Emails -> Users \cup {None}]
    BY <1>1, <1>2, <1>3
  <2>2. \A x \in Emails : byEmail[x] # None => x = e /\ byEmail[x] = u
    BY <1>1
  <2>3. users[u] = row /\ \A x \in Users : users[x] # None => x = u
    BY <1>1, <1>2
  <2>4. VerifiedProven
    BY <1>1, <1>3, <2>3 DEF VerifiedProven
  <2> QED  BY <1>1, <1>3, <2>1, <2>2, <2>3, <2>4 DEF UsersFine
<1>5. SessionsFine
  BY <1>1 DEF SessionsFine
<1>6. LinksFine
  <2>1. links = [k \in Links |-> None] /\ stored = {} /\ lapsed = {} /\ spent = {}
    BY DEF Init
  <2>2. Drawn = {}
    BY <2>1 DEF Drawn
  <2> QED  BY <2>1, <2>2 DEF LinksFine
<1>7. reqs \in [Requests -> Task] /\ \A r \in Requests : Carries(reqs[r])
  BY IdleFacts, IdleCarries DEF Init
<1>8. menu \in Menus
  BY DEF Init
<1> QED  BY <1>4, <1>5, <1>6, <1>7, <1>8 DEF AccountsInv

\* What every behaviour keeps, whatever the configuration: the rows and the index,
\* the sessions, the links, and what each task in flight knows.
THEOREM AccountsHolds == Spec => []AccountsInv
<1>1. Init => AccountsInv
  BY InitHolds
<1>2. AccountsInv /\ [Next]_vars => AccountsInv'
  BY NextKeeps
<1> QED  BY <1>1, <1>2, PTL DEF Spec

\* TypeOK (create_user, update_user, delete_user and their index): every table,
\* index and task is of its type, for any number of users and links.
THEOREM TypeCorrect == Spec => []TypeOK
<1>1. AccountsInv => TypeOK
  BY DEF AccountsInv, UsersFine, SessionsFine, LinksFine, TypeOK
<1> QED  BY <1>1, AccountsHolds, PTL

\* What is verified was proven, where an address takes a link to change: neither
\* a core endpoint nor update_without_verification may change it at once.
THEOREM ConsistentHolds ==
  ASSUME ~CoreFirst, ConfirmEmail
  PROVE  Spec => []Consistent
<1>1. AccountsInv => TypeOK
  BY DEF AccountsInv, UsersFine, SessionsFine, LinksFine, TypeOK
<1>2. AccountsInv => VerifiedProven
  BY DEF AccountsInv, UsersFine, ProvesFirst
<1>3. AccountsInv => Consistent
  BY <1>1, <1>2 DEF Consistent
<1> QED  BY <1>3, AccountsHolds, PTL
-----------------------------------------------------------------------------
(* Answers.                                                                 *)

LEMMA QuietFacts ==
  ASSUME AccountsInv, NEW r \in Requests, reqs[r].pc # "idle"
  PROVE  /\ \A pc : Go(r, pc) => ~reqs'[r].ok
         /\ Error(r) => ~reqs'[r].ok
         /\ \A u, pc : Read(r, u, pc) => ~reqs'[r].ok
<1>1. reqs[r] \in Task /\ ~reqs[r].ok
  BY DEF AccountsInv, Carries, Brings
<1>2. ASSUME NEW pc, Go(r, pc) PROVE ~reqs'[r].ok
  <2>1. reqs'[r] = [reqs[r] EXCEPT !.pc = pc]
    BY <1>2 DEF Go, Become
  <2> QED  BY <1>1, <2>1 DEF Task
<1>3. ASSUME Error(r) PROVE ~reqs'[r].ok
  <2>1. reqs'[r] = Idle(FALSE)
    BY <1>3 DEF Error, Become
  <2> QED  BY <2>1, IdleFacts
<1>4. ASSUME NEW u, NEW pc, Read(r, u, pc) PROVE ~reqs'[r].ok
  <2>1. PICK e : e = IF pc = "newLink" THEN users[u].email ELSE None
    OBVIOUS
  <2>2. reqs'[r] = [reqs[r] EXCEPT !.pc = pc, !.user = u, !.to = e]
    BY <1>4, <2>1 DEF Read, Become
  <2> QED  BY <1>1, <2>2 DEF Task
<1> QED  BY <1>2, <1>3, <1>4

\* A task only answers in a step of its own.
LEMMA OthersQuiet ==
  ASSUME AccountsInv, NEW r \in Requests, NEW s \in Requests \ {r}, NEW q, Become(s, q)
  PROVE  ~reqs'[r].ok
<1>1. reqs[r] \in Task /\ reqs'[r] = [reqs[r] EXCEPT !.ok = FALSE]
  BY DEF AccountsInv, Become
<1> QED  BY <1>1 DEF Task

LEMMA StepsBecome ==
  ASSUME NEW s \in Requests, Ask(s) \/ Look(s) \/ Write(s)
  PROVE  \E q : Become(s, q)
<1>1. \A pc : Go(s, pc) => \E q : Become(s, q)
  BY DEF Go
<1>2. Error(s) => \E q : Become(s, q)
  BY DEF Error
<1>3. Done(s) => \E q : Become(s, q)
  BY DEF Done
<1>4. \A u, pc : Read(s, u, pc) => \E q : Become(s, q)
  BY DEF Read
<1>5. CASE Ask(s)
  BY <1>5 DEF Ask, AskMail, AskLink, AskUser
<1>6. CASE Look(s)
  <2>1. ReadByEmail(s) => \E q : Become(s, q)
    BY <1>1, <1>2, <1>3, <1>4 DEF ReadByEmail
  <2>2. ReadLink(s) => \E q : Become(s, q)
    BY <1>1, <1>2 DEF ReadLink
  <2>3. ReadOwner(s) => \E q : Become(s, q)
    BY <1>2, <1>4 DEF ReadOwner
  <2>4. Authenticate(s) => \E q : Become(s, q)
    BY <1>2, <1>4 DEF Authenticate
  <2>5. CheckFree(s) => \E q : Become(s, q)
    BY <1>1, <1>2 DEF CheckFree
  <2> QED  BY <1>6, <2>1, <2>2, <2>3, <2>4, <2>5 DEF Look
<1>7. CASE Write(s)
  <2>1. CreateUser(s) => \E q : Become(s, q)
    BY <1>2 DEF CreateUser
  <2>2. WritePassword(s) => \E q : Become(s, q)
    BY <1>1, <1>2, <1>3 DEF WritePassword, Missing
  <2>3. Rename(s) => \E q : Become(s, q)
    BY <1>1, <1>2, <1>3 DEF Rename, Missing
  <2>4. MarkVerified(s) => \E q : Become(s, q)
    BY <1>1, <1>2 DEF MarkVerified, Missing
  <2>5. NewLink(s) => \E q : Become(s, q)
    BY <1>1, <1>3 DEF NewLink
  <2>6. Unlink(s) => \E q : Become(s, q)
    BY <1>1, <1>3 DEF Unlink
  <2>7. Discard(s) => \E q : Become(s, q)
    BY <1>2 DEF Discard
  <2>8. Revoke(s) => \E q : Become(s, q)
    BY <1>1, <1>3 DEF Revoke
  <2>9. Erase(s) => \E q : Become(s, q)
    BY <1>1, <1>3 DEF Erase
  <2>10. Insert(s) => \E q : Become(s, q)
    BY <1>2, <1>3 DEF Insert
  <2>11. Fail(s) => \E q : Become(s, q)
    BY <1>1, <1>2 DEF Fail
  <2> QED  BY <1>7, <2>1, <2>2, <2>3, <2>4, <2>5, <2>6, <2>7, <2>8, <2>9, <2>10, <2>11 DEF Write
<1> QED  BY <1>5, <1>6, <1>7

LEMMA OwnAnswers ==
  ASSUME AccountsInv, [Next]_vars, NEW r \in Requests, Replies(r)
  PROVE  Look(r) \/ Write(r)
<1>1. ~reqs[r].ok
  BY DEF AccountsInv, Carries, Brings, Replies, At
<1>2. reqs' # reqs
  BY <1>1 DEF Replies
<1>3. PICK s \in Requests : Ask(s) \/ Look(s) \/ Write(s)
  BY <1>2 DEF Next, Lapse, Sweep, vars
<1>4. s = r
  BY <1>3, StepsBecome, OthersQuiet DEF Replies
<1>5. ~Ask(r)
  BY DEF Replies, Ask, AskMail, AskLink, AskUser
<1> QED  BY <1>3, <1>4, <1>5

\* The steps that answer with success.
Answers(r) ==
  LET op == reqs[r].op IN
  \/ ReadByEmail(r) /\ Done(r)
  \/ ReadOwner(r) /\ op = "verify"
  \/ WritePassword(r) /\ op # "reset" /\ ~(op = "changePassword" /\ reqs[r].others)
  \/ Rename(r)
  \/ NewLink(r)
  \/ Unlink(r) /\ ~(op = "reset" /\ RevokeOnReset)
  \/ Revoke(r) /\ op = "reset"
  \/ Erase(r) /\ op = "deleteUser"
  \/ Insert(r)

LEMMA AnswerFacts ==
  ASSUME AccountsInv, [Next]_vars, NEW r \in Requests, Replies(r)
  PROVE  Answers(r)
<1>1. /\ \A pc : ~Go(r, pc)
      /\ ~Error(r)
      /\ \A u, pc : ~Read(r, u, pc)
  BY QuietFacts DEF Replies, At
<1>2. CASE Look(r)
  <2>1. ReadByEmail(r) => Done(r)
    BY <1>1 DEF ReadByEmail
  <2>2. ~ReadLink(r)
    BY <1>1 DEF ReadLink
  <2>3. ReadOwner(r) => reqs[r].op = "verify"
    BY <1>1 DEF ReadOwner
  <2>4. ~Authenticate(r)
    BY <1>1 DEF Authenticate
  <2>5. ~CheckFree(r)
    BY <1>1 DEF CheckFree
  <2> QED  BY <1>2, <2>1, <2>2, <2>3, <2>4, <2>5 DEF Look, Answers
<1>3. CASE Write(r)
  <2>1. ~Fail(r)
    BY <1>1 DEF Fail
  <2>2. ~Discard(r)
    BY <1>1 DEF Discard
  <2>3. ~MarkVerified(r)
    BY <1>1 DEF MarkVerified, Missing
  <2>4. WritePassword(r) =>
          reqs[r].op # "reset" /\ ~(reqs[r].op = "changePassword" /\ reqs[r].others)
    BY <1>1 DEF WritePassword, Missing
  <2>5. Unlink(r) => ~(reqs[r].op = "reset" /\ RevokeOnReset)
    BY <1>1 DEF Unlink
  <2>6. Revoke(r) => reqs[r].op = "reset"
    BY <1>1 DEF Revoke
  <2>7. Erase(r) => reqs[r].op = "deleteUser"
    BY <1>1 DEF Erase
  <2>8. ~CreateUser(r)
    <3>1. ASSUME NEW u, Become(r, [reqs[r] EXCEPT !.pc = "insert", !.user = u])
          PROVE  FALSE
      <4>1. reqs'[r] = [reqs[r] EXCEPT !.pc = "insert", !.user = u]
        BY <3>1 DEF Become
      <4>2. reqs[r] \in Task /\ ~reqs[r].ok
        BY DEF AccountsInv, Carries, Brings, Replies, At
      <4> QED  BY <4>1, <4>2 DEF Task, Replies
    <3> QED  BY <1>1, <3>1 DEF CreateUser
  <2> QED  BY <1>3, <2>1, <2>2, <2>3, <2>4, <2>5, <2>6, <2>7, <2>8 DEF Write, Answers
<1> QED  BY <1>2, <1>3, OwnAnswers

\* Where a request is that answers, or ends the sessions of its user.
LEMMA AnswerPlaces ==
  ASSUME AccountsInv, NEW r \in Requests, Answers(r)
  PROVE  reqs[r].pc \notin {"idle", "byLink"}
BY DEF Answers, At, ReadByEmail, ReadOwner, WritePassword, Rename, NewLink, Unlink, Revoke,
       Erase, Insert

LEMMA LateStaysBehind ==
  ASSUME AccountsInv, [Next]_vars, NEW r \in Requests, Replies(r)
  PROVE  ~reqs[r].late /\ (Adapter # "d1" => ~reqs[r].stale)
<1>1. reqs[r].pc # "byLink"
  BY AnswerFacts, AnswerPlaces
<1>2. Barred(reqs[r])
  BY DEF AccountsInv, Carries
<1> QED  BY <1>1, <1>2 DEF Barred

\* On every adapter, a link by which a request was answered (reset_password,
\* verify_email, change_email_verify, delete_user_verify and the callback) is of
\* no use to a request that begins later.
THEOREM SpentLinksDead == Spec => [][\A r \in Requests : Replies(r) => ~reqs[r].late]_vars
<1>1. AccountsInv /\ [Next]_vars => [\A r \in Requests : Replies(r) => ~reqs[r].late]_vars
  BY LateStaysBehind
<1> QED  BY <1>1, AccountsHolds, PTL DEF Spec

\* And so is one that had expired, but on D1, whose get_verification_by_value
\* does not look at expires_at.
THEOREM DeadLinksHold ==
  ASSUME Adapter # "d1"
  PROVE  Spec => DeadLinks
<1>1. AccountsInv /\ [Next]_vars =>
        [\A r \in Requests : Replies(r) => ~reqs[r].late /\ ~reqs[r].stale]_vars
  BY LateStaysBehind
<1> QED  BY <1>1, AccountsHolds, PTL DEF Spec, DeadLinks

\* When a password reset (revoke_sessions_on_password_reset), a change that asks
\* for it, or a deletion answers, no session is left that its user had when it
\* began, whoever else signs in, resets or deletes meanwhile.
THEOREM OldSessionsEndHolds == Spec => OldSessionsEnd
<1> DEFINE Ends(r) == \/ reqs[r].op = "reset" /\ RevokeOnReset
                      \/ reqs[r].op = "changePassword" /\ reqs[r].others
                      \/ reqs[r].op \in {"deleteUser", "deleteVerify"} /\ ~At(r, "newLink")
           Over(r) == \A t \in reqs[r].alive : sessions'[t] # reqs[r].user
<1>1. ASSUME AccountsInv, [Next]_vars, NEW r \in Requests, Replies(r), Ends(r)
      PROVE  Over(r)
  <2>1. PICK q : q = reqs[r]
    OBVIOUS
  <2>2. Answers(r) /\ q.pc # "idle"
    BY <1>1, <2>1, AnswerFacts DEF Replies, At
  <2>3. q.op \in Stops[q.pc] /\ Barred(q) /\ (Met(q) => q.user \in Users /\ q.user # None)
    BY <1>1, <2>1, <2>2, WriterFacts
  <2>4. q.alive \subseteq issued /\ issued \subseteq Tokens
    BY <1>1, <2>3 DEF Barred, AccountsInv, SessionsFine
  <2>5. q.op \in {"reset", "changePassword", "deleteUser", "deleteVerify"}
    BY <1>1, <2>1
  <2>6. CASE Revoke(r) /\ q.op = "reset"
    <3>1. q.pc = "revoke"
      BY <2>1, <2>6 DEF Revoke, At
    <3>2. \A t \in Tokens : sessions'[t] = IF sessions[t] = q.user THEN None ELSE sessions[t]
      BY <2>1, <2>6 DEF Revoke, Ended
    <3>3. q.user # None
      BY <2>3, <3>1 DEF Met
    <3> QED  BY <2>1, <2>4, <3>2, <3>3
  <2>7. CASE Erase(r) /\ q.op = "deleteUser"
    <3>1. q.pc = "erase"
      BY <2>1, <2>7 DEF Erase, At
    <3>2. \A t \in Tokens : sessions'[t] \in {sessions[t], None}
      BY <2>7 DEF Erase
    <3>3. q.user # None /\ \A t \in q.alive : sessions[t] # q.user
      BY <2>3, <2>7, <3>1 DEF Met, Barred, Revoked
    <3> QED  BY <2>1, <2>4, <3>2, <3>3
  <2>8. CASE Unlink(r) /\ q.op = "deleteVerify"
    <3>1. q.pc = "unlink" /\ sessions' = sessions
      BY <2>1, <2>8 DEF Unlink, At
    <3>2. \A t \in q.alive : sessions[t] # q.user
      BY <2>3, <2>8, <3>1 DEF Barred, Revoked
    <3> QED  BY <2>1, <3>1, <3>2
  <2>9. CASE Insert(r) /\ q.op = "changePassword"
    <3>1. q.pc = "insert"
      BY <2>1, <2>9 DEF Insert, At
    <3>2. \A t \in issued : sessions'[t] = sessions[t]
      BY <1>1, <2>9 DEF Insert, AccountsInv, SessionsFine
    <3>3. \A t \in q.alive : sessions[t] # q.user
      BY <2>3, <2>9, <3>1 DEF Barred, Revoked
    <3> QED  BY <2>1, <2>4, <3>2, <3>3
  <2>10. ~ReadByEmail(r) /\ ~Rename(r)
    <3>1. ReadByEmail(r) => q.pc = "byEmail"
      BY <2>1 DEF ReadByEmail, At
    <3>2. Rename(r) => q.pc = "rename"
      BY <2>1 DEF Rename, At
    <3> QED  BY <2>3, <2>5, <3>1, <3>2 DEF Stops, MailOps
  <2>11. ~NewLink(r)
    <3>1. NewLink(r) => q.pc = "newLink" /\ At(r, "newLink")
      BY <2>1 DEF NewLink, At
    <3> QED  BY <1>1, <2>1, <2>3, <2>5, <3>1 DEF Stops
  <2>12. Unlink(r) => q.op \in {"reset", "deleteVerify"}
    <3>1. Unlink(r) => q.pc = "unlink"
      BY <2>1 DEF Unlink, At
    <3> QED  BY <2>3, <2>5, <3>1 DEF Stops, LinkOps
  <2>13. Insert(r) => q.op = "changePassword"
    <3>1. Insert(r) => q.pc = "insert"
      BY <2>1 DEF Insert, At
    <3> QED  BY <2>3, <2>5, <3>1 DEF Stops
  <2>14. WritePassword(r) => q.op \in {"reset", "changePassword"}
    <3>1. WritePassword(r) => q.pc = "write"
      BY <2>1 DEF WritePassword, At
    <3> QED  BY <2>3, <2>5, <3>1 DEF Stops
  <2> QED  BY <1>1, <2>1, <2>2, <2>5, <2>6, <2>7, <2>8, <2>9, <2>10, <2>11, <2>12, <2>13, <2>14
           DEF Answers
<1>2. AccountsInv /\ [Next]_vars =>
        [\A r \in Requests :
           /\ Replies(r)
           /\ \/ reqs[r].op = "reset" /\ RevokeOnReset
              \/ reqs[r].op = "changePassword" /\ reqs[r].others
              \/ reqs[r].op \in {"deleteUser", "deleteVerify"} /\ ~At(r, "newLink")
           => \A t \in reqs[r].alive : sessions'[t] # reqs[r].user]_vars
  BY <1>1
<1> QED  BY <1>2, AccountsHolds, PTL DEF Spec, OldSessionsEnd
-----------------------------------------------------------------------------
(* Deletions.                                                               *)

\* A row that is written over stays a row.
LEMMA OverwriteFacts ==
  ASSUME AccountsInv, NEW v \in Users, NEW row \in User, users' = [users EXCEPT ![v] = row]
  PROVE  \A u \in Users : users[u] # None => users'[u] # None
<1>1. row # None
  BY NoneAssumption
<1>2. \A u \in Users : users'[u] = IF u = v THEN row ELSE users[u]
  BY DEF AccountsInv, UsersFine
<1> QED  BY <1>1, <1>2

\* Only delete_user takes a row away.
LEMMA OnlyErase ==
  ASSUME AccountsInv, [Next]_vars, NEW u \in Users, users[u] # None, users'[u] = None
  PROVE  \E r \in Requests : Erase(r) /\ reqs[r].user = u
<1>1. users' # users
  OBVIOUS
<1>2. PICK r \in Requests : Ask(r) \/ Look(r) \/ Write(r)
  BY <1>1 DEF Next, Lapse, Sweep, tables, vars
<1>3. PICK q : q = reqs[r]
  OBVIOUS
<1>4. ~Ask(r) /\ ~Look(r)
  BY <1>1 DEF Ask, AskMail, AskLink, AskUser, Look, ReadByEmail, ReadLink, ReadOwner,
     Authenticate, CheckFree, tables
<1>5. ~NewLink(r) /\ ~Unlink(r) /\ ~Discard(r) /\ ~Revoke(r) /\ ~Insert(r) /\ ~Fail(r)
  BY <1>1 DEF NewLink, Unlink, Discard, Revoke, Insert, Fail, tables
<1>6. ASSUME CreateUser(r) PROVE FALSE
  <2>1. q.pc = "create"
    BY <1>3, <1>6 DEF CreateUser, At
  <2>2. q \in Task /\ q.op = "signUp" /\ q.email \in Emails
    BY <1>3, <2>1, WriterFacts DEF Stops, Brings, MailOps
  <2>3. q.password \in Passwords \cup {None}
    BY <2>2, FieldFacts
  <2>4. PICK row : row = [email |-> q.email, verified |-> FALSE, password |-> q.password]
    OBVIOUS
  <2>5. row \in User
    BY <2>2, <2>3, <2>4 DEF User
  <2>6. PICK v \in Users : users' = [users EXCEPT ![v] = row]
    BY <1>1, <1>3, <1>6, <2>4 DEF CreateUser
  <2> QED  BY <1>1, <2>5, <2>6, OverwriteFacts
<1>7. ASSUME WritePassword(r) PROVE FALSE
  <2>1. q.pc = "write"
    BY <1>3, <1>7 DEF WritePassword, At
  <2>2. q \in Task /\ q.user \in Users
    BY <1>3, <2>1, WriterFacts DEF Met
  <2>3. q.password \in Passwords \cup {None}
    BY <2>2, FieldFacts
  <2>4. PICK row : row = [users[q.user] EXCEPT !.password = q.password]
    OBVIOUS
  <2>5. users[q.user] # None /\ users' = [users EXCEPT ![q.user] = row]
    BY <1>1, <1>3, <1>7, <2>4 DEF WritePassword, Missing, Present
  <2>6. users[q.user] \in User
    BY <2>2, <2>5, UserFacts
  <2>7. row \in User
    BY <2>3, <2>4, <2>6 DEF User
  <2> QED  BY <1>1, <2>2, <2>5, <2>7, OverwriteFacts
<1>8. ASSUME MarkVerified(r) PROVE FALSE
  <2>1. q.pc = "mark"
    BY <1>3, <1>8 DEF MarkVerified, At
  <2>2. q.user \in Users
    BY <1>3, <2>1, WriterFacts DEF Met
  <2>3. PICK row : row = [users[q.user] EXCEPT !.verified = TRUE]
    OBVIOUS
  <2>5. users[q.user] # None /\ users' = [users EXCEPT ![q.user] = row]
    BY <1>1, <1>3, <1>8, <2>3 DEF MarkVerified, Missing, Present
  <2>6. users[q.user] \in User
    BY <2>2, <2>5, UserFacts
  <2>7. row \in User
    BY <2>3, <2>6 DEF User
  <2> QED  BY <1>1, <2>2, <2>5, <2>7, OverwriteFacts
<1>9. ASSUME Rename(r) PROVE FALSE
  <2>1. q.pc = "rename"
    BY <1>3, <1>9 DEF Rename, At
  <2>2. /\ q.op \in {"changeEmail", "updateUser", "changeVerify"} /\ q.user \in Users
        /\ NewEmail(q) \in Emails
    BY <1>3, <2>1, WriterFacts, NewEmailFacts DEF Met, Stops
  <2>3. PICK row :
          row = [users[q.user] EXCEPT !.email = NewEmail(q), !.verified = Verified(q)]
    OBVIOUS
  <2>4. users[q.user] # None /\ users' = [users EXCEPT ![q.user] = row]
    BY <1>1, <1>3, <1>9, <2>3, ZenonT(120) DEF Rename, Missing, Present
  <2>5. users[q.user] \in User
    BY <2>2, <2>4, UserFacts
  <2>6. Verified(q) \in BOOLEAN
    BY <2>2, <2>5 DEF Verified, User
  <2>7. row \in User
    BY <2>2, <2>3, <2>5, <2>6 DEF User
  <2> QED  BY <1>1, <2>2, <2>4, <2>7, OverwriteFacts
<1>10. Erase(r)
  BY <1>2, <1>4, <1>5, <1>6, <1>7, <1>8, <1>9 DEF Write
<1>11. q.user = u
  <2>1. users' = [users EXCEPT ![q.user] = None]
    BY <1>3, <1>10 DEF Erase
  <2> QED  BY <2>1 DEF AccountsInv, UsersFine
<1> QED  BY <1>3, <1>10, <1>11

\* Where /delete-user is the plugin's, an account goes by a link mailed for its
\* own deletion and by no other, whichever links cross which requests.
THEOREM DeletionsConfirmed ==
  ASSUME ~CoreFirst
  PROVE  Spec => DeletionConfirmed
<1>1. ASSUME AccountsInv, [Next]_vars, NEW u \in Users, ConfirmDelete,
             users[u] # None, users'[u] = None
      PROVE  \E r \in Requests : /\ reqs'[r].pc # reqs[r].pc
                                 /\ reqs[r].link # None
                                 /\ links[reqs[r].link].kind = "delete"
                                 /\ links[reqs[r].link].user = u
  <2>1. PICK r \in Requests : Erase(r) /\ reqs[r].user = u
    BY <1>1, OnlyErase
  <2>2. PICK q : q = reqs[r]
    OBVIOUS
  <2>3. q.pc = "erase"
    BY <2>1, <2>2 DEF Erase, At
  <2>4. /\ q \in Task /\ q.op \in {"deleteUser", "deleteVerify"} /\ Brings(q) /\ Learnt(q)
    BY <1>1, <2>2, <2>3, WriterFacts DEF Stops
  <2>5. q.op = "deleteVerify"
    BY <1>1, <2>3, <2>4 DEF Learnt, AtOnce
  <2>6. q.link \in Drawn /\ links[q.link].kind = "delete" /\ links[q.link].user = u
    BY <2>1, <2>2, <2>3, <2>4, <2>5 DEF Brings, Learnt, Shown, Met, Fits, LinkOps
  <2>7. q.link # None
    BY <2>6 DEF Drawn
  <2>8. reqs'[r].pc = "unlink"
    <3>1. Go(r, "unlink")
      BY <2>1, <2>2, <2>5 DEF Erase
    <3>2. reqs'[r] = [q EXCEPT !.pc = "unlink"]
      BY <2>2, <3>1 DEF Go, Become
    <3> QED  BY <2>4, <3>2 DEF Task
  <2> QED  BY <2>2, <2>3, <2>6, <2>7, <2>8
<1>2. AccountsInv /\ [Next]_vars =>
        [\A u \in Users : ConfirmDelete /\ users[u] # None /\ users'[u] = None =>
           \E r \in Requests :
             /\ reqs'[r].pc # reqs[r].pc
             /\ reqs[r].link # None
             /\ links[reqs[r].link].kind = "delete"
             /\ links[reqs[r].link].user = u]_vars
  BY <1>1
<1> QED  BY <1>2, AccountsHolds, PTL DEF Spec, DeletionConfirmed

=============================================================================
