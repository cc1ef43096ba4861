------------------------------ MODULE DeviceProofs -----------------------------
(***************************************************************************)
(* Proofs about the device authorization plugin, for any number of codes,  *)
(* users, requests and rows.                                               *)
(***************************************************************************)
EXTENDS DeviceFlow, FiniteSetTheorems, TLAPS

USE DeviceAssumption, NoneAssumption

-----------------------------------------------------------------------------
(* Types.                                                                   *)

LEMMA RequestFacts ==
  ASSUME TypeOK, NEW r \in Requests
  PROVE  /\ reqs[r] \in Request
         /\ reqs[r].pc \in Pcs
         /\ reqs[r].data \in Stored \cup {None}
         /\ reqs[r].id \in Ids \cup {None} /\ reqs[r].key \in Ids \cup {None}
BY DEF TypeOK, Request

LEMMA RowFacts ==
  ASSUME TypeOK, NEW i \in Ids, rows[i] # None
  PROVE  rows[i] \in Row /\ rows[i].kind \in {"device", "user"} /\ rows[i].data \in Stored
BY DEF TypeOK, Row

LEMMA StoredFacts ==
  ASSUME NEW d \in Stored
  PROVE  /\ d.code \in Codes /\ d.status \in Status /\ d.user \in Users \cup {None}
         /\ d.expires \in Nat /\ d.polled \in Nat \cup {None}
         /\ d.status = "approved" => d.user \in Users
BY DEF Stored

LEMMA IdleFacts ==
  Idle \in Request /\ Idle.pc = "idle"
BY DEF Idle, Request, Pcs

LEMMA RepolledFacts ==
  ASSUME NEW d \in Stored, now \in Nat
  PROVE  /\ Repolled(d) \in Stored /\ Repolled(d).code = d.code
         /\ Repolled(d).status = d.status /\ Repolled(d).expires = d.expires
<1>1. PICK e : e = Repolled(d)
  OBVIOUS
<1>2. e = [code |-> d.code, status |-> d.status, user |-> d.user,
           expires |-> d.expires, polled |-> now]
  BY <1>1 DEF Repolled, Stored
<1>3. e \in Stored
  BY <1>2 DEF Stored
<1> QED  BY <1>1, <1>2, <1>3

LEMMA VerdictFacts ==
  ASSUME NEW d \in Stored, d.status = "pending", NEW u \in Users,
         NEW status \in {"approved", "denied"}
  PROVE  /\ Verdict(d, u, status) \in Stored /\ Verdict(d, u, status).code = d.code
         /\ Verdict(d, u, status).status = status
         /\ Verdict(d, u, status).expires = d.expires
<1>1. PICK e : e = Verdict(d, u, status)
  OBVIOUS
<1>2. e = [code |-> d.code, status |-> status,
           user |-> IF status = "approved" THEN u ELSE d.user,
           expires |-> d.expires, polled |-> d.polled]
  BY <1>1 DEF Verdict, Stored
<1>3. e \in Stored
  BY <1>2 DEF Stored, Status
<1> QED  BY <1>1, <1>2, <1>3

\* The task r goes on with t, and the other tasks stay where they are.
Moves(r, t) ==
  /\ t \in Request
  /\ reqs'[r] = t
  /\ \A q \in Requests \ {r} : reqs'[q] = reqs[q]
  /\ reqs' \in [Requests -> Request]

LEMMA BecomeFacts ==
  ASSUME TypeOK, NEW r \in Requests, NEW t \in Request, Become(r, t)
  PROVE  Moves(r, t)
BY DEF TypeOK, Become, Moves

\* A row goes to an id that is neither in use nor named by a task.
LEMMA CreateFacts ==
  ASSUME TypeOK, NEW row \in Row, Create(row)
  PROVE  \E i \in Ids :
           /\ rows[i] = None /\ rows'[i] = row
           /\ \A j \in Ids \ {i} : rows'[j] = rows[j]
           /\ \A r \in Requests : reqs[r].id # i /\ reqs[r].key # i
           /\ rows' \in [Ids -> Row \cup {None}] /\ row # None
<1>1. PICK i \in Unused : rows' = [rows EXCEPT ![i] = row]
  BY DEF Create
<1>2. i \in Ids /\ rows[i] = None /\ i \notin Held
  BY DEF Unused
<1>3. \A r \in Requests : reqs[r].id # i /\ reqs[r].key # i
  BY <1>2 DEF Held
<1> QED  BY <1>1, <1>2, <1>3 DEF TypeOK

LEMMA DeleteFacts ==
  ASSUME TypeOK, NEW i \in Ids
  PROVE  /\ AfterDelete(i) \in [Ids -> Row \cup {None}] /\ AfterDelete(i)[i] = None
         /\ \A j \in Ids \ {i} : AfterDelete(i)[j] = rows[j]
BY DEF TypeOK, AfterDelete

-----------------------------------------------------------------------------
(* What AskCode, Poll and Decide hand to their task.                         *)

LEMMA AskCodeStep ==
  ASSUME TypeOK, RowsKept, NEW r \in Requests, AskCode(r)
  PROVE  \E k \in Codes, t \in Request :
           /\ Moves(r, t) /\ deadline[k] = None
           /\ deadline' = [deadline EXCEPT ![k] = now + ExpiresIn]
           /\ t.pc = "issue device" /\ t.data \in Stored
           /\ t.data.code = k /\ t.data.status = "pending"
           /\ t.data.expires = now + ExpiresIn
<1>1. PICK k \in Codes :
        /\ deadline[k] = None
        /\ deadline' = [deadline EXCEPT ![k] = now + ExpiresIn]
        /\ Become(r, [Idle EXCEPT !.pc = "issue device",
                       !.data = [code |-> k, status |-> "pending", user |-> None,
                                 expires |-> now + ExpiresIn, polled |-> None]])
  BY DEF AskCode
<1>2. PICK d : d = [code |-> k, status |-> "pending", user |-> None,
                    expires |-> now + ExpiresIn, polled |-> None]
  OBVIOUS
<1>3. d \in Stored /\ d.code = k /\ d.status = "pending" /\ d.expires = now + ExpiresIn
  BY <1>2 DEF TypeOK, Stored, Status
<1>4. PICK t : t = [Idle EXCEPT !.pc = "issue device", !.data = d]
  OBVIOUS
<1>5. t \in Request /\ t.pc = "issue device" /\ t.data = d
  BY <1>3, <1>4 DEF Idle, Request, Pcs
<1>6. Moves(r, t)
  BY <1>1, <1>2, <1>4, <1>5, BecomeFacts
<1> QED  BY <1>1, <1>3, <1>5, <1>6

LEMMA PollStep ==
  ASSUME TypeOK, NEW r \in Requests, Poll(r)
  PROVE  \E t \in Request :
           /\ Moves(r, t)
           /\ \/ t.pc = "idle"
              \/ /\ t.pc = "consume" /\ t.data.status = "approved"
                 /\ \E i \in Ids : rows[i] # None /\ t.data = rows[i].data
              \/ /\ t.pc = "unpoll" /\ t.id \in Ids /\ t.data \in Stored
                 /\ rows[t.id] # None /\ rows[t.id].data.status = "pending"
                 /\ t.data = Repolled(rows[t.id].data)
<1>1. CASE Become(r, Idle)
  BY <1>1, IdleFacts, BecomeFacts
<1>2. CASE \E k \in told : \E i \in Matching("device", k) :
             LET data == rows[i].data IN
             Become(r,
               CASE data.status = "denied" -> Idle
                 [] data.status = "approved" ->
                      [Idle EXCEPT !.pc = "consume", !.data = data]
                 [] OTHER ->
                      IF TooSoon(data) THEN Idle
                      ELSE [Idle EXCEPT !.pc = "unpoll", !.id = i,
                              !.data = Repolled(data)])
  <2>0. PICK k \in told : \E i \in Matching("device", k) :
             LET data == rows[i].data IN
             Become(r,
               CASE data.status = "denied" -> Idle
                 [] data.status = "approved" ->
                      [Idle EXCEPT !.pc = "consume", !.data = data]
                 [] OTHER ->
                      IF TooSoon(data) THEN Idle
                      ELSE [Idle EXCEPT !.pc = "unpoll", !.id = i,
                              !.data = Repolled(data)])
    BY <1>2
  <2>1. PICK i \in Matching("device", k) :
             LET data == rows[i].data IN
             Become(r,
               CASE data.status = "denied" -> Idle
                 [] data.status = "approved" ->
                      [Idle EXCEPT !.pc = "consume", !.data = data]
                 [] OTHER ->
                      IF TooSoon(data) THEN Idle
                      ELSE [Idle EXCEPT !.pc = "unpoll", !.id = i,
                              !.data = Repolled(data)])
    BY <2>0
  <2>2. i \in Ids /\ rows[i] # None
    BY DEF Matching
  <2>3. PICK d : d = rows[i].data
    OBVIOUS
  <2>4. d \in Stored /\ d.status \in Status
    BY <2>2, <2>3, RowFacts, StoredFacts
  <2>5. Repolled(d) \in Stored
    BY <2>4, RepolledFacts DEF TypeOK
  <2>6. CASE d.status = "denied" \/ (d.status = "pending" /\ TooSoon(d))
    <3>1. Become(r, Idle)
      BY <2>1, <2>3, <2>6
    <3> QED  BY <1>1, <3>1
  <2>7. CASE d.status = "approved"
    <3>1. PICK t : t = [Idle EXCEPT !.pc = "consume", !.data = d]
      OBVIOUS
    <3>2. t \in Request /\ t.pc = "consume" /\ t.data = d
      BY <2>4, <3>1 DEF Idle, Request, Pcs
    <3>3. Become(r, t)
      BY <2>1, <2>3, <2>7, <3>1
    <3> QED  BY <2>2, <2>3, <2>7, <3>2, <3>3, BecomeFacts
  <2>8. CASE d.status = "pending" /\ ~TooSoon(d)
    <3>1. PICK t : t = [Idle EXCEPT !.pc = "unpoll", !.id = i, !.data = Repolled(d)]
      OBVIOUS
    <3>2. t \in Request /\ t.pc = "unpoll" /\ t.id = i /\ t.data = Repolled(d)
      BY <2>2, <2>5, <3>1 DEF Idle, Request, Pcs
    <3>3. Become(r, t)
      BY <2>1, <2>3, <2>8, <3>1
    <3> QED  BY <2>2, <2>3, <2>5, <2>8, <3>2, <3>3, BecomeFacts
  <2> QED  BY <2>4, <2>6, <2>7, <2>8 DEF Status
<1> QED  BY <1>1, <1>2 DEF Poll

LEMMA DecideStep ==
  ASSUME TypeOK, RowsKept, NEW r \in Requests, Decide(r)
  PROVE  \E t \in Request :
           /\ Moves(r, t)
           /\ \/ t.pc = "idle" /\ UNCHANGED deciders
              \/ \E i \in Ids, k \in Codes :
                   /\ rows[i] # None /\ UserRow(i, k) /\ t.key = i
                   /\ t.pc = "find device" /\ t.data \in Stored
                   /\ t.data.code = k /\ t.data.status # "pending"
                   /\ t.data.expires = rows[i].data.expires
                   /\ deciders' = [deciders EXCEPT ![k] = IF @ = 0 THEN 1 ELSE 2]
<1>1. CASE Become(r, Idle) /\ UNCHANGED deciders
  BY <1>1, IdleFacts, BecomeFacts
<1>2. CASE \E u \in users, k \in told, status \in {"approved", "denied"} :
             \E i \in Matching("user", k) :
               /\ Become(r, [Idle EXCEPT !.pc = "find device", !.key = i,
                               !.data = Verdict(rows[i].data, u, status)])
               /\ deciders' = [deciders EXCEPT ![k] = IF @ = 0 THEN 1 ELSE 2]
  <2>1. PICK u \in users, k \in told, status \in {"approved", "denied"} :
             \E i \in Matching("user", k) :
               /\ Become(r, [Idle EXCEPT !.pc = "find device", !.key = i,
                               !.data = Verdict(rows[i].data, u, status)])
               /\ deciders' = [deciders EXCEPT ![k] = IF @ = 0 THEN 1 ELSE 2]
    BY <1>2
  <2>2. PICK i \in Matching("user", k) :
               /\ Become(r, [Idle EXCEPT !.pc = "find device", !.key = i,
                               !.data = Verdict(rows[i].data, u, status)])
               /\ deciders' = [deciders EXCEPT ![k] = IF @ = 0 THEN 1 ELSE 2]
    BY <2>1
  <2>3. i \in Ids /\ UserRow(i, k) /\ u \in Users /\ k \in Codes
    BY DEF Matching, UserRow, TypeOK
  <2>4. rows[i] # None /\ rows[i].data \in Stored /\ rows[i].data.status = "pending"
        /\ rows[i].data.code = k
    BY <2>3, RowFacts DEF RowsKept, UserRow
  <2>5. PICK d : d = Verdict(rows[i].data, u, status)
    OBVIOUS
  <2>6. /\ d \in Stored /\ d.code = k /\ d.status = status
        /\ d.expires = rows[i].data.expires
    BY <2>3, <2>4, <2>5, VerdictFacts
  <2>7. PICK t : t = [Idle EXCEPT !.pc = "find device", !.key = i, !.data = d]
    OBVIOUS
  <2>8. t \in Request /\ t.pc = "find device" /\ t.key = i /\ t.data = d
    BY <2>3, <2>6, <2>7 DEF Idle, Request, Pcs
  <2>9. Moves(r, t)
    BY <2>2, <2>5, <2>7, <2>8, BecomeFacts
  <2> QED  BY <2>2, <2>3, <2>4, <2>6, <2>8, <2>9
<1> QED  BY <1>1, <1>2 DEF Decide

-----------------------------------------------------------------------------
(* What a step keeps that takes rows away, if any, and puts none there.     *)

LEMMA Lossy ==
  ASSUME TypeOK, RowsKept, TasksKept, DecisionsCounted, DecisionKept,
         NEW r \in Requests, NEW t, Moves(r, t),
         UNCHANGED <<now, deadline, told, decided, deciders>>,
         spent \subseteq spent',
         \A i \in Ids : rows'[i] = rows[i] \/ rows'[i] = None,
         \A i \in Ids : rows[i] # None /\ rows'[i] = None =>
           LET d == rows[i].data IN
           \/ d.status = "pending" \/ d.code \in spent'
           \/ d.code \notin decided \/ deciders[d.code] # 1,
         t.pc = "idle" \/ (Carries(t) /\ Names(t)'),
         ~Issuing(t),
         Deciding(t) => Deciding(reqs[r]) /\ t.data.code = reqs[r].data.code
  PROVE  RowsKept' /\ TasksKept' /\ DecisionsCounted' /\ DecisionKept'
<1>1. RowsKept'
  <2>1. \A i \in Ids : \A k : UserRow(i, k)' => UserRow(i, k)
    BY DEF UserRow
  <2> QED  BY <2>1 DEF RowsKept
<1>2. \A q \in Requests : ~Free(q)' => Carries(reqs[q])' /\ Names(reqs[q])'
  <2> SUFFICES ASSUME NEW q \in Requests, ~Free(q)'
               PROVE  Carries(reqs[q])' /\ Names(reqs[q])'
    OBVIOUS
  <2>1. CASE q = r
    BY <2>1 DEF Moves, Carries, Names, UserRow, Free, At, Issuing, Polling, Claiming, Deciding
  <2>2. CASE q # r
    <3>1. reqs'[q] = reqs[q] /\ ~Free(q)
      BY <2>2 DEF Moves, Free, At
    <3>2. Carries(reqs[q]) /\ Names(reqs[q])
      BY <3>1 DEF TasksKept
    <3>3. Carries(reqs[q])'
      BY <3>1, <3>2 DEF Carries, Issuing, Polling, Claiming, Deciding
    <3>4. Names(reqs[q])'
      BY <3>1, <3>2, ZenonT(120) DEF Names, UserRow, Deciding
    <3> QED  BY <3>3, <3>4
  <2> QED  BY <2>1, <2>2
<1>3. TasksKept'
  BY <1>2 DEF TasksKept, Moves, Issuing, Free, At
<1>4. DecisionsCounted'
  <2>1. \A q \in Requests : Deciding(reqs'[q]) =>
          Deciding(reqs[q]) /\ reqs'[q].data.code = reqs[q].data.code
    BY DEF Moves
  <2>2. \A q \in Requests : Deciding(reqs[q])' <=> Deciding(reqs'[q])
    BY DEF Deciding
  <2> QED  BY <2>1, <2>2 DEF DecisionsCounted
<1>5. DecisionKept'
  <2> SUFFICES ASSUME NEW k \in decided, deciders[k] = 1, k \notin spent', now < deadline[k]
               PROVE  \E i \in Matching("device", k)' : rows'[i].data.status # "pending"
    BY DEF DecisionKept
  <2>1. PICK i \in Matching("device", k) : rows[i].data.status # "pending"
    BY DEF DecisionKept
  <2>2. i \in Ids /\ rows[i] # None /\ rows[i].data.code = k /\ rows[i].kind = "device"
    BY DEF Matching
  <2>3. rows'[i] = rows[i]
    BY <2>1, <2>2
  <2>4. i \in Matching("device", k)'
    BY <2>1, <2>2, <2>3 DEF Matching, Alive
  <2> QED  BY <2>1, <2>3, <2>4
<1> QED  BY <1>1, <1>3, <1>4, <1>5

\* Approvals are balanced as long as none of them is multiplied.
LEMMA NotMultiplied ==
  ASSUME TypeOK, Balanced, UNCHANGED <<approved, minted>>,
         \A k \in Codes, u \in Users : Stock(k, u)' \subseteq Stock(k, u),
         \A k \in Codes, u \in Users : Claims(k, u)' \subseteq Claims(k, u)
  PROVE  Balanced'
<1> SUFFICES ASSUME NEW k \in Codes, NEW u \in Users
             PROVE  /\ IsFiniteSet(Stock(k, u))' /\ IsFiniteSet(Claims(k, u))'
                    /\ Cardinality(Stock(k, u))' + Cardinality(Claims(k, u))' + minted'[k][u]
                         <= approved'[k][u]
  BY DEF Balanced
<1>1. /\ IsFiniteSet(Stock(k, u)) /\ IsFiniteSet(Claims(k, u))
      /\ Cardinality(Stock(k, u)) + Cardinality(Claims(k, u)) + minted[k][u]
           <= approved[k][u]
  BY DEF Balanced
<1>2. PICK S : S = Stock(k, u)
  OBVIOUS
<1>3. PICK S1 : S1 = Stock(k, u)'
  OBVIOUS
<1>4. PICK C : C = Claims(k, u)
  OBVIOUS
<1>5. PICK C1 : C1 = Claims(k, u)'
  OBVIOUS
<1>6. S1 \in SUBSET S /\ C1 \in SUBSET C /\ IsFiniteSet(S) /\ IsFiniteSet(C)
  BY <1>1, <1>2, <1>3, <1>4, <1>5
<1>7. IsFiniteSet(S1) /\ Cardinality(S1) <= Cardinality(S)
  BY <1>6, FS_Subset
<1>8. IsFiniteSet(C1) /\ Cardinality(C1) <= Cardinality(C)
  BY <1>6, FS_Subset
<1>9. /\ Cardinality(S) \in Nat /\ Cardinality(C) \in Nat
      /\ Cardinality(S1) \in Nat /\ Cardinality(C1) \in Nat
  BY <1>6, <1>7, <1>8, FS_CardinalityType
<1>10. minted[k][u] \in Nat /\ approved[k][u] \in Nat
  BY DEF TypeOK
<1>11. Cardinality(S) + Cardinality(C) + minted[k][u] <= approved[k][u]
  BY <1>1, <1>2, <1>4
<1>12. Cardinality(S1) + Cardinality(C1) + minted[k][u] <= approved[k][u]
  BY <1>7, <1>8, <1>9, <1>10, <1>11
<1>13. Cardinality(S1) + Cardinality(C1) + minted'[k][u] <= approved'[k][u]
  BY <1>12
<1> QED  BY <1>3, <1>5, <1>7, <1>8, <1>13

\* So are they by a step that takes rows away and hands no approval to a task.
LEMMA LossyBalanced ==
  ASSUME TypeOK, Balanced, NEW r \in Requests, NEW t, Moves(r, t),
         UNCHANGED <<approved, minted>>,
         \A i \in Ids : rows'[i] = rows[i] \/ rows'[i] = None,
         Claiming(t) => Claiming(reqs[r]) /\ t.data = reqs[r].data
  PROVE  Balanced'
<1>1. \A k \in Codes, u \in Users : Stock(k, u)' \subseteq Stock(k, u)
  BY DEF Stock
<1>2. \A k \in Codes, u \in Users : Claims(k, u)' \subseteq Claims(k, u)
  BY DEF Claims, Moves, Claiming
<1> QED  BY <1>1, <1>2, NotMultiplied

-----------------------------------------------------------------------------
(* The steps of a poll and of a decision that store nothing.                *)

LEMMA PollKeeps ==
  ASSUME DeviceInv, NEW r \in Requests, Poll(r)
  PROVE  DeviceInv'
<1> USE DEF DeviceInv
<1>0. UNCHANGED <<now, users, rows, history>>
  BY DEF Poll
<1>1. PICK t \in Request :
           /\ Moves(r, t)
           /\ \/ t.pc = "idle"
              \/ /\ t.pc = "consume" /\ t.data.status = "approved"
                 /\ \E i \in Ids : rows[i] # None /\ t.data = rows[i].data
              \/ /\ t.pc = "unpoll" /\ t.id \in Ids /\ t.data \in Stored
                 /\ rows[t.id] # None /\ rows[t.id].data.status = "pending"
                 /\ t.data = Repolled(rows[t.id].data)
  BY PollStep
<1>2. t.pc = "idle" \/ (Carries(t) /\ Names(t)')
  <2>1. CASE t.pc = "consume"
    <3>1. PICK i \in Ids : rows[i] # None /\ t.data = rows[i].data
      BY <1>1, <2>1
    <3>2. rows[i].data \in Stored /\ deadline[rows[i].data.code] = rows[i].data.expires
      BY <3>1, RowFacts DEF RowsKept
    <3>3. Carries(t)
      BY <1>1, <2>1, <3>1, <3>2 DEF Carries, Issuing, Polling, Claiming, Deciding
    <3> QED  BY <2>1, <3>3 DEF Names, Deciding
  <2>2. CASE t.pc = "unpoll"
    <3>1. PICK d : d = rows[t.id].data
      OBVIOUS
    <3>2. d \in Stored /\ deadline[d.code] = d.expires
      BY <1>1, <2>2, <3>1, RowFacts DEF RowsKept
    <3>3. t.data.code = d.code /\ t.data.status = "pending" /\ t.data.expires = d.expires
      BY <1>1, <2>2, <3>1, <3>2, RepolledFacts DEF TypeOK
    <3>4. Carries(t)
      BY <1>1, <2>2, <3>2, <3>3 DEF Carries, Issuing, Polling, Claiming, Deciding
    <3> QED  BY <1>0, <1>1, <2>2, <3>4 DEF Names, Deciding
  <2> QED  BY <1>1, <2>1, <2>2
<1>3. ~Issuing(t) /\ ~Deciding(t) /\ ~Claiming(t)
  BY <1>1 DEF Issuing, Deciding, Claiming
<1>4. TypeOK'
  BY <1>0, <1>1 DEF TypeOK, Moves, history
<1>5. RowsKept' /\ TasksKept' /\ DecisionsCounted' /\ DecisionKept'
  BY <1>0, <1>1, <1>2, <1>3, Lossy DEF history
<1>6. Balanced'
  BY <1>0, <1>1, <1>3, LossyBalanced DEF history
<1> QED  BY <1>4, <1>5, <1>6

\* A step that only moves the task.
LEMMA QuietKeeps ==
  ASSUME DeviceInv, NEW r \in Requests, NEW t \in Request, Become(r, t),
         UNCHANGED <<now, users, rows, history>>,
         t.pc = "idle" \/ (Carries(t) /\ Names(t)),
         ~Issuing(t),
         Deciding(t) => Deciding(reqs[r]) /\ t.data.code = reqs[r].data.code,
         Claiming(t) => Claiming(reqs[r]) /\ t.data = reqs[r].data
  PROVE  DeviceInv'
<1> USE DEF DeviceInv
<1>1. Moves(r, t)
  BY BecomeFacts
<1>2. TypeOK'
  BY <1>1 DEF TypeOK, Moves, history
<1>3. t.pc = "idle" \/ (Carries(t) /\ Names(t)')
  BY DEF Names, UserRow
<1>4. RowsKept' /\ TasksKept' /\ DecisionsCounted' /\ DecisionKept'
  BY <1>1, <1>3, Lossy DEF history
<1>5. Balanced'
  BY <1>1, LossyBalanced DEF history
<1> QED  BY <1>2, <1>4, <1>5

LEMMA FailKeeps ==
  ASSUME DeviceInv, NEW r \in Requests, Fail(r)
  PROVE  DeviceInv'
BY IdleFacts, QuietKeeps DEF Fail, Issuing, Deciding, Claiming

LEMMA FindUserKeeps ==
  ASSUME DeviceInv, NEW r \in Requests, FindUser(r)
  PROVE  DeviceInv'
<1> USE DEF DeviceInv
<1>1. UNCHANGED <<now, users, rows, history>> /\ reqs[r].pc = "user"
  BY DEF FindUser, At
<1>2. CASE Become(r, Idle)
  BY <1>1, <1>2, IdleFacts, QuietKeeps DEF Issuing, Deciding, Claiming
<1>3. CASE Become(r, [reqs[r] EXCEPT !.pc = "session"])
  <2>1. PICK t : t = [reqs[r] EXCEPT !.pc = "session"]
    OBVIOUS
  <2>2. t \in Request /\ t.pc = "session" /\ t.data = reqs[r].data
    BY <2>1, RequestFacts DEF Request, Pcs
  <2>3. Carries(reqs[r])
    BY <1>1 DEF TasksKept, Free, At
  <2>4. Carries(t) /\ Names(t)
    BY <1>1, <2>2, <2>3 DEF Carries, Names, Issuing, Polling, Claiming, Deciding
  <2>5. ~Issuing(t) /\ ~Deciding(t) /\ Claiming(reqs[r])
    BY <1>1, <2>2 DEF Issuing, Deciding, Claiming
  <2> QED  BY <1>1, <1>3, <2>1, <2>2, <2>4, <2>5, QuietKeeps
<1> QED  BY <1>2, <1>3 DEF FindUser

LEMMA FindDeviceKeeps ==
  ASSUME DeviceInv, NEW r \in Requests, FindDevice(r)
  PROVE  DeviceInv'
<1> USE DEF DeviceInv
<1>1. UNCHANGED <<now, users, rows, history>> /\ reqs[r].pc = "find device"
  BY DEF FindDevice, At
<1>2. Carries(reqs[r]) /\ Names(reqs[r])
  BY <1>1 DEF TasksKept, Free, At
<1>3. CASE Become(r, [reqs[r] EXCEPT !.pc = "drop user"])
  <2>1. PICK t : t = [reqs[r] EXCEPT !.pc = "drop user"]
    OBVIOUS
  <2>2. t \in Request /\ t.pc = "drop user" /\ t.data = reqs[r].data /\ t.key = reqs[r].key
    BY <2>1, RequestFacts DEF Request, Pcs
  <2>3. Carries(t) /\ Names(t)
    BY <1>1, <1>2, <2>2 DEF Carries, Names, Issuing, Polling, Claiming, Deciding
  <2>4. ~Issuing(t) /\ ~Claiming(t) /\ Deciding(reqs[r])
    BY <1>1, <2>2 DEF Issuing, Deciding, Claiming
  <2> QED  BY <1>1, <1>3, <2>1, <2>2, <2>3, <2>4, QuietKeeps
<1>4. CASE \E i \in Matching("device", reqs[r].data.code) :
             Become(r, [reqs[r] EXCEPT !.pc = "drop device", !.id = i])
  <2>1. PICK i \in Matching("device", reqs[r].data.code) :
             Become(r, [reqs[r] EXCEPT !.pc = "drop device", !.id = i])
    BY <1>4
  <2>2. i \in Ids /\ rows[i].data.code = reqs[r].data.code
    BY DEF Matching
  <2>3. PICK t : t = [reqs[r] EXCEPT !.pc = "drop device", !.id = i]
    OBVIOUS
  <2>4. /\ t \in Request /\ t.pc = "drop device" /\ t.id = i
        /\ t.data = reqs[r].data /\ t.key = reqs[r].key
    BY <2>2, <2>3, RequestFacts DEF Request, Pcs
  <2>5. Carries(t) /\ Names(t)
    BY <1>1, <1>2, <2>2, <2>4 DEF Carries, Names, Issuing, Polling, Claiming, Deciding
  <2>6. ~Issuing(t) /\ ~Claiming(t) /\ Deciding(reqs[r])
    BY <1>1, <2>4 DEF Issuing, Deciding, Claiming
  <2> QED  BY <1>1, <2>1, <2>3, <2>4, <2>5, <2>6, QuietKeeps
<1> QED  BY <1>3, <1>4 DEF FindDevice

LEMMA UnpollKeeps ==
  ASSUME DeviceInv, NEW r \in Requests, Unpoll(r)
  PROVE  DeviceInv'
<1> USE DEF DeviceInv
<1>1. UNCHANGED <<now, users, history>> /\ reqs[r].pc = "unpoll"
  BY DEF Unpoll, At
<1>2. Carries(reqs[r]) /\ Names(reqs[r])
  BY <1>1 DEF TasksKept, Free, At
<1>3. PICK i : i = reqs[r].id
  OBVIOUS
<1>4. i \in Ids /\ (rows[i] # None => rows[i].data.status = "pending")
  BY <1>1, <1>2, <1>3 DEF Names
<1>5. PICK t : t = [reqs[r] EXCEPT !.pc = "repoll", !.id = None]
  OBVIOUS
<1>6. t \in Request /\ t.pc = "repoll" /\ t.data = reqs[r].data
  BY <1>5, RequestFacts DEF Request, Pcs
<1>7. Moves(r, t)
  BY <1>5, <1>6, BecomeFacts DEF Unpoll
<1>8. /\ rows' \in [Ids -> Row \cup {None}] /\ rows'[i] = None
      /\ \A j \in Ids \ {i} : rows'[j] = rows[j]
  BY <1>3, <1>4, DeleteFacts DEF Unpoll
<1>9. Carries(t) /\ Names(t)'
  BY <1>1, <1>2, <1>6 DEF Carries, Names, Issuing, Polling, Claiming, Deciding
<1>10. ~Issuing(t) /\ ~Deciding(t) /\ ~Claiming(t)
  BY <1>6 DEF Issuing, Deciding, Claiming
<1>11. TypeOK'
  BY <1>1, <1>7, <1>8 DEF TypeOK, Moves, history
<1>12. RowsKept' /\ TasksKept' /\ DecisionsCounted' /\ DecisionKept'
  BY <1>1, <1>4, <1>7, <1>8, <1>9, <1>10, Lossy DEF history
<1>13. Balanced'
  BY <1>1, <1>7, <1>8, <1>10, LossyBalanced DEF history
<1> QED  BY <1>11, <1>12, <1>13

LEMMA DropDeviceKeeps ==
  ASSUME DeviceInv, NEW r \in Requests, DropDevice(r)
  PROVE  DeviceInv'
<1> USE DEF DeviceInv
<1>1. UNCHANGED <<now, users, history>> /\ reqs[r].pc = "drop device"
  BY DEF DropDevice, At
<1>2. Carries(reqs[r]) /\ Names(reqs[r])
  BY <1>1 DEF TasksKept, Free, At
<1>3. PICK i : i = reqs[r].id
  OBVIOUS
<1>4. i \in Ids /\ (rows[i] # None => rows[i].data.code = reqs[r].data.code)
  BY <1>1, <1>2, <1>3 DEF Names
<1>5. PICK t : t = [reqs[r] EXCEPT !.pc = "drop user", !.id = None]
  OBVIOUS
<1>6. t \in Request /\ t.pc = "drop user" /\ t.data = reqs[r].data /\ t.key = reqs[r].key
  BY <1>5, RequestFacts DEF Request, Pcs
<1>7. Moves(r, t)
  BY <1>5, <1>6, BecomeFacts DEF DropDevice
<1>8. /\ rows' \in [Ids -> Row \cup {None}] /\ rows'[i] = None
      /\ \A j \in Ids \ {i} : rows'[j] = rows[j]
  BY <1>3, <1>4, DeleteFacts DEF DropDevice
<1>9. Carries(t)
  BY <1>1, <1>2, <1>6 DEF Carries, Issuing, Polling, Claiming, Deciding
<1>10. Names(t)'
  <2>1. \A j \in Ids : UserRow(j, t.data.code)' => UserRow(j, t.data.code)
    BY <1>8 DEF UserRow
  <2>2. reqs[r].key \in Ids
    BY <1>1, <1>2 DEF Names, Deciding
  <2>3. rows'[t.key] = rows[t.key] \/ rows'[t.key] = None
    BY <1>6, <1>8, <2>2
  <2> QED  BY <1>1, <1>2, <1>6, <2>1, <2>2, <2>3 DEF Names, Deciding
<1>11. ~Issuing(t) /\ ~Claiming(t) /\ Deciding(reqs[r])
  BY <1>1, <1>6 DEF Issuing, Deciding, Claiming
<1>12. rows[i] # None =>
         rows[i].data.code \notin decided \/ deciders[rows[i].data.code] # 1
  BY <1>4, <1>11 DEF DecisionsCounted
<1>13. TypeOK'
  BY <1>1, <1>7, <1>8 DEF TypeOK, Moves, history
<1>14. RowsKept' /\ TasksKept' /\ DecisionsCounted' /\ DecisionKept'
  BY <1>1, <1>4, <1>6, <1>7, <1>8, <1>9, <1>10, <1>11, <1>12, Lossy DEF history
<1>15. Balanced'
  BY <1>1, <1>7, <1>8, <1>11, LossyBalanced DEF history
<1> QED  BY <1>13, <1>14, <1>15

LEMMA DropUserKeeps ==
  ASSUME DeviceInv, NEW r \in Requests, DropUser(r)
  PROVE  DeviceInv'
<1> USE DEF DeviceInv
<1>1. UNCHANGED <<now, users, history>> /\ reqs[r].pc = "drop user"
  BY DEF DropUser, At
<1>2. Carries(reqs[r]) /\ Names(reqs[r])
  BY <1>1 DEF TasksKept, Free, At
<1>3. PICK i : i = reqs[r].key
  OBVIOUS
<1>4. PICK k : k = reqs[r].data.code
  OBVIOUS
<1>5. PICK t : t = [reqs[r] EXCEPT !.pc = "decide", !.key = None]
  OBVIOUS
<1>6. t \in Request /\ t.pc = "decide" /\ t.data = reqs[r].data
  BY <1>5, RequestFacts DEF Request, Pcs
<1>7. Moves(r, t)
  BY <1>5, <1>6, BecomeFacts DEF DropUser
<1>8. rows' = [rows EXCEPT ![i] = None]
  BY <1>3 DEF DropUser, AfterDropUser, AfterDelete
<1>9. /\ rows' \in [Ids -> Row \cup {None}]
      /\ i \in Ids => rows'[i] = None
      /\ \A j \in Ids : j # i => rows'[j] = rows[j]
  BY <1>8 DEF TypeOK
<1>10. \A j \in Ids : UserRow(j, k) => j = i
  BY <1>1, <1>2, <1>3, <1>4 DEF Names, Deciding
<1>11. Carries(t)
  BY <1>1, <1>2, <1>6 DEF Carries, Issuing, Polling, Claiming, Deciding
<1>12. Names(t)'
  <2>1. \A j \in Ids : ~UserRow(j, k)'
    BY <1>9, <1>10 DEF UserRow
  <2> QED  BY <1>4, <1>6, <2>1 DEF Names
<1>13. ~Issuing(t) /\ ~Claiming(t) /\ Deciding(reqs[r])
  BY <1>1, <1>6 DEF Issuing, Deciding, Claiming
<1>14. i \in Ids /\ (rows[i] # None => rows[i].data.code = k)
  BY <1>1, <1>2, <1>3, <1>4, <1>13 DEF Names
<1>15. rows[i] # None => k \notin decided \/ deciders[k] # 1
  BY <1>4, <1>13 DEF DecisionsCounted
<1>16. \A j \in Ids : rows[j] # None /\ rows'[j] = None =>
           LET d == rows[j].data IN
           \/ d.status = "pending" \/ d.code \in spent'
           \/ d.code \notin decided \/ deciders[d.code] # 1
  BY <1>1, <1>9, <1>14, <1>15
<1>17. TypeOK'
  BY <1>1, <1>7, <1>9 DEF TypeOK, Moves, history
<1>18. \A j \in Ids : rows'[j] = rows[j] \/ rows'[j] = None
  BY <1>9
<1>19. RowsKept' /\ TasksKept' /\ DecisionsCounted' /\ DecisionKept'
  BY <1>1, <1>6, <1>7, <1>11, <1>12, <1>13, <1>16, <1>18, Lossy DEF history
<1>20. Balanced'
  BY <1>1, <1>7, <1>13, <1>18, LossyBalanced DEF history
<1> QED  BY <1>17, <1>19, <1>20

\* One approval leaves the store for the task that consumed it.
LEMMA ConsumeBalanced ==
  ASSUME TypeOK, Balanced, NEW r \in Requests, NEW t, Moves(r, t),
         UNCHANGED <<approved, minted>>,
         \A j \in Ids : rows'[j] = rows[j] \/ rows'[j] = None,
         NEW i \in Ids, rows[i] # None, rows'[i] = None,
         rows[i].data.status = "approved",
         t.data = rows[i].data
  PROVE  Balanced'
<1> SUFFICES ASSUME NEW k \in Codes, NEW u \in Users
             PROVE  /\ IsFiniteSet(Stock(k, u))' /\ IsFiniteSet(Claims(k, u))'
                    /\ Cardinality(Stock(k, u))' + Cardinality(Claims(k, u))' + minted'[k][u]
                         <= approved'[k][u]
  BY DEF Balanced
<1>1. /\ IsFiniteSet(Stock(k, u)) /\ IsFiniteSet(Claims(k, u))
      /\ Cardinality(Stock(k, u)) + Cardinality(Claims(k, u)) + minted[k][u]
           <= approved[k][u]
  BY DEF Balanced
<1>2. PICK S : S = Stock(k, u)
  OBVIOUS
<1>3. PICK S1 : S1 = Stock(k, u)'
  OBVIOUS
<1>4. PICK C : C = Claims(k, u)
  OBVIOUS
<1>5. PICK C1 : C1 = Claims(k, u)'
  OBVIOUS
<1>6. IsFiniteSet(S) /\ IsFiniteSet(C)
  BY <1>1, <1>2, <1>4
<1>7. Cardinality(S) + Cardinality(C) + minted[k][u] <= approved[k][u]
  BY <1>1, <1>2, <1>4
<1>8. minted[k][u] \in Nat /\ approved[k][u] \in Nat
  BY DEF TypeOK
<1>9. S1 \in SUBSET S
  BY <1>2, <1>3 DEF Stock
<1>10. IsFiniteSet(S1) /\ Cardinality(S1) <= Cardinality(S)
  BY <1>6, <1>9, FS_Subset
<1>11. Cardinality(S) \in Nat /\ Cardinality(C) \in Nat /\ Cardinality(S1) \in Nat
  BY <1>6, <1>10, FS_CardinalityType
<1>12. /\ IsFiniteSet(C1)
       /\ Cardinality(S1) + Cardinality(C1) + minted[k][u] <= approved[k][u]
  <2>1. CASE t.data.code = k /\ t.data.user = u
    <3>1. i \in S /\ i \notin S1
      BY <1>2, <1>3, <2>1 DEF Stock
    <3>2. S1 \in SUBSET (S \ {i})
      BY <1>9, <3>1
    <3>3. IsFiniteSet(S \ {i}) /\ Cardinality(S \ {i}) = Cardinality(S) - 1
      BY <1>6, <3>1, FS_RemoveElement
    <3>4. Cardinality(S1) <= Cardinality(S) - 1
      BY <3>2, <3>3, FS_Subset
    <3>5. C1 \in SUBSET (C \cup {r})
      BY <1>4, <1>5 DEF Claims, Moves, Claiming
    <3>6. /\ IsFiniteSet(C \cup {r})
          /\ Cardinality(C \cup {r}) \in {Cardinality(C), Cardinality(C) + 1}
      BY <1>6, FS_AddElement
    <3>7. IsFiniteSet(C1) /\ Cardinality(C1) <= Cardinality(C \cup {r})
      BY <3>5, <3>6, FS_Subset
    <3>8. Cardinality(C1) \in Nat
      BY <3>7, FS_CardinalityType
    <3> QED  BY <1>7, <1>8, <1>11, <3>4, <3>6, <3>7, <3>8
  <2>2. CASE ~(t.data.code = k /\ t.data.user = u)
    <3>1. C1 \in SUBSET C
      BY <1>4, <1>5, <2>2 DEF Claims, Moves, Claiming
    <3>2. IsFiniteSet(C1) /\ Cardinality(C1) <= Cardinality(C)
      BY <1>6, <3>1, FS_Subset
    <3>3. Cardinality(C1) \in Nat
      BY <3>2, FS_CardinalityType
    <3> QED  BY <1>7, <1>8, <1>10, <1>11, <3>2, <3>3
  <2> QED  BY <2>1, <2>2
<1>13. Cardinality(S1) + Cardinality(C1) + minted'[k][u] <= approved'[k][u]
  BY <1>12
<1> QED  BY <1>3, <1>5, <1>10, <1>12, <1>13

LEMMA ConsumeKeeps ==
  ASSUME DeviceInv, NEW r \in Requests, Consume(r)
  PROVE  DeviceInv'
<1> USE DEF DeviceInv
<1>1. /\ UNCHANGED <<now, users, deadline, told, decided, deciders, approved, minted>>
      /\ reqs[r].pc = "consume"
  BY DEF Consume, At
<1>2. Carries(reqs[r]) /\ Names(reqs[r])
  BY <1>1 DEF TasksKept, Free, At
<1>3. PICK d : d = reqs[r].data
  OBVIOUS
<1>4. d \in Stored /\ d.status = "approved"
  BY <1>1, <1>2, <1>3, RequestFacts DEF Carries
<1>5. CASE Become(r, Idle) /\ UNCHANGED <<rows, spent>>
  BY <1>1, <1>5, IdleFacts, QuietKeeps DEF history, Issuing, Deciding, Claiming
<1>6. CASE \E i \in Equal("device", d) :
             /\ rows' = AfterConsume(i, Equal("device", d))
             /\ spent' = spent \cup {d.code}
             /\ Become(r, [reqs[r] EXCEPT !.pc = "user"])
  <2>1. PICK i \in Equal("device", d) :
             /\ rows' = AfterConsume(i, Equal("device", d))
             /\ spent' = spent \cup {d.code}
             /\ Become(r, [reqs[r] EXCEPT !.pc = "user"])
    BY <1>6
  <2>2. PICK E : E = Equal("device", d)
    OBVIOUS
  <2>3. i \in E /\ \A j \in E : j \in Ids /\ rows[j] # None /\ rows[j].data = d
    BY <2>1, <2>2 DEF Equal, Matching
  <2>4. PICK t : t = [reqs[r] EXCEPT !.pc = "user"]
    OBVIOUS
  <2>5. t \in Request /\ t.pc = "user" /\ t.data = d
    BY <1>3, <2>4, RequestFacts DEF Request, Pcs
  <2>6. Moves(r, t)
    BY <2>1, <2>4, <2>5, BecomeFacts
  <2>7. rows' = [j \in Ids |-> IF j = i \/ (Adapter = "d1" /\ j \in E)
                               THEN None ELSE rows[j]]
    BY <2>1, <2>2 DEF AfterConsume
  <2>8. /\ rows' \in [Ids -> Row \cup {None}] /\ rows'[i] = None
        /\ \A j \in Ids : rows'[j] = rows[j] \/ (j \in E /\ rows'[j] = None)
    BY <2>3, <2>7 DEF TypeOK
  <2>9. Carries(t) /\ Names(t)'
    BY <1>1, <1>2, <1>3, <2>5 DEF Carries, Names, Issuing, Polling, Claiming, Deciding
  <2>10. ~Issuing(t) /\ ~Deciding(t)
    BY <2>5 DEF Issuing, Deciding
  <2>11. TypeOK'
    BY <1>1, <1>4, <2>1, <2>6, <2>8, StoredFacts DEF TypeOK, Moves
  <2>12. \A j \in Ids : rows'[j] = rows[j] \/ rows'[j] = None
    BY <2>8
  <2>13. \A j \in Ids : rows[j] # None /\ rows'[j] = None => rows[j].data.code \in spent'
    BY <2>1, <2>3, <2>8
  <2>14. RowsKept' /\ TasksKept' /\ DecisionsCounted' /\ DecisionKept'
    BY <1>1, <2>1, <2>6, <2>9, <2>10, <2>12, <2>13, Lossy
  <2>15. Balanced'
    BY <1>1, <1>4, <2>3, <2>5, <2>6, <2>8, <2>12, ConsumeBalanced, ZenonT(120)
  <2> QED  BY <2>11, <2>14, <2>15
<1> QED  BY <1>3, <1>5, <1>6 DEF Consume

-----------------------------------------------------------------------------
(* What a step keeps that stores the record in hand.                        *)

\* The task r goes on with t after it has stored row, the record in hand, at i.
Stores(r, t, i, row) ==
  /\ Moves(r, t) /\ ~Free(r)
  /\ row # None /\ row.data = reqs[r].data
  /\ rows[i] = None /\ rows'[i] = row
  /\ \A j \in Ids \ {i} : rows'[j] = rows[j]
  /\ \A q \in Requests : reqs[q].id # i /\ reqs[q].key # i
  /\ UNCHANGED <<now, deadline, deciders, spent>>
  /\ \/ row.kind = "device" /\ told' = told
     \/ Issuing(reqs[r]) /\ told' = told \cup {row.data.code}
  /\ \/ decided' = decided
     \/ /\ reqs[r].pc = "decide" /\ row.kind = "device" /\ told' = told
        /\ decided' = decided \cup {row.data.code}
  /\ \/ t.pc = "idle"
     \/ /\ t.pc = "issue user" /\ Issuing(reqs[r]) /\ t.data = reqs[r].data
        /\ told' = told

LEMMA Storing ==
  ASSUME TypeOK, RowsKept, TasksKept, DecisionsCounted, DecisionKept,
         NEW r \in Requests, NEW t, NEW i \in Ids, NEW row \in Row,
         Stores(r, t, i, row)
  PROVE  RowsKept' /\ TasksKept' /\ DecisionsCounted' /\ DecisionKept'
<1> USE DEF Stores
<1>1. PICK k : k = row.data.code
  OBVIOUS
<1>2. /\ row.kind \in {"device", "user"} /\ row.data \in Stored /\ k \in Codes
      /\ row.data.status \in Status
  BY <1>1, StoredFacts DEF Row
<1>3. Carries(reqs[r]) /\ Names(reqs[r])
  BY DEF TasksKept
<1>4. deadline[k] = row.data.expires /\ row.data.expires \in Nat
  BY <1>1, <1>2, <1>3, StoredFacts DEF Carries
<1>5. Issuing(reqs[r]) => row.data.status = "pending" /\ k \notin told
  BY <1>1, <1>3 DEF Carries
<1>6. reqs[r].pc = "decide" =>
        /\ row.data.status # "pending" /\ k \in told /\ \A j \in Ids : ~UserRow(j, k)
  BY <1>1, <1>3 DEF Carries, Names, Deciding
<1>7. told \subseteq told' /\ decided \subseteq decided'
  OBVIOUS
<1>8. \A j \in Ids, l \in Codes :
        UserRow(j, l)' => UserRow(j, l) \/ (j = i /\ l = k /\ row.kind = "user")
  BY <1>1 DEF UserRow
<1>9. RowsKept'
  <2>1. ASSUME NEW j \in Ids, rows'[j] # None
        PROVE  /\ deadline'[rows'[j].data.code] = rows'[j].data.expires
               /\ rows'[j].kind = "user" => /\ rows'[j].data.status = "pending"
                                          /\ rows'[j].data.code \in told' \ decided'
    <3>1. CASE j = i
      BY <1>1, <1>2, <1>4, <1>5, <3>1 DEF RowsKept, Issuing
    <3>2. CASE j # i
      <4>1. rows'[j] = rows[j] /\ rows[j] # None
        BY <2>1, <3>2
      <4>2. rows[j].kind = "user" /\ reqs[r].pc = "decide" => rows[j].data.code # k
        BY <1>6, <4>1 DEF UserRow
      <4> QED  BY <1>1, <4>1, <4>2 DEF RowsKept
    <3> QED  BY <3>1, <3>2
  <2>2. \A j, l \in Ids, c \in Codes : UserRow(j, c)' /\ UserRow(l, c)' => j = l
    <3>1. row.kind = "user" => \A j \in Ids : ~UserRow(j, k)
      BY <1>2, <1>5 DEF RowsKept, UserRow
    <3>2. \A j, l \in Ids, c \in Codes : UserRow(j, c) /\ UserRow(l, c) => j = l
      BY DEF RowsKept
    <3> SUFFICES ASSUME NEW j \in Ids, NEW l \in Ids, NEW c \in Codes,
                        UserRow(j, c)', UserRow(l, c)'
                 PROVE  j = l
      OBVIOUS
    <3>3. UserRow(j, c) \/ (j = i /\ c = k /\ row.kind = "user")
      BY <1>8
    <3>4. UserRow(l, c) \/ (l = i /\ c = k /\ row.kind = "user")
      BY <1>8
    <3> QED  BY <3>1, <3>2, <3>3, <3>4
  <2>3. \A c \in told' : deadline'[c] # None
    <3>1. \A c \in told : deadline[c] # None
      BY DEF RowsKept
    <3>2. deadline[k] # None
      BY <1>4
    <3> QED  BY <1>1, <3>1, <3>2
  <2>4. decided' \subseteq told'
    BY <1>1, <1>6 DEF RowsKept
  <2> QED  BY <2>1, <2>2, <2>3, <2>4 DEF RowsKept
<1>10. \A q \in Requests \ {r} : ~Free(q)' => Carries(reqs[q])' /\ Names(reqs[q])'
  <2> SUFFICES ASSUME NEW q \in Requests \ {r}, ~Free(q)'
               PROVE  Carries(reqs[q])' /\ Names(reqs[q])'
    OBVIOUS
  <2>1. reqs'[q] = reqs[q] /\ ~Free(q)
    BY DEF Moves, Free, At
  <2>2. Carries(reqs[q]) /\ Names(reqs[q]) /\ reqs[q].id # i /\ reqs[q].key # i
    BY <2>1 DEF TasksKept
  <2>3. Issuing(reqs[q]) /\ Issuing(reqs[r]) => reqs[q].data.code # k
    BY <1>1 DEF TasksKept
  <2>4. Carries(reqs[q])'
    BY <1>1, <2>1, <2>2, <2>3 DEF Carries, Issuing, Polling, Claiming, Deciding
  <2>5. reqs[q].data \in Stored
    BY <2>2, RequestFacts DEF Carries
  <2>6. \A j \in Ids : Deciding(reqs[q]) /\ UserRow(j, reqs[q].data.code)' =>
          UserRow(j, reqs[q].data.code)
    <3> SUFFICES ASSUME NEW j \in Ids, Deciding(reqs[q]), UserRow(j, reqs[q].data.code)'
                 PROVE  UserRow(j, reqs[q].data.code)
      OBVIOUS
    <3>1. PICK c : c = reqs[q].data.code
      OBVIOUS
    <3>2. c \in Codes /\ c \in told
      BY <2>2, <2>5, <3>1, StoredFacts DEF Carries
    <3>3. UserRow(j, c)'
      BY <2>1, <3>1
    <3>4. UserRow(j, c) \/ (c = k /\ row.kind = "user")
      BY <1>8, <3>2, <3>3
    <3>5. row.kind = "user" => k \notin told
      BY <1>5
    <3> QED  BY <3>1, <3>2, <3>4, <3>5
  <2>7. Names(reqs[q])'
    <3>1. \A j \in Ids : j # i => rows'[j] = rows[j]
      OBVIOUS
    <3>2. PICK x : x = reqs[q]
      OBVIOUS
    <3>3. Names(x) /\ x.id # i /\ x.key # i
      BY <2>2, <3>2
    <3>4. \A j \in Ids : Deciding(x) /\ UserRow(j, x.data.code)' => UserRow(j, x.data.code)
      BY <2>1, <2>6, <3>2
    <3>5. Names(x)'
      BY <3>1, <3>3, <3>4 DEF Names, Deciding
    <3> QED  BY <2>1, <3>2, <3>5
  <2> QED  BY <2>4, <2>7
<1>11. ~Free(r)' => Carries(reqs[r])' /\ Names(reqs[r])'
  <2>1. CASE t.pc = "idle"
    BY <2>1 DEF Moves, Free, At
  <2>2. CASE /\ t.pc = "issue user" /\ Issuing(reqs[r]) /\ t.data = reqs[r].data
             /\ told' = told
    <3>1. reqs'[r] = t
      BY DEF Moves
    <3>2. Carries(reqs[r])'
      BY <1>3, <2>2, <3>1 DEF Carries, Issuing, Polling, Claiming, Deciding
    <3>3. Names(reqs[r])'
      BY <2>2, <3>1 DEF Names, Deciding
    <3> QED  BY <3>2, <3>3
  <2> QED  BY <2>1, <2>2
<1>12. TasksKept'
  <2>1. \A q \in Requests : Issuing(reqs'[q]) =>
          Issuing(reqs[q]) /\ reqs'[q].data = reqs[q].data
    BY DEF Moves, Issuing
  <2>2. \A q \in Requests : ~Free(q)' => Carries(reqs[q])' /\ Names(reqs[q])'
    BY <1>10, <1>11
  <2>3. \A q \in Requests : Issuing(reqs[q])' <=> Issuing(reqs'[q])
    BY DEF Issuing
  <2> QED  BY <2>1, <2>2, <2>3 DEF TasksKept
<1>13. DecisionsCounted'
  <2>1. \A q \in Requests : Deciding(reqs[q])' =>
          q # r /\ Deciding(reqs[q]) /\ reqs'[q] = reqs[q]
    BY DEF Moves, Deciding
  <2>2. decided' # decided => Deciding(reqs[r]) /\ reqs[r].data.code = k
    BY <1>1 DEF Deciding
  <2>3. \A c \in decided' : deciders'[c] # 0
    <3>1. Deciding(reqs[r]) /\ reqs[r].data.code = k => deciders[k] # 0
      BY DEF DecisionsCounted
    <3>2. \A c \in decided : deciders[c] # 0
      BY DEF DecisionsCounted
    <3> QED  BY <1>1, <2>2, <3>1, <3>2
  <2>4. ASSUME NEW q \in Requests, Deciding(reqs[q])'
        PROVE  LET c == reqs'[q].data.code IN
               /\ deciders'[c] # 0
               /\ deciders'[c] = 1 =>
                    /\ c \notin decided'
                    /\ \A p \in Requests :
                         Deciding(reqs[p])' /\ reqs'[p].data.code = c => p = q
    <3>1. q # r /\ Deciding(reqs[q]) /\ reqs'[q] = reqs[q]
      BY <2>1, <2>4
    <3>2. PICK c : c = reqs[q].data.code
      OBVIOUS
    <3>3. /\ deciders[c] # 0
          /\ deciders[c] = 1 =>
               /\ c \notin decided
               /\ \A p \in Requests :
                    Deciding(reqs[p]) /\ reqs[p].data.code = c => p = q
      BY <3>1, <3>2 DEF DecisionsCounted
    <3>4. deciders[c] = 1 => c \notin decided'
      BY <1>1, <2>2, <3>1, <3>3
    <3>5. deciders[c] = 1 => \A p \in Requests :
                         Deciding(reqs[p])' /\ reqs'[p].data.code = c => p = q
      BY <2>1, <3>3
    <3> QED  BY <3>1, <3>2, <3>3, <3>4, <3>5
  <2> QED  BY <2>3, <2>4 DEF DecisionsCounted
<1>14. DecisionKept'
  <2> SUFFICES ASSUME NEW c \in decided', deciders[c] = 1, c \notin spent, now < deadline[c]
               PROVE  \E j \in Matching("device", c)' : rows'[j].data.status # "pending"
    BY DEF DecisionKept
  <2>1. CASE c \in decided
    <3>1. PICK j \in Matching("device", c) : rows[j].data.status # "pending"
      BY <2>1 DEF DecisionKept
    <3>2. j \in Ids /\ rows[j] # None /\ rows'[j] = rows[j]
      BY DEF Matching
    <3>3. j \in Matching("device", c)'
      BY <3>2 DEF Matching, Alive
    <3> QED  BY <3>1, <3>2, <3>3
  <2>2. CASE c \notin decided
    <3>1. c = k /\ reqs[r].pc = "decide" /\ row.kind = "device"
      BY <1>1, <2>2
    <3>2. i \in Matching("device", c)'
      <4>1. row.data.expires > now
        BY <1>4, <3>1 DEF TypeOK
      <4> QED  BY <1>1, <3>1, <4>1 DEF Matching, Alive
    <3> QED  BY <1>6, <3>1, <3>2
  <2> QED  BY <2>1, <2>2
<1> QED  BY <1>9, <1>12, <1>13, <1>14

\* The record in hand is stored under an id of its own.
LEMMA CreateRow ==
  ASSUME TypeOK, TasksKept, NEW r \in Requests, ~Free(r),
         NEW kind \in {"device", "user"},
         Create([kind |-> kind, data |-> reqs[r].data])
  PROVE  \E i \in Ids, row \in Row :
           /\ row # None /\ row.kind = kind /\ row.data = reqs[r].data
           /\ rows[i] = None /\ rows'[i] = row
           /\ \A j \in Ids \ {i} : rows'[j] = rows[j]
           /\ \A q \in Requests : reqs[q].id # i /\ reqs[q].key # i
           /\ rows' \in [Ids -> Row \cup {None}]
<1>1. reqs[r].data \in Stored
  BY RequestFacts DEF TasksKept, Carries
<1>2. PICK row : row = [kind |-> kind, data |-> reqs[r].data]
  OBVIOUS
<1>3. row \in Row /\ row.kind = kind /\ row.data = reqs[r].data
  BY <1>1, <1>2 DEF Row
<1>4. Create(row)
  BY <1>2
<1> QED  BY <1>3, <1>4, CreateFacts

\* A record that approves nothing adds nothing to the stock.
LEMMA PendingStock ==
  ASSUME NEW i \in Ids, NEW row \in Row, rows'[i] = row, row.data.status # "approved",
         \A j \in Ids \ {i} : rows'[j] = rows[j],
         NEW k, NEW u
  PROVE  Stock(k, u)' \subseteq Stock(k, u)
BY DEF Stock

\* A task that gives up, or goes on without a claim, adds no claim.
LEMMA NoClaim ==
  ASSUME NEW r \in Requests, NEW t, Moves(r, t), ~Claiming(t), NEW k, NEW u
  PROVE  Claims(k, u)' \subseteq Claims(k, u)
BY DEF Claims, Moves, Claiming

LEMMA IssueDeviceKeeps ==
  ASSUME DeviceInv, NEW r \in Requests, IssueDevice(r)
  PROVE  DeviceInv'
<1> USE DEF DeviceInv
<1>1. /\ UNCHANGED <<now, users, history>> /\ reqs[r].pc = "issue device"
      /\ ~Free(r) /\ Issuing(reqs[r])
  BY DEF IssueDevice, At, Free, Issuing
<1>2. PICK i \in Ids, row \in Row :
        /\ row # None /\ row.kind = "device" /\ row.data = reqs[r].data
        /\ rows[i] = None /\ rows'[i] = row
        /\ \A j \in Ids \ {i} : rows'[j] = rows[j]
        /\ \A q \in Requests : reqs[q].id # i /\ reqs[q].key # i
        /\ rows' \in [Ids -> Row \cup {None}]
  BY <1>1, CreateRow DEF IssueDevice
<1>3. PICK t : t = [reqs[r] EXCEPT !.pc = "issue user"]
  OBVIOUS
<1>4. t \in Request /\ t.pc = "issue user" /\ t.data = reqs[r].data
  BY <1>3, RequestFacts DEF Request, Pcs
<1>5. Moves(r, t)
  BY <1>3, <1>4, BecomeFacts DEF IssueDevice
<1>6. row.data.status = "pending"
  BY <1>1, <1>2 DEF TasksKept, Carries
<1>7. TypeOK'
  BY <1>1, <1>2, <1>5 DEF TypeOK, Moves, history
<1>8. RowsKept' /\ TasksKept' /\ DecisionsCounted' /\ DecisionKept'
  <2>1. UNCHANGED <<now, deadline, deciders, spent>>
    BY <1>1 DEF history
  <2>2. \/ row.kind = "device" /\ told' = told
        \/ Issuing(reqs[r]) /\ told' = told \cup {row.data.code}
    BY <1>1, <1>2 DEF history
  <2>3. \/ decided' = decided
        \/ /\ reqs[r].pc = "decide" /\ row.kind = "device" /\ told' = told
           /\ decided' = decided \cup {row.data.code}
    BY <1>1, <1>2 DEF history
  <2>4. \/ t.pc = "idle"
        \/ /\ t.pc = "issue user" /\ Issuing(reqs[r]) /\ t.data = reqs[r].data
           /\ told' = told
    BY <1>1, <1>4 DEF history
  <2>5. Stores(r, t, i, row)
    BY <1>1, <1>2, <1>5, <2>1, <2>2, <2>3, <2>4 DEF Stores
  <2> QED  BY <2>5, Storing
<1>9. ~Claiming(t)
  BY <1>4 DEF Claiming
<1>10. \A k, u : Stock(k, u)' \subseteq Stock(k, u)
  BY <1>2, <1>6, PendingStock
<1>11. \A k, u : Claims(k, u)' \subseteq Claims(k, u)
  BY <1>5, <1>9, NoClaim
<1>12. Balanced'
  BY <1>1, <1>10, <1>11, NotMultiplied DEF history
<1> QED  BY <1>7, <1>8, <1>12

LEMMA IssueUserKeeps ==
  ASSUME DeviceInv, NEW r \in Requests, IssueUser(r)
  PROVE  DeviceInv'
<1> USE DEF DeviceInv
<1>1. /\ UNCHANGED <<now, users, deadline, decided, deciders, approved, minted, spent>>
      /\ told' = told \cup {reqs[r].data.code} /\ reqs[r].pc = "issue user"
      /\ ~Free(r) /\ Issuing(reqs[r])
  BY DEF IssueUser, At, Free, Issuing
<1>2. PICK i \in Ids, row \in Row :
        /\ row # None /\ row.kind = "user" /\ row.data = reqs[r].data
        /\ rows[i] = None /\ rows'[i] = row
        /\ \A j \in Ids \ {i} : rows'[j] = rows[j]
        /\ \A q \in Requests : reqs[q].id # i /\ reqs[q].key # i
        /\ rows' \in [Ids -> Row \cup {None}]
  BY <1>1, CreateRow DEF IssueUser
<1>3. Moves(r, Idle)
  BY IdleFacts, BecomeFacts DEF IssueUser
<1>4. row.data.status = "pending" /\ row.data \in Stored
  BY <1>1, <1>2 DEF TasksKept, Carries, Row
<1>5. TypeOK'
  BY <1>1, <1>2, <1>3, <1>4, StoredFacts, ZenonT(120) DEF TypeOK, Moves
<1>6. RowsKept' /\ TasksKept' /\ DecisionsCounted' /\ DecisionKept'
  <2>1. UNCHANGED <<now, deadline, deciders, spent>>
    BY <1>1 DEF history
  <2>2. \/ row.kind = "device" /\ told' = told
        \/ Issuing(reqs[r]) /\ told' = told \cup {row.data.code}
    BY <1>1, <1>2 DEF history
  <2>3. \/ decided' = decided
        \/ /\ reqs[r].pc = "decide" /\ row.kind = "device" /\ told' = told
           /\ decided' = decided \cup {row.data.code}
    BY <1>1, <1>2 DEF history
  <2>4. \/ Idle.pc = "idle"
        \/ /\ Idle.pc = "issue user" /\ Issuing(reqs[r]) /\ Idle.data = reqs[r].data
           /\ told' = told
    BY IdleFacts DEF history
  <2>5. Stores(r, Idle, i, row)
    BY <1>1, <1>2, <1>3, <2>1, <2>2, <2>3, <2>4 DEF Stores
  <2> QED  BY <2>5, Storing
<1>7. \A k, u : Stock(k, u)' \subseteq Stock(k, u)
  BY <1>2, <1>4, PendingStock
<1>8. \A k, u : Claims(k, u)' \subseteq Claims(k, u)
  BY <1>3, IdleFacts, NoClaim DEF Claiming
<1>9. Balanced'
  BY <1>1, <1>7, <1>8, NotMultiplied
<1> QED  BY <1>5, <1>6, <1>9

LEMMA RepollKeeps ==
  ASSUME DeviceInv, NEW r \in Requests, Repoll(r)
  PROVE  DeviceInv'
<1> USE DEF DeviceInv
<1>1. UNCHANGED <<now, users, history>> /\ reqs[r].pc = "repoll" /\ ~Free(r)
  BY DEF Repoll, At, Free
<1>2. PICK i \in Ids, row \in Row :
        /\ row # None /\ row.kind = "device" /\ row.data = reqs[r].data
        /\ rows[i] = None /\ rows'[i] = row
        /\ \A j \in Ids \ {i} : rows'[j] = rows[j]
        /\ \A q \in Requests : reqs[q].id # i /\ reqs[q].key # i
        /\ rows' \in [Ids -> Row \cup {None}]
  BY <1>1, CreateRow DEF Repoll
<1>3. Moves(r, Idle)
  BY IdleFacts, BecomeFacts DEF Repoll
<1>4. row.data.status = "pending"
  BY <1>1, <1>2 DEF TasksKept, Carries, Polling
<1>5. TypeOK'
  BY <1>1, <1>2, <1>3 DEF TypeOK, Moves, history
<1>6. RowsKept' /\ TasksKept' /\ DecisionsCounted' /\ DecisionKept'
  <2>1. UNCHANGED <<now, deadline, deciders, spent>>
    BY <1>1 DEF history
  <2>2. \/ row.kind = "device" /\ told' = told
        \/ Issuing(reqs[r]) /\ told' = told \cup {row.data.code}
    BY <1>1, <1>2 DEF history
  <2>3. \/ decided' = decided
        \/ /\ reqs[r].pc = "decide" /\ row.kind = "device" /\ told' = told
           /\ decided' = decided \cup {row.data.code}
    BY <1>1, <1>2 DEF history
  <2>4. \/ Idle.pc = "idle"
        \/ /\ Idle.pc = "issue user" /\ Issuing(reqs[r]) /\ Idle.data = reqs[r].data
           /\ told' = told
    BY IdleFacts DEF history
  <2>5. Stores(r, Idle, i, row)
    BY <1>1, <1>2, <1>3, <2>1, <2>2, <2>3, <2>4 DEF Stores
  <2> QED  BY <2>5, Storing
<1>7. \A k, u : Stock(k, u)' \subseteq Stock(k, u)
  BY <1>2, <1>4, PendingStock
<1>8. \A k, u : Claims(k, u)' \subseteq Claims(k, u)
  BY <1>3, IdleFacts, NoClaim DEF Claiming
<1>9. Balanced'
  BY <1>1, <1>7, <1>8, NotMultiplied DEF history
<1> QED  BY <1>5, <1>6, <1>9

\* The stock grows by the approval that is counted.
LEMMA StoreBalanced ==
  ASSUME TypeOK, Balanced, UNCHANGED minted,
         NEW i \in Ids, NEW row \in Row, rows'[i] = row, row.data.status = "approved",
         \A j \in Ids \ {i} : rows'[j] = rows[j],
         approved' = [approved EXCEPT ![row.data.code][row.data.user] = @ + 1],
         \A k \in Codes, u \in Users : Claims(k, u)' \subseteq Claims(k, u)
  PROVE  Balanced'
<1> SUFFICES ASSUME NEW k \in Codes, NEW u \in Users
             PROVE  /\ IsFiniteSet(Stock(k, u))' /\ IsFiniteSet(Claims(k, u))'
                    /\ Cardinality(Stock(k, u))' + Cardinality(Claims(k, u))' + minted'[k][u]
                         <= approved'[k][u]
  BY DEF Balanced
<1>1. /\ IsFiniteSet(Stock(k, u)) /\ IsFiniteSet(Claims(k, u))
      /\ Cardinality(Stock(k, u)) + Cardinality(Claims(k, u)) + minted[k][u]
           <= approved[k][u]
  BY DEF Balanced
<1>2. PICK S : S = Stock(k, u)
  OBVIOUS
<1>3. PICK S1 : S1 = Stock(k, u)'
  OBVIOUS
<1>4. PICK C : C = Claims(k, u)
  OBVIOUS
<1>5. PICK C1 : C1 = Claims(k, u)'
  OBVIOUS
<1>6. IsFiniteSet(S) /\ IsFiniteSet(C) /\ C1 \in SUBSET C
  BY <1>1, <1>2, <1>4, <1>5
<1>7. Cardinality(S) + Cardinality(C) + minted[k][u] <= approved[k][u]
  BY <1>1, <1>2, <1>4
<1>8. minted[k][u] \in Nat /\ approved[k][u] \in Nat
  BY DEF TypeOK
<1>9. IsFiniteSet(C1) /\ Cardinality(C1) <= Cardinality(C)
  BY <1>6, FS_Subset
<1>10. Cardinality(S) \in Nat /\ Cardinality(C) \in Nat /\ Cardinality(C1) \in Nat
  BY <1>6, <1>9, FS_CardinalityType
<1>11. row.data \in Stored /\ row.data.code \in Codes /\ row.data.user \in Users
  BY StoredFacts DEF Row
<1>12. /\ IsFiniteSet(S1)
       /\ Cardinality(S1) + Cardinality(C1) + minted[k][u] <= approved'[k][u]
  <2>1. CASE row.data.code = k /\ row.data.user = u
    <3>1. S1 \in SUBSET (S \cup {i})
      BY <1>2, <1>3 DEF Stock
    <3>2. /\ IsFiniteSet(S \cup {i})
          /\ Cardinality(S \cup {i}) \in {Cardinality(S), Cardinality(S) + 1}
      BY <1>6, FS_AddElement
    <3>3. IsFiniteSet(S1) /\ Cardinality(S1) <= Cardinality(S \cup {i})
      BY <3>1, <3>2, FS_Subset
    <3>4. Cardinality(S1) \in Nat
      BY <3>3, FS_CardinalityType
    <3>5. approved'[k][u] = approved[k][u] + 1
      BY <1>11, <2>1 DEF TypeOK
    <3> QED  BY <1>7, <1>8, <1>9, <1>10, <3>2, <3>3, <3>4, <3>5
  <2>2. CASE ~(row.data.code = k /\ row.data.user = u)
    <3>1. S1 \in SUBSET S
      BY <1>2, <1>3, <2>2 DEF Stock
    <3>2. IsFiniteSet(S1) /\ Cardinality(S1) <= Cardinality(S)
      BY <1>6, <3>1, FS_Subset
    <3>3. Cardinality(S1) \in Nat
      BY <3>2, FS_CardinalityType
    <3>4. approved'[k][u] = approved[k][u]
      BY <1>11, <2>2 DEF TypeOK
    <3> QED  BY <1>7, <1>8, <1>9, <1>10, <3>2, <3>3, <3>4
  <2> QED  BY <2>1, <2>2
<1>13. Cardinality(S1) + Cardinality(C1) + minted'[k][u] <= approved'[k][u]
  BY <1>12
<1> QED  BY <1>3, <1>5, <1>9, <1>12, <1>13

LEMMA StoreDecisionKeeps ==
  ASSUME DeviceInv, NEW r \in Requests, StoreDecision(r)
  PROVE  DeviceInv'
<1> USE DEF DeviceInv
<1>1. /\ UNCHANGED <<now, users, deadline, told, deciders, minted, spent>>
      /\ decided' = decided \cup {reqs[r].data.code}
      /\ reqs[r].pc = "decide" /\ ~Free(r)
  BY DEF StoreDecision, At, Free
<1>2. PICK i \in Ids, row \in Row :
        /\ row # None /\ row.kind = "device" /\ row.data = reqs[r].data
        /\ rows[i] = None /\ rows'[i] = row
        /\ \A j \in Ids \ {i} : rows'[j] = rows[j]
        /\ \A q \in Requests : reqs[q].id # i /\ reqs[q].key # i
        /\ rows' \in [Ids -> Row \cup {None}]
  BY <1>1, CreateRow DEF StoreDecision
<1>3. Moves(r, Idle)
  BY IdleFacts, BecomeFacts DEF StoreDecision
<1>4. row.data \in Stored /\ row.data.code \in Codes
  BY StoredFacts DEF Row
<1>5. IF row.data.status = "approved"
      THEN approved' = [approved EXCEPT ![row.data.code][row.data.user] = @ + 1]
      ELSE approved' = approved
  BY <1>2 DEF StoreDecision
<1>6. approved' \in [Codes -> [Users -> Nat]]
  <2>1. CASE row.data.status = "approved"
    <3>1. row.data.user \in Users
      BY <1>4, <2>1, StoredFacts
    <3>2. PICK f : f = [approved[row.data.code] EXCEPT ![row.data.user] = @ + 1]
      OBVIOUS
    <3>3. f \in [Users -> Nat]
      BY <1>4, <3>1, <3>2 DEF TypeOK
    <3>4. approved' = [approved EXCEPT ![row.data.code] = f]
      BY <1>5, <2>1, <3>2
    <3> QED  BY <1>4, <3>3, <3>4 DEF TypeOK
  <2> QED  BY <1>5, <2>1 DEF TypeOK
<1>7. TypeOK'
  BY <1>1, <1>2, <1>3, <1>4, <1>6 DEF TypeOK, Moves
<1>8. RowsKept' /\ TasksKept' /\ DecisionsCounted' /\ DecisionKept'
  <2>1. UNCHANGED <<now, deadline, deciders, spent>>
    BY <1>1 DEF history
  <2>2. \/ row.kind = "device" /\ told' = told
        \/ Issuing(reqs[r]) /\ told' = told \cup {row.data.code}
    BY <1>1, <1>2 DEF history
  <2>3. \/ decided' = decided
        \/ /\ reqs[r].pc = "decide" /\ row.kind = "device" /\ told' = told
           /\ decided' = decided \cup {row.data.code}
    BY <1>1, <1>2 DEF history
  <2>4. \/ Idle.pc = "idle"
        \/ /\ Idle.pc = "issue user" /\ Issuing(reqs[r]) /\ Idle.data = reqs[r].data
           /\ told' = told
    BY IdleFacts DEF history
  <2>5. Stores(r, Idle, i, row)
    BY <1>1, <1>2, <1>3, <2>1, <2>2, <2>3, <2>4 DEF Stores
  <2> QED  BY <2>5, Storing
<1>9. \A k, u : Claims(k, u)' \subseteq Claims(k, u)
  BY <1>3, IdleFacts, NoClaim DEF Claiming
<1>10. CASE row.data.status = "approved"
  BY <1>1, <1>2, <1>5, <1>7, <1>8, <1>9, <1>10, StoreBalanced
<1>11. CASE row.data.status # "approved"
  <2>1. \A k, u : Stock(k, u)' \subseteq Stock(k, u)
    BY <1>2, <1>11, PendingStock
  <2>2. Balanced'
    BY <1>1, <1>5, <1>9, <1>11, <2>1, NotMultiplied
  <2> QED  BY <1>7, <1>8, <2>2
<1> QED  BY <1>10, <1>11

-----------------------------------------------------------------------------
(* The other steps, and the invariant.                                      *)

LEMMA AskCodeKeeps ==
  ASSUME DeviceInv, NEW r \in Requests, AskCode(r)
  PROVE  DeviceInv'
<1> USE DEF DeviceInv
<1>1. UNCHANGED <<now, users, rows, told, decided, deciders, approved, minted, spent>>
  BY DEF AskCode
<1>2. PICK k \in Codes, t \in Request :
           /\ Moves(r, t) /\ deadline[k] = None
           /\ deadline' = [deadline EXCEPT ![k] = now + ExpiresIn]
           /\ t.pc = "issue device" /\ t.data \in Stored
           /\ t.data.code = k /\ t.data.status = "pending"
           /\ t.data.expires = now + ExpiresIn
  BY AskCodeStep
<1>3. /\ deadline'[k] = now + ExpiresIn
      /\ \A c \in Codes \ {k} : deadline'[c] = deadline[c]
      /\ deadline' \in [Codes -> Nat \cup {None}]
  <2>1. deadline \in [Codes -> Nat \cup {None}] /\ now + ExpiresIn \in Nat
    BY DEF TypeOK
  <2>2. deadline' = [deadline EXCEPT ![k] = now + ExpiresIn]
    BY <1>2
  <2> HIDE DEF DeviceInv
  <2> QED  BY <2>1, <2>2
<1>4. k \notin told
  BY <1>2 DEF RowsKept
<1>5. \A i \in Ids : rows[i] # None => rows[i].data.code \in Codes \ {k}
  <2> SUFFICES ASSUME NEW i \in Ids, rows[i] # None
               PROVE  rows[i].data.code \in Codes \ {k}
    OBVIOUS
  <2>1. rows[i].data \in Stored /\ deadline[rows[i].data.code] = rows[i].data.expires
    BY RowFacts DEF RowsKept
  <2>2. rows[i].data.code \in Codes /\ rows[i].data.expires # None
    BY <2>1, StoredFacts
  <2> QED  BY <1>2, <2>1, <2>2
<1>6. \A q \in Requests : ~Free(q) => reqs[q].data.code \in Codes \ {k}
  <2> SUFFICES ASSUME NEW q \in Requests, ~Free(q)
               PROVE  reqs[q].data.code \in Codes \ {k}
    OBVIOUS
  <2>1. Carries(reqs[q]) /\ reqs[q].data \in Stored
    BY RequestFacts DEF TasksKept, Carries
  <2>2. reqs[q].data.code \in Codes /\ reqs[q].data.expires # None
    BY <2>1, StoredFacts
  <2> QED  BY <1>2, <2>1, <2>2 DEF Carries
<1>7. TypeOK'
  BY <1>1, <1>2, <1>3 DEF TypeOK, Moves
<1>8. RowsKept'
  <2>1. \A i, c : UserRow(i, c)' <=> UserRow(i, c)
    BY <1>1 DEF UserRow
  <2>2. \A i, j \in Ids, c \in Codes : UserRow(i, c) /\ UserRow(j, c) => i = j
    BY DEF RowsKept
  <2>3. \A i \in Ids : rows'[i] # None =>
          /\ deadline'[rows'[i].data.code] = rows'[i].data.expires
          /\ rows'[i].kind = "user" => /\ rows'[i].data.status = "pending"
                                     /\ rows'[i].data.code \in told' \ decided'
    BY <1>1, <1>3, <1>5 DEF RowsKept
  <2>4. \A c \in told' : deadline'[c] # None
    BY <1>1, <1>3, <1>4 DEF RowsKept, TypeOK
  <2>5. decided' \subseteq told'
    BY <1>1 DEF RowsKept
  <2> QED  BY <2>1, <2>2, <2>3, <2>4, <2>5 DEF RowsKept
<1>9. \A q \in Requests : ~Free(q)' => Carries(reqs[q])' /\ Names(reqs[q])'
  <2> SUFFICES ASSUME NEW q \in Requests, ~Free(q)'
               PROVE  Carries(reqs[q])' /\ Names(reqs[q])'
    OBVIOUS
  <2>1. CASE q = r
    <3>1. reqs'[q] = t
      BY <1>2, <2>1 DEF Moves
    <3>2. t.data # None
      BY <1>2
    <3>3. Carries(reqs[q])'
      BY <1>1, <1>2, <1>3, <1>4, <3>1, <3>2
      DEF Carries, Issuing, Polling, Claiming, Deciding
    <3>4. Names(reqs[q])'
      BY <1>2, <3>1 DEF Names, Deciding
    <3> QED  BY <3>3, <3>4
  <2>2. CASE q # r
    <3>1. reqs'[q] = reqs[q] /\ ~Free(q)
      BY <1>2, <2>2 DEF Moves, Free, At
    <3>2. Carries(reqs[q]) /\ Names(reqs[q]) /\ reqs[q].data.code \in Codes \ {k}
      BY <1>6, <3>1 DEF TasksKept
    <3>3. Carries(reqs[q])'
      BY <1>1, <1>3, <3>1, <3>2 DEF Carries, Issuing, Polling, Claiming, Deciding
    <3>4. Names(reqs[q])'
      BY <1>1, <3>1, <3>2 DEF Names, UserRow, Deciding
    <3> QED  BY <3>3, <3>4
  <2> QED  BY <2>1, <2>2
<1>10. TasksKept'
  <2>1. \A q \in Requests : Issuing(reqs[q])' <=> Issuing(reqs'[q])
    BY DEF Issuing
  <2>2. \A q \in Requests : Issuing(reqs[q]) => reqs[q].data.code # k
    BY <1>6 DEF Issuing, Free, At
  <2>3. \A q, p \in Requests :
          Issuing(reqs'[q]) /\ Issuing(reqs'[p]) /\ reqs'[q].data.code = reqs'[p].data.code
            => q = p
    BY <1>2, <2>2, ZenonT(120) DEF TasksKept, Moves
  <2> QED  BY <1>9, <2>1, <2>3 DEF TasksKept
<1>11. DecisionsCounted'
  <2>1. \A q \in Requests : Deciding(reqs[q])' =>
          Deciding(reqs[q]) /\ reqs'[q] = reqs[q]
    BY <1>2 DEF Moves, Deciding
  <2> QED  BY <1>1, <2>1 DEF DecisionsCounted
<1>12. Balanced'
  <2>1. ~Claiming(t)
    BY <1>2 DEF Claiming
  <2> QED  BY <1>1, <1>2, <2>1, LossyBalanced
<1>13. DecisionKept'
  <2> SUFFICES ASSUME NEW c \in decided, deciders[c] = 1, c \notin spent, now < deadline'[c]
               PROVE  \E i \in Matching("device", c)' : rows'[i].data.status # "pending"
    BY <1>1 DEF DecisionKept
  <2>1. deadline'[c] = deadline[c]
    BY <1>3, <1>4 DEF TypeOK, RowsKept
  <2>2. \E i \in Matching("device", c) : rows[i].data.status # "pending"
    BY <2>1 DEF DecisionKept
  <2>3. Matching("device", c)' = Matching("device", c)
    BY <1>1 DEF Matching, Alive
  <2> QED  BY <1>1, <2>2, <2>3
<1> QED  BY <1>7, <1>8, <1>10, <1>11, <1>12, <1>13

\* A user-code row that is typed belongs to a code that is not decided yet.
LEMMA DecideKeeps ==
  ASSUME DeviceInv, NEW r \in Requests, Decide(r)
  PROVE  DeviceInv'
<1> USE DEF DeviceInv
<1>1. UNCHANGED <<now, users, rows, deadline, told, decided, approved, minted, spent>>
  BY DEF Decide
<1>2. PICK t \in Request :
           /\ Moves(r, t)
           /\ \/ t.pc = "idle" /\ UNCHANGED deciders
              \/ \E i \in Ids, k \in Codes :
                   /\ rows[i] # None /\ UserRow(i, k) /\ t.key = i
                   /\ t.pc = "find device" /\ t.data \in Stored
                   /\ t.data.code = k /\ t.data.status # "pending"
                   /\ t.data.expires = rows[i].data.expires
                   /\ deciders' = [deciders EXCEPT ![k] = IF @ = 0 THEN 1 ELSE 2]
  BY DecideStep
<1>3. CASE t.pc = "idle" /\ UNCHANGED deciders
  <2>1. TypeOK'
    BY <1>1, <1>2, <1>3 DEF TypeOK, Moves
  <2>2. ~Issuing(t) /\ ~Deciding(t) /\ ~Claiming(t)
    BY <1>3 DEF Issuing, Deciding, Claiming
  <2>3. RowsKept' /\ TasksKept' /\ DecisionsCounted' /\ DecisionKept'
    BY <1>1, <1>2, <1>3, <2>2, Lossy
  <2>4. Balanced'
    BY <1>1, <1>2, <2>2, LossyBalanced
  <2> QED  BY <2>1, <2>3, <2>4
<1>4. CASE \E i \in Ids, k \in Codes :
                   /\ rows[i] # None /\ UserRow(i, k) /\ t.key = i
                   /\ t.pc = "find device" /\ t.data \in Stored
                   /\ t.data.code = k /\ t.data.status # "pending"
                   /\ t.data.expires = rows[i].data.expires
                   /\ deciders' = [deciders EXCEPT ![k] = IF @ = 0 THEN 1 ELSE 2]
  <2>1. PICK i \in Ids, k \in Codes :
                   /\ rows[i] # None /\ UserRow(i, k) /\ t.key = i
                   /\ t.pc = "find device" /\ t.data \in Stored
                   /\ t.data.code = k /\ t.data.status # "pending"
                   /\ t.data.expires = rows[i].data.expires
                   /\ deciders' = [deciders EXCEPT ![k] = IF @ = 0 THEN 1 ELSE 2]
    BY <1>4
  <2>2. k \in told \ decided /\ deadline[k] = t.data.expires /\ rows[i].data.code = k
    BY <2>1 DEF RowsKept, UserRow
  <2>3. /\ deciders' \in [Codes -> 0..2]
        /\ deciders'[k] = IF deciders[k] = 0 THEN 1 ELSE 2
        /\ \A c \in Codes \ {k} : deciders'[c] = deciders[c]
    <3>1. PICK n : n = IF deciders[k] = 0 THEN 1 ELSE 2
      OBVIOUS
    <3>2. deciders \in [Codes -> 0..2] /\ n \in 0..2
      BY <3>1 DEF TypeOK
    <3>3. deciders' = [deciders EXCEPT ![k] = n]
      BY <2>1, <3>1
    <3> HIDE DEF DeviceInv
    <3>4. /\ deciders' \in [Codes -> 0..2] /\ deciders'[k] = n
          /\ \A c \in Codes \ {k} : deciders'[c] = deciders[c]
      BY <3>2, <3>3
    <3> QED  BY <3>1, <3>4
  <2>4. TypeOK'
    BY <1>1, <1>2, <2>3 DEF TypeOK, Moves
  <2>5. RowsKept'
    BY <1>1 DEF RowsKept, UserRow
  <2>6. Carries(t)
    BY <2>1, <2>2 DEF Carries, Issuing, Polling, Claiming, Deciding
  <2>7. Names(t)
    <3>1. \A j \in Ids : UserRow(j, k) => j = i
      BY <2>1 DEF RowsKept
    <3> QED  BY <2>1, <2>2, <3>1 DEF Names, Deciding
  <2>8. \A q \in Requests : ~Free(q)' => Carries(reqs[q])' /\ Names(reqs[q])'
    <3> SUFFICES ASSUME NEW q \in Requests, ~Free(q)'
                 PROVE  Carries(reqs[q])' /\ Names(reqs[q])'
      OBVIOUS
    <3>1. PICK x : x = reqs'[q]
      OBVIOUS
    <3>2. Carries(x) /\ Names(x)
      BY <1>2, <2>6, <2>7, <3>1 DEF Moves, TasksKept, Free, At
    <3>3. Carries(x)' /\ Names(x)'
      BY <1>1, <3>2 DEF Carries, Names, UserRow
    <3> QED  BY <3>1, <3>3 DEF Carries, Names
  <2>9. TasksKept'
    <3>1. \A q \in Requests : Issuing(reqs[q])' =>
            Issuing(reqs[q]) /\ reqs'[q] = reqs[q]
      BY <1>2, <2>1 DEF Moves, Issuing
    <3> QED  BY <2>8, <3>1 DEF TasksKept
  <2>10. DecisionsCounted'
    <3>1. \A q \in Requests : Deciding(reqs[q])' =>
            \/ q = r /\ reqs'[q].data.code = k
            \/ q # r /\ Deciding(reqs[q]) /\ reqs'[q] = reqs[q]
      BY <1>2, <2>1 DEF Moves, Deciding
    <3>2. deciders'[k] = 1 => \A q \in Requests :
            Deciding(reqs[q]) => reqs[q].data.code # k
      BY <2>3 DEF DecisionsCounted
    <3>3. \A c \in decided' : deciders'[c] # 0
      BY <1>1, <2>3 DEF DecisionsCounted, TypeOK
    <3>4. ASSUME NEW q \in Requests, Deciding(reqs[q])'
          PROVE  LET c == reqs'[q].data.code IN
                 /\ deciders'[c] # 0
                 /\ deciders'[c] = 1 =>
                      /\ c \notin decided'
                      /\ \A p \in Requests :
                           Deciding(reqs[p])' /\ reqs'[p].data.code = c => p = q
      <4>1. CASE q = r
        BY <1>1, <2>2, <2>3, <3>1, <3>2, <3>4, <4>1
      <4>2. CASE q # r
        <5>1. Deciding(reqs[q]) /\ reqs'[q] = reqs[q]
          BY <3>1, <3>4, <4>2
        <5>2. PICK c : c = reqs[q].data.code
          OBVIOUS
        <5>3. c \in Codes
          BY <5>1, <5>2, RequestFacts, StoredFacts DEF TasksKept, Carries, Free, At, Deciding
        <5>4. /\ deciders[c] # 0
              /\ deciders[c] = 1 =>
                   /\ c \notin decided
                   /\ \A p \in Requests :
                        Deciding(reqs[p]) /\ reqs[p].data.code = c => p = q
          BY <5>1, <5>2 DEF DecisionsCounted
        <5>5. CASE c = k
          BY <2>3, <5>1, <5>2, <5>4, <5>5
        <5>6. CASE c # k
          <6>1. deciders'[c] = deciders[c]
            BY <2>3, <5>3, <5>6
          <6>2. \A p \in Requests : Deciding(reqs[p])' /\ reqs'[p].data.code = c =>
                  Deciding(reqs[p]) /\ reqs[p].data.code = c
            BY <3>1, <5>6
          <6> QED  BY <1>1, <5>1, <5>2, <5>4, <6>1, <6>2
        <5> QED  BY <5>5, <5>6
      <4> QED  BY <4>1, <4>2
    <3> QED  BY <3>3, <3>4 DEF DecisionsCounted
  <2>11. Balanced'
    <3>1. ~Claiming(t)
      BY <2>1 DEF Claiming
    <3> QED  BY <1>1, <1>2, <3>1, LossyBalanced
  <2>12. DecisionKept'
    <3> SUFFICES ASSUME NEW c \in decided, deciders'[c] = 1, c \notin spent, now < deadline[c]
                 PROVE  \E j \in Matching("device", c)' : rows'[j].data.status # "pending"
      BY <1>1 DEF DecisionKept
    <3>1. deciders[c] = 1
      BY <2>2, <2>3 DEF TypeOK
    <3>2. \E j \in Matching("device", c) : rows[j].data.status # "pending"
      BY <3>1 DEF DecisionKept
    <3>3. Matching("device", c)' = Matching("device", c)
      BY <1>1 DEF Matching, Alive
    <3> QED  BY <1>1, <3>2, <3>3
  <2> QED  BY <2>4, <2>5, <2>9, <2>10, <2>11, <2>12
<1> QED  BY <1>2, <1>3, <1>4

\* A claim becomes a session.
LEMMA OpenSessionKeeps ==
  ASSUME DeviceInv, NEW r \in Requests, OpenSession(r)
  PROVE  DeviceInv'
<1> USE DEF DeviceInv
<1>1. /\ UNCHANGED <<now, users, rows, deadline, told, decided, deciders, approved, spent>>
      /\ reqs[r].pc = "session" /\ ~Free(r) /\ Claiming(reqs[r])
  BY DEF OpenSession, At, Free, Claiming
<1>2. PICK d : d = reqs[r].data
  OBVIOUS
<1>3. d \in Stored /\ d.code \in Codes /\ d.user \in Users
  BY <1>1, <1>2, RequestFacts, StoredFacts DEF TasksKept, Carries
<1>4. Moves(r, Idle)
  BY IdleFacts, BecomeFacts DEF OpenSession
<1>5. PICK m : m = [minted[d.code] EXCEPT ![d.user] = @ + 1]
  OBVIOUS
<1>6. minted' = [minted EXCEPT ![d.code] = m]
  BY <1>2, <1>5 DEF OpenSession
<1>7. /\ m \in [Users -> Nat] /\ m[d.user] = minted[d.code][d.user] + 1
      /\ \A u \in Users \ {d.user} : m[u] = minted[d.code][u]
  BY <1>3, <1>5 DEF TypeOK
<1>8. /\ minted' \in [Codes -> [Users -> Nat]] /\ minted'[d.code] = m
      /\ \A k \in Codes \ {d.code} : minted'[k] = minted[k]
  BY <1>3, <1>6, <1>7 DEF TypeOK
<1>9. TypeOK'
  BY <1>1, <1>4, <1>8 DEF TypeOK, Moves
<1>10. RowsKept' /\ TasksKept' /\ DecisionsCounted' /\ DecisionKept'
  <2>1. ~Issuing(Idle) /\ ~Deciding(Idle)
    BY IdleFacts DEF Issuing, Deciding
  <2> QED  BY <1>1, <1>4, <2>1, IdleFacts, Lossy
<1>11. Balanced'
  <2> SUFFICES ASSUME NEW k \in Codes, NEW u \in Users
               PROVE  /\ IsFiniteSet(Stock(k, u))' /\ IsFiniteSet(Claims(k, u))'
                      /\ Cardinality(Stock(k, u))' + Cardinality(Claims(k, u))'
                           + minted'[k][u] <= approved'[k][u]
    BY DEF Balanced
  <2>1. /\ IsFiniteSet(Stock(k, u)) /\ IsFiniteSet(Claims(k, u))
        /\ Cardinality(Stock(k, u)) + Cardinality(Claims(k, u)) + minted[k][u]
             <= approved[k][u]
    BY DEF Balanced
  <2>2. PICK S : S = Stock(k, u)
    OBVIOUS
  <2>3. S = Stock(k, u)'
    BY <1>1, <2>2 DEF Stock
  <2>4. PICK C : C = Claims(k, u)
    OBVIOUS
  <2>5. PICK C1 : C1 = Claims(k, u)'
    OBVIOUS
  <2>6. IsFiniteSet(S) /\ IsFiniteSet(C)
    BY <2>1, <2>2, <2>4
  <2>7. Cardinality(S) \in Nat /\ Cardinality(C) \in Nat
    BY <2>6, FS_CardinalityType
  <2>8. minted[k][u] \in Nat /\ approved[k][u] \in Nat
    BY DEF TypeOK
  <2>9. C1 \in SUBSET C /\ r \notin C1
    BY <1>4, <2>4, <2>5, IdleFacts DEF Claims, Moves, Claiming
  <2>10. IsFiniteSet(C1) /\ Cardinality(C1) <= Cardinality(C)
    BY <2>6, <2>9, FS_Subset
  <2>11. Cardinality(C1) \in Nat
    BY <2>10, FS_CardinalityType
  <2>12. Cardinality(S) + Cardinality(C) + minted[k][u] <= approved[k][u]
    BY <2>1, <2>2, <2>4
  <2>13. Cardinality(S) + Cardinality(C1) + minted'[k][u] <= approved[k][u]
    <3>1. CASE k = d.code /\ u = d.user
      <4>1. r \in C
        BY <1>1, <1>2, <2>4, <3>1 DEF Claims
      <4>2. C1 \in SUBSET (C \ {r})
        BY <2>9
      <4>3. IsFiniteSet(C \ {r}) /\ Cardinality(C \ {r}) = Cardinality(C) - 1
        BY <2>6, <4>1, FS_RemoveElement
      <4>4. Cardinality(C1) <= Cardinality(C) - 1
        BY <4>2, <4>3, FS_Subset
      <4>5. minted'[k][u] = minted[k][u] + 1
        BY <1>7, <1>8, <3>1
      <4> QED  BY <2>7, <2>8, <2>11, <2>12, <4>4, <4>5
    <3>2. CASE ~(k = d.code /\ u = d.user)
      <4>1. minted'[k][u] = minted[k][u]
        BY <1>7, <1>8, <3>2
      <4> QED  BY <2>7, <2>8, <2>10, <2>11, <2>12, <4>1
    <3> QED  BY <3>1, <3>2
  <2>14. Cardinality(S) + Cardinality(C1) + minted'[k][u] <= approved'[k][u]
    BY <1>1, <2>13
  <2> QED  BY <2>3, <2>5, <2>6, <2>10, <2>14
<1> QED  BY <1>9, <1>10, <1>11

\* A user goes, the clock ticks, or nothing happens.
LEMMA QuietSteps ==
  ASSUME DeviceInv, UNCHANGED <<rows, reqs, history>>, users' \subseteq users,
         now' \in Nat, now <= now'
  PROVE  DeviceInv'
<1> USE DEF DeviceInv
<1>1. UNCHANGED <<deadline, told, decided, deciders, approved, minted, spent>>
  BY DEF history
<1>2. TypeOK'
  BY <1>1 DEF TypeOK
<1>3. RowsKept'
  BY <1>1 DEF RowsKept, UserRow
<1>4. TasksKept'
  <2>1. \A q \in Requests : Carries(reqs[q]) => Carries(reqs[q])'
    BY <1>1 DEF Carries, Issuing, Polling, Claiming, Deciding
  <2>2. \A q \in Requests : Names(reqs[q]) => Names(reqs[q])'
    BY DEF Names, UserRow, Deciding
  <2>3. \A q \in Requests : (Free(q)' <=> Free(q)) /\ (Issuing(reqs[q])' <=> Issuing(reqs[q]))
    BY DEF Free, At, Issuing
  <2> QED  BY <2>1, <2>2, <2>3 DEF TasksKept
<1>5. DecisionsCounted'
  <2>1. \A q \in Requests : Deciding(reqs[q])' <=> Deciding(reqs[q])
    BY DEF Deciding
  <2> QED  BY <1>1, <2>1 DEF DecisionsCounted
<1>6. Balanced'
  BY <1>1, NotMultiplied DEF Stock, Claims, Claiming
<1>7. DecisionKept'
  <2> SUFFICES ASSUME NEW c \in decided, deciders[c] = 1, c \notin spent, now' < deadline[c]
               PROVE  \E i \in Matching("device", c)' : rows'[i].data.status # "pending"
    BY <1>1 DEF DecisionKept
  <2>1. deadline[c] \in Nat /\ now \in Nat
    BY DEF TypeOK, RowsKept
  <2>2. PICK i \in Matching("device", c) : rows[i].data.status # "pending"
    BY <2>1 DEF DecisionKept
  <2>3. i \in Ids /\ rows[i] # None /\ rows[i].kind = "device" /\ rows[i].data.code = c
    BY DEF Matching
  <2>4. rows[i].data.expires = deadline[c]
    BY <2>3 DEF RowsKept
  <2>5. i \in Matching("device", c)'
    BY <2>1, <2>3, <2>4 DEF Matching, Alive
  <2> QED  BY <2>2, <2>5
<1> QED  BY <1>2, <1>3, <1>4, <1>5, <1>6, <1>7

LEMMA InvInit == Init => DeviceInv
<1> SUFFICES ASSUME Init PROVE DeviceInv
  OBVIOUS
<1>1. TypeOK
  BY IdleFacts DEF Init, TypeOK
<1>2. RowsKept /\ DecisionKept
  BY DEF Init, RowsKept, UserRow, DecisionKept
<1>3. TasksKept /\ DecisionsCounted
  BY IdleFacts DEF Init, TasksKept, DecisionsCounted, Free, At, Issuing, Deciding
<1>4. Balanced
  <2> SUFFICES ASSUME NEW k \in Codes, NEW u \in Users
               PROVE  /\ IsFiniteSet(Stock(k, u)) /\ IsFiniteSet(Claims(k, u))
                      /\ Cardinality(Stock(k, u)) + Cardinality(Claims(k, u)) + minted[k][u]
                           <= approved[k][u]
    BY DEF Balanced
  <2>1. Stock(k, u) = {} /\ Claims(k, u) = {}
    BY IdleFacts DEF Init, Stock, Claims, Claiming
  <2>2. minted[k][u] = 0 /\ approved[k][u] = 0
    BY DEF Init
  <2> QED  BY <2>1, <2>2, FS_EmptySet
<1> QED  BY <1>1, <1>2, <1>3, <1>4 DEF DeviceInv

LEMMA InvStep == DeviceInv /\ [Next]_vars => DeviceInv'
<1> SUFFICES ASSUME DeviceInv, [Next]_vars PROVE DeviceInv'
  OBVIOUS
<1>1. ASSUME NEW r \in Requests, AskCode(r) \/ Poll(r) \/ Decide(r) \/ Step(r)
      PROVE  DeviceInv'
  BY <1>1, AskCodeKeeps, PollKeeps, DecideKeeps, IssueDeviceKeeps, IssueUserKeeps,
     UnpollKeeps, RepollKeeps, ConsumeKeeps, FindUserKeeps, OpenSessionKeeps,
     FindDeviceKeeps, DropDeviceKeeps, DropUserKeeps, StoreDecisionKeeps, FailKeeps
  DEF Step
<1>2. now \in Nat
  BY DEF DeviceInv, TypeOK
<1>3. CASE Leave
  BY <1>2, <1>3, QuietSteps DEF Leave
<1>4. CASE Tick
  BY <1>2, <1>4, QuietSteps DEF Tick
<1>5. CASE UNCHANGED vars
  BY <1>2, <1>5, QuietSteps DEF vars
<1> QED  BY <1>1, <1>3, <1>4, <1>5 DEF Next

-----------------------------------------------------------------------------
(* The theorems.                                                            *)

\* However polls and decisions interleave and fail, the rows stay rows that the
\* endpoints write, every approval is in one place at most, and a task deletes no
\* row but the one it has read.
THEOREM DeviceHolds == Spec => []DeviceInv
BY InvInit, InvStep, PTL DEF Spec

\* A code never yields more sessions for a user than that user approved it
\* (poll_device_token_core): an approval that a poll finds is consumed by one
\* statement before the session is opened, and no poll that had read the code
\* while it was pending stores an approval again.
THEOREM TokensApproved == Spec => []OneTokenPerApproval
<1>1. DeviceInv => OneTokenPerApproval
  <2> SUFFICES ASSUME DeviceInv, NEW k \in Codes, NEW u \in Users
               PROVE  minted[k][u] <= approved[k][u]
    BY DEF OneTokenPerApproval
  <2>1. /\ IsFiniteSet(Stock(k, u)) /\ IsFiniteSet(Claims(k, u))
        /\ Cardinality(Stock(k, u)) + Cardinality(Claims(k, u)) + minted[k][u]
             <= approved[k][u]
    BY DEF DeviceInv, Balanced
  <2>2. Cardinality(Stock(k, u)) \in Nat /\ Cardinality(Claims(k, u)) \in Nat
    BY <2>1, FS_CardinalityType
  <2>3. minted[k][u] \in Nat /\ approved[k][u] \in Nat
    BY DEF DeviceInv, TypeOK
  <2> QED  BY <2>1, <2>2, <2>3
<1> QED  BY <1>1, DeviceHolds, PTL

\* A decision that met no other stays where polls find it until one consumes it
\* or the code expires, whatever the polls store that had read the code before
\* (approve_device_core, deny_device_core, store_device_authorization).
THEOREM DecisionsKept == Spec => []Consistent
<1>1. DeviceInv => Consistent
  BY DEF DeviceInv, Consistent
<1> QED  BY <1>1, DeviceHolds, PTL

\* Once a decision on a code has been answered no other one is taken: there is
\* one user-code row of a code, and it is deleted before the decision is stored.
THEOREM DecisionsFinal == Spec => DecisionFinal
<1>1. DeviceInv /\ [Next]_vars =>
        [\A r \in Requests :
           Free(r) /\ reqs'[r].pc = "find device" => reqs'[r].data.code \notin decided]_vars
  <2> SUFFICES ASSUME DeviceInv, Next, NEW r \in Requests,
                      Free(r), reqs'[r].pc = "find device"
               PROVE  reqs'[r].data.code \notin decided
    OBVIOUS
  <2> USE DEF DeviceInv
  <2>1. reqs'[r] # reqs[r]
    BY DEF Free, At
  <2>2. ~Leave /\ ~Tick
    BY <2>1 DEF Leave, Tick
  <2>3. PICK q \in Requests : AskCode(q) \/ Poll(q) \/ Decide(q) \/ Step(q)
    BY <2>2 DEF Next
  <2>4. reqs' = [reqs EXCEPT ![q] = reqs'[q]]
    BY <2>3
    DEF AskCode, Poll, Decide, Step, IssueDevice, IssueUser, Unpoll, Repoll, Consume,
        FindUser, OpenSession, FindDevice, DropDevice, DropUser, StoreDecision, Fail,
        Become, TypeOK
  <2>5. q = r
    BY <2>1, <2>4 DEF TypeOK
  <2>6. ~Step(r)
    BY DEF Step, IssueDevice, IssueUser, Unpoll, Repoll, Consume, FindUser, OpenSession,
           FindDevice, DropDevice, DropUser, StoreDecision, Fail, Free, At
  <2>7. ~AskCode(r)
    BY AskCodeStep DEF Moves
  <2>8. ~Poll(r)
    BY PollStep DEF Moves
  <2>9. Decide(r)
    BY <2>3, <2>5, <2>6, <2>7, <2>8
  <2>10. PICK t \in Request :
           /\ Moves(r, t)
           /\ \/ t.pc = "idle" /\ UNCHANGED deciders
              \/ \E i \in Ids, k \in Codes :
                   /\ rows[i] # None /\ UserRow(i, k) /\ t.key = i
                   /\ t.pc = "find device" /\ t.data \in Stored
                   /\ t.data.code = k /\ t.data.status # "pending"
                   /\ t.data.expires = rows[i].data.expires
                   /\ deciders' = [deciders EXCEPT ![k] = IF @ = 0 THEN 1 ELSE 2]
    BY <2>9, DecideStep
  <2>11. PICK i \in Ids, k \in Codes : UserRow(i, k) /\ t.data.code = k
    BY <2>10 DEF Moves
  <2>12. k \notin decided
    BY <2>11 DEF RowsKept, UserRow
  <2> QED  BY <2>10, <2>11, <2>12 DEF Moves
<1> QED  BY <1>1, DeviceHolds, PTL DEF Spec, DecisionFinal

=============================================================================
