--------------------------- MODULE ApiKeysProofs ---------------------------
(***************************************************************************)
(* Proofs about the API-key plugin, for any number of users, keys and tasks *)
(* and any limits, intervals and forms.                                     *)
(***************************************************************************)
EXTENDS ApiKeys, SequenceTheorems, TLAPS

USE ApiKeysAssumption, NoneAssumption

-----------------------------------------------------------------------------
(* The token bucket.                                                        *)

LEMMA DivFacts ==
  ASSUME NEW a \in Nat, NEW b \in Nat \ {0}
  PROVE  a \div b \in Nat /\ (a \div b) * b <= a /\ a < (a \div b) * b + b
OBVIOUS

LEMMA TimesGrows ==
  ASSUME NEW a \in Int, NEW b \in Int, NEW p \in Nat, a <= b
  PROVE  a * p \in Int /\ b * p \in Int /\ a * p <= b * p
OBVIOUS

LEMMA TimesNext ==
  ASSUME NEW a \in Int, NEW p \in Nat
  PROVE  a * p \in Int /\ (a + 1) * p = a * p + p /\ 0 * p = 0
OBVIOUS

LEMMA PeriodType ==
  ASSUME NEW l \in Limiter
  PROVE  Period(l) \in Nat \ {0} /\ l.max \in Nat \ {0} /\ l.full \in Nat
<1>1. PICK max \in Nat \ {0} : max = l.max
  BY DEF Limiter
<1>2. Window \div max \in Nat
  BY DivFacts
<1> QED  BY <1>1, <1>2 DEF Period, Limiter

\* A limiter that lets a verification through is charged for it.
LEMMA BucketGrows ==
  ASSUME NEW l \in Limiter, NEW times \in Seq(Nat), now \in Nat, Bucket(l, times), Lets(l)
  PROVE  /\ Charged(l) \in Limiter /\ Append(times, now) \in Seq(Nat)
         /\ Bucket(Charged(l), Append(times, now))
<1>1. PICK P \in Nat \ {0} : P = Period(l)
  BY PeriodType
<1>2. PICK max \in Nat \ {0} : max = l.max
  BY PeriodType
<1>3. PICK full \in Nat : full = l.full
  BY PeriodType
<1>4. PICK full1 : full1 = (IF full > now THEN full ELSE now) + P
  OBVIOUS
<1>5. full1 \in Nat /\ full1 >= full + P /\ full1 >= now + P
  BY <1>4
<1>6. PICK l1 : l1 = Charged(l)
  OBVIOUS
<1>7. l1 = [max |-> max, full |-> full1]
  BY <1>1, <1>2, <1>3, <1>4, <1>6 DEF Charged, Limiter
<1>8. l1 \in Limiter /\ Period(l1) = P /\ l1.max = max /\ l1.full = full1
  BY <1>1, <1>2, <1>5, <1>7 DEF Limiter, Period
<1>9. PICK n \in Nat : n = Len(times)
  OBVIOUS
<1>10. PICK times1 : times1 = Append(times, now)
  OBVIOUS
<1>11. /\ times1 \in Seq(Nat) /\ Len(times1) = n + 1 /\ times1[n + 1] = now
       /\ \A i \in 1..n : times1[i] = times[i] /\ times[i] \in Nat
  BY <1>9, <1>10
<1>12. PICK burst \in Int : burst = (max - 1) * P
  BY TimesNext
<1>13. burst >= 0 /\ full <= now + burst
  <2>1. 0 * P <= (max - 1) * P
    BY TimesGrows
  <2>2. 0 * P = 0
    BY TimesNext
  <2>3. full <= now + (max - 1) * P
    BY <1>1, <1>2, <1>3 DEF Lets
  <2> QED  BY <1>12, <2>1, <2>2, <2>3
<1>14. \A i \in 1..n :
         /\ times[i] + (n - i + 1) * P <= full
         /\ \A j \in i..n : (j - i) * P <= times[j] - times[i] + burst
  BY <1>1, <1>2, <1>3, <1>9, <1>12 DEF Bucket
<1>15. ASSUME NEW i \in 1..(n + 1)
       PROVE  /\ times1[i] + (n + 1 - i + 1) * P <= full1
              /\ \A j \in i..(n + 1) : (j - i) * P <= times1[j] - times1[i] + burst
  <2>1. CASE i = n + 1
    <3>1. n + 1 - i + 1 = 1 /\ 1 * P = P /\ 0 * P = 0
      BY <2>1
    <3>2. \A j \in i..(n + 1) : j - i = 0 /\ times1[j] = now
      BY <1>11, <2>1
    <3> QED  BY <1>5, <1>11, <1>13, <2>1, <3>1, <3>2
  <2>2. CASE i \in 1..n
    <3>1. PICK room \in Int : room = (n - i + 1) * P
      BY <2>2, TimesNext
    <3>2. (n + 1 - i + 1) * P = room + P
      <4>1. n + 1 - i + 1 = (n - i + 1) + 1
        BY <2>2
      <4> QED  BY <2>2, <3>1, <4>1, TimesNext
    <3>3. times[i] + room <= full
      BY <1>14, <2>2, <3>1
    <3>4. times1[i] = times[i] /\ times[i] \in Nat
      BY <1>11, <2>2
    <3>5. times1[i] + (n + 1 - i + 1) * P <= full1
      BY <1>5, <3>2, <3>3, <3>4
    <3>6. ASSUME NEW j \in i..(n + 1)
          PROVE  (j - i) * P <= times1[j] - times1[i] + burst
      <4>1. CASE j = n + 1
        <5>1. j - i = n - i + 1 /\ times1[j] = now
          BY <1>11, <2>2, <4>1
        <5> QED  BY <1>13, <3>1, <3>3, <3>4, <5>1, SMTT(60)
      <4>2. CASE j \in i..n
        BY <1>11, <1>14, <2>2, <4>2
      <4> QED  BY <2>2, <4>1, <4>2
    <3> QED  BY <3>5, <3>6
  <2> QED  BY <2>1, <2>2
<1>16. Bucket(l1, times1)
  <2>1. PICK N : N = Len(times1)
    OBVIOUS
  <2>2. N = n + 1
    BY <1>11, <2>1
  <2>3. \A i \in 1..N :
          /\ times1[i] + (N - i + 1) * P <= full1
          /\ \A j \in i..N : (j - i) * P <= times1[j] - times1[i] + burst
    BY ONLY <1>15, <2>2
  <2>4. \A i \in 1..N :
          /\ times1[i] + (N - i + 1) * P <= full1
          /\ \A j \in i..N : (j - i) * P <= times1[j] - times1[i] + (max - 1) * P
    BY ONLY <1>12, <2>3
  <2>5. \A i \in 1..Len(times1) :
          /\ times1[i] + (Len(times1) - i + 1) * P <= full1
          /\ \A j \in i..Len(times1) :
               (j - i) * P <= times1[j] - times1[i] + (max - 1) * P
    BY ONLY <2>1, <2>4
  <2> QED  BY <1>8, <2>5 DEF Bucket
<1> QED  BY <1>6, <1>8, <1>10, <1>11, <1>16

\* What the bucket gives in a window.
LEMMA BucketBounds ==
  ASSUME NEW l \in Limiter, NEW times \in Seq(Nat), Bucket(l, times),
         NEW i \in DOMAIN times, NEW j \in DOMAIN times,
         i <= j, times[j] - times[i] < Window
  PROVE  j - i + 1 <= MostOf(l)
<1>1. PICK P \in Nat \ {0} : P = Period(l)
  BY PeriodType
<1>2. PICK max \in Nat \ {0} : max = l.max
  BY PeriodType
<1>3. PICK x \in Nat : x = (Window + P - 1) \div P
  <2>1. Window + P - 1 \in Nat
    OBVIOUS
  <2> QED  BY <2>1, DivFacts
<1>4. x * P \in Int /\ x * P >= Window
  <2>1. PICK w \in Nat : w = Window + P - 1
    OBVIOUS
  <2>2. w < x * P + P
    BY <1>3, <2>1, DivFacts
  <2> QED  BY <2>1, <2>2, TimesNext
<1>5. i \in 1..Len(times) /\ j \in i..Len(times) /\ times[i] \in Nat /\ times[j] \in Nat
  OBVIOUS
<1>6. (j - i) * P <= times[j] - times[i] + (max - 1) * P
  BY <1>1, <1>2, <1>5 DEF Bucket
<1>7. SUFFICES ASSUME j - i + 1 > max - 1 + x
               PROVE  FALSE
  <2>1. MostOf(l) = max - 1 + x
    BY <1>1, <1>2, <1>3 DEF MostOf
  <2> QED  BY <1>5, <2>1
<1>8. PICK d \in Int : d = j - i
  BY <1>5
<1>9. PICK m \in Int : m = max - 1
  OBVIOUS
<1>10. m + x <= d
  BY <1>5, <1>7, <1>8, <1>9
<1>11. (m + x) * P <= d * P /\ d * P \in Int
  BY <1>10, TimesGrows
<1>12. (m + x) * P = m * P + x * P
  OBVIOUS
<1>13. m * P \in Int
  BY TimesNext
<1>14. d * P < Window + m * P
  <2>1. PICK gap : gap = times[j] - times[i]
    OBVIOUS
  <2>2. gap \in Int /\ gap < Window
    BY <1>5, <2>1
  <2>3. d * P <= gap + m * P
    BY <1>6, <1>8, <1>9, <2>1
  <2> QED  BY <1>11, <1>13, <2>2, <2>3
<1> QED  BY <1>4, <1>11, <1>12, <1>13, <1>14

-----------------------------------------------------------------------------
(* Tasks.                                                                   *)

LEMMA PcsFacts ==
  Pcs = {"idle", "insert", "own", "apply", "remove", "read", "check", "write", "purge",
         "evict", "clear", "drop", "settle", "sweep", "closed"}
BY DEF Pcs

LEMMA RequestFacts ==
  ASSUME ApiKeysInv, NEW r \in Requests
  PROVE  TypeOK /\ reqs[r] \in Request /\ Carries(reqs[r]) /\ Barred(reqs[r])
BY DEF ApiKeysInv, Consistent, TypeOK

LEMMA FieldFacts ==
  ASSUME NEW q \in Request
  PROVE  /\ q.pc \in Pcs /\ q.op \in {"create", "get", "list", "update", "delete", "verify", "clear"}
         /\ q.user \in Users \cup {None} /\ q.key \in Keys \cup {None}
         /\ q.form \in Template \cup Edit \cup {None} /\ q.row \in Row \cup {None}
         /\ q.left \in Nat \cup {None} /\ q.refilled \in Nat \cup {None} /\ q.late \in BOOLEAN
BY DEF Request

\* Two requests that differ in their place at most.
Same(q, t) ==
  /\ t.op = q.op /\ t.user = q.user /\ t.key = q.key /\ t.form = q.form /\ t.row = q.row
  /\ t.left = q.left /\ t.refilled = q.refilled /\ t.late = q.late /\ t.result = q.result

LEMMA GoFacts ==
  ASSUME NEW q \in Request, NEW pc \in Pcs
  PROVE  Go(q, pc) \in Request /\ Go(q, pc).pc = pc /\ Same(q, Go(q, pc))
<1>1. PICK t : t = Go(q, pc)
  OBVIOUS
<1>2. t = [pc |-> pc, op |-> q.op, user |-> q.user, key |-> q.key, form |-> q.form,
           row |-> q.row, left |-> q.left, refilled |-> q.refilled, late |-> q.late,
           result |-> q.result]
  BY <1>1 DEF Go, Request
<1>3. t \in Request /\ t.pc = pc
  BY <1>2 DEF Request
<1>4. Same(q, t)
  BY <1>2 DEF Same
<1> QED  BY <1>1, <1>3, <1>4

LEMMA CloseFacts ==
  ASSUME NEW q \in Request, NEW res \in {"ok", "refused"}
  PROVE  /\ Close(q, res) \in Request /\ Close(q, res).pc = "closed"
         /\ Close(q, res).late = q.late /\ Close(q, res).op = q.op
         /\ Close(q, res).result = res
<1>1. PICK t : t = Close(q, res)
  OBVIOUS
<1>2. t = [pc |-> "closed", op |-> q.op, user |-> q.user, key |-> q.key, form |-> None,
           row |-> None, left |-> None, refilled |-> None, late |-> q.late, result |-> res]
  BY <1>1 DEF Close, Request
<1>3. "closed" \in Pcs
  BY PcsFacts
<1>4. t \in Request /\ t.pc = "closed" /\ t.late = q.late /\ t.op = q.op /\ t.result = res
  BY <1>2, <1>3 DEF Request
<1> QED  BY <1>1, <1>4

\* The task r goes on with t, and the other tasks stay where they are.
Moves(r, t) ==
  /\ t \in Request /\ reqs'[r] = t
  /\ \A q \in Requests \ {r} : reqs'[q] = reqs[q]
  /\ reqs' \in [Requests -> Request]

LEMMA BecomeFacts ==
  ASSUME TypeOK, NEW r \in Requests, NEW t \in Request, Become(r, t)
  PROVE  Moves(r, t)
BY DEF TypeOK, Become, Moves

\* The part of the invariant that is about one task.
Sound(q) == Carries(q) /\ Barred(q)

\* Keys are never drawn twice, and what is gone stays gone.
Evolves ==
  /\ drawn \subseteq drawn' /\ drawn' \subseteq Keys
  /\ \A k \in Keys : rows[k] = None /\ rows'[k] # None => k \in drawn' /\ k \notin drawn

LEMMA StepKeeps ==
  ASSUME ApiKeysInv, NEW r \in Requests, NEW t, Moves(r, t), Sound(t)', now' = now, Evolves,
         rows' \in [Keys -> Row \cup {None}], lastCheck' \in (0..MaxTime) \cup {None},
         credit' \in [Keys -> Int \cup {None}], limiters' \in [Keys -> Limiter \cup {None}],
         passes' \in [Keys -> Seq(Nat)], Buckets'
  PROVE  ApiKeysInv'
<1>1. TypeOK
  BY DEF ApiKeysInv, Consistent
<1>2. TypeOK'
  BY <1>1 DEF TypeOK, Moves, Evolves
<1>3. \A k \in Keys \ drawn' : rows'[k] = None
  BY DEF ApiKeysInv, Evolves
<1>4. ASSUME NEW p \in Requests
      PROVE  Sound(reqs[p])'
  <2>1. PICK x : x = reqs'[p]
    OBVIOUS
  <2>2. CASE p = r
    <3>1. x = t
      BY <2>1, <2>2 DEF Moves
    <3>2. Sound(x)'
      BY <3>1
    <3> QED  BY <2>1, <3>2 DEF Sound, Carries, Barred
  <2>3. CASE p # r
    <3>1. x = reqs[p] /\ x \in Request /\ Carries(x) /\ Barred(x)
      BY <2>1, <2>3, RequestFacts DEF Moves
    <3>2. Carries(x)'
      BY <3>1 DEF Carries, Evolves
    <3>3. Barred(x)'
      BY <1>1, <3>1 DEF Barred, Evolves, TypeOK
    <3> QED  BY <2>1, <3>2, <3>3 DEF Sound, Carries, Barred
  <2> QED  BY <2>2, <2>3
<1>5. NoUseAfterDelete'
  BY <1>4 DEF NoUseAfterDelete, Sound, Barred
<1> QED  BY <1>2, <1>3, <1>4, <1>5 DEF ApiKeysInv, Consistent, Sound

\* The limiters stay as they are.
LEMMA TablesKeep ==
  ASSUME ApiKeysInv, NEW r \in Requests, NEW t, Moves(r, t), Sound(t)', now' = now, Evolves,
         rows' \in [Keys -> Row \cup {None}], lastCheck' \in (0..MaxTime) \cup {None},
         credit' \in [Keys -> Int \cup {None}], UNCHANGED <<limiters, passes>>
  PROVE  ApiKeysInv'
<1>1. limiters' \in [Keys -> Limiter \cup {None}] /\ passes' \in [Keys -> Seq(Nat)]
  BY DEF ApiKeysInv, Consistent, TypeOK
<1>2. Buckets'
  BY DEF ApiKeysInv, Buckets
<1> QED  BY <1>1, <1>2, StepKeeps

\* The task looks, and changes nothing.
LEMMA QuietKeeps ==
  ASSUME ApiKeysInv, NEW r \in Requests, NEW t, Moves(r, t), Sound(t)',
         UNCHANGED <<now, rows, limiters, lastCheck, drawn, credit, passes>>
  PROVE  ApiKeysInv'
<1>1. /\ rows' \in [Keys -> Row \cup {None}] /\ lastCheck' \in (0..MaxTime) \cup {None}
      /\ credit' \in [Keys -> Int \cup {None}] /\ now' = now
  BY DEF ApiKeysInv, Consistent, TypeOK
<1>2. Evolves
  BY DEF Evolves, ApiKeysInv, Consistent, TypeOK
<1> QED  BY <1>1, <1>2, TablesKeep

\* The last step of a task: one that is late fails.
LEMMA CloseTask ==
  ASSUME ApiKeysInv, NEW r \in Requests, NEW res \in {"ok", "refused"},
         Become(r, Close(reqs[r], res)), res = "ok" => ~reqs[r].late
  PROVE  \E t : Moves(r, t) /\ Sound(t)'
<1>1. PICK t : t = Close(reqs[r], res)
  OBVIOUS
<1>2. /\ t \in Request /\ t.pc = "closed" /\ t.late = reqs[r].late /\ t.op = reqs[r].op
      /\ t.result = res
  BY <1>1, RequestFacts, CloseFacts
<1>3. Moves(r, t)
  BY <1>1, <1>2, RequestFacts, BecomeFacts
<1>4. Carries(t)'
  BY <1>2 DEF Carries
<1>5. Barred(t)'
  BY <1>2, RequestFacts DEF Barred
<1> QED  BY <1>3, <1>4, <1>5 DEF Sound

\* A task that is not late goes on.
LEMMA GoTask ==
  ASSUME ApiKeysInv, NEW r \in Requests, NEW pc \in Pcs, Become(r, Go(reqs[r], pc)),
         reqs[r].pc \notin {"read", "closed"},
         Evolves, Carries(Go(reqs[r], pc))
  PROVE  \E t : Moves(r, t) /\ Sound(t)'
<1>1. PICK t : t = Go(reqs[r], pc)
  OBVIOUS
<1>2. t \in Request /\ t.late = reqs[r].late
  BY <1>1, RequestFacts, GoFacts DEF Same
<1>3. Moves(r, t)
  BY <1>1, <1>2, RequestFacts, BecomeFacts
<1>4. Carries(t)
  BY <1>1
<1>5. Carries(t)'
  BY <1>4 DEF Carries, Evolves
<1>6. Barred(t)'
  BY <1>2, RequestFacts DEF Barred
<1> QED  BY <1>3, <1>5, <1>6 DEF Sound

LEMMA PlainCarries ==
  ASSUME NEW q \in Request, NEW pc \in {"settle", "sweep", "drop"}
  PROVE  pc \in Pcs /\ Carries(Go(q, pc))
<1>1. pc \in Pcs
  BY PcsFacts
<1>2. PICK t : t = Go(q, pc)
  OBVIOUS
<1>3. t.pc = pc
  BY <1>1, <1>2, GoFacts
<1>4. Carries(t)
  BY <1>3 DEF Carries
<1> QED  BY <1>1, <1>2, <1>4

LEMMA EvictCarries ==
  ASSUME NEW q \in Request, q.key \in drawn, q.op \in {"update", "delete", "verify"}
  PROVE  "evict" \in Pcs /\ Carries(Go(q, "evict"))
<1>1. "evict" \in Pcs
  BY PcsFacts
<1>2. PICK t : t = Go(q, "evict")
  OBVIOUS
<1>3. t.pc = "evict" /\ Same(q, t)
  BY <1>1, <1>2, GoFacts
<1>4. Carries(t)
  BY <1>3 DEF Carries, Same
<1> QED  BY <1>1, <1>2, <1>4

LEMMA TableFacts ==
  ASSUME ApiKeysInv
  PROVE  /\ now \in Nat /\ now \in 0..MaxTime /\ rows \in [Keys -> Row \cup {None}]
         /\ limiters \in [Keys -> Limiter \cup {None}]
         /\ lastCheck \in (0..MaxTime) \cup {None} /\ drawn \subseteq Keys
         /\ credit \in [Keys -> Int \cup {None}] /\ passes \in [Keys -> Seq(Nat)]
BY DEF ApiKeysInv, Consistent, TypeOK

LEMMA UntilType ==
  ASSUME ApiKeysInv, NEW lasts \in Nat \cup {None}
  PROVE  Until(lasts) \in Nat \cup {None}
BY TableFacts DEF Until

LEMMA NothingEvolves ==
  ASSUME ApiKeysInv, UNCHANGED <<rows, drawn>>
  PROVE  Evolves
BY TableFacts DEF Evolves

-----------------------------------------------------------------------------
(* The owner's endpoints.                                                   *)

LEMMA AskKeeps ==
  ASSUME ApiKeysInv, NEW r \in Requests, Ask(r)
  PROVE  ApiKeysInv'
<1>0. UNCHANGED <<now, rows, limiters, lastCheck, drawn, credit, passes>>
  BY DEF Ask
<1>1. \E t \in Request : Become(r, t) /\ Carries(t) /\ Barred(t)
  <2>1. CASE \E u \in Users, f \in Templates :
               Become(r, [Blank EXCEPT !.pc = "insert", !.op = "create", !.user = u, !.form = f])
    <3>1. PICK u \in Users, f \in Templates :
               Become(r, [Blank EXCEPT !.pc = "insert", !.op = "create", !.user = u, !.form = f])
      BY <2>1
    <3>2. PICK t : t = [Blank EXCEPT !.pc = "insert", !.op = "create", !.user = u, !.form = f]
      OBVIOUS
    <3>3. t = [pc |-> "insert", op |-> "create", user |-> u, key |-> None, form |-> f,
               row |-> None, left |-> None, refilled |-> None, late |-> FALSE,
               result |-> "none"]
      BY <3>2 DEF Blank
    <3>4. "insert" \in Pcs /\ f \in Template
      BY PcsFacts
    <3>5. t \in Request
      BY <3>3, <3>4 DEF Request
    <3>6. Carries(t) /\ Barred(t)
      BY <3>3, <3>4 DEF Carries, Barred
    <3> QED  BY <3>1, <3>2, <3>5, <3>6
  <2>2. CASE \E u \in Users, k \in drawn, op \in Ops \cap {"get", "delete"} :
               Become(r, [Blank EXCEPT !.pc = "own", !.op = op, !.user = u, !.key = k])
    <3>1. PICK u \in Users, k \in drawn, op \in Ops \cap {"get", "delete"} :
               Become(r, [Blank EXCEPT !.pc = "own", !.op = op, !.user = u, !.key = k])
      BY <2>2
    <3>2. PICK t : t = [Blank EXCEPT !.pc = "own", !.op = op, !.user = u, !.key = k]
      OBVIOUS
    <3>3. t = [pc |-> "own", op |-> op, user |-> u, key |-> k, form |-> None,
               row |-> None, left |-> None, refilled |-> None, late |-> FALSE,
               result |-> "none"]
      BY <3>2 DEF Blank
    <3>4. "own" \in Pcs /\ k \in Keys
      BY PcsFacts, TableFacts
    <3>5. t \in Request
      BY <3>3, <3>4 DEF Request
    <3>6. Carries(t) /\ Barred(t)
      BY <3>3, <3>4 DEF Carries, Barred
    <3> QED  BY <3>1, <3>2, <3>5, <3>6
  <2>3. CASE \E u \in Users, k \in drawn, f \in Edits :
               Become(r, [Blank EXCEPT !.pc = "own", !.op = "update", !.user = u,
                                       !.key = k, !.form = f])
    <3>1. PICK u \in Users, k \in drawn, f \in Edits :
               Become(r, [Blank EXCEPT !.pc = "own", !.op = "update", !.user = u,
                                       !.key = k, !.form = f])
      BY <2>3
    <3>2. PICK t : t = [Blank EXCEPT !.pc = "own", !.op = "update", !.user = u,
                                     !.key = k, !.form = f]
      OBVIOUS
    <3>3. t = [pc |-> "own", op |-> "update", user |-> u, key |-> k, form |-> f,
               row |-> None, left |-> None, refilled |-> None, late |-> FALSE,
               result |-> "none"]
      BY <3>2 DEF Blank
    <3>4. "own" \in Pcs /\ k \in Keys /\ f \in Edit
      BY PcsFacts, TableFacts
    <3>5. t \in Request
      BY <3>3, <3>4 DEF Request
    <3>6. Carries(t) /\ Barred(t)
      BY <3>3, <3>4 DEF Carries, Barred
    <3> QED  BY <3>1, <3>2, <3>5, <3>6
  <2>4. CASE \E u \in Users, op \in Ops \cap {"list", "clear"} :
               Become(r, [Blank EXCEPT !.pc = IF op = "clear" THEN "clear" ELSE "settle",
                                       !.op = op, !.user = u])
    <3>1. PICK u \in Users, op \in Ops \cap {"list", "clear"} :
               Become(r, [Blank EXCEPT !.pc = IF op = "clear" THEN "clear" ELSE "settle",
                                       !.op = op, !.user = u])
      BY <2>4
    <3>2. PICK pc \in {"clear", "settle"} : pc = IF op = "clear" THEN "clear" ELSE "settle"
      OBVIOUS
    <3>3. PICK t : t = [Blank EXCEPT !.pc = IF op = "clear" THEN "clear" ELSE "settle",
                                     !.op = op, !.user = u]
      OBVIOUS
    <3>4. t = [pc |-> pc, op |-> op, user |-> u, key |-> None, form |-> None,
               row |-> None, left |-> None, refilled |-> None, late |-> FALSE,
               result |-> "none"]
      BY <3>2, <3>3 DEF Blank
    <3>5. pc \in Pcs
      BY PcsFacts
    <3>6. t \in Request
      BY <3>4, <3>5 DEF Request
    <3>7. Carries(t) /\ Barred(t)
      BY <3>4 DEF Carries, Barred
    <3> QED  BY <3>1, <3>3, <3>6, <3>7
  <2>5. CASE \E k \in drawn :
               Become(r, [Blank EXCEPT !.pc = "read", !.op = "verify", !.key = k,
                                       !.late = (rows[k] = None)])
    <3>1. PICK k \in drawn :
               Become(r, [Blank EXCEPT !.pc = "read", !.op = "verify", !.key = k,
                                       !.late = (rows[k] = None)])
      BY <2>5
    <3>2. PICK late \in BOOLEAN : late = (rows[k] = None)
      OBVIOUS
    <3>3. PICK t : t = [Blank EXCEPT !.pc = "read", !.op = "verify", !.key = k,
                                     !.late = (rows[k] = None)]
      OBVIOUS
    <3>4. t = [pc |-> "read", op |-> "verify", user |-> None, key |-> k, form |-> None,
               row |-> None, left |-> None, refilled |-> None, late |-> late,
               result |-> "none"]
      BY <3>2, <3>3 DEF Blank
    <3>5. "read" \in Pcs /\ k \in Keys
      BY PcsFacts, TableFacts
    <3>6. t \in Request
      BY <3>4, <3>5 DEF Request
    <3>7. Carries(t)
      BY <3>4 DEF Carries
    <3>8. Barred(t)
      BY <3>2, <3>4 DEF Barred
    <3> QED  BY <3>1, <3>3, <3>6, <3>7, <3>8
  <2> QED  BY <2>1, <2>2, <2>3, <2>4, <2>5 DEF Ask
<1>2. PICK t \in Request : Become(r, t) /\ Carries(t) /\ Barred(t)
  BY <1>1
<1>3. Moves(r, t)
  BY <1>2, RequestFacts, BecomeFacts
<1>4. Sound(t)'
  BY <1>0, <1>2 DEF Sound, Carries, Barred
<1> QED  BY <1>0, <1>3, <1>4, QuietKeeps

LEMMA InsertKeeps ==
  ASSUME ApiKeysInv, NEW r \in Requests, Insert(r)
  PROVE  ApiKeysInv'
<1>1. PICK q : q = reqs[r]
  OBVIOUS
<1>2. PICK k \in Keys \ drawn :
       /\ rows' = [rows EXCEPT ![k] =
            [owner |-> q.user, enabled |-> TRUE, remaining |-> q.form.remaining,
             refill |-> q.form.refill, refilled |-> None, created |-> now,
             expires |-> Until(q.form.lasts), limited |-> q.form.limited,
             max |-> q.form.max]]
       /\ drawn' = drawn \cup {k}
       /\ credit' = [credit EXCEPT ![k] = q.form.remaining]
       /\ Become(r, [q EXCEPT !.pc = "settle", !.key = k])
  BY <1>1 DEF Insert
<1>3. UNCHANGED <<now, limiters, lastCheck, passes>> /\ q.pc = "insert"
  BY <1>1 DEF Insert, At
<1>4. q \in Request /\ Carries(q) /\ Barred(q)
  BY <1>1, RequestFacts
<1>5. q.user \in Users /\ q.form \in Template /\ ~q.late
  BY <1>3, <1>4 DEF Carries, Barred
<1>6. /\ q.form.remaining \in Nat \cup {None} /\ q.form.refill \in Nat \cup {None}
      /\ q.form.lasts \in Nat \cup {None} /\ q.form.limited \in BOOLEAN
      /\ q.form.max \in Nat \cup {None}
  BY <1>5 DEF Template
<1>7. PICK row : row = [owner |-> q.user, enabled |-> TRUE, remaining |-> q.form.remaining,
             refill |-> q.form.refill, refilled |-> None, created |-> now,
             expires |-> Until(q.form.lasts), limited |-> q.form.limited,
             max |-> q.form.max]
  OBVIOUS
<1>8. PICK expires \in Nat \cup {None} : expires = Until(q.form.lasts)
  BY <1>6, UntilType
<1>9. row \in Row
  BY <1>5, <1>6, <1>7, <1>8, TableFacts DEF Row
<1>10. PICK t : t = [q EXCEPT !.pc = "settle", !.key = k]
  OBVIOUS
<1>11. t = [pc |-> "settle", op |-> q.op, user |-> q.user, key |-> k, form |-> q.form,
            row |-> q.row, left |-> q.left, refilled |-> q.refilled, late |-> q.late,
            result |-> q.result]
  BY <1>4, <1>10 DEF Request
<1>12. "settle" \in Pcs
  BY PcsFacts
<1>13. t \in Request
  BY <1>4, <1>11, <1>12 DEF Request
<1>14. Moves(r, t)
  BY <1>2, <1>10, <1>13, RequestFacts, BecomeFacts
<1>15. Sound(t)'
  BY <1>5, <1>11 DEF Sound, Carries, Barred
<1>16. rows' = [rows EXCEPT ![k] = row]
  BY <1>2, <1>7
<1>17. rows' \in [Keys -> Row \cup {None}]
  BY <1>9, <1>16, TableFacts
<1>18. credit' \in [Keys -> Int \cup {None}]
  BY <1>2, <1>6, TableFacts
<1>19. Evolves
  BY <1>2, <1>16, TableFacts DEF Evolves
<1>20. lastCheck' \in (0..MaxTime) \cup {None}
  BY <1>3, TableFacts
<1> QED  BY <1>3, <1>14, <1>15, <1>17, <1>18, <1>19, <1>20, TablesKeep

LEMMA CheckOwnerKeeps ==
  ASSUME ApiKeysInv, NEW r \in Requests, CheckOwner(r)
  PROVE  ApiKeysInv'
<1>1. PICK q : q = reqs[r]
  OBVIOUS
<1>2. /\ UNCHANGED <<now, rows, limiters, lastCheck, drawn, credit, passes>>
      /\ q.pc = "own" /\ q \in Request /\ Carries(q) /\ Barred(q) /\ Evolves
  BY <1>1, RequestFacts, NothingEvolves DEF CheckOwner, At
<1>3. q.op \in {"get", "update", "delete"} /\ q.key \in drawn
  BY <1>2 DEF Carries
<1>4. \E t : Moves(r, t) /\ Sound(t)'
  <2>1. CASE Become(r, Close(q, "refused"))
    BY <1>1, <2>1, CloseTask
  <2>2. CASE ~Become(r, Close(q, "refused"))
    <3>1. PICK pc \in {"settle", "apply", "remove"} :
            pc = CASE q.op = "get" -> "settle" [] q.op = "update" -> "apply"
                   [] q.op = "delete" -> "remove"
      BY <1>3
    <3>2. Become(r, Go(q, pc)) /\ pc \in Pcs
      <4>1. Become(r, IF ~Owns(q) THEN Close(q, "refused")
                      ELSE Go(q, CASE q.op = "get" -> "settle" [] q.op = "update" -> "apply"
                                   [] q.op = "delete" -> "remove"))
        BY <1>1, Zenon DEF CheckOwner
      <4>2. Become(r, Go(q, pc))
        BY ONLY <2>2, <3>1, <4>1
      <4>3. pc \in Pcs
        BY PcsFacts
      <4> QED  BY <4>2, <4>3
    <3>3. PICK t : t = Go(q, pc)
      OBVIOUS
    <3>4. t.pc = pc /\ Same(q, t)
      BY <1>2, <3>2, <3>3, GoFacts
    <3>5. Carries(t)
      BY <1>2, <1>3, <3>1, <3>4 DEF Carries, Same
    <3> QED  BY <1>1, <1>2, <3>2, <3>3, <3>5, GoTask
  <2> QED  BY <2>1, <2>2
<1> QED  BY <1>2, <1>4, QuietKeeps

LEMMA EditedType ==
  ASSUME ApiKeysInv, NEW row \in Row, NEW f \in Edit
  PROVE  Edited(row, f) \in Row
<1>1. /\ f.remaining \in Nat \cup {None} /\ f.enabled \in BOOLEAN \cup {None}
      /\ f.lasts \in Nat \cup {None} /\ f.limited \in BOOLEAN \cup {None}
      /\ f.max \in Nat \cup {None}
  BY DEF Edit
<1>2. /\ row.remaining \in Nat \cup {None} /\ row.enabled \in BOOLEAN
      /\ row.expires \in Nat \cup {None} /\ row.limited \in BOOLEAN
      /\ row.max \in Nat \cup {None} /\ row.owner \in Users /\ row.refill \in Nat \cup {None}
      /\ row.refilled \in Nat \cup {None} /\ row.created \in Nat
  BY DEF Row
<1>3. PICK a : a = Given(f.remaining, row.remaining)
  OBVIOUS
<1>4. PICK b : b = Given(f.enabled, row.enabled)
  OBVIOUS
<1>5. PICK c : c = Given(Until(f.lasts), row.expires)
  OBVIOUS
<1>6. PICK d : d = Given(f.limited, row.limited)
  OBVIOUS
<1>7. PICK e : e = Given(f.max, row.max)
  OBVIOUS
<1>8. Until(f.lasts) \in Nat \cup {None}
  BY <1>1, UntilType
<1>9. a \in Nat \cup {None} /\ c \in Nat \cup {None} /\ e \in Nat \cup {None}
  BY <1>1, <1>2, <1>3, <1>5, <1>7, <1>8 DEF Given
<1>10. b \in BOOLEAN
  BY <1>1, <1>2, <1>4, Zenon DEF Given
<1>11. d \in BOOLEAN
  BY <1>1, <1>2, <1>6, Zenon DEF Given
<1>12. PICK new : new = Edited(row, f)
  OBVIOUS
<1>13. new = [row EXCEPT !.remaining = a, !.enabled = b, !.expires = c, !.limited = d, !.max = e]
  BY <1>3, <1>4, <1>5, <1>6, <1>7, <1>12 DEF Edited
<1>14. new = [owner |-> row.owner, enabled |-> b, remaining |-> a, refill |-> row.refill,
              refilled |-> row.refilled, created |-> row.created, expires |-> c,
              limited |-> d, max |-> e]
  BY <1>13 DEF Row
<1>15. new \in Row
  BY <1>2, <1>9, <1>10, <1>11, <1>14 DEF Row
<1> QED  BY <1>12, <1>15

LEMMA ApplyKeeps ==
  ASSUME ApiKeysInv, NEW r \in Requests, Apply(r)
  PROVE  ApiKeysInv'
<1>1. PICK q : q = reqs[r]
  OBVIOUS
<1>2. /\ UNCHANGED <<now, limiters, lastCheck, drawn, passes>>
      /\ q.pc = "apply" /\ q \in Request /\ Carries(q) /\ Barred(q)
  BY <1>1, RequestFacts DEF Apply, At
<1>3. q.key \in drawn /\ q.key \in Keys /\ q.form \in Edit
  BY <1>2, TableFacts DEF Carries
<1>4. PICK row : row = rows[q.key]
  OBVIOUS
<1>5. CASE row = None
  <2>1. Become(r, Close(q, "refused")) /\ UNCHANGED <<rows, credit>>
    BY <1>1, <1>4, <1>5 DEF Apply
  <2>2. \E t : Moves(r, t) /\ Sound(t)'
    BY <1>1, <2>1, CloseTask
  <2> QED  BY <1>2, <2>1, <2>2, QuietKeeps
<1>6. CASE row # None
  <2>1. /\ rows' = [rows EXCEPT ![q.key] = Edited(row, q.form)]
        /\ credit' = [credit EXCEPT ![q.key] = Given(q.form.remaining, @)]
        /\ Become(r, Go(q, "settle")) \/ Become(r, Go(q, "evict"))
    BY <1>1, <1>4, <1>6 DEF Apply
  <2>2. row \in Row
    BY <1>3, <1>4, <1>6, TableFacts
  <2>3. PICK new \in Row : new = Edited(row, q.form)
    BY <1>3, <2>2, EditedType
  <2>4. rows' = [rows EXCEPT ![q.key] = new]
    BY <2>1, <2>3
  <2>5. rows' \in [Keys -> Row \cup {None}]
    BY <1>3, <2>4, TableFacts
  <2>6. PICK have : have = Given(q.form.remaining, credit[q.key])
    OBVIOUS
  <2>7. have \in Int \cup {None}
    <3>1. q.form.remaining \in Nat \cup {None}
      BY <1>3 DEF Edit
    <3>2. credit[q.key] \in Int \cup {None}
      BY <1>3, TableFacts
    <3> QED  BY <2>6, <3>1, <3>2 DEF Given
  <2>8. credit' = [credit EXCEPT ![q.key] = have]
    BY <2>1, <2>6
  <2>9. credit' \in [Keys -> Int \cup {None}]
    BY <1>3, <2>7, <2>8, TableFacts
  <2>10. Evolves
    BY <1>2, <1>3, <1>4, <1>6, <2>4, TableFacts DEF Evolves
  <2>11. "evict" \in Pcs /\ Carries(Go(q, "evict"))
    <3>1. q.op = "update"
      BY <1>2 DEF Carries
    <3> QED  BY <1>2, <1>3, <3>1, EvictCarries
  <2>12. \E t : Moves(r, t) /\ Sound(t)'
    <3>1. CASE Become(r, Go(q, "settle"))
      BY <1>1, <1>2, <2>10, <3>1, PlainCarries, GoTask
    <3>2. CASE Become(r, Go(q, "evict"))
      BY <1>1, <1>2, <2>10, <2>11, <3>2, GoTask
    <3> QED  BY <2>1, <3>1, <3>2
  <2>13. lastCheck' \in (0..MaxTime) \cup {None}
    BY <1>2, TableFacts
  <2> QED  BY <1>2, <2>5, <2>9, <2>10, <2>12, <2>13, TablesKeep
<1> QED  BY <1>5, <1>6

LEMMA RemoveKeeps ==
  ASSUME ApiKeysInv, NEW r \in Requests,
         reqs[r].key \in drawn, reqs[r].op \in {"delete", "verify"},
         reqs[r].pc \in {"remove", "purge"},
         rows' = [rows EXCEPT ![reqs[r].key] = None], Become(r, Go(reqs[r], "evict")),
         UNCHANGED <<now, limiters, lastCheck, drawn, credit, passes>>
  PROVE  ApiKeysInv'
<1>1. rows' \in [Keys -> Row \cup {None}]
  BY TableFacts
<1>2. Evolves
  BY TableFacts DEF Evolves
<1>3. "evict" \in Pcs /\ Carries(Go(reqs[r], "evict"))
  BY RequestFacts, EvictCarries
<1>4. \E t : Moves(r, t) /\ Sound(t)'
  BY <1>2, <1>3, GoTask
<1>5. lastCheck' \in (0..MaxTime) \cup {None} /\ credit' \in [Keys -> Int \cup {None}]
  BY TableFacts
<1> QED  BY <1>1, <1>2, <1>4, <1>5, TablesKeep

LEMMA EvictKeeps ==
  ASSUME ApiKeysInv, NEW r \in Requests, Evict(r)
  PROVE  ApiKeysInv'
<1>1. PICK q : q = reqs[r]
  OBVIOUS
<1>2. /\ UNCHANGED <<now, rows, lastCheck, drawn, credit>>
      /\ q.pc = "evict" /\ q \in Request /\ Carries(q) /\ Barred(q) /\ Evolves
  BY <1>1, RequestFacts, NothingEvolves DEF Evict, At
<1>3. q.op \in {"update", "delete", "verify"} /\ q.key \in Keys /\ ~q.late
  BY <1>2, TableFacts DEF Carries, Barred
<1>4. \/ Become(r, Go(q, "settle"))
      \/ \E res \in {"ok", "refused"} : Become(r, Close(q, res))
  <2>1. Become(r, CASE q.op = "update" -> Go(q, "settle") [] q.op = "delete" -> Close(q, "ok")
                    [] q.op = "verify" -> Close(q, "refused"))
    BY <1>1, Zenon DEF Evict
  <2>2. CASE q.op = "update"
    BY <2>1, <2>2
  <2>3. CASE q.op = "delete"
    BY <2>1, <2>3
  <2>4. CASE q.op = "verify"
    BY <2>1, <2>4
  <2> QED  BY <1>3, <2>2, <2>3, <2>4
<1>5. \E t : Moves(r, t) /\ Sound(t)'
  <2>1. CASE Become(r, Go(q, "settle"))
    BY <1>1, <1>2, <2>1, PlainCarries, GoTask
  <2>2. CASE \E res \in {"ok", "refused"} : Become(r, Close(q, res))
    BY <1>1, <1>3, <2>2, CloseTask
  <2> QED  BY <1>4, <2>1, <2>2
<1>6. /\ limiters' = [limiters EXCEPT ![q.key] = None]
      /\ passes' = [passes EXCEPT ![q.key] = << >>]
  BY <1>1 DEF Evict
<1>7. limiters' \in [Keys -> Limiter \cup {None}] /\ passes' \in [Keys -> Seq(Nat)]
  BY <1>3, <1>6, TableFacts
<1>8. Buckets'
  BY <1>3, <1>6, TableFacts DEF ApiKeysInv, Buckets
<1>9. /\ rows' \in [Keys -> Row \cup {None}] /\ lastCheck' \in (0..MaxTime) \cup {None}
      /\ credit' \in [Keys -> Int \cup {None}] /\ now' = now
  BY <1>2, TableFacts
<1> QED  BY <1>2, <1>5, <1>7, <1>8, <1>9, StepKeeps

-----------------------------------------------------------------------------
(* Clean-up.                                                                *)

LEMMA CleanFacts ==
  ASSUME ApiKeysInv, rows' = Cleaned, drawn' = drawn
  PROVE  rows' \in [Keys -> Row \cup {None}] /\ Evolves
BY TableFacts DEF Cleaned, Swept, Evolves

LEMMA ClearKeeps ==
  ASSUME ApiKeysInv, NEW r \in Requests, Clear(r)
  PROVE  ApiKeysInv'
<1>1. PICK q : q = reqs[r]
  OBVIOUS
<1>2. /\ UNCHANGED <<now, limiters, lastCheck, drawn, credit, passes>> /\ rows' = Cleaned
      /\ q.pc = "clear" /\ q \in Request /\ Carries(q) /\ Barred(q)
      /\ Become(r, Close(q, "ok")) \/ Become(r, Go(q, "drop"))
  BY <1>1, RequestFacts DEF Clear, At
<1>3. rows' \in [Keys -> Row \cup {None}] /\ Evolves
  BY <1>2, CleanFacts
<1>4. \E t : Moves(r, t) /\ Sound(t)'
  <2>1. ~q.late
    BY <1>2 DEF Barred
  <2> QED  BY <1>1, <1>2, <1>3, <2>1, CloseTask, PlainCarries, GoTask
<1>5. lastCheck' \in (0..MaxTime) \cup {None} /\ credit' \in [Keys -> Int \cup {None}]
  BY <1>2, TableFacts
<1> QED  BY <1>2, <1>3, <1>4, <1>5, TablesKeep

LEMMA DropKeeps ==
  ASSUME ApiKeysInv, NEW r \in Requests, Drop(r)
  PROVE  ApiKeysInv'
<1>1. PICK q : q = reqs[r]
  OBVIOUS
<1>2. /\ UNCHANGED <<now, rows, lastCheck, drawn, credit>> /\ Become(r, Close(q, "ok"))
      /\ q.pc = "drop" /\ q \in Request /\ Carries(q) /\ Barred(q) /\ Evolves
      /\ limiters' = [k \in Keys |-> None] /\ passes' = [k \in Keys |-> << >>]
  BY <1>1, RequestFacts, NothingEvolves DEF Drop, At
<1>3. \E t : Moves(r, t) /\ Sound(t)'
  <2>1. ~q.late
    BY <1>2 DEF Barred
  <2> QED  BY <1>1, <1>2, <2>1, CloseTask
<1>4. limiters' \in [Keys -> Limiter \cup {None}] /\ passes' \in [Keys -> Seq(Nat)]
  BY <1>2
<1>5. Buckets'
  BY <1>2 DEF Buckets
<1>6. /\ rows' \in [Keys -> Row \cup {None}] /\ lastCheck' \in (0..MaxTime) \cup {None}
      /\ credit' \in [Keys -> Int \cup {None}] /\ now' = now
  BY <1>2, TableFacts
<1> QED  BY <1>2, <1>3, <1>4, <1>5, <1>6, StepKeeps

LEMMA SettleKeeps ==
  ASSUME ApiKeysInv, NEW r \in Requests, Settle(r)
  PROVE  ApiKeysInv'
<1>1. PICK q : q = reqs[r]
  OBVIOUS
<1>2. /\ UNCHANGED <<now, rows, limiters, drawn, credit, passes>>
      /\ q.pc = "settle" /\ q \in Request /\ Carries(q) /\ Barred(q) /\ Evolves
      /\ Become(r, Close(q, "ok")) \/ Become(r, Go(q, "sweep"))
      /\ lastCheck' \in {lastCheck, now}
  BY <1>1, RequestFacts, NothingEvolves DEF Settle, At
<1>3. \E t : Moves(r, t) /\ Sound(t)'
  <2>1. ~q.late
    BY <1>2 DEF Barred
  <2> QED  BY <1>1, <1>2, <2>1, CloseTask, PlainCarries, GoTask
<1>4. /\ rows' \in [Keys -> Row \cup {None}] /\ lastCheck' \in (0..MaxTime) \cup {None}
      /\ credit' \in [Keys -> Int \cup {None}] /\ now' = now
  BY <1>2, TableFacts
<1> QED  BY <1>2, <1>3, <1>4, TablesKeep

LEMMA SweepKeeps ==
  ASSUME ApiKeysInv, NEW r \in Requests, Sweep(r)
  PROVE  ApiKeysInv'
<1>1. PICK q : q = reqs[r]
  OBVIOUS
<1>2. /\ UNCHANGED <<now, limiters, lastCheck, drawn, credit, passes>> /\ rows' = Cleaned
      /\ q.pc = "sweep" /\ q \in Request /\ Barred(q) /\ Become(r, Close(q, "ok"))
  BY <1>1, RequestFacts DEF Sweep, At
<1>3. rows' \in [Keys -> Row \cup {None}] /\ Evolves
  BY <1>2, CleanFacts
<1>4. \E t : Moves(r, t) /\ Sound(t)'
  <2>1. ~q.late
    BY <1>2 DEF Barred
  <2> QED  BY <1>1, <1>2, <2>1, CloseTask
<1>5. lastCheck' \in (0..MaxTime) \cup {None} /\ credit' \in [Keys -> Int \cup {None}]
  BY <1>2, TableFacts
<1> QED  BY <1>2, <1>3, <1>4, <1>5, TablesKeep

-----------------------------------------------------------------------------
(* Verifications.                                                           *)

LEMMA ReadKeeps ==
  ASSUME ApiKeysInv, NEW r \in Requests, Read(r)
  PROVE  ApiKeysInv'
<1>1. PICK q : q = reqs[r]
  OBVIOUS
<1>2. /\ UNCHANGED <<now, rows, limiters, lastCheck, drawn, credit, passes>>
      /\ q.pc = "read" /\ q \in Request /\ Carries(q) /\ Barred(q)
  BY <1>1, RequestFacts DEF Read, At
<1>3. q.key \in drawn /\ q.key \in Keys /\ q.op = "verify"
  BY <1>2, TableFacts DEF Carries
<1>4. CASE rows[q.key] = None
  <2>1. Become(r, Close(q, "refused"))
    BY <1>1, <1>4 DEF Read
  <2>2. \E t : Moves(r, t) /\ Sound(t)'
    BY <1>1, <2>1, CloseTask
  <2> QED  BY <1>2, <2>2, QuietKeeps
<1>5. CASE rows[q.key] # None
  <2>1. PICK row \in Row : row = rows[q.key]
    BY <1>3, <1>5, TableFacts
  <2>2. Become(r, [q EXCEPT !.pc = "check", !.row = row])
    BY <1>1, <1>5, <2>1 DEF Read
  <2>3. PICK t : t = [q EXCEPT !.pc = "check", !.row = row]
    OBVIOUS
  <2>4. t = [pc |-> "check", op |-> q.op, user |-> q.user, key |-> q.key, form |-> q.form,
             row |-> row, left |-> q.left, refilled |-> q.refilled, late |-> q.late,
             result |-> q.result]
    BY <1>2, <2>3 DEF Request
  <2>5. "check" \in Pcs /\ ~q.late
    BY <1>2, <1>5, PcsFacts DEF Barred
  <2>6. t \in Request
    BY <1>2, <2>4, <2>5 DEF Request
  <2>7. Moves(r, t)
    BY <2>2, <2>3, <2>6, RequestFacts, BecomeFacts
  <2>8. Sound(t)'
    BY <1>2, <1>3, <2>4, <2>5 DEF Sound, Carries, Barred
  <2> QED  BY <1>2, <2>7, <2>8, QuietKeeps
<1> QED  BY <1>4, <1>5

LEMMA CondemnKeeps ==
  ASSUME ApiKeysInv, NEW r \in Requests, Condemn(r)
  PROVE  ApiKeysInv'
<1>1. PICK q : q = reqs[r]
  OBVIOUS
<1>2. /\ UNCHANGED <<now, rows, limiters, lastCheck, drawn, credit, passes>>
      /\ q.pc = "check" /\ q \in Request /\ Carries(q) /\ Evolves
      /\ Become(r, Go(q, "purge"))
  BY <1>1, RequestFacts, NothingEvolves DEF Condemn, At
<1>3. "purge" \in Pcs
  BY PcsFacts
<1>4. PICK t : t = Go(q, "purge")
  OBVIOUS
<1>5. t.pc = "purge" /\ Same(q, t)
  BY <1>2, <1>3, <1>4, GoFacts
<1>6. Carries(t)
  BY <1>2, <1>5 DEF Carries, Same
<1>7. \E x : Moves(r, x) /\ Sound(x)'
  BY <1>1, <1>2, <1>3, <1>4, <1>6, GoTask
<1> QED  BY <1>2, <1>7, QuietKeeps

LEMMA RefuseKeeps ==
  ASSUME ApiKeysInv, NEW r \in Requests, Refuse(r)
  PROVE  ApiKeysInv'
<1>1. /\ UNCHANGED <<now, rows, limiters, lastCheck, drawn, credit, passes>>
      /\ Become(r, Close(reqs[r], "refused"))
  BY DEF Refuse
<1>2. \E t : Moves(r, t) /\ Sound(t)'
  BY <1>1, CloseTask
<1> QED  BY <1>1, <1>2, QuietKeeps

LEMMA LimitType ==
  ASSUME NEW row \in Row
  PROVE  Limit(row) \in (Nat \ {0}) \cup {None}
<1>1. PICK max \in Nat \cup {None} : max = IF row.max # None THEN row.max ELSE DefaultLimit
  BY DEF Row
<1> QED  BY <1>1 DEF Limit

\* What is to be written is a quota.
LEMMA UsedTask ==
  ASSUME ApiKeysInv, NEW r \in Requests, At(r, "check"), ~Spent(reqs[r].row),
         Become(r, Used(reqs[r])), UNCHANGED <<rows, drawn>>
  PROVE  \E t : Moves(r, t) /\ Sound(t)'
<1>1. PICK q : q = reqs[r]
  OBVIOUS
<1>2. q.pc = "check" /\ q \in Request /\ Carries(q) /\ Barred(q)
  BY <1>1, RequestFacts DEF At
<1>3. PICK row : row = q.row
  OBVIOUS
<1>4. row \in Row /\ q.op = "verify" /\ q.key \in drawn /\ ~q.late
  BY <1>2, <1>3 DEF Carries, Barred
<1>5. row.remaining \in Nat \cup {None} /\ row.refill \in Nat \cup {None}
  BY <1>4 DEF Row
<1>6. PICK left : left = IF row.remaining = None THEN None ELSE Left(row) - 1
  OBVIOUS
<1>7. left \in Nat \cup {None}
  <2>1. row.remaining # None => Left(row) \in Nat
    BY <1>5 DEF Left, RefillDue
  <2>2. row.remaining # None => ~(Left(row) <= 0)
    BY <1>1, <1>3 DEF Spent
  <2> QED  BY <1>6, <2>1, <2>2
<1>8. PICK refilled : refilled = IF RefillDue(row) THEN now ELSE None
  OBVIOUS
<1>9. refilled \in Nat \cup {None} /\ (refilled # None => row.refill # None)
  BY <1>8, TableFacts DEF RefillDue
<1>10. PICK t : t = Used(q)
  OBVIOUS
<1>11. t = [q EXCEPT !.pc = "write", !.left = left, !.refilled = refilled]
  BY <1>3, <1>6, <1>8, <1>10 DEF Used
<1>12. t = [pc |-> "write", op |-> q.op, user |-> q.user, key |-> q.key, form |-> q.form,
            row |-> row, left |-> left, refilled |-> refilled, late |-> q.late,
            result |-> q.result]
  BY <1>2, <1>3, <1>11 DEF Request
<1>13. "write" \in Pcs
  BY PcsFacts
<1>14. t \in Request
  BY <1>2, <1>4, <1>7, <1>9, <1>12, <1>13 DEF Request
<1>15. Moves(r, t)
  BY <1>1, <1>10, <1>14, RequestFacts, BecomeFacts
<1>16. Sound(t)'
  BY <1>4, <1>9, <1>12 DEF Sound, Carries, Barred
<1> QED  BY <1>15, <1>16

LEMMA AdmitKeeps ==
  ASSUME ApiKeysInv, NEW r \in Requests, Admit(r)
  PROVE  ApiKeysInv'
<1>1. PICK q : q = reqs[r]
  OBVIOUS
<1>2. PICK limit : limit = Limit(q.row)
  OBVIOUS
<1>3. PICK l : l = Cached(q.key, limit)
  OBVIOUS
<1>4. /\ UNCHANGED <<now, rows, lastCheck, drawn, credit>>
      /\ At(r, "check") /\ q.pc = "check" /\ ~Spent(q.row) /\ Become(r, Used(q))
      /\ \/ limit = None /\ UNCHANGED <<limiters, passes>>
         \/ /\ limit # None /\ Lets(l)
            /\ limiters' = [limiters EXCEPT ![q.key] = Charged(l)]
            /\ passes' = [passes EXCEPT ![q.key] = Append(@, now)]
  BY <1>1, <1>2, <1>3 DEF Admit, At
<1>5. q \in Request /\ Carries(q) /\ Evolves
  BY <1>1, <1>4, RequestFacts, NothingEvolves
<1>6. q.row \in Row /\ q.key \in Keys
  BY <1>4, <1>5, TableFacts DEF Carries
<1>7. PICK t : Moves(r, t) /\ Sound(t)'
  BY <1>1, <1>4, UsedTask
<1>8. CASE limit = None
  BY <1>4, <1>7, <1>8, QuietKeeps
<1>9. CASE limit # None
  <2>1. limit \in Nat \ {0}
    BY <1>2, <1>6, <1>9, LimitType
  <2>2. l \in Limiter /\ Bucket(l, passes[q.key])
    <3>1. CASE limiters[q.key] # None
      BY <1>3, <1>6, <3>1, TableFacts DEF Cached, ApiKeysInv, Buckets
    <3>2. CASE limiters[q.key] = None
      <4>1. passes[q.key] = << >>
        BY <1>6, <3>2 DEF ApiKeysInv, Buckets
      <4>2. l = [max |-> limit, full |-> 0]
        BY <1>3, <3>2 DEF Cached
      <4>3. l \in Limiter
        BY <2>1, <4>2 DEF Limiter
      <4>4. Bucket(l, << >>)
        BY DEF Bucket
      <4> QED  BY <4>1, <4>3, <4>4
    <3> QED  BY <3>1, <3>2
  <2>3. PICK times \in Seq(Nat) : times = passes[q.key]
    BY <1>6, TableFacts
  <2>4. /\ Charged(l) \in Limiter /\ Append(times, now) \in Seq(Nat)
        /\ Bucket(Charged(l), Append(times, now))
    BY <1>4, <1>9, <2>2, <2>3, TableFacts, BucketGrows
  <2>5. PICK l1 \in Limiter : l1 = Charged(l)
    BY <2>4
  <2>6. PICK times1 \in Seq(Nat) : times1 = Append(times, now)
    BY <2>4
  <2>7. /\ limiters' = [limiters EXCEPT ![q.key] = l1]
        /\ passes' = [passes EXCEPT ![q.key] = times1]
    BY <1>4, <1>9, <2>3, <2>5, <2>6
  <2>8. limiters' \in [Keys -> Limiter \cup {None}] /\ passes' \in [Keys -> Seq(Nat)]
    BY <1>6, <2>7, TableFacts
  <2>9. Bucket(l1, times1)
    BY <2>4, <2>5, <2>6
  <2>10. Buckets'
    <3> SUFFICES ASSUME NEW k \in Keys
                 PROVE  IF limiters'[k] = None THEN passes'[k] = << >>
                        ELSE Bucket(limiters'[k], passes'[k])
      BY <1>4 DEF Buckets, Bucket, Period
    <3>1. CASE k = q.key
      BY <1>6, <2>7, <2>9, <3>1, TableFacts
    <3>2. CASE k # q.key
      <4>1. limiters'[k] = limiters[k] /\ passes'[k] = passes[k]
        BY <1>6, <2>7, <3>2, TableFacts
      <4> QED  BY <4>1 DEF ApiKeysInv, Buckets
    <3> QED  BY <3>1, <3>2
  <2>11. /\ rows' \in [Keys -> Row \cup {None}] /\ lastCheck' \in (0..MaxTime) \cup {None}
         /\ credit' \in [Keys -> Int \cup {None}]
    BY <1>4, TableFacts
  <2> QED  BY <1>4, <1>5, <1>7, <2>8, <2>10, <2>11, StepKeeps
<1> QED  BY <1>8, <1>9

LEMMA WriteKeeps ==
  ASSUME ApiKeysInv, NEW r \in Requests, Write(r)
  PROVE  ApiKeysInv'
<1>1. PICK q : q = reqs[r]
  OBVIOUS
<1>2. /\ UNCHANGED <<now, limiters, lastCheck, drawn, passes>>
      /\ q.pc = "write" /\ q \in Request /\ Carries(q) /\ Barred(q)
  BY <1>1, RequestFacts DEF Write, At
<1>3. q.key \in drawn /\ q.key \in Keys /\ q.row \in Row
  BY <1>2, TableFacts DEF Carries
<1>4. PICK row : row = Counted(q)
  OBVIOUS
<1>5. CASE row = None
  <2>1. Become(r, Close(q, "refused")) /\ UNCHANGED <<rows, credit>>
    BY <1>1, <1>4, <1>5 DEF Write
  <2>2. \E t : Moves(r, t) /\ Sound(t)'
    BY <1>1, <2>1, CloseTask
  <2> QED  BY <1>2, <2>1, <2>2, QuietKeeps
<1>6. CASE row # None
  <2>1. /\ rows' = [rows EXCEPT ![q.key] = row]
        /\ credit' = [credit EXCEPT ![q.key] =
             IF @ = None THEN None
             ELSE IF q.refilled # None THEN q.row.refill - 1 ELSE @ - 1]
        /\ Become(r, Go(q, "settle"))
    BY <1>1, <1>4, <1>6 DEF Write
  <2>2. PICK old : old = rows[q.key]
    OBVIOUS
  <2>3. old # None /\ old \in Row
    BY <1>3, <1>4, <1>6, <2>2, TableFacts DEF Counted
  <2>4. row = [old EXCEPT !.remaining = Given(q.left, old.remaining),
                          !.refilled = Given(q.refilled, old.refilled)]
    BY <1>4, <2>2, <2>3 DEF Counted
  <2>5. PICK a \in Nat \cup {None} : a = Given(q.left, old.remaining)
    BY <1>2, <2>3 DEF Given, Request, Row
  <2>6. PICK b \in Nat \cup {None} : b = Given(q.refilled, old.refilled)
    BY <1>2, <2>3 DEF Given, Request, Row
  <2>7. row = [owner |-> old.owner, enabled |-> old.enabled, remaining |-> a,
               refill |-> old.refill, refilled |-> b, created |-> old.created,
               expires |-> old.expires, limited |-> old.limited, max |-> old.max]
    BY <2>3, <2>4, <2>5, <2>6 DEF Row
  <2>8. row \in Row
    BY <2>3, <2>7 DEF Row
  <2>9. rows' \in [Keys -> Row \cup {None}]
    BY <1>3, <2>1, <2>8, TableFacts
  <2>10. PICK have : have = IF credit[q.key] = None THEN None
                            ELSE IF q.refilled # None THEN q.row.refill - 1
                            ELSE credit[q.key] - 1
    OBVIOUS
  <2>11. have \in Int \cup {None}
    <3>1. credit[q.key] \in Int \cup {None}
      BY <1>3, TableFacts
    <3>2. q.refilled # None => q.row.refill \in Nat
      BY <1>2, <1>3 DEF Carries, Row
    <3> QED  BY <2>10, <3>1, <3>2
  <2>12. credit' = [credit EXCEPT ![q.key] = have]
    BY <2>1, <2>10
  <2>13. credit' \in [Keys -> Int \cup {None}]
    BY <1>3, <2>11, <2>12, TableFacts
  <2>14. Evolves
    BY <1>2, <1>3, <2>1, <2>2, <2>3, TableFacts DEF Evolves
  <2>15. \E t : Moves(r, t) /\ Sound(t)'
    BY <1>1, <1>2, <2>1, <2>14, PlainCarries, GoTask
  <2>16. lastCheck' \in (0..MaxTime) \cup {None}
    BY <1>2, TableFacts
  <2> QED  BY <1>2, <2>9, <2>13, <2>14, <2>15, <2>16, TablesKeep
<1> QED  BY <1>5, <1>6

-----------------------------------------------------------------------------
(* The whole specification.                                                 *)

LEMMA TickKeeps ==
  ASSUME ApiKeysInv, now' \in 0..MaxTime,
         UNCHANGED <<rows, limiters, lastCheck, reqs, drawn, credit, passes>>
  PROVE  ApiKeysInv'
<1>1. Consistent'
  BY DEF ApiKeysInv, Consistent, TypeOK, NoUseAfterDelete
<1>2. \A r \in Requests : Carries(reqs[r])' /\ Barred(reqs[r])'
  BY DEF ApiKeysInv, Carries, Barred
<1>3. Buckets'
  BY DEF ApiKeysInv, Buckets, Bucket, Period
<1>4. \A k \in Keys \ drawn' : rows'[k] = None
  BY DEF ApiKeysInv
<1> QED  BY <1>1, <1>2, <1>3, <1>4 DEF ApiKeysInv

LEMMA InvInit == Init => ApiKeysInv
<1> SUFFICES ASSUME Init PROVE ApiKeysInv
  OBVIOUS
<1> USE DEF Init
<1>1. "idle" \in Pcs
  BY PcsFacts
<1>2. Blank \in Request
  BY <1>1 DEF Blank, Request
<1>3. TypeOK
  <2>1. << >> \in Seq(Nat)
    OBVIOUS
  <2> QED  BY <1>2, <2>1 DEF TypeOK
<1>4. Carries(Blank) /\ Barred(Blank) /\ Blank.late = FALSE
  BY DEF Blank, Carries, Barred
<1>5. \A r \in Requests : reqs[r] = Blank
  OBVIOUS
<1>6. NoUseAfterDelete
  BY <1>4, <1>5 DEF NoUseAfterDelete
<1>7. Buckets
  BY DEF Buckets
<1> QED  BY <1>3, <1>4, <1>5, <1>6, <1>7 DEF ApiKeysInv, Consistent

LEMMA InvStep == ApiKeysInv /\ [Next]_vars => ApiKeysInv'
<1> SUFFICES ASSUME ApiKeysInv, [Next]_vars PROVE ApiKeysInv'
  OBVIOUS
<1>1. CASE UNCHANGED vars
  BY <1>1, TableFacts, TickKeeps DEF vars
<1>2. CASE Tick
  <2>1. now' \in 0..MaxTime
    BY <1>2, TableFacts DEF Tick
  <2> QED  BY <1>2, <2>1, TickKeeps DEF Tick
<1>3. ASSUME NEW r \in Requests, Ask(r)
      PROVE  ApiKeysInv'
  BY <1>3, AskKeeps
<1>4. ASSUME NEW r \in Requests, Remove(r)
      PROVE  ApiKeysInv'
  <2>1. reqs[r].key \in drawn /\ reqs[r].op = "delete"
    BY <1>4, RequestFacts DEF Remove, At, Carries
  <2> QED  BY <1>4, <2>1, RemoveKeeps DEF Remove, At
<1>5. ASSUME NEW r \in Requests, Purge(r)
      PROVE  ApiKeysInv'
  <2>1. reqs[r].key \in drawn /\ reqs[r].op = "verify"
    BY <1>5, RequestFacts DEF Purge, At, Carries
  <2> QED  BY <1>5, <2>1, RemoveKeeps DEF Purge, At
<1>6. ASSUME NEW r \in Requests, Step(r)
      PROVE  ApiKeysInv'
  BY <1>4, <1>5, <1>6, InsertKeeps, CheckOwnerKeeps, ApplyKeeps, EvictKeeps, ClearKeeps,
     DropKeeps, SettleKeeps, SweepKeeps, ReadKeeps, CondemnKeeps, RefuseKeeps, AdmitKeeps,
     WriteKeeps DEF Step
<1> QED  BY <1>1, <1>2, <1>3, <1>6 DEF Next

\* The inductive invariant: a task carries what its statements need, one that
\* began after its key was gone gets no further than reading it, and a limiter's
\* passes are a period apart but for its burst.
THEOREM ApiKeysHolds == Spec => []ApiKeysInv
BY InvInit, InvStep, PTL DEF Spec

\* However verifications, edits, deletions and sweeps of a key cross, its stored
\* fields stay in their ranges, and a verification that begins after the key is
\* gone fails (validate_api_key).
THEOREM KeysConsistent == Spec => []Consistent
<1>1. ApiKeysInv => Consistent
  BY DEF ApiKeysInv
<1> QED  BY <1>1, ApiKeysHolds, PTL

\* A key that is deleted while it is being verified stays deleted: the
\* verification writes its counters over the row that is there or over none
\* (validate_api_key, update_api_key).
THEOREM DeletedStays == Spec => StaysDeleted
<1>1. ApiKeysInv /\ [Next]_vars => [\A k \in drawn : rows[k] = None => rows'[k] = None]_vars
  <2> SUFFICES ASSUME ApiKeysInv, Next, NEW k \in drawn, rows[k] = None
               PROVE  rows'[k] = None
    OBVIOUS
  <2>1. k \in Keys
    BY TableFacts
  <2>2. CASE rows' = rows
    BY <2>2
  <2>3. CASE rows' = Cleaned
    BY <2>1, <2>3 DEF Cleaned
  <2>4. ASSUME NEW r \in Requests, Insert(r)
        PROVE  rows'[k] = None
    BY <2>1, <2>4, TableFacts DEF Insert
  <2>5. ASSUME NEW x, rows' = [rows EXCEPT ![x] = None]
        PROVE  rows'[k] = None
    BY <2>1, <2>5, TableFacts
  <2>6. ASSUME NEW r \in Requests, Apply(r)
        PROVE  rows'[k] = None
    BY <2>1, <2>6, TableFacts DEF Apply
  <2>7. ASSUME NEW r \in Requests, Write(r)
        PROVE  rows'[k] = None
    BY <2>1, <2>7, TableFacts DEF Write, Counted
  <2>8. CASE Tick
    BY <2>2, <2>8 DEF Tick
  <2>9. ASSUME NEW r \in Requests, Ask(r) \/ Step(r)
        PROVE  rows'[k] = None
    BY <2>2, <2>3, <2>4, <2>5, <2>6, <2>7, <2>9
       DEF Ask, Step, CheckOwner, Remove, Evict, Clear, Drop, Settle, Sweep, Read, Condemn,
           Refuse, Admit, Purge
  <2> QED  BY <2>8, <2>9 DEF Next
<1> QED  BY <1>1, ApiKeysHolds, PTL DEF Spec, StaysDeleted

\* In any window a limiter lets through a burst and a pass for each period that
\* begins in it, and no more (check_rate_limit_governor): with the period rounded
\* down, that may be more than twice the limit.
THEOREM BurstsBounded == Spec => []BurstBounded
<1>1. ApiKeysInv => BurstBounded
  <2> SUFFICES ASSUME ApiKeysInv, NEW k \in Keys, limiters[k] # None,
                      NEW i \in DOMAIN passes[k], NEW j \in DOMAIN passes[k],
                      i <= j, passes[k][j] - passes[k][i] < Window
               PROVE  j - i + 1 <= MostOf(limiters[k])
    BY DEF BurstBounded
  <2>1. PICK l \in Limiter : l = limiters[k]
    BY TableFacts
  <2>2. PICK times \in Seq(Nat) : times = passes[k]
    BY TableFacts
  <2>3. Bucket(l, times)
    BY <2>1, <2>2 DEF ApiKeysInv, Buckets
  <2>4. j - i + 1 <= MostOf(l)
    BY <2>2, <2>3, BucketBounds
  <2> QED  BY <2>1, <2>4
<1> QED  BY <1>1, ApiKeysHolds, PTL

=============================================================================
