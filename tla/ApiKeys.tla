------------------------------ MODULE ApiKeys ------------------------------
(***************************************************************************)
(* The API-key plugin: keys with a usage quota, a refill, an expiry and a   *)
(* rate limiter cached in the process, over the api-key statements of the   *)
(* adapters.                                                                *)
(*                                                                         *)
(* A request is a task; between the answer of a statement and what the task *)
(* does with it, other tasks run.  Keys are opaque and never drawn twice.   *)
(* X_y before X is a plausible bug in X.                                    *)
(***************************************************************************)
EXTENDS Integers, FiniteSets, Sequences

CONSTANTS
  Users, Keys, Requests, None,
  Templates,     \* what create requests ask for
  Edits,         \* what update requests ask for
  Ops,           \* the endpoints called
  DefaultLimit,  \* rate_limit.max_requests of the plugin, None when not enabled
  Interval,      \* the refill interval of keys that refill
  Window,        \* the rate-limit window
  Throttle,      \* time between two clean-ups
  SweepsAtExpiry,\* the memory adapter sweeps at the expiry instant, SQLx after it
  MaxTime,       \* bound: the clock stops here
  MaxPasses      \* bound: verifications a limiter lets through

\* What a key is created with, and what an update gives (None leaves it alone).
Template == [remaining : Nat \cup {None}, refill : Nat \cup {None},
             lasts : Nat \cup {None}, limited : BOOLEAN, max : Nat \cup {None}]
Edit == [remaining : Nat \cup {None}, enabled : BOOLEAN \cup {None},
         lasts : Nat \cup {None}, limited : BOOLEAN \cup {None}, max : Nat \cup {None}]

ASSUME ApiKeysAssumption ==
  /\ Templates \subseteq Template /\ Edits \subseteq Edit
  /\ Ops \subseteq {"create", "get", "list", "update", "delete", "verify", "clear"}
  /\ DefaultLimit \in Nat \cup {None}
  /\ Interval \in Nat /\ Window \in Nat \ {0} /\ Throttle \in Nat
  /\ SweepsAtExpiry \in BOOLEAN /\ MaxTime \in Nat /\ MaxPasses \in Nat

VARIABLES
  now,
  rows,       \* api_keys: key -> row or None
  limiters,   \* rate_limiters: key -> limiter or None
  lastCheck,  \* last_expired_check
  reqs,       \* the state of every task
  drawn,      \* history: the keys generated
  credit,     \* history: key -> uses it still has, None without a quota
  passes      \* history: key -> the times at which its limiter, since it was built,
              \* let it through

vars == <<now, rows, limiters, lastCheck, reqs, drawn, credit, passes>>

-----------------------------------------------------------------------------

Row == [owner : Users, enabled : BOOLEAN, remaining : Nat \cup {None},
        refill : Nat \cup {None}, refilled : Nat \cup {None}, created : Nat,
        expires : Nat \cup {None}, limited : BOOLEAN, max : Nat \cup {None}]
\* A cached limiter: the limit it was built for, and the time at which the cells
\* it has given away are all back.
Limiter == [max : Nat \ {0}, full : Nat]

ASSUME NoneAssumption == None \notin Limiter

Pcs == {"idle", "insert", "own", "apply", "remove", "read", "check", "write", "purge",
        "evict", "clear", "drop", "settle", "sweep", "closed"}
Request == [pc : Pcs, op : {"create", "get", "list", "update", "delete", "verify", "clear"},
            user : Users \cup {None}, key : Keys \cup {None},
            form : Template \cup Edit \cup {None}, row : Row \cup {None},
            left : Nat \cup {None}, refilled : Nat \cup {None},
            late : BOOLEAN, result : {"none", "ok", "refused"}]

Blank == [pc |-> "idle", op |-> "list", user |-> None, key |-> None, form |-> None,
          row |-> None, left |-> None, refilled |-> None, late |-> FALSE, result |-> "none"]

Become(r, q) == reqs' = [reqs EXCEPT ![r] = q]
Close(q, res) == [q EXCEPT !.pc = "closed", !.result = res, !.row = None, !.form = None,
                        !.left = None, !.refilled = None]
Go(q, pc) == [q EXCEPT !.pc = pc]
At(r, pc) == reqs[r].pc = pc
Free(r) == reqs[r].pc \in {"idle", "closed"}

Init ==
  /\ now = 0
  /\ rows = [k \in Keys |-> None]
  /\ limiters = [k \in Keys |-> None]
  /\ lastCheck = None
  /\ reqs = [r \in Requests |-> Blank]
  /\ drawn = {}
  /\ credit = [k \in Keys |-> None]
  /\ passes = [k \in Keys |-> << >>]

-----------------------------------------------------------------------------
(* The owner's endpoints.                                                   *)

\* Bound: there is a key left to draw.
Spare == Cardinality({r \in Requests : At(r, "insert")}) < Cardinality(Keys \ drawn)

\* A request comes in, of a user with a session; verify takes a key and none.
Ask(r) ==
  /\ Free(r)
  /\ \/ \E u \in Users, f \in Templates : /\ "create" \in Ops /\ Spare
          /\ Become(r, [Blank EXCEPT !.pc = "insert", !.op = "create", !.user = u, !.form = f])
     \/ \E u \in Users, k \in drawn, op \in Ops \cap {"get", "delete"} :
          Become(r, [Blank EXCEPT !.pc = "own", !.op = op, !.user = u, !.key = k])
     \/ \E u \in Users, k \in drawn, f \in Edits : /\ "update" \in Ops
          /\ Become(r, [Blank EXCEPT !.pc = "own", !.op = "update", !.user = u,
                          !.key = k, !.form = f])
     \/ \E u \in Users, op \in Ops \cap {"list", "clear"} :
          Become(r, [Blank EXCEPT !.pc = IF op = "clear" THEN "clear" ELSE "settle",
                       !.op = op, !.user = u])
     \/ \E k \in drawn : /\ "verify" \in Ops
          /\ Become(r, [Blank EXCEPT !.pc = "read", !.op = "verify", !.key = k,
                          !.late = (rows[k] = None)])
  /\ UNCHANGED <<now, rows, limiters, lastCheck, drawn, credit, passes>>

Until(lasts) == IF lasts = None THEN None ELSE now + lasts

\* create_api_key.
Insert(r) ==
  /\ At(r, "insert")
  /\ LET q == reqs[r] IN
     \E k \in Keys \ drawn :
       /\ rows' = [rows EXCEPT ![k] =
            [owner |-> q.user, enabled |-> TRUE, remaining |-> q.form.remaining,
             refill |-> q.form.refill, refilled |-> None, created |-> now,
             expires |-> Until(q.form.lasts), limited |-> q.form.limited,
             max |-> q.form.max]]
       /\ drawn' = drawn \cup {k}
       /\ credit' = [credit EXCEPT ![k] = q.form.remaining]
       /\ Become(r, [q EXCEPT !.pc = "settle", !.key = k])
  /\ UNCHANGED <<now, limiters, lastCheck, passes>>

\* get_owned_api_key.
Owns(q) == rows[q.key] # None /\ rows[q.key].owner = q.user

CheckOwner(r) ==
  /\ At(r, "own")
  /\ LET q == reqs[r] IN
       Become(r, IF ~Owns(q) THEN Close(q, "refused")
                 ELSE Go(q, CASE q.op = "get" -> "settle"
                              [] q.op = "update" -> "apply"
                              [] q.op = "delete" -> "remove"))
  /\ UNCHANGED <<now, rows, limiters, lastCheck, drawn, credit, passes>>

Given(new, old) == IF new = None THEN old ELSE new

Edited(row, f) ==
  [row EXCEPT !.remaining = Given(f.remaining, row.remaining),
              !.enabled = Given(f.enabled, row.enabled),
              !.expires = Given(Until(f.lasts), row.expires),
              !.limited = Given(f.limited, row.limited),
              !.max = Given(f.max, row.max)]

\* update_api_key: the row is not looked at again, a missing one is an error.
\* The limiter goes if the limits were given.
Apply(r) ==
  /\ At(r, "apply")
  /\ LET q == reqs[r]
         row == rows[q.key]
     IN IF row = None
        THEN /\ Become(r, Close(q, "refused"))
             /\ UNCHANGED <<rows, credit>>
        ELSE /\ rows' = [rows EXCEPT ![q.key] = Edited(row, q.form)]
             /\ credit' = [credit EXCEPT ![q.key] = Given(q.form.remaining, @)]
             /\ Become(r, Go(q, IF q.form.max = None /\ q.form.limited = None
                               THEN "settle" ELSE "evict"))
  /\ UNCHANGED <<now, limiters, lastCheck, drawn, passes>>

Remove(r) ==
  /\ At(r, "remove")
  /\ rows' = [rows EXCEPT ![reqs[r].key] = None]
  /\ Become(r, Go(reqs[r], "evict"))
  /\ UNCHANGED <<now, limiters, lastCheck, drawn, credit, passes>>

\* rate_limiters.remove, after an update, a delete or a purge.
Evict(r) ==
  /\ At(r, "evict")
  /\ limiters' = [limiters EXCEPT ![reqs[r].key] = None]
  /\ passes' = [passes EXCEPT ![reqs[r].key] = << >>]
  /\ LET q == reqs[r] IN
       Become(r, CASE q.op = "update" -> Go(q, "settle")
                   [] q.op = "delete" -> Close(q, "ok")
                   [] q.op = "verify" -> Close(q, "refused"))
  /\ UNCHANGED <<now, rows, lastCheck, drawn, credit>>

-----------------------------------------------------------------------------
(* Clean-up.                                                                *)

Swept(row) == /\ row # None /\ row.expires # None
              /\ row.expires < now \/ (SweepsAtExpiry /\ row.expires = now)
\* delete_expired_api_keys.
Cleaned == [k \in Keys |-> IF Swept(rows[k]) THEN None ELSE rows[k]]

\* delete-all-expired-api-keys sweeps every user's keys, and if there were any
\* forgets every key's limiter.
Clear(r) ==
  /\ At(r, "clear")
  /\ rows' = Cleaned
  /\ Become(r, IF Cleaned = rows THEN Close(reqs[r], "ok") ELSE Go(reqs[r], "drop"))
  /\ UNCHANGED <<now, limiters, lastCheck, drawn, credit, passes>>

Drop(r) ==
  /\ At(r, "drop")
  /\ limiters' = [k \in Keys |-> None]
  /\ passes' = [k \in Keys |-> << >>]
  /\ Become(r, Close(reqs[r], "ok"))
  /\ UNCHANGED <<now, rows, lastCheck, drawn, credit>>

\* maybe_delete_expired: the time is noted at once, the statement comes later.
Settle(r) ==
  /\ At(r, "settle")
  /\ IF lastCheck # None /\ now - lastCheck < Throttle
     THEN Become(r, Close(reqs[r], "ok")) /\ UNCHANGED lastCheck
     ELSE Become(r, Go(reqs[r], "sweep")) /\ lastCheck' = now
  /\ UNCHANGED <<now, rows, limiters, drawn, credit, passes>>

Sweep(r) ==
  /\ At(r, "sweep")
  /\ rows' = Cleaned
  /\ Become(r, Close(reqs[r], "ok"))
  /\ UNCHANGED <<now, limiters, lastCheck, drawn, credit, passes>>

-----------------------------------------------------------------------------
(* validate_api_key.                                                        *)

\* get_api_key_by_hash.
Read(r) ==
  /\ At(r, "read")
  /\ LET q == reqs[r] IN
       Become(r, IF rows[q.key] = None THEN Close(q, "refused")
                 ELSE [q EXCEPT !.pc = "check", !.row = rows[q.key]])
  /\ UNCHANGED <<now, rows, limiters, lastCheck, drawn, credit, passes>>

Expired(row) == row.expires # None /\ row.expires < now
Exhausted(row) == row.remaining = 0 /\ row.refill = None

RefillDue(row) ==
  /\ row.remaining # None /\ row.refill # None
  /\ now - (IF row.refilled = None THEN row.created ELSE row.refilled) > Interval
\* What the key has left, the refill that is due included.
Left(row) == IF RefillDue(row) THEN row.refill ELSE row.remaining

Spent(row) == row.remaining # None /\ Left(row) <= 0

\* The limit that applies to a key: its own if it is set, else the plugin's.
\* Zero is no limit.
Limit(row) ==
  LET max == IF row.max # None THEN row.max ELSE DefaultLimit
  IN IF ~row.limited /\ (row.max # None \/ DefaultLimit = None) THEN None
     ELSE IF max = 0 THEN None ELSE max

\* The limiter of a key: the one in the map, whatever limit it was built for.
Cached(k, max) == IF limiters[k] # None THEN limiters[k] ELSE [max |-> max, full |-> 0]

Period(l) == IF Window \div l.max > 0 THEN Window \div l.max ELSE 1
Lets(l) == l.full <= now + (l.max - 1) * Period(l)
\* Bug: a pass costs nothing.
Charged_Not(l) == l
Charged(l) == [l EXCEPT !.full = (IF l.full > now THEN l.full ELSE now) + Period(l)]

\* The chain of validate_api_key on the row as it was read.  A key that has run
\* out for good is to be deleted; permissions are looked at before the quota.
Condemn(r) ==
  /\ At(r, "check")
  /\ reqs[r].row.enabled
  /\ Expired(reqs[r].row) \/ Exhausted(reqs[r].row)
  /\ Become(r, Go(reqs[r], "purge"))
  /\ UNCHANGED <<now, rows, limiters, lastCheck, drawn, credit, passes>>

\* Disabled, without the permissions asked for, spent, or over the limit.
Refuse(r) ==
  /\ At(r, "check")
  /\ ~reqs[r].row.enabled \/ ~Expired(reqs[r].row)
  /\ Become(r, Close(reqs[r], "refused"))
  /\ UNCHANGED <<now, rows, limiters, lastCheck, drawn, credit, passes>>

\* What is to be written: one use less, and the time of the refill if there was
\* one.
Used(q) == [q EXCEPT !.pc = "write",
              !.left = IF q.row.remaining = None THEN None ELSE Left(q.row) - 1,
              !.refilled = IF RefillDue(q.row) THEN now ELSE None]

Admit(r) ==
  /\ At(r, "check")
  /\ LET q == reqs[r]
         limit == Limit(q.row)
         l == Cached(q.key, limit)
     IN /\ q.row.enabled /\ ~Expired(q.row) /\ ~Exhausted(q.row) /\ ~Spent(q.row)
        /\ \/ limit = None /\ UNCHANGED <<limiters, passes>>
           \/ /\ limit # None /\ Lets(l) /\ Len(passes[q.key]) < MaxPasses
              /\ limiters' = [limiters EXCEPT ![q.key] = Charged(l)]
              /\ passes' = [passes EXCEPT ![q.key] = Append(@, now)]
        /\ Become(r, Used(q))
  /\ UNCHANGED <<now, rows, lastCheck, drawn, credit>>

\* Bug: a row that is gone is written back.
Counted_Upsert(q) == IF rows[q.key] = None THEN q.row
                     ELSE [rows[q.key] EXCEPT !.remaining = Given(q.left, @),
                                              !.refilled = Given(q.refilled, @)]
\* update_api_key of a verification: what was computed from the row as it was
\* read is written over the row as it is.
Counted(q) == IF rows[q.key] = None THEN None
              ELSE [rows[q.key] EXCEPT !.remaining = Given(q.left, @),
                                       !.refilled = Given(q.refilled, @)]

Write(r) ==
  /\ At(r, "write")
  /\ LET q == reqs[r]
         row == Counted(q)
     IN IF row = None
        THEN /\ Become(r, Close(q, "refused"))
             /\ UNCHANGED <<rows, credit>>
        ELSE /\ rows' = [rows EXCEPT ![q.key] = row]
             /\ credit' = [credit EXCEPT ![q.key] =
                  IF @ = None THEN None
                  ELSE IF q.refilled # None THEN q.row.refill - 1 ELSE @ - 1]
             /\ Become(r, Go(q, "settle"))
  /\ UNCHANGED <<now, limiters, lastCheck, drawn, passes>>

\* delete_api_key of a key found expired or exhausted when it was read.
Purge(r) ==
  /\ At(r, "purge")
  /\ rows' = [rows EXCEPT ![reqs[r].key] = None]
  /\ Become(r, Go(reqs[r], "evict"))
  /\ UNCHANGED <<now, limiters, lastCheck, drawn, credit, passes>>

Tick ==
  /\ now < MaxTime
  /\ now' = now + 1
  /\ UNCHANGED <<rows, limiters, lastCheck, reqs, drawn, credit, passes>>

Step(r) == \/ Insert(r) \/ CheckOwner(r) \/ Apply(r) \/ Remove(r) \/ Evict(r)
           \/ Clear(r) \/ Drop(r) \/ Settle(r) \/ Sweep(r)
           \/ Read(r) \/ Condemn(r) \/ Refuse(r) \/ Admit(r) \/ Write(r) \/ Purge(r)

Next == Tick \/ \E r \in Requests : Ask(r) \/ Step(r)

Spec == Init /\ [][Next]_vars

-----------------------------------------------------------------------------
(* Properties.                                                              *)

\* Every variable holds a value of its type.
TypeOK ==
  /\ now \in 0..MaxTime
  /\ rows \in [Keys -> Row \cup {None}]
  /\ limiters \in [Keys -> Limiter \cup {None}]
  /\ lastCheck \in (0..MaxTime) \cup {None}
  /\ reqs \in [Requests -> Request]
  /\ drawn \subseteq Keys
  /\ credit \in [Keys -> Int \cup {None}]
  /\ passes \in [Keys -> Seq(Nat)]

\* "Usage quota (decremented on each use)" (plugins/api-key.mdx): a key is never
\* used more often than its quota, refills and top-ups allow.
QuotaHolds == \A k \in Keys : credit[k] # None => credit[k] >= 0

\* A key that is deleted while it is being verified stays deleted.
StaysDeleted == [][\A k \in drawn : rows[k] = None => rows'[k] = None]_vars

\* A verification that starts after the key is gone fails.
NoUseAfterDelete == \A r \in Requests : reqs[r].late => reqs[r].result # "ok"

\* However verifications, edits and deletions of a key cross, its stored fields
\* stay in their ranges (a quota is never counted below zero), and what was
\* deleted verifies no more.
Consistent == TypeOK /\ NoUseAfterDelete

\* The most that a token bucket gives in a window: a burst, and one pass for each
\* period that begins in the window.  These are as many as the limit, or more
\* where the period is rounded down.
MostOf(l) == l.max - 1 + (Window + Period(l) - 1) \div Period(l)

\* The passes in any window are no more than that, as long as the limiter lives: a
\* change of the limits, a purge and a clean-up of every user's keys each start a
\* new one.
BurstBounded ==
  \A k \in Keys : limiters[k] # None =>
    \A i, j \in DOMAIN passes[k] :
      i <= j /\ passes[k][j] - passes[k][i] < Window => j - i + 1 <= MostOf(limiters[k])

-----------------------------------------------------------------------------
(* The inductive invariant behind the properties.                           *)

\* What a task carries fits the way it has come.
Carries(q) ==
  /\ q.pc \in {"own", "apply", "remove", "evict", "read", "check", "write", "purge"} =>
       q.key \in drawn
  /\ q.pc \in {"own", "insert"} => q.user \in Users
  /\ q.pc = "insert" => q.form \in Template
  /\ q.pc = "own" => q.op \in {"get", "update", "delete"}
  /\ q.pc = "apply" => q.op = "update"
  /\ q.pc = "remove" => q.op = "delete"
  /\ q.pc = "read" => q.op = "verify"
  /\ q.pc = "evict" => q.op \in {"update", "delete", "verify"}
  /\ q.pc = "apply" \/ (q.pc = "own" /\ q.op = "update") => q.form \in Edit
  /\ q.pc \in {"check", "write", "purge"} => q.op = "verify" /\ q.row \in Row
  /\ q.pc = "write" /\ q.refilled # None => q.row.refill # None

\* A verification that began after the key was gone has got no further.
Barred(q) ==
  q.late => /\ q.op = "verify" /\ q.pc \in {"read", "closed"} /\ q.result # "ok"
            /\ q.pc = "read" => q.key \in drawn /\ rows[q.key] = None

\* The passes of a limiter are so far apart that each, but for a burst, has had a
\* period of its own, and the cells given away are not all back before the
\* passes since then have had theirs.
Bucket(l, times) ==
  \A i \in 1..Len(times) :
    /\ times[i] + (Len(times) - i + 1) * Period(l) <= l.full
    /\ \A j \in i..Len(times) :
         (j - i) * Period(l) <= times[j] - times[i] + (l.max - 1) * Period(l)

Buckets == \A k \in Keys : IF limiters[k] = None THEN passes[k] = << >>
                           ELSE Bucket(limiters[k], passes[k])

ApiKeysInv ==
  /\ Consistent
  /\ \A k \in Keys \ drawn : rows[k] = None
  /\ \A r \in Requests : Carries(reqs[r]) /\ Barred(reqs[r])
  /\ Buckets
=============================================================================
