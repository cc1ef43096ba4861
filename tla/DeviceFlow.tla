------------------------------ MODULE DeviceFlow ------------------------------
(***************************************************************************)
(* The device authorization plugin: a device is issued a code, polls with  *)
(* it, and a signed-in user approves or denies it on another screen.  What *)
(* is known of a code is kept in rows of the verification store; a change  *)
(* of status is a delete and an insert, never an update, and every         *)
(* statement is an await.                                                  *)
(*                                                                         *)
(* A code stands for the device code and the user code issued with it;     *)
(* client, scope and the wording of the answers are left out.  An expired  *)
(* row is invisible to every statement that checks the expiry, so the      *)
(* sweep that deletes such rows is left out too.  X_y before X is a        *)
(* plausible bug in X.                                                     *)
(***************************************************************************)
EXTENDS Naturals, FiniteSets

CONSTANTS
  Codes, Users, Requests, None,
  Ids,               \* what the id generator of the store draws from
  ExpiresIn, Interval,
  Adapter,           \* "memory" (SQLx acts like it) or "d1"
  Failing,           \* statements may fail
  MaxTime,           \* bound: the clock stops here
  MaxRows            \* bound: no poll starts while so many rows are stored

ASSUME DeviceAssumption ==
  /\ ExpiresIn \in Nat /\ Interval \in Nat
  /\ Ids \subseteq Nat
  /\ Adapter \in {"memory", "d1"} /\ Failing \in BOOLEAN
  /\ MaxTime \in Nat /\ MaxRows \in Nat
  /\ None \notin Users \cup Codes \cup Nat

VARIABLES
  now,       \* Utc::now()
  users,     \* the users that exist
  rows,      \* the verification table: id -> row or None
  reqs,      \* the state of every task
  deadline,  \* history: when an issued code expires, or None
  told,      \* history: the codes whose device has got its answer
  decided,   \* history: the codes on which a decision was answered
  deciders,  \* history: how many decisions found the code open, 2 for more
  approved,  \* history: how often each user's approval of a code was stored
  minted,    \* history: how many sessions came of it
  spent      \* history: the codes of which an approval was consumed

history == <<deadline, told, decided, deciders, approved, minted, spent>>
vars == <<now, users, rows, reqs, history>>

-----------------------------------------------------------------------------
(* The verification store.                                                 *)

\* DeviceAuthorizationRecord.
Status == {"pending", "approved", "denied"}
Stored == {d \in [code : Codes, status : Status, user : Users \cup {None},
                  expires : Nat, polled : Nat \cup {None}] :
             d.status = "approved" => d.user # None}
\* A verification: kind is the prefix of its identifier, data its value.
Row == [kind : {"device", "user"}, data : Stored]

ASSUME NoneAssumption == None \notin Row /\ None \notin Stored

Pcs == {"idle", "issue device", "issue user",
        "unpoll", "repoll", "consume", "user", "session",
        "find device", "drop device", "drop user", "decide"}

\* data is the record in hand, id the row to delete, key the user-code row of a
\* decision.  A request that has been answered is idle again.
Request == [pc : Pcs, data : Stored \cup {None}, id : Ids \cup {None},
            key : Ids \cup {None}]

Idle == [pc |-> "idle", data |-> None, id |-> None, key |-> None]

At(r, pc) == reqs[r].pc = pc
Free(r) == At(r, "idle")
Become(r, q) == reqs' = [reqs EXCEPT ![r] = q]

\* The ids a task may still name are never drawn again.
Held == UNION {{reqs[r].id, reqs[r].key} : r \in Requests}
Unused == {i \in Ids \ Held : rows[i] = None}

\* expires_at > now; the D1 adapter does not look.
Alive(row) == Adapter = "memory" => row.data.expires > now

\* get_verification_by_identifier finds any of these.
Matching(kind, k) ==
  {i \in Ids : /\ rows[i] # None
               /\ rows[i].kind = kind /\ rows[i].data.code = k
               /\ Alive(rows[i])}
\* The rows consume_verification has to choose from.
Equal(kind, data) == {i \in Matching(kind, data.code) : rows[i].data = data}

\* The new row gets an id nobody has; which one makes no difference.
Create(row) ==
  \E i \in Unused : /\ \A j \in Unused : i <= j
                    /\ rows' = [rows EXCEPT ![i] = row]

\* delete_verification: by id, whatever is there.
AfterDelete(i) == [rows EXCEPT ![i] = None]

\* Bug: the row is read, and deleted later, if at all.
AfterConsume_ReadOnly(i, equal) == rows
\* consume_verification, of rows that are equal: one statement.  D1 deletes them
\* all, the others the newest one.
AfterConsume(i, equal) ==
  [j \in Ids |-> IF j = i \/ (Adapter = "d1" /\ j \in equal) THEN None ELSE rows[j]]

Init ==
  /\ now = 0
  /\ users = Users
  /\ rows = [i \in Ids |-> None]
  /\ reqs = [r \in Requests |-> Idle]
  /\ deadline = [k \in Codes |-> None]
  /\ told = {}
  /\ decided = {}
  /\ deciders = [k \in Codes |-> 0]
  /\ approved = [k \in Codes |-> [u \in Users |-> 0]]
  /\ minted = [k \in Codes |-> [u \in Users |-> 0]]
  /\ spent = {}

-----------------------------------------------------------------------------
(* POST /device/code.                                                      *)

\* The codes are random, and none is drawn twice.
AskCode(r) ==
  /\ Free(r)
  /\ \E k \in Codes :
       /\ deadline[k] = None
       /\ deadline' = [deadline EXCEPT ![k] = now + ExpiresIn]
       /\ Become(r, [Idle EXCEPT !.pc = "issue device",
                       !.data = [code |-> k, status |-> "pending", user |-> None,
                                 expires |-> now + ExpiresIn, polled |-> None]])
  /\ UNCHANGED <<now, users, rows, told, decided, deciders, approved, minted, spent>>

IssueDevice(r) ==
  /\ At(r, "issue device")
  /\ Create([kind |-> "device", data |-> reqs[r].data])
  /\ Become(r, [reqs[r] EXCEPT !.pc = "issue user"])
  /\ UNCHANGED <<now, users, history>>

IssueUser(r) ==
  /\ At(r, "issue user")
  /\ Create([kind |-> "user", data |-> reqs[r].data])
  /\ told' = told \cup {reqs[r].data.code}
  /\ Become(r, Idle)
  /\ UNCHANGED <<now, users, deadline, decided, deciders, approved, minted, spent>>

-----------------------------------------------------------------------------
(* POST /device/token.                                                     *)

\* What a poll makes of the row it has found.
TooSoon(data) == data.polled # None /\ now - data.polled < Interval

Repolled(data) == [data EXCEPT !.polled = now]

\* The read, and the decision on the status read.
Poll(r) ==
  /\ Free(r)
  /\ Cardinality({i \in Ids : rows[i] # None}) < MaxRows
  /\ \E k \in told :
       \/ /\ Matching("device", k) = {}
          /\ Become(r, Idle)   \* invalid_grant
       \/ \E i \in Matching("device", k) :
            LET data == rows[i].data IN
            Become(r,
              CASE data.status = "denied" -> Idle   \* access_denied
                [] data.status = "approved" ->
                     [Idle EXCEPT !.pc = "consume", !.data = data]
                [] OTHER ->
                     IF TooSoon(data) THEN Idle   \* slow_down
                     ELSE [Idle EXCEPT !.pc = "unpoll", !.id = i,
                             !.data = Repolled(data)])
  /\ UNCHANGED <<now, users, rows, history>>

\* Bug: the row is deleted by its identifier.
Unpoll_ByIdentifier(r) ==
  /\ At(r, "unpoll")
  /\ rows' = [j \in Ids |-> IF j \in Matching("device", reqs[r].data.code)
                           THEN None ELSE rows[j]]
  /\ Become(r, [reqs[r] EXCEPT !.pc = "repoll", !.id = None])
  /\ UNCHANGED <<now, users, history>>
\* A pending code is stored again, under a new id.
Unpoll(r) ==
  /\ At(r, "unpoll")
  /\ rows' = AfterDelete(reqs[r].id)
  /\ Become(r, [reqs[r] EXCEPT !.pc = "repoll", !.id = None])
  /\ UNCHANGED <<now, users, history>>

Repoll(r) ==
  /\ At(r, "repoll")
  /\ Create([kind |-> "device", data |-> reqs[r].data])
  /\ Become(r, Idle)   \* authorization_pending
  /\ UNCHANGED <<now, users, history>>

\* An approved code is consumed, if the value read is still there.
Consume(r) ==
  /\ At(r, "consume")
  /\ LET data == reqs[r].data
         equal == Equal("device", data) IN
     \/ /\ equal = {}
        /\ Become(r, Idle)   \* invalid_grant
        /\ UNCHANGED <<rows, spent>>
     \/ \E i \in equal :
          /\ rows' = AfterConsume(i, equal)
          /\ spent' = spent \cup {data.code}
          /\ Become(r, [reqs[r] EXCEPT !.pc = "user"])
  /\ UNCHANGED <<now, users, deadline, told, decided, deciders, approved, minted>>

\* get_user_by_id: an approved code whose user is gone is lost.
FindUser(r) ==
  /\ At(r, "user")
  /\ Become(r, IF reqs[r].data.user \in users THEN [reqs[r] EXCEPT !.pc = "session"]
                                              ELSE Idle)
  /\ UNCHANGED <<now, users, rows, history>>

\* create_session (module Sessions).
OpenSession(r) ==
  /\ At(r, "session")
  /\ LET data == reqs[r].data IN
     minted' = [minted EXCEPT ![data.code][data.user] = @ + 1]
  /\ Become(r, Idle)
  /\ UNCHANGED <<now, users, rows, deadline, told, decided, deciders, approved, spent>>

-----------------------------------------------------------------------------
(* POST /device/approve and /device/deny.                                  *)

\* What is stored is the user-code row's record, not the device-code row's.
Verdict(data, u, status) ==
  [data EXCEPT !.status = status, !.user = IF status = "approved" THEN u ELSE @]

\* require_session has answered with user u (module Sessions); the user types a
\* code shown on a device.
Decide(r) ==
  /\ Free(r)
  /\ \E u \in users, k \in told, status \in {"approved", "denied"} :
       \/ /\ Matching("user", k) = {}
          /\ Become(r, Idle)   \* Invalid code
          /\ UNCHANGED deciders
       \/ \E i \in Matching("user", k) :
            /\ Become(r, [Idle EXCEPT !.pc = "find device", !.key = i,
                            !.data = Verdict(rows[i].data, u, status)])
            /\ deciders' = [deciders EXCEPT ![k] = IF @ = 0 THEN 1 ELSE 2]
  /\ UNCHANGED <<now, users, rows, deadline, told, decided, approved, minted, spent>>

FindDevice(r) ==
  /\ At(r, "find device")
  /\ LET found == Matching("device", reqs[r].data.code) IN
     \/ /\ found = {}
        /\ Become(r, [reqs[r] EXCEPT !.pc = "drop user"])
     \/ \E i \in found : Become(r, [reqs[r] EXCEPT !.pc = "drop device", !.id = i])
  /\ UNCHANGED <<now, users, rows, history>>

DropDevice(r) ==
  /\ At(r, "drop device")
  /\ rows' = AfterDelete(reqs[r].id)
  /\ Become(r, [reqs[r] EXCEPT !.pc = "drop user", !.id = None])
  /\ UNCHANGED <<now, users, history>>

\* Bug: the user code can be typed again.
AfterDropUser_Kept(i) == rows
AfterDropUser(i) == AfterDelete(i)

DropUser(r) ==
  /\ At(r, "drop user")
  /\ rows' = AfterDropUser(reqs[r].key)
  /\ Become(r, [reqs[r] EXCEPT !.pc = "decide", !.key = None])
  /\ UNCHANGED <<now, users, history>>

StoreDecision(r) ==
  /\ At(r, "decide")
  /\ LET data == reqs[r].data IN
     /\ Create([kind |-> "device", data |-> data])
     /\ decided' = decided \cup {data.code}
     /\ IF data.status = "approved"
        THEN approved' = [approved EXCEPT ![data.code][data.user] = @ + 1]
        ELSE UNCHANGED approved
  /\ Become(r, Idle)
  /\ UNCHANGED <<now, users, deadline, told, deciders, minted, spent>>

-----------------------------------------------------------------------------

\* A statement fails, and with it the request.
Fail(r) ==
  /\ Failing /\ ~Free(r)
  /\ Become(r, Idle)
  /\ UNCHANGED <<now, users, rows, history>>

Step(r) ==
  \/ IssueDevice(r) \/ IssueUser(r)
  \/ Unpoll(r) \/ Repoll(r) \/ Consume(r) \/ FindUser(r) \/ OpenSession(r)
  \/ FindDevice(r) \/ DropDevice(r) \/ DropUser(r) \/ StoreDecision(r)
  \/ Fail(r)

\* An account is deleted.
Leave ==
  /\ \E u \in users : users' = users \ {u}
  /\ UNCHANGED <<now, rows, reqs, history>>

Tick ==
  /\ now < MaxTime
  /\ now' = now + 1
  /\ UNCHANGED <<users, rows, reqs, history>>

Next == \/ \E r \in Requests : AskCode(r) \/ Poll(r) \/ Decide(r) \/ Step(r)
        \/ Leave \/ Tick

Spec == Init /\ [][Next]_vars

-----------------------------------------------------------------------------
(* Properties.                                                             *)

\* Every variable keeps its type; an approved record names its user, which the
\* token endpoint relies on ("Device authorization missing approved user").
TypeOK ==
  /\ now \in Nat /\ users \subseteq Users
  /\ rows \in [Ids -> Row \cup {None}]
  /\ reqs \in [Requests -> Request]
  /\ deadline \in [Codes -> Nat \cup {None}]
  /\ told \subseteq Codes /\ decided \subseteq Codes /\ spent \subseteq Codes
  /\ deciders \in [Codes -> 0..2]
  /\ approved \in [Codes -> [Users -> Nat]]
  /\ minted \in [Codes -> [Users -> Nat]]

\* A code yields no more sessions for a user than that user approved it, however
\* many polls race for it: an approval is consumed before a session is opened.
OneTokenPerApproval ==
  \A k \in Codes, u \in Users : minted[k][u] <= approved[k][u]

\* Once a decision on a code has been answered, no later one is taken: whoever
\* types the user code after that is told it is unknown, even if polls or other
\* decisions were under way.
DecisionFinal ==
  [][\A r \in Requests :
       Free(r) /\ reqs'[r].pc = "find device" => reqs'[r].data.code \notin decided]_vars

\* A decision that met no other one stays where polls find it until a poll
\* consumes it or the code expires: the polls that had read the code while it
\* was pending, and store it again, do not undo it.
DecisionKept ==
  \A k \in decided :
    deciders[k] = 1 /\ k \notin spent /\ now < deadline[k]
      => \E i \in Matching("device", k) : rows[i].data.status # "pending"

\* The stored rows are rows the endpoints write, whichever polls and decisions
\* rewrite them, and a decision outlives them.
Consistent == TypeOK /\ DecisionKept

-----------------------------------------------------------------------------
(* The inductive invariant behind the three properties.                    *)

Issuing(t) == t.pc \in {"issue device", "issue user"}
Polling(t) == t.pc \in {"unpoll", "repoll"}
Claiming(t) == t.pc \in {"user", "session"}
Deciding(t) == t.pc \in {"find device", "drop device", "drop user", "decide"}

UserRow(i, k) ==
  rows[i] # None /\ rows[i].kind = "user" /\ rows[i].data.code = k

\* A row expires with its code.  The user-code row is there once, from the answer
\* to the device on, and is gone when a decision has been answered.
RowsKept ==
  /\ \A i \in Ids : rows[i] # None =>
       /\ deadline[rows[i].data.code] = rows[i].data.expires
       /\ rows[i].kind = "user" => /\ rows[i].data.status = "pending"
                                  /\ rows[i].data.code \in told \ decided
  /\ \A i, j \in Ids, k \in Codes : UserRow(i, k) /\ UserRow(j, k) => i = j
  /\ \A k \in told : deadline[k] # None
  /\ decided \subseteq told

\* What a request carries from one statement to the next.
Carries(t) ==
  /\ t.data # None
  /\ deadline[t.data.code] = t.data.expires
  /\ Issuing(t) => t.data.status = "pending" /\ t.data.code \notin told
  /\ Polling(t) => t.data.status = "pending"
  /\ Claiming(t) \/ t.pc = "consume" => t.data.status = "approved"
  /\ Deciding(t) => t.data.status # "pending" /\ t.data.code \in told

\* The row it is about to delete is the one it read, or is gone: rows are never
\* updated, and its id is not drawn again.
Names(t) ==
  /\ t.pc = "unpoll" =>
       /\ t.id \in Ids
       /\ rows[t.id] # None => rows[t.id].data.status = "pending"
  /\ t.pc = "drop device" =>
       /\ t.id \in Ids
       /\ rows[t.id] # None => rows[t.id].data.code = t.data.code
  /\ Deciding(t) =>
       /\ \A i \in Ids : UserRow(i, t.data.code) => t.pc # "decide" /\ i = t.key
       /\ t.pc # "decide" =>
            /\ t.key \in Ids
            /\ rows[t.key] # None => rows[t.key].data.code = t.data.code

TasksKept ==
  /\ \A r \in Requests : ~Free(r) => Carries(reqs[r]) /\ Names(reqs[r])
  /\ \A r, q \in Requests :
       Issuing(reqs[r]) /\ Issuing(reqs[q]) /\ reqs[r].data.code = reqs[q].data.code
         => r = q

\* A decision that is under way has been counted, and the only one is not answered.
DecisionsCounted ==
  /\ \A k \in decided : deciders[k] # 0
  /\ \A r \in Requests : Deciding(reqs[r]) =>
       LET k == reqs[r].data.code IN
       /\ deciders[k] # 0
       /\ deciders[k] = 1 =>
            /\ k \notin decided
            /\ \A q \in Requests :
                 Deciding(reqs[q]) /\ reqs[q].data.code = k => q = r

\* The approvals of a code that are stored, and those that a poll has consumed
\* and not yet turned into a session.
Stock(k, u) ==
  {i \in Ids : /\ rows[i] # None /\ rows[i].data.status = "approved"
               /\ rows[i].data.code = k /\ rows[i].data.user = u}
Claims(k, u) ==
  {r \in Requests : /\ Claiming(reqs[r])
                    /\ reqs[r].data.code = k /\ reqs[r].data.user = u}

\* Every approval is stored, consumed, turned into a session or lost: no step
\* makes two of one.
Balanced ==
  \A k \in Codes, u \in Users :
    /\ IsFiniteSet(Stock(k, u)) /\ IsFiniteSet(Claims(k, u))
    /\ Cardinality(Stock(k, u)) + Cardinality(Claims(k, u)) + minted[k][u]
         <= approved[k][u]

DeviceInv ==
  TypeOK /\ RowsKept /\ TasksKept /\ DecisionsCounted /\ Balanced /\ DecisionKept

=============================================================================
