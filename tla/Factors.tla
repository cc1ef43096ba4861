------------------------------- MODULE Factors -------------------------------
(***************************************************************************)
(* The second factor (TOTP, mailed OTP, backup codes, over the pending       *)
(* verification a sign-in leaves) and passkeys (challenges, credentials).   *)
(*                                                                         *)
(* Every action is one statement of a database adapter with the synchronous *)
(* code around it.  A TOTP code stands for the secret it is computed from;  *)
(* a row that expires goes; client data, names, counters' values and the    *)
(* session a request comes with are left out, and users stay.  X_y before X *)
(* is a plausible bug in X.                                                *)
(***************************************************************************)
EXTENDS Naturals, FiniteSets

CONSTANTS
  Users, None,
  Pendings,     \* the 2fa_ tokens of sign-ins
  Otps, Secrets, Codes, Challenges,
  Passkeys,     \* ids of passkey rows
  Credentials,  \* the ids authenticators give their keys
  Requests,     \* the tasks that may be in flight at once
  Menus,        \* sets of operations, one of which clients use
  BatchSize,    \* backup_code_count
  Failing       \* the statements that may fail, without effect

FactorOps == {"signIn", "enable", "disable", "regenerate", "sendOtp"}
VerifyOps == {"verifyTotp", "verifyOtp", "verifyBackup"}
PasskeyOps ==
  {"regOptions", "register", "authOptions", "authenticate", "deleteKey"}
AllOps == FactorOps \cup VerifyOps \cup PasskeyOps

\* What is handed out, once each: to a user, or (authOptions) to Anyone.
Things == Pendings \cup Otps \cup Secrets \cup Codes \cup Challenges \cup Passkeys
Anyone == "anyone"

ASSUME FactorsAssumption ==
  /\ UNION Menus \subseteq AllOps
  /\ BatchSize \in Nat
  /\ None \notin Users \cup Things \cup Credentials
  /\ Anyone \notin Users \cup {None}

\* Nothing is taken for a thing of another kind: the identifiers of the rows
\* begin with 2fa_pending:, 2fa_otp:, passkey_reg: or passkey_auth:, and secrets,
\* codes and passkeys are in tables and columns of their own.
ASSUME KindsAssumption ==
  LET Kinds == <<Pendings, Otps, Secrets, Codes, Challenges, Passkeys>>
  IN  \A i, j \in 1..6 : i # j => Kinds[i] \cap Kinds[j] = {}

VARIABLES
  flag,      \* User.two_factor_enabled
  secret,    \* the two_factor row: its secret, None if there is no row ...
  codes,     \* ... and its backup codes
  rows,      \* the verifications in the table: pendings, OTPs, challenges
  passkeys,  \* id -> [user, cred] or None
  reqs,      \* the state of every task
  menu,      \* what clients ask for in this behaviour
  given,     \* to whom a thing was handed out; for the verifications in the
             \* table, the user in their identifier or value
  used,      \* history: the things with which someone has signed in ...
  spent      \* ... and those by which the request has been answered

vars == <<flag, secret, codes, rows, passkeys, reqs, menu, given, used,
          spent>>
factor == <<flag, secret, codes>>
history == <<menu, given, used, spent>>

Pcs == {"idle", "user", "pend", "create", "flagOn", "drop", "flagOff", "regen",
        "pending", "mail", "record", "otp", "writeCodes", "insert", "clearOtp",
        "clear", "draw", "consume", "createKey", "findKey", "counter", "owner",
        "dropKey"}

\* seen is the list of codes read.  History: guarded, the user's flag has been
\* set ever since the task began; late, what is presented was spent before.
Task == [pc : Pcs, op : AllOps \cup {None}, user : Users \cup {None},
         token : Pendings \cup {None}, thing : Things \cup {None},
         key : Passkeys \cup {None}, cred : Credentials \cup {None},
         seen : SUBSET Codes, guarded : BOOLEAN, late : BOOLEAN, ok : BOOLEAN]

Idle(ok) == [pc |-> "idle", op |-> None, user |-> None, token |-> None,
             thing |-> None, key |-> None, cred |-> None, seen |-> {},
             guarded |-> FALSE, late |-> FALSE, ok |-> ok]

At(r, pc) == reqs[r].pc = pc
Become(r, q) ==
  reqs' = [x \in Requests |-> IF x = r THEN q ELSE [reqs[x] EXCEPT !.ok = FALSE]]
Go(r, pc) == Become(r, [reqs[r] EXCEPT !.pc = pc])
Error(r) == Become(r, Idle(FALSE))
Done(r) == Become(r, Idle(TRUE))

Unused(S) == {x \in S : given[x] = None}
\* Fresh values do not differ: one of those never handed out, or one batch.
Fresh(S) == IF Unused(S) = {} THEN {} ELSE {CHOOSE x \in S : given[x] = None}
Batches == LET all == {B \in SUBSET Unused(Codes) : Cardinality(B) = BatchSize}
           IN IF all = {} THEN {} ELSE {CHOOSE B \in all : TRUE}
Handed(S) == {x \in S : given[x] # None}
Hand(S, u) == given' = [x \in Things |-> IF x \in S THEN u ELSE given[x]]

Init ==
  /\ flag = [u \in Users |-> FALSE]
  /\ secret = [u \in Users |-> None]
  /\ codes = [u \in Users |-> {}]
  /\ rows = {}
  /\ passkeys = [k \in Passkeys |-> None]
  /\ reqs = [r \in Requests |-> Idle(FALSE)]
  /\ menu \in Menus
  /\ given = [x \in Things |-> None]
  /\ used = {} /\ spent = {}

-----------------------------------------------------------------------------
(* A client begins an operation in a free slot.                            *)

Begin(r, q) ==
  /\ Become(r, q)
  /\ UNCHANGED <<factor, rows, passkeys, history>>

New(op, pc, u) == [Idle(FALSE) EXCEPT !.op = op, !.pc = pc, !.user = u]

\* Where the tasks of a user who gives the password begin.
First == [signIn |-> "user", enable |-> "create", disable |-> "drop",
          regenerate |-> "regen"]

\* With the right password, or with a session and the right password.
AskUser(r) ==
  /\ At(r, "idle")
  /\ \E op \in menu \cap DOMAIN First, u \in Users :
       Begin(r, [New(op, First[op], u) EXCEPT !.guarded = flag[u]])

\* With a pending token, and a code of some kind.
AskVerify(r) ==
  /\ At(r, "idle")
  /\ \E op \in menu \cap (VerifyOps \cup {"sendOtp"}), p \in Handed(Pendings) :
       \E x \in CASE op = "sendOtp" -> {None}
                  [] op = "verifyTotp" -> Handed(Secrets)
                  [] op = "verifyOtp" -> Handed(Otps)
                  [] op = "verifyBackup" -> Handed(Codes) :
         Begin(r, [New(op, "pending", None) EXCEPT !.token = p, !.thing = x,
                     !.late = p \in spent \/ x \in spent \cap Otps])

\* With a session, or (to authenticate) without.
AskPasskey(r) ==
  /\ At(r, "idle")
  /\ \/ /\ "regOptions" \in menu
        /\ \E u \in Users : Begin(r, New("regOptions", "draw", u))
     \/ /\ "authOptions" \in menu
        /\ Begin(r, New("authOptions", "draw", None))
     \/ /\ "register" \in menu
        /\ \E u \in Users, x \in Handed(Challenges), c \in Credentials :
             Begin(r, [New("register", "consume", u) EXCEPT !.thing = x,
                         !.cred = c, !.late = x \in spent])
     \/ /\ "authenticate" \in menu
        /\ \E x \in Handed(Challenges), c \in Credentials :
             Begin(r, [New("authenticate", "consume", None) EXCEPT !.thing = x,
                         !.cred = c, !.late = x \in spent])
     \/ /\ "deleteKey" \in menu
        /\ \E u \in Users, k \in Passkeys :
             Begin(r, [New("deleteKey", "owner", u) EXCEPT !.key = k])

-----------------------------------------------------------------------------
(* Sign-in, and the second factor's settings.                              *)

\* Bug: the flag is looked at in the row of the second factor.
Asks_Row(u) == secret[u] # None /\ flag[u]
Asks(u) == flag[u]

\* sign_in_with_user_core decides by the user it has read.
ReadUser(r) ==
  /\ At(r, "user")
  /\ Go(r, IF Asks(reqs[r].user) THEN "pend" ELSE "insert")
  /\ UNCHANGED <<factor, rows, passkeys, history>>

\* The sign-in ends with a pending verification.
Pend(r) ==
  /\ At(r, "pend")
  /\ \E p \in Fresh(Pendings) :
       /\ rows' = rows \cup {p}
       /\ Hand({p}, reqs[r].user)
  /\ Done(r)
  /\ UNCHANGED <<factor, passkeys, menu, used, spent>>

\* create_two_factor refuses a second row for a user.
Create(r) ==
  /\ At(r, "create")
  /\ LET u == reqs[r].user IN
       \/ /\ secret[u] # None
          /\ Error(r)
          /\ UNCHANGED <<secret, codes, given>>
       \/ /\ secret[u] = None
          /\ \E s \in Fresh(Secrets), B \in Batches :
               /\ secret' = [secret EXCEPT ![u] = s]
               /\ codes' = [codes EXCEPT ![u] = B]
               /\ Hand({s} \cup B, u)
          /\ Go(r, "flagOn")
  /\ UNCHANGED <<flag, rows, passkeys, menu, used, spent>>

\* Every other task of the user that begins after this one ends is guarded.
SetFlag(r, pc, b) ==
  /\ At(r, pc)
  /\ LET u == reqs[r].user IN
       /\ flag' = [flag EXCEPT ![u] = b]
       /\ reqs' = [x \in Requests |->
            IF x = r THEN Idle(TRUE)
            ELSE [reqs[x] EXCEPT !.ok = FALSE,
                                 !.guarded = @ /\ (reqs[x].user = u => b)]]
  /\ UNCHANGED <<secret, codes, rows, passkeys, history>>

Enable(r) == SetFlag(r, "flagOn", TRUE)
Disable(r) == SetFlag(r, "flagOff", FALSE)

\* delete_two_factor.
Drop(r) ==
  /\ At(r, "drop")
  /\ secret' = [secret EXCEPT ![reqs[r].user] = None]
  /\ codes' = [codes EXCEPT ![reqs[r].user] = {}]
  /\ Go(r, "flagOff")
  /\ UNCHANGED <<flag, rows, passkeys, history>>

\* update_two_factor_backup_codes, with new codes.
Regenerate(r) ==
  /\ At(r, "regen")
  /\ LET u == reqs[r].user IN
       \/ /\ secret[u] = None
          /\ Error(r)
          /\ UNCHANGED <<codes, given>>
       \/ /\ secret[u] # None
          /\ \E B \in Batches : codes' = [codes EXCEPT ![u] = B] /\ Hand(B, u)
          /\ Done(r)
  /\ UNCHANGED <<flag, secret, rows, passkeys, menu, used, spent>>

-----------------------------------------------------------------------------
(* Verification of the second factor.                                      *)

\* get_pending_2fa_user.
ReadPending(r) ==
  /\ At(r, "pending")
  /\ LET q == reqs[r] IN
       \/ q.token \notin rows /\ Error(r)
       \/ /\ q.token \in rows
          /\ Become(r, [q EXCEPT !.user = given[q.token],
               !.pc = CASE q.op = "sendOtp" -> "mail"
                        [] q.op = "verifyOtp" -> "otp"
                        [] OTHER -> "record"])
  /\ UNCHANGED <<factor, rows, passkeys, history>>

\* send_otp_core.
SendOtp(r) ==
  /\ At(r, "mail")
  /\ \E o \in Fresh(Otps) : rows' = rows \cup {o} /\ Hand({o}, reqs[r].user)
  /\ Done(r)
  /\ UNCHANGED <<factor, passkeys, menu, used, spent>>

\* get_two_factor_by_user_id, and the check of the code against it.
ReadRecord(r) ==
  /\ At(r, "record")
  /\ LET q == reqs[r] IN
       \/ /\ secret[q.user] = None
          /\ Error(r)
       \/ /\ secret[q.user] # None
          /\ IF q.op = "verifyTotp"
             THEN IF q.thing = secret[q.user] THEN Go(r, "insert") ELSE Error(r)
             ELSE IF q.thing \in codes[q.user]
                  THEN Become(r, [q EXCEPT !.pc = "writeCodes",
                                           !.seen = codes[q.user]])
                  ELSE Error(r)
  /\ UNCHANGED <<factor, rows, passkeys, history>>

OtpsOf(u) == {o \in rows \cap Otps : given[o] = u}

\* get_verification_by_identifier returns one of the rows of the user, and only
\* that one is compared.
ReadOtp(r) ==
  /\ At(r, "otp")
  /\ LET q == reqs[r] IN
       \/ OtpsOf(q.user) = {} /\ Error(r)
       \/ \E o \in OtpsOf(q.user) :
            IF o = q.thing THEN Go(r, "insert") ELSE Error(r)
  /\ UNCHANGED <<factor, rows, passkeys, history>>

\* The codes that were read, less the one used, are written back.
WriteCodes(r) ==
  /\ At(r, "writeCodes")
  /\ LET q == reqs[r] IN
       \/ /\ secret[q.user] = None
          /\ Error(r)
          /\ UNCHANGED codes
       \/ /\ secret[q.user] # None
          /\ codes' = [codes EXCEPT ![q.user] = q.seen \ {q.thing}]
          /\ Go(r, "insert")
  /\ UNCHANGED <<flag, secret, rows, passkeys, history>>

Presented(q) == {q.token, q.thing} \ {None}

\* create_session, with which the user is signed in.
Insert(r) ==
  /\ At(r, "insert")
  /\ used' = used \cup Presented(reqs[r])
  /\ spent' = IF reqs[r].op \in VerifyOps
              THEN spent ELSE spent \cup Presented(reqs[r])
  /\ CASE reqs[r].op = "verifyOtp" -> Go(r, "clearOtp")
       [] reqs[r].op \in {"verifyTotp", "verifyBackup"} -> Go(r, "clear")
       [] OTHER -> Done(r)
  /\ UNCHANGED <<factor, rows, passkeys, menu, given>>

ClearOtp(r) ==
  /\ At(r, "clearOtp")
  /\ rows' = rows \ {reqs[r].thing}
  /\ Go(r, "clear")
  /\ UNCHANGED <<factor, passkeys, history>>

\* Bug: the token may be used until it expires.
Cleared_Kept(q) == rows
Cleared(q) == rows \ {q.token}

\* The pending verification goes.
Clear(r) ==
  /\ At(r, "clear")
  /\ rows' = Cleared(reqs[r])
  /\ Done(r)
  /\ spent' = spent \cup Presented(reqs[r])
  /\ UNCHANGED <<factor, passkeys, menu, given, used>>

-----------------------------------------------------------------------------
(* Passkeys.                                                               *)

\* generate_register_options_core, generate_authenticate_options_core.
Draw(r) ==
  /\ At(r, "draw")
  /\ \E x \in Fresh(Challenges) :
       /\ rows' = rows \cup {x}
       /\ Hand({x}, IF reqs[r].op = "regOptions" THEN reqs[r].user ELSE Anyone)
  /\ Done(r)
  /\ UNCHANGED <<factor, passkeys, menu, used, spent>>

\* Bug: the challenge is found, and left to expire.
Taken_Read(q) == rows
Taken(q) == rows \ {q.thing}

\* consume_verification; the identifier has the user of a registration in it.
Consume(r) ==
  /\ At(r, "consume")
  /\ LET q == reqs[r]
         whose == IF q.op = "register" THEN q.user ELSE Anyone
     IN \/ /\ q.thing \notin rows \/ given[q.thing] # whose
           /\ Error(r)
           /\ UNCHANGED rows
        \/ /\ q.thing \in rows /\ given[q.thing] = whose
           /\ rows' = Taken(q)
           /\ Go(r, IF q.op = "register" THEN "createKey" ELSE "findKey")
  /\ UNCHANGED <<factor, passkeys, history>>

KeyOf(c) == {k \in Passkeys : passkeys[k] # None /\ passkeys[k].cred = c}
Live(k) == passkeys[k] # None

Registered(c, u) == KeyOf(c) # {}

\* create_passkey: a credential is registered once.
CreateKey(r) ==
  /\ At(r, "createKey")
  /\ LET q == reqs[r] IN
       \/ /\ Registered(q.cred, q.user)
          /\ Error(r)
          /\ UNCHANGED <<passkeys, given>>
       \/ /\ ~Registered(q.cred, q.user)
          /\ \E k \in Fresh(Passkeys) :
               /\ passkeys' = [passkeys EXCEPT ![k] =
                                  [user |-> q.user, cred |-> q.cred]]
               /\ Hand({k}, q.user)
          /\ Done(r)
  /\ UNCHANGED <<factor, rows, menu, used, spent>>

\* get_passkey_by_credential_id, and its user.
FindKey(r) ==
  /\ At(r, "findKey")
  /\ \/ KeyOf(reqs[r].cred) = {} /\ Error(r)
     \/ \E k \in KeyOf(reqs[r].cred) :
          Become(r, [reqs[r] EXCEPT !.pc = "counter", !.key = k,
                                    !.user = passkeys[k].user])
  /\ UNCHANGED <<factor, rows, passkeys, history>>

\* update_passkey_counter fails when the passkey is gone.
Counter(r) ==
  /\ At(r, "counter")
  /\ IF Live(reqs[r].key) THEN Go(r, "insert") ELSE Error(r)
  /\ UNCHANGED <<factor, rows, passkeys, history>>

Owns(q) == Live(q.key) /\ passkeys[q.key].user = q.user

CheckOwner(r) ==
  /\ At(r, "owner")
  /\ IF Owns(reqs[r]) THEN Go(r, "dropKey") ELSE Error(r)
  /\ UNCHANGED <<factor, rows, passkeys, history>>

DropKey(r) ==
  /\ At(r, "dropKey")
  /\ passkeys' = [passkeys EXCEPT ![reqs[r].key] = None]
  /\ Done(r)
  /\ UNCHANGED <<factor, rows, history>>

-----------------------------------------------------------------------------

\* A failing statement ends the request.
Fail(r) ==
  /\ reqs[r].pc \in Failing
  /\ Error(r)
  /\ UNCHANGED <<factor, rows, passkeys, history>>

\* A verification expires.
Lapse ==
  /\ \E x \in rows : rows' = rows \ {x}
  /\ UNCHANGED <<factor, passkeys, reqs, history>>

Ask(r) == AskUser(r) \/ AskVerify(r) \/ AskPasskey(r)

SecondFactor(r) ==
  \/ ReadUser(r) \/ Pend(r) \/ Create(r) \/ Enable(r) \/ Disable(r) \/ Drop(r)
  \/ Regenerate(r) \/ ReadPending(r) \/ SendOtp(r) \/ ReadRecord(r) \/ ReadOtp(r)
  \/ WriteCodes(r) \/ Insert(r) \/ ClearOtp(r) \/ Clear(r) \/ Fail(r)

Passkey(r) == \/ Draw(r) \/ Consume(r) \/ CreateKey(r) \/ FindKey(r) \/ Counter(r)
              \/ CheckOwner(r) \/ DropKey(r)

Next == (\E r \in Requests : Ask(r) \/ SecondFactor(r) \/ Passkey(r)) \/ Lapse

Spec == Init /\ [][Next]_vars

-----------------------------------------------------------------------------
(* Properties.                                                             *)

\* Every variable holds a value of its type; what is in a table was handed out;
\* and a credential names one passkey.
TypeOK ==
  /\ flag \in [Users -> BOOLEAN]
  /\ secret \in [Users -> Secrets \cup {None}]
  /\ codes \in [Users -> SUBSET Codes]
  /\ given \in [Things -> Users \cup {None, Anyone}]
  /\ rows \cup used \cup spent \subseteq Handed(Things)
  /\ \A u \in Users : codes[u] \subseteq Handed(Codes)
  /\ passkeys \in [Passkeys -> [user : Users, cred : Credentials] \cup {None}]
  /\ \A c \in Credentials : \A k, l \in KeyOf(c) : k = l
  /\ reqs \in [Requests -> Task]
  /\ menu \in Menus

\* r signs its user in.
SignsIn(r) ==
  At(r, "insert") /\ (reqs'[r].ok \/ reqs'[r].pc \in {"clear", "clearOtp"})

\* "If 2FA enabled, returns a pending token instead of session; user must
\* complete 2FA verification" (sessions.mdx): nobody signs in with the password
\* alone once the second factor is on; the pending token they use was drawn for
\* them, and the second factor is theirs, however enabling, disabling, renewing
\* and verifying cross.
BothFactors ==
  [][\A r \in Requests : SignsIn(r) =>
       LET q == reqs[r] IN
       /\ q.op = "signIn" => ~q.guarded
       /\ q.op \in VerifyOps =>
            given[q.token] = q.user /\ given[q.thing] = q.user]_vars

\* A pending token, an OTP or a challenge with which a request has been answered
\* is of no use to a request that begins afterwards.
SpentFactors == [][\A r \in Requests : SignsIn(r) => ~reqs[r].late]_vars

\* "Atomically consume challenge so it cannot be replayed"
\* (verify_authentication_core): a challenge leads one request to a session or a
\* passkey, whoever races for it.
ChallengeOnce ==
  \A r \in Requests : reqs[r].pc \in {"createKey", "findKey", "counter"} =>
    /\ reqs[r].thing \notin rows \cup used
    /\ \A s \in Requests \ {r} : reqs[s].thing = reqs[r].thing => At(s, "consume")

\* The tables hold what was handed out, and each credential, secret and
\* challenge serves once.
Consistent == TypeOK /\ ChallengeOnce

-----------------------------------------------------------------------------
(* The inductive invariant.                                                *)

PendingOps == VerifyOps \cup {"sendOtp"}
ChallengeOps == {"register", "authenticate"}
OwnerOps == {"signIn", "enable", "disable", "regenerate", "regOptions", "register",
             "deleteKey"}

\* The operations that come to a place.
Stops ==
  [user |-> {"signIn"}, pend |-> {"signIn"}, create |-> {"enable"},
   flagOn |-> {"enable"}, drop |-> {"disable"}, flagOff |-> {"disable"},
   regen |-> {"regenerate"}, pending |-> PendingOps, mail |-> {"sendOtp"},
   record |-> {"verifyTotp", "verifyBackup"}, otp |-> {"verifyOtp"},
   writeCodes |-> {"verifyBackup"},
   insert |-> VerifyOps \cup {"signIn", "authenticate"}, clearOtp |-> {"verifyOtp"},
   clear |-> VerifyOps, draw |-> {"regOptions", "authOptions"},
   consume |-> ChallengeOps, createKey |-> {"register"}, findKey |-> {"authenticate"},
   counter |-> {"authenticate"}, owner |-> {"deleteKey"}, dropKey |-> {"deleteKey"}]

\* The kind of thing an operation presents.
Presents(op) == CASE op = "verifyTotp"     -> Secrets
                  [] op = "verifyOtp"      -> Otps
                  [] op = "verifyBackup"   -> Codes
                  [] op \in ChallengeOps   -> Challenges
                  [] OTHER                 -> {}

\* What a task brings along.
Brings(q) ==
  /\ q.op \in Stops[q.pc] /\ ~q.ok
  /\ q.op \in OwnerOps => q.user \in Users
  /\ IF q.op \in PendingOps THEN q.token \in Handed(Pendings) ELSE q.token = None
  /\ IF q.op \in VerifyOps \cup ChallengeOps THEN q.thing \in Handed(Presents(q.op))
     ELSE q.thing = None
  /\ q.op = "deleteKey" => q.key \in Passkeys
  /\ q.op \in ChallengeOps => q.cred \in Credentials

\* The task has been given leave by its second factor, or by its challenge.
Passed(q) == q.op \in VerifyOps /\ q.pc \in {"writeCodes", "insert", "clearOtp", "clear"}
Takes(q) == q.op \in ChallengeOps /\ q.pc \notin {"idle", "consume"}

\* What it has learnt on its way.
Learnt(q) ==
  /\ q.op = "signIn" /\ q.guarded => q.pc # "insert" /\ flag[q.user]
  /\ q.op \in PendingOps /\ q.pc # "pending" =>
       q.user \in Users /\ given[q.token] = q.user
  /\ Passed(q) => given[q.thing] = q.user
  /\ q.pc = "writeCodes" => \A c \in q.seen : given[c] = q.user
  /\ q.op = "verifyOtp" /\ q.pc = "clear" => q.thing \notin rows
  /\ Takes(q) => q.thing \notin rows \cup used
  /\ q.pc = "counter" => q.key \in Passkeys

\* A task that presents what was spent does not find it.
Barred(q) ==
  q.late => \/ q.pc = "pending" /\ q.token \in spent
            \/ q.pc = "pending" /\ q.op = "verifyOtp" /\ q.thing \in spent
            \/ q.pc \in {"otp", "consume"} /\ q.thing \in spent

Carries(q) == /\ q.pc # "idle" => Brings(q) /\ Learnt(q) /\ Barred(q)
              /\ q.pc = "idle" => q.op = None /\ q.thing = None

\* Settings and passkeys are of those they were handed to.
SettingsFine ==
  /\ flag \in [Users -> BOOLEAN]
  /\ secret \in [Users -> Secrets \cup {None}]
  /\ codes \in [Users -> SUBSET Codes]
  /\ \A u \in Users : secret[u] # None => given[secret[u]] = u
  /\ \A u \in Users : \A c \in codes[u] : given[c] = u

PasskeysFine ==
  /\ passkeys \in [Passkeys -> [user : Users, cred : Credentials] \cup {None}]
  /\ \A k, l \in Passkeys :
       Live(k) /\ Live(l) /\ passkeys[k].cred = passkeys[l].cred => k = l

\* What someone has been let in by is in the table no more.
RowsFine ==
  /\ given \in [Things -> Users \cup {None, Anyone}]
  /\ rows \subseteq Handed(Pendings \cup Otps \cup Challenges)
  /\ \A x \in Handed(Pendings) : given[x] \in Users
  /\ used \cup spent \subseteq Handed(Things)
  /\ rows \cap spent = {} /\ rows \cap used \cap Challenges = {}

TasksFine ==
  /\ reqs \in [Requests -> Task]
  /\ \A r \in Requests : Carries(reqs[r])
  /\ \A r, s \in Requests :
       r # s /\ Takes(reqs[r]) /\ Takes(reqs[s]) => reqs[r].thing # reqs[s].thing

FactorsInv ==
  /\ menu \in Menus /\ SettingsFine /\ PasskeysFine /\ RowsFine /\ TasksFine
=============================================================================
