------------------------------ MODULE FrontProofs ------------------------------
(***************************************************************************)
(* Proofs about the database adapters and the way of a request to them, for *)
(* any number of threads, rows, hooks, requests and limits.                 *)
(***************************************************************************)
EXTENDS Front, FiniteSetTheorems, SequenceTheorems, TLAPS

USE StoresAssumption, MenusAssumption, NoneAssumption, FrontAssumption, ScenesAssumption

-----------------------------------------------------------------------------
(* Programs.                                                                *)

Kinds == {"insert", "put", "read", "refuse", "set", "fetch", "rewrite", "confirm",
          "delete", "clear", "take", "purge"}
Statement == [does : Kinds, locks : SUBSET ({<<>>} \cup Locks!Statements)]

\* A method is one to three statements, and only writes back what it fetched.
Method(m) ==
  /\ m \in Seq(Statement) /\ Len(m) \in 1..3
  /\ \A n \in 1..Len(m) : m[n].does = "rewrite" => n > 1 /\ m[n - 1].does = "fetch"

Does(m) == {m[n].does : n \in 1..Len(m)}

\* A method of one statement.
LEMMA UnderFacts ==
  ASSUME NEW what \in Kinds \ {"rewrite"}, NEW locks \in SUBSET ({<<>>} \cup Locks!Statements)
  PROVE  /\ Method(Under(what, locks)) /\ Does(Under(what, locks)) = {what}
         /\ Len(Under(what, locks)) = 1 /\ Under(what, locks)[1].does = what
BY DEF Under, Method, Does, Statement

LEMMA OneFacts ==
  ASSUME NEW what \in Kinds \ {"rewrite"}
  PROVE  /\ Method(One(what)) /\ Does(One(what)) = {what}
         /\ Len(One(what)) = 1 /\ One(what)[1].does = what
BY UnderFacts DEF One

\* A method that goes on with one more statement.
LEMMA ThenFacts ==
  ASSUME NEW m, Method(m), Len(m) \in 1..2, NEW s \in Statement,
         s.does = "rewrite" => m[Len(m)].does = "fetch"
  PROVE  /\ Method(m \o <<s>>) /\ Does(m \o <<s>>) = Does(m) \cup {s.does}
         /\ Len(m \o <<s>>) = Len(m) + 1 /\ (m \o <<s>>)[Len(m) + 1] = s
<1>1. m \in Seq(Statement) /\ <<s>> \in Seq(Statement) /\ Len(<<s>>) = 1 /\ <<s>>[1] = s
  BY DEF Method
<1>2. PICK x : x = m \o <<s>>
  OBVIOUS
<1>3. /\ x \in Seq(Statement) /\ Len(x) = Len(m) + 1
      /\ \A i \in 1 .. Len(m) + 1 : x[i] = IF i <= Len(m) THEN m[i] ELSE <<s>>[i - Len(m)]
  BY <1>1, <1>2, ConcatProperties
<1>4. /\ \A i \in 1 .. Len(m) : x[i] = m[i]
      /\ x[Len(m) + 1] = s
  BY <1>1, <1>3
<1>5. \A n \in 1..Len(x) : x[n].does = "rewrite" => n > 1 /\ x[n - 1].does = "fetch"
  <2> SUFFICES ASSUME NEW n \in 1..Len(x), x[n].does = "rewrite"
               PROVE  n > 1 /\ x[n - 1].does = "fetch"
    OBVIOUS
  <2>1. CASE n \in 1..Len(m)
    BY <1>4, <2>1, SMTT(60) DEF Method
  <2>2. CASE n = Len(m) + 1
    BY <1>3, <1>4, <2>2
  <2> QED  BY <1>3, <2>1, <2>2
<1>6. Does(x) = Does(m) \cup {s.does}
  BY <1>3, <1>4 DEF Does
<1>7. Len(x) \in 1..3 /\ Len(x) = Len(m) + 1 /\ x[Len(m) + 1] = s
  BY <1>3, <1>4
<1>8. Method(x)
  BY <1>3, <1>5, <1>7 DEF Method
<1> QED  BY <1>2, <1>6, <1>7, <1>8

LEMMA TwoFacts ==
  ASSUME NEW what \in Kinds \ {"rewrite"}, NEW next \in Kinds,
         next = "rewrite" => what = "fetch"
  PROVE  /\ Method(Two(what, next)) /\ Does(Two(what, next)) = {what, next}
         /\ Len(Two(what, next)) = 2 /\ Two(what, next)[2].does = next
<1>1. PICK s : s = [does |-> next, locks |-> {<<>>}]
  OBVIOUS
<1>2. s \in Statement /\ s.does = next /\ One(next) = <<s>>
  BY <1>1 DEF Statement, One, Under
<1> QED  BY <1>2, OneFacts, ThenFacts DEF Two

\* The methods of the Worker adapter that read again what they have written.
LEMMA InsertConfirm ==
  Method(Two("insert", "confirm")) /\ Does(Two("insert", "confirm")) = {"insert", "confirm"}
BY TwoFacts DEF Kinds

LEMMA SetConfirm ==
  Method(Two("set", "confirm")) /\ Does(Two("set", "confirm")) = {"set", "confirm"}
BY TwoFacts DEF Kinds

LEMMA ThreeFacts ==
  /\ Method(Two("fetch", "rewrite") \o One("confirm"))
  /\ Does(Two("fetch", "rewrite") \o One("confirm")) = {"fetch", "rewrite", "confirm"}
<1>1. PICK s : s = [does |-> "confirm", locks |-> {<<>>}]
  OBVIOUS
<1>2. s \in Statement /\ s.does = "confirm" /\ One("confirm") = <<s>>
  BY <1>1 DEF Statement, One, Under, Kinds
<1>3. PICK m : m = Two("fetch", "rewrite")
  OBVIOUS
<1>4. Method(m) /\ Len(m) = 2 /\ Does(m) = {"fetch", "rewrite"}
  BY <1>3, TwoFacts DEF Kinds
<1>5. Method(m \o <<s>>) /\ Does(m \o <<s>>) = {"fetch", "rewrite"} \cup {"confirm"}
  BY <1>2, <1>4, ThenFacts
<1>6. {"fetch", "rewrite"} \cup {"confirm"} = {"fetch", "rewrite", "confirm"}
  OBVIOUS
<1>7. Method(m \o One("confirm")) /\ Does(m \o One("confirm")) = {"fetch", "rewrite", "confirm"}
  BY <1>2, <1>5, <1>6
<1> QED  BY <1>3, <1>7

\* get_passkey_by_credential_id: the index, and then the table.
LEMMA ReadRead ==
  ASSUME NEW first \in SUBSET ({<<>>} \cup Locks!Statements),
         NEW second \in SUBSET ({<<>>} \cup Locks!Statements)
  PROVE  /\ Method(Under("read", first) \o Under("read", second))
         /\ Does(Under("read", first) \o Under("read", second)) = {"read"}
<1>1. PICK s : s = [does |-> "read", locks |-> second]
  OBVIOUS
<1>2. s \in Statement /\ s.does = "read" /\ Under("read", second) = <<s>>
  BY <1>1 DEF Statement, Under, Kinds
<1>3. PICK m : m = Under("read", first)
  OBVIOUS
<1>4. Method(m) /\ Len(m) = 1 /\ Does(m) = {"read"}
  BY <1>3, UnderFacts DEF Kinds
<1>5. Method(m \o <<s>>) /\ Does(m \o <<s>>) = {"read"} \cup {"read"}
  BY <1>2, <1>4, ThenFacts
<1>6. Method(m \o Under("read", second)) /\ Does(m \o Under("read", second)) = {"read"}
  BY <1>2, <1>5
<1> QED  BY <1>3, <1>6

\* The kinds of statements that keep an index in step with its table.
Indexed_kinds == {"insert", "read", "set", "delete"}
\* The kinds of statements of a method about one row that is there.
Single == {"read", "set", "fetch", "rewrite", "confirm", "delete"}

\* What the proofs need to know of the methods of a table.
Table(methods, store, table) ==
  /\ \A op \in DOMAIN methods :
       /\ Method(methods[op])
       /\ "rewrite" \in Does(methods[op]) =>
            store = "d1" /\ table \in {"users", "accounts"}
       /\ store = "memory" /\ table \in {"users", "organizations", "passkeys"} =>
            Does(methods[op]) \subseteq Indexed_kinds
  /\ table = "users" =>
       /\ {"get", "update", "delete"} \subseteq DOMAIN methods
       /\ Does(methods["get"]) = {"read"} /\ Does(methods["delete"]) = {"delete"}
       /\ Does(methods["update"]) \subseteq Single

LEMMA SqlUsersOk == Table(SqlUsers, "sqlx", "users")
BY OneFacts, TwoFacts DEF Table, SqlUsers, SqlUserUpdate, SqlUserList, Kinds, Single

LEMMA SqlSessionsOk == Table(SqlSessions, "sqlx", "sessions")
BY OneFacts DEF Table, SqlSessions, Kinds

LEMMA SqlAccountsOk == Table(SqlAccounts, "sqlx", "accounts")
BY OneFacts DEF Table, SqlAccounts, Kinds

LEMMA SqlVerificationsOk == Table(SqlVerifications, "sqlx", "verifications")
BY OneFacts DEF Table, SqlVerifications, Kinds

LEMMA SqlOrganizationsOk == Table(SqlOrganizations, "sqlx", "organizations")
BY OneFacts DEF Table, SqlOrganizations, Kinds

LEMMA SqlMembersOk == Table(SqlMembers, "sqlx", "members")
BY OneFacts DEF Table, SqlMembers, Kinds

LEMMA SqlInvitationsOk == Table(SqlInvitations, "sqlx", "invitations")
BY OneFacts DEF Table, SqlInvitations, Kinds

LEMMA SqlTwoFactorsOk == Table(SqlTwoFactors, "sqlx", "two_factors")
BY OneFacts DEF Table, SqlTwoFactors, Kinds

LEMMA SqlApiKeysOk == Table(SqlApiKeys, "sqlx", "api_keys")
BY OneFacts DEF Table, SqlApiKeys, SqlApiKeyUpdate, Kinds

LEMMA SqlPasskeysOk == Table(SqlPasskeys, "sqlx", "passkeys")
BY OneFacts DEF Table, SqlPasskeys, Kinds

LEMMA SqlClientsOk == Table(SqlClients, "sqlx", "clients")
BY OneFacts DEF Table, SqlClients, Kinds

LEMMA SqlCodesOk == Table(SqlCodes, "sqlx", "codes")
BY OneFacts DEF Table, SqlCodes, Kinds

LEMMA SqlTokensOk == Table(SqlTokens, "sqlx", "tokens")
BY OneFacts DEF Table, SqlTokens, Kinds

LEMMA D1UsersOk == Table(D1Users, "d1", "users")
<1>1. PICK m : m = Two("fetch", "rewrite") \o One("confirm")
  OBVIOUS
<1>2. Method(m) /\ Does(m) = {"fetch", "rewrite", "confirm"}
  BY <1>1, ThreeFacts
<1>3. D1Users = [create |-> Two("insert", "confirm"), get |-> One("read"), find |-> One("read"),
                 update |-> m, delete |-> One("delete"), list |-> One("read")]
  BY <1>1 DEF D1Users, D1UserUpdate, D1UserList
<1> QED  BY <1>2, <1>3, OneFacts, InsertConfirm DEF Table, Kinds, Single

LEMMA D1SessionsOk == Table(D1Sessions, "d1", "sessions")
BY OneFacts, InsertConfirm, SetConfirm DEF Table, D1Sessions, Kinds

LEMMA D1AccountsOk == Table(D1Accounts, "d1", "accounts")
<1>1. PICK m : m = Two("fetch", "rewrite") \o One("confirm")
  OBVIOUS
<1>2. Method(m) /\ Does(m) = {"fetch", "rewrite", "confirm"}
  BY <1>1, ThreeFacts
<1>3. D1Accounts = [create |-> Two("insert", "confirm"), find |-> One("read"),
                    list |-> One("read"), update |-> m, delete |-> One("delete")]
  BY <1>1 DEF D1Accounts
<1> QED  BY <1>2, <1>3, OneFacts, InsertConfirm DEF Table, Kinds

LEMMA D1VerificationsOk == Table(D1Verifications, "d1", "verifications")
BY OneFacts, InsertConfirm DEF Table, D1Verifications, Kinds

LEMMA D1ClientsOk == Table(D1Clients, "d1", "clients")
BY OneFacts DEF Table, D1Clients, Kinds

LEMMA D1CodesOk == Table(D1Codes, "d1", "codes")
BY OneFacts DEF Table, D1Codes, Kinds

LEMMA D1TokensOk == Table(D1Tokens, "d1", "tokens")
BY OneFacts DEF Table, D1Tokens, Kinds

LEMMA UnsupportedOk ==
  ASSUME NEW table, NEW methods, table # "users"
  PROVE  Table(Unsupported(methods), "d1", table)
BY OneFacts DEF Table, Unsupported, Kinds

\* What the methods of the memory adapter lock.
LEMMA LockSets ==
  /\ Locks!UserReads \subseteq Locks!Statements
  /\ Locks!UserWrites \subseteq Locks!Statements
  /\ Locks!UserLookups \subseteq Locks!Statements
  /\ Locks!SessionLocks \subseteq Locks!Statements
  /\ Locks!AccountLocks \subseteq Locks!Statements
  /\ Locks!VerificationLocks \subseteq Locks!Statements
  /\ Locks!OrganizationReads \subseteq Locks!Statements
  /\ Locks!OrganizationWrites \subseteq Locks!Statements
  /\ Locks!OrganizationLookups \subseteq Locks!Statements
  /\ Locks!MemberLocks \subseteq Locks!Statements
  /\ Locks!InvitationLocks \subseteq Locks!Statements
  /\ Locks!TwoFactorLocks \subseteq Locks!Statements
  /\ Locks!ApiKeyLocks \subseteq Locks!Statements
  /\ Locks!PasskeyReads \subseteq Locks!Statements
  /\ Locks!PasskeyWrites \subseteq Locks!Statements
  /\ Locks!ClientLocks \subseteq Locks!Statements
  /\ Locks!CodeLocks \subseteq Locks!Statements
  /\ Locks!AccessTokenLocks \subseteq Locks!Statements
BY DEF Locks!Statements, Locks!Lookups

LEMMA MemoryUsersOk == Table(MemoryUsers, "memory", "users")
BY UnderFacts, LockSets DEF Table, MemoryUsers, Indexed_kinds, Single, Kinds

LEMMA MemorySessionsOk == Table(MemorySessions, "memory", "sessions")
BY UnderFacts, LockSets DEF Table, MemorySessions, Kinds

LEMMA MemoryAccountsOk == Table(MemoryAccounts, "memory", "accounts")
BY UnderFacts, LockSets DEF Table, MemoryAccounts, Kinds

LEMMA MemoryVerificationsOk == Table(MemoryVerifications, "memory", "verifications")
BY UnderFacts, LockSets DEF Table, MemoryVerifications, Kinds

LEMMA MemoryOrganizationsOk == Table(MemoryOrganizations, "memory", "organizations")
BY UnderFacts, LockSets DEF Table, MemoryOrganizations, Indexed_kinds, Kinds

LEMMA MemoryMembersOk == Table(MemoryMembers, "memory", "members")
BY UnderFacts, LockSets DEF Table, MemoryMembers, MemoryDisband, Kinds

LEMMA MemoryInvitationsOk == Table(MemoryInvitations, "memory", "invitations")
BY UnderFacts, LockSets DEF Table, MemoryInvitations, MemoryDisband, Kinds

LEMMA MemoryTwoFactorsOk == Table(MemoryTwoFactors, "memory", "two_factors")
BY UnderFacts, LockSets DEF Table, MemoryTwoFactors, Kinds

LEMMA MemoryApiKeysOk == Table(MemoryApiKeys, "memory", "api_keys")
BY UnderFacts, LockSets DEF Table, MemoryApiKeys, Kinds

LEMMA MemoryPasskeysOk == Table(MemoryPasskeys, "memory", "passkeys")
<1>1. PICK both : both = Locks!PasskeyWrites
  OBVIOUS
<1>2. PICK table : table = {<<"passkeys">>} \cap Locks!PasskeyReads
  OBVIOUS
<1>3. PICK find : find = Under("read", {<<"passkey_credential_index">>} \cap Locks!PasskeyReads)
                         \o Under("read", table)
  OBVIOUS
<1>4. {both, table} \subseteq SUBSET ({<<>>} \cup Locks!Statements)
  BY <1>1, <1>2, LockSets
<1>5. Method(find) /\ Does(find) = {"read"}
  <2>1. {<<"passkey_credential_index">>} \cap Locks!PasskeyReads \subseteq Locks!Statements
    BY LockSets
  <2> QED  BY <1>3, <1>4, <2>1, ReadRead
<1>6. MemoryPasskeys =
        [create |-> Under("insert", both), get |-> Under("read", table), find |-> find,
         list |-> Under("read", table), counter |-> Under("set", table),
         rename |-> Under("set", table), delete |-> Under("delete", both)]
  BY <1>1, <1>2, <1>3 DEF MemoryPasskeys
<1> QED  BY <1>4, <1>5, <1>6, UnderFacts DEF Table, Indexed_kinds, Kinds

LEMMA MemoryClientsOk == Table(MemoryClients, "memory", "clients")
BY UnderFacts, LockSets DEF Table, MemoryClients, Kinds

LEMMA MemoryCodesOk == Table(MemoryCodes, "memory", "codes")
BY UnderFacts, LockSets DEF Table, MemoryCodes, Kinds

LEMMA MemoryTokensOk == Table(MemoryTokens, "memory", "tokens")
BY UnderFacts, LockSets DEF Table, MemoryTokens, Kinds
\* The methods of the tables of each adapter.
LEMMA SqlTables ==
  \A table \in DOMAIN Schema.sqlx : Table(Schema.sqlx[table], "sqlx", table)
BY SqlUsersOk, SqlSessionsOk, SqlAccountsOk, SqlVerificationsOk, SqlOrganizationsOk,
   SqlMembersOk, SqlInvitationsOk, SqlTwoFactorsOk, SqlApiKeysOk, SqlPasskeysOk,
   SqlClientsOk, SqlCodesOk, SqlTokensOk DEF Schema

LEMMA D1Tables ==
  \A table \in DOMAIN Schema.sqlx : Table(Schema.d1[table], "d1", table)
<1>1. /\ Table(D1Organizations, "d1", "organizations") /\ Table(D1Members, "d1", "members")
      /\ Table(D1Invitations, "d1", "invitations") /\ Table(D1TwoFactors, "d1", "two_factors")
      /\ Table(D1ApiKeys, "d1", "api_keys") /\ Table(D1Passkeys, "d1", "passkeys")
  BY UnsupportedOk DEF D1Organizations, D1Members, D1Invitations, D1TwoFactors,
                       D1ApiKeys, D1Passkeys
<1> QED
  BY <1>1, D1UsersOk, D1SessionsOk, D1AccountsOk, D1VerificationsOk, D1ClientsOk,
     D1CodesOk, D1TokensOk DEF Schema

LEMMA MemoryTables ==
  \A table \in DOMAIN Schema.sqlx : Table(Schema.memory[table], "memory", table)
BY MemoryUsersOk, MemorySessionsOk, MemoryAccountsOk, MemoryVerificationsOk,
   MemoryOrganizationsOk, MemoryMembersOk, MemoryInvitationsOk, MemoryTwoFactorsOk,
   MemoryApiKeysOk, MemoryPasskeysOk, MemoryClientsOk, MemoryCodesOk, MemoryTokensOk
   DEF Schema

LEMMA Programs ==
  ASSUME menu \in Menus
  PROVE  Table(Program, menu.store, menu.table)
<1>1. PICK store, table : store = menu.store /\ table = menu.table
  OBVIOUS
<1>2. store \in DOMAIN Schema /\ table \in DOMAIN Schema.sqlx
  BY <1>1
<1>3. store \in {"sqlx", "d1", "memory"}
  BY <1>2 DEF Schema
<1>4. Table(Schema[store][table], store, table)
  BY <1>2, <1>3, SqlTables, D1Tables, MemoryTables
<1> QED  BY <1>1, <1>4 DEF Program
-----------------------------------------------------------------------------
(* Calls.                                                                   *)

LEMMA LockLengths == \A s \in {<<>>} \cup Locks!Statements : Len(s) \in 0..4
BY DEF Locks!Statements, Locks!Lookups, Locks!Alone, Locks!UserReads, Locks!UserWrites,
       Locks!UserLookups, Locks!SessionLocks, Locks!AccountLocks,
       Locks!VerificationLocks, Locks!OrganizationReads, Locks!OrganizationWrites,
       Locks!OrganizationLookups, Locks!MemberLocks, Locks!InvitationLocks,
       Locks!TwoFactorLocks, Locks!ApiKeyLocks, Locks!PasskeyWrites,
       Locks!PasskeyReads, Locks!ClientLocks, Locks!CodeLocks, Locks!AccessTokenLocks

\* What a statement of a method is.
LEMMA StatementFacts ==
  ASSUME menu \in Menus, NEW op \in DOMAIN Program,
         NEW n \in 1..Len(Program[op])
  PROVE  /\ Len(Program[op]) \in 1..3 /\ n \in 1..3
         /\ Program[op][n].does \in Kinds
         /\ Program[op][n].locks \subseteq {<<>>} \cup Locks!Statements
         /\ Program[op][n].does = "rewrite" =>
              n > 1 /\ Program[op][n - 1].does = "fetch"
         /\ Program[op][n].does = "rewrite" =>
              menu.store = "d1" /\ menu.table \in {"users", "accounts"}
         /\ Indexing => Program[op][n].does \in Indexed_kinds
<1>1. PICK m : m = Program[op]
  OBVIOUS
<1>2. /\ Method(m)
      /\ "rewrite" \in Does(m) => menu.store = "d1" /\ menu.table \in {"users", "accounts"}
      /\ Indexing => Does(m) \subseteq Indexed_kinds
  BY <1>1, Programs DEF Table, Indexing
<1>3. m[n].does \in Does(m) /\ m[n] \in Statement
  BY <1>1, <1>2 DEF Does, Method
<1> QED  BY <1>1, <1>2, <1>3 DEF Method, Statement

LEMMA LengthFacts ==
  ASSUME menu \in Menus, NEW op \in DOMAIN Program
  PROVE  Len(Program[op]) \in 1..3
BY Programs DEF Table, Method

LEMMA IdleFacts == Idle \in Call /\ UnderWay(Idle)
BY DEF Idle, Call, UnderWay

\* t leaves its call as d, which is over or still for the same operation and row.
Leaves(t, c, d) ==
  /\ d \in Call /\ UnderWay(d)
  /\ d = Idle \/ (d.op = c.op /\ d.id = c.id)
  /\ calls' = [calls EXCEPT ![t] = d]

LEMMA AbortLeaves ==
  ASSUME NEW t \in Threads, NEW c, Abort(t)
  PROVE  \E d : Leaves(t, c, d)
BY IdleFacts DEF Abort, Set, Leaves

LEMMA EnterLeaves ==
  ASSUME menu \in Menus, NEW t \in Threads, NEW c \in Call, c.op \in DOMAIN Program,
         Carries(c), NEW n \in 1..Len(Program[c.op]), Enter(t, c, n),
         Program[c.op][n].does = "rewrite" => c.seen \in Row
  PROVE  \E d : Leaves(t, c, d)
<1>1. PICK s \in Program[c.op][n].locks :
        calls' = [calls EXCEPT ![t] = [c EXCEPT !.stage = "run", !.n = n, !.takes = s, !.got = 0]]
  BY DEF Enter, Set
<1>2. PICK d : d = [c EXCEPT !.stage = "run", !.n = n, !.takes = s, !.got = 0]
  OBVIOUS
<1>3. s \in {<<>>} \cup Locks!Statements /\ n \in 1..3 /\ Len(s) \in 0..4
  BY StatementFacts, LockLengths
<1>4. d \in Call /\ d.op = c.op /\ d.id = c.id /\ d.stage = "run" /\ d.n = n /\ d.takes = s
      /\ d.got = 0 /\ d.seen = c.seen /\ d.key = c.key /\ d.owner = c.owner
      /\ d.column = c.column
  <2>1. d = [stage |-> "run", op |-> c.op, id |-> c.id, key |-> c.key, owner |-> c.owner,
             column |-> c.column, hooks |-> c.hooks, n |-> n, takes |-> s, got |-> 0,
             seen |-> c.seen]
    BY <1>2 DEF Call
  <2>2. /\ "run" \in {"idle", "before", "run", "after"} /\ 0 \in 0..4
        /\ n \in 0 .. Hooks + 3
    BY <1>3
  <2>3. d \in Call
    BY <1>3, <2>1, <2>2 DEF Call
  <2> QED  BY <2>1, <2>3
<1>5. Carries(d)
  BY <1>4 DEF Carries
<1>6. UnderWay(d)
  BY <1>3, <1>4, <1>5 DEF UnderWay
<1> QED  BY <1>1, <1>2, <1>4, <1>6 DEF Leaves

LEMMA GoesLeaves ==
  ASSUME menu \in Menus, NEW t \in Threads, NEW c \in Call, c.op \in DOMAIN Program,
         Carries(c), c.n \in 1..Len(Program[c.op]), Goes(t, c),
         Program[c.op][c.n].does = "fetch" => c.seen \in Row
  PROVE  \E d : Leaves(t, c, d)
<1>1. CASE c.n < Len(Program[c.op])
  <2>1. c.n + 1 \in 1..Len(Program[c.op]) /\ Enter(t, c, c.n + 1)
    BY <1>1, LengthFacts DEF Goes
  <2>2. Program[c.op][c.n + 1].does = "rewrite" => c.seen \in Row
    BY <2>1, StatementFacts
  <2> QED  BY <2>1, <2>2, EnterLeaves
<1>2. CASE ~(c.n < Len(Program[c.op])) /\ c.hooks > 0
  <2>1. PICK d : d = [c EXCEPT !.stage = "after", !.n = 1, !.takes = <<>>, !.got = 0]
    OBVIOUS
  <2>2. calls' = [calls EXCEPT ![t] = d]
    BY <1>2, <2>1 DEF Goes, Set
  <2>3. d \in Call /\ d.op = c.op /\ d.id = c.id /\ d.stage = "after" /\ d.n = 1
        /\ d.takes = <<>> /\ d.got = 0 /\ d.key = c.key /\ d.owner = c.owner
        /\ d.column = c.column /\ d.hooks = c.hooks
    <3>1. d = [stage |-> "after", op |-> c.op, id |-> c.id, key |-> c.key,
               owner |-> c.owner, column |-> c.column, hooks |-> c.hooks, n |-> 1,
               takes |-> <<>>, got |-> 0, seen |-> c.seen]
      BY <2>1 DEF Call
    <3>2. /\ "after" \in {"idle", "before", "run", "after"} /\ 0 \in 0..4
          /\ 1 \in 0 .. Hooks + 3
      OBVIOUS
    <3>3. d \in Call
      BY <3>1, <3>2 DEF Call
    <3> QED  BY <3>1, <3>3
  <2>4. Carries(d) /\ d.n \in 1..d.hooks
    BY <1>2, <2>3 DEF Carries, Call
  <2>5. UnderWay(d)
    BY <2>3, <2>4 DEF UnderWay
  <2> QED  BY <2>2, <2>3, <2>5 DEF Leaves
<1>3. CASE ~(c.n < Len(Program[c.op])) /\ ~(c.hooks > 0)
  BY <1>3, AbortLeaves DEF Goes
<1> QED  BY <1>1, <1>2, <1>3
\* What StoresInv says of the table and of the calls.
Shelved ==
  /\ menu \in Menus
  /\ rows \in [Ids -> Row \cup {None}] /\ landed \in [Ids -> Row \cup {None}]
  /\ index \in [Keys -> Ids \cup {None}]
  /\ gone \subseteq Ids /\ takers \in [Ids -> Nat]
  /\ \A k \in Keys : index[k] # None => index[k] \in With(k)
  /\ Indexing /\ menu.table # "users" => \A i \in Live : index[rows[i].key] = i
  /\ ~Indexing => index = [k \in Keys |-> None]
  /\ NothingLost /\ NoRevival
  /\ \A i \in Live : landed[i] # None
  /\ \A i \in Ids : takers[i] = 0 \/ (takers[i] = 1 /\ i \in gone)

Calling == calls \in [Threads -> Call] /\ \A t \in Threads : UnderWay(calls[t])

LEMMA Halves == StoresInv <=> Shelved /\ Calling
BY DEF StoresInv, StoresTypeOK, Indexed, Shelved, Calling

LEMMA HalvesNext == StoresInv' <=> Shelved' /\ Calling'
BY DEF StoresInv, StoresTypeOK, Indexed, Shelved, Calling

LEMMA CallingKept ==
  ASSUME Calling, menu' = menu, NEW t \in Threads, NEW c, NEW d, Leaves(t, c, d)
  PROVE  Calling'
<1>1. /\ calls' = [calls EXCEPT ![t] = d] /\ d \in Call /\ UnderWay(d)
      /\ calls \in [Threads -> Call]
  BY DEF Leaves, Calling
<1>2. Call' = Call
  BY DEF Call, Program
<1>3. calls' \in [Threads -> Call']
  BY <1>1, <1>2
<1>4. ASSUME NEW u \in Threads PROVE UnderWay(calls[u])'
  <2>1. PICK e : e = calls'[u]
    OBVIOUS
  <2>2. UnderWay(e)
    BY <1>1, <2>1 DEF Calling
  <2>3. UnderWay(e)'
    BY <2>2 DEF UnderWay, Carries, Program
  <2> QED  BY <2>1, <2>3 DEF UnderWay, Carries
<1> QED  BY <1>3, <1>4 DEF Calling

LEMMA CallingSame ==
  ASSUME Calling, UNCHANGED <<menu, calls>>
  PROVE  Calling'
<1>1. calls' \in [Threads -> Call']
  BY DEF Calling, Call, Program
<1>2. ASSUME NEW u \in Threads PROVE UnderWay(calls[u])'
  <2>1. PICK e : e = calls'[u]
    OBVIOUS
  <2>2. UnderWay(e)
    BY <2>1 DEF Calling
  <2>3. UnderWay(e)'
    BY <2>2 DEF UnderWay, Carries, Program
  <2> QED  BY <2>1, <2>3 DEF UnderWay, Carries
<1> QED  BY <1>1, <1>2 DEF Calling

LEMMA ShelvedKept ==
  ASSUME Shelved, TablesKept
  PROVE  Shelved'
BY DEF Shelved, TablesKept, With, Live, Indexing, NothingLost, NoRevival

\* What is known of the call of t as it executes a statement.
LEMMA AtFacts ==
  ASSUME menu \in Menus, Calling, NEW t \in Threads, NEW what, At(t, what)
  PROVE  /\ calls[t] \in Call /\ calls[t].op \in DOMAIN Program
         /\ calls[t].n \in 1..Len(Program[calls[t].op])
         /\ Program[calls[t].op][calls[t].n].does = what
         /\ Carries(calls[t]) /\ UnderWay(calls[t]) /\ calls[t] # Idle
         /\ what = "rewrite" => calls[t].seen \in Row
BY DEF Calling, At, UnderWay, Idle

LEMMA SucceedLeaves ==
  ASSUME menu \in Menus, Calling, NEW t \in Threads, NEW what \in Kinds \ {"fetch"},
         At(t, what), Succeed(t)
  PROVE  \E d : Leaves(t, calls[t], d)
<1>1. PICK c : c = calls[t]
  OBVIOUS
<1> QED  BY <1>1, AtFacts, GoesLeaves DEF Succeed, Kinds

-----------------------------------------------------------------------------
(* Steps that leave the table alone.                                        *)

LEMMA ReadKeeps ==
  ASSUME StoresInv, NEW t \in Threads, Read(t) \/ Refuse(t) \/ Confirm(t)
  PROVE  Shelved' /\ \E d : Leaves(t, calls[t], d)
BY Halves, ShelvedKept, AbortLeaves, SucceedLeaves
   DEF Read, Refuse, Confirm, Shelved, Kinds

LEMMA FetchKeeps ==
  ASSUME StoresInv, NEW t \in Threads, Fetch(t)
  PROVE  Shelved' /\ \E d : Leaves(t, calls[t], d)
<1>1. menu \in Menus /\ Calling /\ Shelved /\ Shelved' /\ At(t, "fetch")
  BY Halves, ShelvedKept DEF Fetch, Shelved
<1>2. PICK c : c = calls[t]
  OBVIOUS
<1>3. CASE c.id \in Live
  <2>1. PICK seen : seen = rows[c.id]
    OBVIOUS
  <2>2. seen \in Row
    BY <1>1, <1>3, <2>1 DEF Live, Shelved
  <2>3. PICK e : e = [c EXCEPT !.seen = seen]
    OBVIOUS
  <2>4. Goes(t, e)
    BY <1>2, <1>3, <2>1, <2>3 DEF Fetch
  <2>5. c \in Call
    BY <1>1, <1>2, AtFacts
  <2>6. e \in Call /\ e.op = c.op /\ e.id = c.id /\ e.n = c.n /\ e.seen = seen
        /\ e.key = c.key /\ e.owner = c.owner /\ e.column = c.column
    <3>1. e = [stage |-> c.stage, op |-> c.op, id |-> c.id, key |-> c.key,
               owner |-> c.owner, column |-> c.column, hooks |-> c.hooks, n |-> c.n,
               takes |-> c.takes, got |-> c.got, seen |-> seen]
      BY <2>3, <2>5 DEF Call
    <3>2. e \in Call
      BY <2>2, <2>5, <3>1 DEF Call
    <3> QED  BY <3>1, <3>2
  <2>7. Carries(e) /\ e.op \in DOMAIN Program /\ e.n \in 1..Len(Program[e.op])
    BY <1>1, <1>2, <2>6, AtFacts DEF Carries
  <2>8. PICK d : Leaves(t, e, d)
    BY <1>1, <2>2, <2>4, <2>6, <2>7, GoesLeaves
  <2>9. Leaves(t, c, d)
    BY <2>6, <2>8 DEF Leaves
  <2> QED  BY <1>1, <1>2, <2>9
<1>4. CASE c.id \notin Live
  BY <1>1, <1>2, <1>4, AbortLeaves DEF Fetch
<1> QED  BY <1>3, <1>4

LEMMA LockKeeps ==
  ASSUME StoresInv, NEW t \in Threads, Lock(t)
  PROVE  Shelved' /\ \E d : Leaves(t, calls[t], d)
<1>1. Calling /\ Shelved /\ Shelved'
  BY Halves, ShelvedKept DEF Lock
<1>2. PICK c : c = calls[t]
  OBVIOUS
<1>3. PICK d : d = [c EXCEPT !.got = @ + 1]
  OBVIOUS
<1>4. c \in Call /\ UnderWay(c) /\ calls' = [calls EXCEPT ![t] = d]
  BY <1>1, <1>2, <1>3 DEF Calling, Lock, Set
<1>5. Held[t] = [takes |-> c.takes, got |-> c.got]
  BY <1>2 DEF Held
<1>6. c.got < Len(c.takes)
  BY <1>5 DEF Lock, Locks!Waiting
<1>7. Len(c.takes) \in 0..4 /\ c.got \in 0..4
  BY <1>4, LockLengths DEF Call
<1>8. c.got + 1 \in 0..4 /\ c.got + 1 <= Len(c.takes)
  <2>1. \A got, length \in 0..4 : got < length => got + 1 \in 0..4 /\ got + 1 <= length
    OBVIOUS
  <2> QED  BY <1>6, <1>7, <2>1
<1>9. d = [stage |-> c.stage, op |-> c.op, id |-> c.id, key |-> c.key, owner |-> c.owner,
           column |-> c.column, hooks |-> c.hooks, n |-> c.n, takes |-> c.takes,
           got |-> c.got + 1, seen |-> c.seen]
  BY <1>3, <1>4 DEF Call
<1>10. d \in Call
  BY <1>4, <1>8, <1>9 DEF Call
<1>11. c.takes # <<>> /\ c # Idle
  BY <1>6, <1>7 DEF Idle
<1>12. UnderWay(d)
  <2>1. Carries(d)
    BY <1>4, <1>9, <1>11 DEF Carries, UnderWay
  <2> QED  BY <1>4, <1>8, <1>9, <1>11, <2>1 DEF UnderWay
<1> QED  BY <1>1, <1>2, <1>4, <1>9, <1>10, <1>12 DEF Leaves
LEMMA HookKeeps ==
  ASSUME StoresInv, NEW t \in Threads, HookVetoes(t) \/ HookTold(t)
  PROVE  Shelved' /\ \E d : Leaves(t, calls[t], d)
<1>1. Calling /\ Shelved /\ Shelved'
  BY Halves, ShelvedKept DEF HookVetoes, HookTold
<1>2. PICK c : c = calls[t]
  OBVIOUS
<1>3. CASE Abort(t)
  BY <1>1, <1>3, AbortLeaves
<1>4. CASE HookTold(t) /\ ~Abort(t)
  <2>1. PICK d : d = [c EXCEPT !.n = @ + 1]
    OBVIOUS
  <2>2. c \in Call /\ UnderWay(c) /\ c.stage = "after" /\ c.n < c.hooks
        /\ calls' = [calls EXCEPT ![t] = d]
    BY <1>1, <1>2, <1>4, <2>1 DEF Calling, HookTold, Set
  <2>3. c.op \in DOMAIN Program /\ Carries(c) /\ c.takes = <<>> /\ c.got = 0 /\ c.n \in 1..c.hooks
    BY <2>2 DEF UnderWay, Idle
  <2>4. c.n + 1 \in 1..c.hooks /\ c.n + 1 \in 0 .. Hooks + 3
    BY <2>2, <2>3 DEF Call
  <2>5. d = [stage |-> c.stage, op |-> c.op, id |-> c.id, key |-> c.key, owner |-> c.owner,
             column |-> c.column, hooks |-> c.hooks, n |-> c.n + 1, takes |-> c.takes,
             got |-> c.got, seen |-> c.seen]
    BY <2>1, <2>2 DEF Call
  <2>6. d \in Call
    BY <2>2, <2>4, <2>5 DEF Call
  <2>7. UnderWay(d)
    <3>1. Carries(d)
      BY <2>3, <2>5 DEF Carries
    <3> QED  BY <2>2, <2>3, <2>4, <2>5, <3>1 DEF UnderWay
  <2> QED  BY <1>1, <1>2, <2>2, <2>5, <2>6, <2>7 DEF Leaves
<1> QED  BY <1>3, <1>4 DEF HookVetoes

\* A hook that accepts a call may give it another key.
LEMMA AcceptKeeps ==
  ASSUME StoresInv, NEW t \in Threads, HookAccepts(t)
  PROVE  Shelved' /\ \E d : Leaves(t, calls[t], d)
<1>1. Calling /\ Shelved /\ Shelved' /\ menu \in Menus
  BY Halves, ShelvedKept DEF HookAccepts, Shelved
<1>2. PICK c : c = calls[t]
  OBVIOUS
<1>3. c \in Call /\ UnderWay(c) /\ c.stage = "before" /\ c # Idle
  BY <1>1, <1>2 DEF HookAccepts, Calling, Idle
<1>4. c.op \in DOMAIN Program /\ Carries(c) /\ c.takes = <<>> /\ c.got = 0 /\ c.n \in 1..c.hooks
  BY <1>3 DEF UnderWay
<1>5. PICK k \in {c.key} \cup (IF c.key \in Keys THEN Keys ELSE {}) :
        LET d == [c EXCEPT !.key = k] IN
        IF c.n < c.hooks THEN Set(t, [d EXCEPT !.n = @ + 1]) ELSE Enter(t, d, 1)
  BY <1>2 DEF HookAccepts
<1>6. k \in Keys \cup {None} /\ (c.key \in Keys => k \in Keys)
  BY <1>3, <1>5 DEF Call
<1>7. PICK e : e = [c EXCEPT !.key = k]
  OBVIOUS
<1>8. e = [stage |-> c.stage, op |-> c.op, id |-> c.id, key |-> k, owner |-> c.owner,
           column |-> c.column, hooks |-> c.hooks, n |-> c.n, takes |-> c.takes,
           got |-> c.got, seen |-> c.seen]
  BY <1>3, <1>7 DEF Call
<1>9. e \in Call
  BY <1>3, <1>6, <1>8 DEF Call
<1>10. Carries(e)
  BY <1>4, <1>6, <1>8 DEF Carries
<1>11. CASE c.n < c.hooks
  <2>1. PICK d : d = [e EXCEPT !.n = @ + 1]
    OBVIOUS
  <2>2. calls' = [calls EXCEPT ![t] = d]
    BY <1>5, <1>7, <1>11, <2>1 DEF Set
  <2>3. c.n + 1 \in 1..c.hooks /\ c.n + 1 \in 0 .. Hooks + 3
    BY <1>3, <1>4, <1>11 DEF Call
  <2>4. d = [stage |-> c.stage, op |-> c.op, id |-> c.id, key |-> k, owner |-> c.owner,
             column |-> c.column, hooks |-> c.hooks, n |-> c.n + 1, takes |-> c.takes,
             got |-> c.got, seen |-> c.seen]
    BY <1>8, <2>1
  <2>5. d \in Call
    BY <1>3, <1>6, <2>3, <2>4 DEF Call
  <2>6. UnderWay(d)
    <3>1. Carries(d)
      BY <1>8, <1>10, <2>4 DEF Carries
    <3> QED  BY <1>3, <1>4, <2>3, <2>4, <3>1 DEF UnderWay
  <2> QED  BY <1>1, <1>2, <2>2, <2>4, <2>5, <2>6 DEF Leaves
<1>12. CASE ~(c.n < c.hooks)
  <2>1. Enter(t, e, 1)
    BY <1>5, <1>7, <1>12
  <2>2. e.op = c.op /\ e.id = c.id /\ e.op \in DOMAIN Program
    BY <1>4, <1>8
  <2>3. 1 \in 1..Len(Program[e.op]) /\ Program[e.op][1].does # "rewrite"
    BY <1>1, <2>2, LengthFacts, StatementFacts
  <2>4. PICK d : Leaves(t, e, d)
    BY <1>1, <1>9, <1>10, <2>1, <2>2, <2>3, EnterLeaves
  <2>5. Leaves(t, c, d)
    BY <2>2, <2>4 DEF Leaves
  <2> QED  BY <1>1, <1>2, <2>5
<1> QED  BY <1>11, <1>12

-----------------------------------------------------------------------------
(* Statements that write.                                                   *)

LEMMA NewRowFacts ==
  ASSUME NEW c, c.key \in Keys, c.owner \in Owners
  PROVE  NewRow(c) \in Row /\ NewRow(c) # None /\ NewRow(c).key = c.key
<1>1. NewRow(c) \in Row /\ NewRow(c).key = c.key
  BY DEF NewRow, Row
<1> QED  BY <1>1

LEMMA UpdatedFacts ==
  ASSUME NEW row \in Row, NEW c, c.column \in {"key", "a", "b"},
         c.column = "key" => c.key \in Keys
  PROVE  /\ Updated(row, c) \in Row /\ Updated(row, c) # None
         /\ Updated(row, c).key = IF c.column = "key" THEN c.key ELSE row.key
<1>1. PICK ripe : ripe = IF c.op = "touch" THEN FALSE ELSE row.ripe
  OBVIOUS
<1>2. ripe \in BOOLEAN
  BY <1>1 DEF Row
<1>3. Updated(row, c) =
        [key |-> IF c.column = "key" THEN c.key ELSE row.key, owner |-> row.owner,
         a |-> IF c.column = "a" THEN 1 ELSE row.a,
         b |-> IF c.column = "b" THEN 1 ELSE row.b, ripe |-> ripe]
  <2>1. CASE c.column = "key"
    <3>1. Updated(row, c) =
            [row EXCEPT !.key = c.key, !.ripe = IF c.op = "touch" THEN FALSE ELSE @]
      BY <2>1 DEF Updated
    <3> QED  BY <1>1, <2>1, <3>1 DEF Row
  <2>2. CASE c.column = "a"
    <3>1. Updated(row, c) =
            [row EXCEPT !.a = 1, !.ripe = IF c.op = "touch" THEN FALSE ELSE @]
      BY <2>2 DEF Updated
    <3> QED  BY <1>1, <2>2, <3>1 DEF Row
  <2>3. CASE c.column = "b"
    <3>1. Updated(row, c) =
            [row EXCEPT !.b = 1, !.ripe = IF c.op = "touch" THEN FALSE ELSE @]
      BY <2>3 DEF Updated
    <3> QED  BY <1>1, <2>3, <3>1 DEF Row
  <2> QED  BY <2>1, <2>2, <2>3
<1>4. Updated(row, c) \in Row
  BY <1>2, <1>3 DEF Row
<1> QED  BY <1>3, <1>4
\* Where the index is kept, the keys of a table that is not the users' are unique.
LEMMA IndexedUnique ==
  ASSUME Shelved, Indexing
  PROVE  Unique
BY DEF Indexing, Unique, MemoryUnique

\* A row that is new: its key is free if the index is kept.
LEMMA InsertShelved ==
  ASSUME Shelved, UNCHANGED <<menu, gone, takers>>, NEW i \in Ids \ (Live \cup gone),
         NEW row \in Row, Store(i, row), Unique => ~Taken(row.key),
         index' = IF Indexing THEN [index EXCEPT ![row.key] = i] ELSE index
  PROVE  Shelved'
<1>1. row # None /\ row.key \in Keys /\ rows' = [rows EXCEPT ![i] = row]
      /\ landed' = [landed EXCEPT ![i] = row] /\ Indexing' = Indexing
  BY DEF Store, Indexing, Row
<1>2. rows' \in [Ids -> Row \cup {None}] /\ landed' \in [Ids -> Row \cup {None}]
      /\ index' \in [Keys -> Ids \cup {None}]
  BY <1>1 DEF Shelved
<1>3. /\ Live' = Live \cup {i}
      /\ \A j \in Live : j # i /\ rows'[j] = rows[j] /\ landed'[j] = landed[j]
      /\ rows'[i] = row /\ landed'[i] = row
  BY <1>1 DEF Shelved, Live
<1>4. ASSUME NEW k \in Keys, index'[k] # None PROVE index'[k] \in With(k)'
  <2>1. CASE Indexing /\ k = row.key
    <3>1. index'[k] = i
      BY <1>1, <2>1 DEF Shelved
    <3> QED  BY <1>3, <2>1, <3>1 DEF With
  <2>2. CASE ~(Indexing /\ k = row.key)
    <3>1. index'[k] = index[k]
      BY <1>1, <2>2 DEF Shelved
    <3>2. index[k] \in Live /\ rows[index[k]].key = k
      BY <1>4, <3>1 DEF Shelved, With
    <3> QED  BY <1>3, <3>1, <3>2 DEF With
  <2> QED  BY <2>1, <2>2
<1>5. ASSUME Indexing, menu.table # "users", NEW j \in Live' PROVE index'[rows'[j].key] = j
  <2>1. index[row.key] = None
    BY <1>5, IndexedUnique DEF Taken
  <2>2. CASE j = i
    BY <1>1, <1>3, <1>5, <2>2 DEF Shelved
  <2>3. CASE j \in Live
    <3>1. index[rows[j].key] = j /\ j # None /\ rows[j].key \in Keys
      BY <1>5, <2>3 DEF Shelved, Live, Row
    <3>2. rows[j].key # row.key
      BY <2>1, <3>1
    <3> QED  BY <1>1, <1>3, <1>5, <2>3, <3>1, <3>2 DEF Shelved
  <2> QED  BY <1>3, <2>2, <2>3
<1>6. ~Indexing' => index' = [k \in Keys |-> None]
  BY <1>1 DEF Shelved
<1>7. NothingLost'
  BY <1>3 DEF Shelved, NothingLost
<1>8. NoRevival'
  BY <1>3 DEF Shelved, NoRevival
<1>9. \A j \in Live' : landed'[j] # None
  BY <1>1, <1>3 DEF Shelved
<1> QED  BY <1>1, <1>2, <1>4, <1>5, <1>6, <1>7, <1>8, <1>9 DEF Shelved

\* Rows is leave the table, and with them what the index has of them.
LEMMA RemoveShelved ==
  ASSUME Shelved, UNCHANGED <<menu, landed>>, NEW is \in SUBSET Live, Remove(is),
         \/ ~Indexing /\ index' = index
         \/ \E i \in is : is = {i} /\ index' = Unindexed(i)
         \/ is = {} /\ index' = index,
         \/ takers' = takers
         \/ \E i \in is : takers' = [takers EXCEPT ![i] = @ + 1]
  PROVE  Shelved'
<1>1. /\ rows' = Dropped(is) /\ gone' = gone \cup is /\ Indexing' = Indexing
      /\ is \subseteq Ids
  BY DEF Remove, Indexing, Live
<1>2. /\ Live' = Live \ is
      /\ \A j \in Live \ is : rows'[j] = rows[j]
      /\ rows' \in [Ids -> Row \cup {None}]
  BY <1>1 DEF Shelved, Live, Dropped
<1>3. index' \in [Keys -> Ids \cup {None}]
  BY DEF Unindexed, Shelved
<1>4. ASSUME NEW k \in Keys, index'[k] # None PROVE index'[k] \in With(k)'
  <2>1. Indexing
    BY <1>1, <1>4 DEF Shelved, Unindexed
  <2>2. index'[k] = index[k] /\ \A i \in is : rows[i].key # k
    <3>1. CASE is = {} /\ index' = index
      BY <3>1
    <3>2. ASSUME NEW i \in is, is = {i}, index' = Unindexed(i)
          PROVE  index'[k] = index[k] /\ rows[i].key # k
      <4>1. index' = [index EXCEPT ![rows[i].key] = None]
        BY <2>1, <3>2 DEF Unindexed
      <4> QED  BY <1>4, <4>1 DEF Shelved
    <3> QED  BY <2>1, <3>1, <3>2
  <2>3. index[k] \in Live /\ rows[index[k]].key = k
    BY <1>4, <2>2 DEF Shelved, With
  <2> QED  BY <1>2, <2>2, <2>3 DEF With
<1>5. ASSUME Indexing, menu.table # "users", NEW j \in Live' PROVE index'[rows'[j].key] = j
  <2>1. j \in Live \ is /\ rows'[j] = rows[j] /\ index[rows[j].key] = j
        /\ rows[j].key \in Keys
    BY <1>2, <1>5 DEF Shelved, Live, Row
  <2>2. CASE index' = index
    BY <2>1, <2>2
  <2>3. ASSUME NEW i \in is, is = {i}, index' = Unindexed(i)
        PROVE  index'[rows[j].key] = j
    <3>1. index' = [index EXCEPT ![rows[i].key] = None] /\ index[rows[i].key] = i
      BY <1>5, <2>3 DEF Unindexed, Shelved
    <3>2. i # j
      BY <2>1, <2>3
    <3> QED  BY <2>1, <3>1, <3>2 DEF Shelved
  <2> QED  BY <1>5, <2>1, <2>2, <2>3
<1>6. ~Indexing' => index' = [k \in Keys |-> None]
  BY <1>1 DEF Shelved, Unindexed
<1>7. NothingLost'
  BY <1>2 DEF Shelved, NothingLost
<1>8. NoRevival'
  BY <1>1, <1>2 DEF Shelved, NoRevival
<1>9. takers' \in [Ids -> Nat] /\ \A i \in Ids : takers'[i] = 0 \/ (takers'[i] = 1 /\ i \in gone')
  <2>1. CASE takers' = takers
    BY <1>1, <2>1 DEF Shelved
  <2>2. ASSUME NEW i \in is, takers' = [takers EXCEPT ![i] = @ + 1]
        PROVE  /\ takers' \in [Ids -> Nat]
               /\ \A j \in Ids : takers'[j] = 0 \/ (takers'[j] = 1 /\ j \in gone')
    <3>1. takers[i] = 0 /\ i \in Ids
      BY <1>1 DEF Shelved, NoRevival
    <3> QED  BY <1>1, <2>2, <3>1 DEF Shelved
  <2> QED  BY <2>1, <2>2
<1>10. \A j \in Live' : landed'[j] # None
  BY <1>2 DEF Shelved
<1> QED  BY <1>1, <1>2, <1>3, <1>4, <1>5, <1>6, <1>7, <1>8, <1>9, <1>10 DEF Shelved
\* A row that is there is written: its key, if it changes, is free.
LEMMA WriteShelved ==
  ASSUME Shelved, UNCHANGED <<menu, gone, takers>>, NEW i \in Live, NEW row \in Row,
         rows' = [rows EXCEPT ![i] = row], landed' \in [Ids -> Row \cup {None}],
         \A j \in Live : landed'[j] # None,
         \/ \A j \in Live : landed'[j] = IF j = i THEN row ELSE landed[j]
         \/ menu.store = "d1" /\ menu.table \in {"users", "accounts"},
         \/ row.key = rows[i].key /\ index' = index
         \/ index' = Reindexed(i, row.key) /\ (Unique => Free(i, row.key))
  PROVE  Shelved'
<1>1. row # None /\ row.key \in Keys /\ Indexing' = Indexing /\ i \in Ids
      /\ rows[i] \in Row /\ rows[i].key \in Keys
  BY DEF Indexing, Row, Live, Shelved
<1>2. rows' \in [Ids -> Row \cup {None}] /\ index' \in [Keys -> Ids \cup {None}]
  BY <1>1 DEF Shelved, Reindexed
<1>3. Live' = Live /\ rows'[i] = row /\ \A j \in Live \ {i} : rows'[j] = rows[j]
  BY <1>1 DEF Shelved, Live
<1>4. ASSUME NEW k \in Keys, index'[k] # None PROVE index'[k] \in With(k)'
  <2>1. Indexing
    BY <1>1, <1>4 DEF Shelved, Reindexed
  <2>2. index[k] # None => index[k] \in Live /\ rows[index[k]].key = k
    BY DEF Shelved, With
  <2>3. CASE row.key = rows[i].key /\ index' = index
    BY <1>3, <1>4, <2>2, <2>3 DEF With
  <2>4. CASE index' = Reindexed(i, row.key)
    <3>1. index'[k] = IF k = row.key THEN i ELSE IF k = rows[i].key THEN None ELSE index[k]
      BY <2>1, <2>4 DEF Reindexed
    <3>2. CASE k = row.key
      BY <1>3, <3>1, <3>2 DEF With
    <3>3. CASE k # row.key /\ k # rows[i].key
      <4>1. index'[k] = index[k] /\ index[k] # i
        BY <1>4, <2>2, <3>1, <3>3
      <4> QED  BY <1>3, <1>4, <2>2, <4>1 DEF With
    <3> QED  BY <1>4, <3>1, <3>2, <3>3
  <2> QED  BY <2>3, <2>4
<1>5. ASSUME Indexing, menu.table # "users", NEW j \in Live' PROVE index'[rows'[j].key] = j
  <2>1. j \in Live /\ index[rows[j].key] = j /\ index[rows[i].key] = i /\ rows[j].key \in Keys
        /\ j # None
    BY <1>3, <1>5 DEF Shelved, Live, Row
  <2>2. CASE row.key = rows[i].key /\ index' = index
    BY <1>3, <2>1, <2>2
  <2>3. CASE index' = Reindexed(i, row.key) /\ (Unique => Free(i, row.key))
    <3>1. row.key = rows[i].key \/ index[row.key] = None
      BY <1>5, <2>3, IndexedUnique DEF Free, Taken
    <3>2. CASE j = i
      BY <1>1, <1>3, <1>5, <2>3, <3>2 DEF Reindexed
    <3>3. CASE j # i
      <4>1. rows[j].key # row.key /\ rows[j].key # rows[i].key
        BY <2>1, <3>1, <3>3
      <4> QED  BY <1>3, <1>5, <2>1, <2>3, <3>3, <4>1 DEF Reindexed
    <3> QED  BY <3>2, <3>3
  <2> QED  BY <2>2, <2>3
<1>6. ~Indexing' => index' = [k \in Keys |-> None]
  BY <1>1 DEF Shelved, Reindexed
<1>7. NothingLost'
  BY <1>3 DEF Shelved, NothingLost
<1>8. NoRevival'
  BY <1>3 DEF Shelved, NoRevival
<1>9. \A j \in Live' : landed'[j] # None
  BY <1>3
<1> QED  BY <1>1, <1>2, <1>4, <1>5, <1>6, <1>7, <1>8, <1>9 DEF Shelved

\* A row that takes the place of those with its key.
LEMMA PutShelved ==
  ASSUME Shelved, UNCHANGED <<menu, index, takers>>, ~Indexing,
         NEW i \in Ids \ (Live \cup gone), NEW row \in Row,
         rows' = [Dropped(With(row.key)) EXCEPT ![i] = row],
         landed' = [landed EXCEPT ![i] = row], gone' = gone \cup With(row.key)
  PROVE  Shelved'
<1>1. row # None /\ Indexing' = Indexing /\ With(row.key) \subseteq Live /\ Live \subseteq Ids
  BY DEF Indexing, With, Live
<1>2. rows' \in [Ids -> Row \cup {None}] /\ landed' \in [Ids -> Row \cup {None}]
  BY DEF Shelved, Dropped
<1>3. /\ Live' = (Live \ With(row.key)) \cup {i}
      /\ \A j \in Live \ With(row.key) : rows'[j] = rows[j] /\ landed'[j] = landed[j]
      /\ rows'[i] = row /\ landed'[i] = row
  BY <1>1 DEF Shelved, Live, Dropped
<1>4. NothingLost'
  BY <1>3 DEF Shelved, NothingLost
<1>5. NoRevival'
  BY <1>1, <1>3 DEF Shelved, NoRevival
<1>6. \A k \in Keys : index'[k] = None
  BY DEF Shelved
<1>7. \A j \in Live' : landed'[j] # None
  BY <1>1, <1>3 DEF Shelved
<1> QED  BY <1>1, <1>2, <1>4, <1>5, <1>6, <1>7 DEF Shelved
\* The statements, one by one.
LEMMA InsertKeeps ==
  ASSUME StoresInv, NEW t \in Threads, Insert(t)
  PROVE  Shelved' /\ \E e, d : Leaves(t, e, d) /\ e.op = calls[t].op
<1>1. Shelved /\ Calling /\ menu \in Menus /\ At(t, "insert")
  BY Halves DEF Insert, Shelved
<1>2. PICK c : c = calls[t]
  OBVIOUS
<1>3. /\ c \in Call /\ c.op \in DOMAIN Program /\ c.n \in 1..Len(Program[c.op])
      /\ Program[c.op][c.n].does = "insert" /\ Carries(c)
  BY <1>1, <1>2, AtFacts
<1>4. CASE Abort(t) /\ UNCHANGED <<rows, index, landed>>
  <2>1. Shelved'
    BY <1>1, <1>4, ShelvedKept DEF Insert, TablesKept
  <2> QED  BY <1>2, <1>4, <2>1, AbortLeaves
<1>5. ASSUME ~(Unique /\ Taken(c.key)), NEW i \in Ids \ (Live \cup gone), Store(i, NewRow(c)),
             index' = IF Indexing THEN [index EXCEPT ![c.key] = i] ELSE index,
             Goes(t, [c EXCEPT !.id = i])
      PROVE  Shelved' /\ \E e, d : Leaves(t, e, d) /\ e.op = c.op
  <2>1. c.key \in Keys /\ c.owner \in Owners
    BY <1>3 DEF Carries
  <2>2. PICK row : row = NewRow(c)
    OBVIOUS
  <2>3. row \in Row /\ row.key = c.key
    BY <2>1, <2>2, NewRowFacts
  <2>4. Shelved'
    BY <1>1, <1>5, <2>2, <2>3, InsertShelved DEF Insert
  <2>5. PICK e : e = [c EXCEPT !.id = i]
    OBVIOUS
  <2>6. e = [stage |-> c.stage, op |-> c.op, id |-> i, key |-> c.key, owner |-> c.owner,
             column |-> c.column, hooks |-> c.hooks, n |-> c.n, takes |-> c.takes,
             got |-> c.got, seen |-> c.seen]
    BY <1>3, <2>5 DEF Call
  <2>7. e \in Call
    BY <1>3, <1>5, <2>6 DEF Call
  <2>8. Carries(e) /\ e.op = c.op /\ e.n = c.n
    BY <1>3, <2>6 DEF Carries
  <2>9. \E d : Leaves(t, e, d)
    BY <1>1, <1>3, <1>5, <2>5, <2>7, <2>8, GoesLeaves
  <2> QED  BY <2>4, <2>8, <2>9
<1> QED  BY <1>2, <1>4, <1>5 DEF Insert

LEMMA PutKeeps ==
  ASSUME StoresInv, NEW t \in Threads, Put(t)
  PROVE  Shelved' /\ \E d : Leaves(t, calls[t], d)
<1>1. Shelved /\ Calling /\ menu \in Menus /\ At(t, "put") /\ Succeed(t)
  BY Halves DEF Put, Shelved
<1>2. PICK c : c = calls[t]
  OBVIOUS
<1>3. /\ c \in Call /\ c.op \in DOMAIN Program /\ c.n \in 1..Len(Program[c.op])
      /\ Program[c.op][c.n].does = "put" /\ Carries(c)
  BY <1>1, <1>2, AtFacts
<1>4. c.key \in Keys /\ c.owner \in Owners
  BY <1>3 DEF Carries
<1>5. ~Indexing
  BY <1>1, <1>3, StatementFacts DEF Indexed_kinds
<1>6. PICK row : row = NewRow(c)
  OBVIOUS
<1>7. row \in Row /\ row.key = c.key
  BY <1>4, <1>6, NewRowFacts
<1>8. Shelved'
  BY <1>1, <1>2, <1>5, <1>6, <1>7, PutShelved DEF Put
<1> QED  BY <1>1, <1>8, SucceedLeaves DEF Kinds

LEMMA AlterKeeps ==
  ASSUME StoresInv, NEW t \in Threads, Alter(t)
  PROVE  Shelved' /\ \E d : Leaves(t, calls[t], d)
<1>1. Shelved /\ Calling /\ menu \in Menus /\ At(t, "set")
  BY Halves DEF Alter, Shelved
<1>2. PICK c : c = calls[t]
  OBVIOUS
<1>3. /\ c \in Call /\ c.op \in DOMAIN Program /\ c.n \in 1..Len(Program[c.op])
      /\ Program[c.op][c.n].does = "set" /\ Carries(c)
  BY <1>1, <1>2, AtFacts
<1>4. CASE Abort(t) /\ UNCHANGED <<rows, index, landed>>
  <2>1. Shelved'
    BY <1>1, <1>4, ShelvedKept DEF Alter, TablesKept
  <2> QED  BY <1>4, <2>1, AbortLeaves
<1>5. CASE /\ Alterable(c) /\ Succeed(t)
           /\ rows' = [rows EXCEPT ![c.id] = Updated(@, c)]
           /\ landed' = [landed EXCEPT ![c.id] = Updated(@, c)]
           /\ index' = IF c.column = "key" THEN Reindexed(c.id, c.key) ELSE index
  <2>1. PICK i : i = c.id
    OBVIOUS
  <2>2. i \in Live /\ i \in Ids /\ rows[i] \in Row
    BY <1>1, <1>5, <2>1 DEF Alterable, Live, Shelved
  <2>3. c.column \in {"key", "a", "b"} /\ (c.column = "key" => c.key \in Keys)
    BY <1>3 DEF Carries
  <2>4. PICK row : row = Updated(rows[i], c)
    OBVIOUS
  <2>5. row \in Row /\ row.key = IF c.column = "key" THEN c.key ELSE rows[i].key
    BY <2>2, <2>3, <2>4, UpdatedFacts
  <2>6. rows' = [rows EXCEPT ![i] = row]
    BY <1>5, <2>1, <2>4
  <2>7. landed[i] = rows[i] \/ (menu.store = "d1" /\ menu.table \in {"users", "accounts"})
    BY <1>1, <2>2 DEF Shelved, NothingLost
  <2>8. PICK last : last = Updated(landed[i], c)
    OBVIOUS
  <2>9. last \in Row /\ last # None /\ landed' = [landed EXCEPT ![i] = last]
        /\ (landed[i] = rows[i] => last = row)
    <3>1. landed[i] \in Row
      BY <1>1, <2>2 DEF Shelved
    <3> QED  BY <1>5, <2>1, <2>3, <2>4, <2>8, <3>1, UpdatedFacts
  <2>10. /\ landed' \in [Ids -> Row \cup {None}] /\ \A j \in Live : landed'[j] # None
         /\ \/ \A j \in Live : landed'[j] = IF j = i THEN row ELSE landed[j]
            \/ menu.store = "d1" /\ menu.table \in {"users", "accounts"}
    BY <1>1, <2>7, <2>9 DEF Shelved, Live
  <2>11. \/ row.key = rows[i].key /\ index' = index
         \/ index' = Reindexed(i, row.key) /\ (Unique => Free(i, row.key))
    BY <1>5, <2>1, <2>5 DEF Alterable
  <2>12. Shelved'
    BY <1>1, <2>2, <2>5, <2>6, <2>10, <2>11, WriteShelved DEF Alter
  <2> QED  BY <1>1, <1>5, <2>12, SucceedLeaves DEF Kinds
<1> QED  BY <1>2, <1>4, <1>5 DEF Alter
LEMMA RewriteKeeps ==
  ASSUME StoresInv, NEW t \in Threads, Rewrite(t)
  PROVE  Shelved' /\ \E e, d : Leaves(t, e, d) /\ e.op = calls[t].op /\ e.id = calls[t].id
<1>1. Shelved /\ Calling /\ menu \in Menus /\ At(t, "rewrite")
  BY Halves DEF Rewrite, Shelved
<1>2. PICK c : c = calls[t]
  OBVIOUS
<1>3. /\ c \in Call /\ c.op \in DOMAIN Program /\ c.n \in 1..Len(Program[c.op])
      /\ Program[c.op][c.n].does = "rewrite" /\ Carries(c) /\ c.seen \in Row
  BY <1>1, <1>2, AtFacts
<1>4. /\ c.n > 1 /\ Program[c.op][c.n - 1].does = "fetch"
      /\ menu.store = "d1" /\ menu.table \in {"users", "accounts"}
  BY <1>1, <1>3, StatementFacts
<1>5. c.column \in {"key", "a", "b"} /\ (c.column = "key" => c.key \in Keys)
  <2>1. c.n - 1 \in 1..Len(Program[c.op])
    BY <1>1, <1>3, <1>4, LengthFacts
  <2> QED  BY <1>3, <1>4, <2>1 DEF Carries
<1>6. PICK row : row = Updated(c.seen, c)
  OBVIOUS
<1>7. row \in Row
  BY <1>3, <1>5, <1>6, UpdatedFacts
<1>8. CASE Abort(t) /\ UNCHANGED <<rows, landed>>
  <2>1. Shelved'
    BY <1>1, <1>8, ShelvedKept DEF Rewrite, TablesKept
  <2> QED  BY <1>2, <1>8, <2>1, AbortLeaves
<1>9. CASE /\ \A j \in With(row.key) : j = c.id
           /\ IF Rewritable(c)
              THEN /\ rows' = [rows EXCEPT ![c.id] = row]
                   /\ landed' = [landed EXCEPT ![c.id] = Updated(@, c)]
              ELSE UNCHANGED <<rows, landed>>
           /\ Goes(t, [c EXCEPT !.seen = None])
  <2>1. Shelved'
    <3>1. CASE ~Rewritable(c)
      BY <1>1, <1>9, <3>1, ShelvedKept DEF Rewrite, TablesKept
    <3>2. CASE Rewritable(c)
      <4>1. PICK i : i = c.id
        OBVIOUS
      <4>2. i \in Live /\ landed[i] \in Row
        BY <1>1, <3>2, <4>1 DEF Rewritable, Shelved, Live
      <4>3. PICK last : last = Updated(landed[i], c)
        OBVIOUS
      <4>4. last \in Row /\ last # None /\ landed' = [landed EXCEPT ![i] = last]
        BY <1>5, <1>9, <3>2, <4>1, <4>2, <4>3, UpdatedFacts
      <4>5. landed' \in [Ids -> Row \cup {None}] /\ \A j \in Live : landed'[j] # None
        BY <1>1, <4>4 DEF Shelved, Live
      <4>6. index' = Reindexed(i, row.key)
        BY <1>4 DEF Rewrite, Reindexed, Indexing
      <4>7. Free(i, row.key)
        <5>1. CASE With(row.key) = {}
          BY <1>4, <5>1 DEF Free, Taken, Indexing
        <5>2. CASE i \in With(row.key)
          BY <5>2 DEF Free, With
        <5> QED  BY <1>9, <4>1, <5>1, <5>2
      <4> QED  BY <1>1, <1>4, <1>7, <1>9, <3>2, <4>1, <4>2, <4>5, <4>6, <4>7, WriteShelved DEF Rewrite
    <3> QED  BY <3>1, <3>2
  <2>2. PICK e : e = [c EXCEPT !.seen = None]
    OBVIOUS
  <2>3. e = [stage |-> c.stage, op |-> c.op, id |-> c.id, key |-> c.key, owner |-> c.owner,
             column |-> c.column, hooks |-> c.hooks, n |-> c.n, takes |-> c.takes,
             got |-> c.got, seen |-> None]
    BY <1>3, <2>2 DEF Call
  <2>4. e \in Call
    BY <1>3, <2>3 DEF Call
  <2>5. Carries(e) /\ e.op = c.op /\ e.n = c.n /\ e.id = c.id
    BY <1>3, <2>3 DEF Carries
  <2>6. \E d : Leaves(t, e, d)
    BY <1>1, <1>3, <1>9, <2>2, <2>4, <2>5, GoesLeaves
  <2> QED  BY <1>2, <2>1, <2>5, <2>6
<1> QED  BY <1>2, <1>6, <1>8, <1>9 DEF Rewrite

LEMMA DeleteKeeps ==
  ASSUME StoresInv, NEW t \in Threads, Delete(t)
  PROVE  Shelved' /\ \E d : Leaves(t, calls[t], d)
<1>1. Shelved /\ Calling /\ menu \in Menus /\ At(t, "delete") /\ Succeed(t)
  BY Halves DEF Delete, Shelved
<1>2. PICK i : i = calls[t].id
  OBVIOUS
<1>3. /\ Remove({i} \cap Live) /\ UNCHANGED <<menu, landed, takers>>
      /\ index' = IF i \in Live THEN Unindexed(i) ELSE index
  BY <1>2 DEF Delete
<1>4. Shelved'
  <2>1. CASE i \in Live
    <3>1. {i} \cap Live = {i}
      BY <2>1
    <3>2. Remove({i}) /\ index' = Unindexed(i) /\ {i} \in SUBSET Live
      BY <1>3, <2>1, <3>1
    <3> QED  BY <1>1, <1>3, <3>2, RemoveShelved
  <2>2. CASE i \notin Live
    <3>1. {i} \cap Live = {}
      BY <2>2
    <3>2. Remove({}) /\ index' = index
      BY <1>3, <2>2, <3>1
    <3> QED  BY <1>1, <1>3, <3>2, RemoveShelved
  <2> QED  BY <2>1, <2>2
<1> QED  BY <1>1, <1>4, SucceedLeaves DEF Kinds

\* The tables whose index is kept have no such methods.
LEMMA NotIndexed ==
  ASSUME menu \in Menus, Calling, NEW t \in Threads, NEW what \in {"clear", "take", "purge"},
         At(t, what)
  PROVE  ~Indexing
<1>1. PICK c : c = calls[t]
  OBVIOUS
<1>2. /\ c.op \in DOMAIN Program /\ c.n \in 1..Len(Program[c.op])
      /\ Program[c.op][c.n].does = what
  BY <1>1, AtFacts
<1> QED  BY <1>2, StatementFacts DEF Indexed_kinds

LEMMA ClearKeeps ==
  ASSUME StoresInv, NEW t \in Threads, Clear(t) \/ Purge(t)
  PROVE  Shelved' /\ \E d : Leaves(t, calls[t], d)
<1>1. Shelved /\ Calling /\ menu \in Menus /\ (At(t, "clear") \/ At(t, "purge")) /\ Succeed(t)
  BY Halves DEF Clear, Purge, Shelved
<1>2. ~Indexing
  BY <1>1, NotIndexed
<1>3. PICK is \in SUBSET Live : Remove(is) /\ UNCHANGED <<menu, index, landed, takers>>
  BY DEF Clear, Purge
<1>4. Shelved'
  BY <1>1, <1>2, <1>3, RemoveShelved
<1> QED  BY <1>1, <1>4, SucceedLeaves DEF Kinds

LEMMA TakeKeeps ==
  ASSUME StoresInv, NEW t \in Threads, Take(t)
  PROVE  Shelved' /\ \E d : Leaves(t, calls[t], d)
<1>1. Shelved /\ Calling /\ menu \in Menus /\ At(t, "take") /\ Succeed(t)
  BY Halves DEF Take, Shelved
<1>2. ~Indexing
  BY <1>1, NotIndexed
<1>3. PICK c : c = calls[t]
  OBVIOUS
<1>4. CASE UNCHANGED <<rows, gone, takers>>
  BY <1>1, <1>4, ShelvedKept, SucceedLeaves DEF Take, TablesKept, Kinds
<1>5. ASSUME NEW i \in Consumable(c.key), Remove(Withdrawn(i)),
             takers' = [takers EXCEPT ![i] = @ + 1]
      PROVE  Shelved' /\ \E d : Leaves(t, calls[t], d)
  <2>1. {i} \in SUBSET Live /\ Remove({i}) /\ UNCHANGED <<menu, index, landed>>
    BY <1>5 DEF Consumable, With, Withdrawn, Take
  <2>2. Shelved'
    BY <1>1, <1>2, <1>5, <2>1, RemoveShelved
  <2> QED  BY <1>1, <2>2, SucceedLeaves DEF Kinds
<1> QED  BY <1>3, <1>4, <1>5 DEF Take
\* One step of the adapter for thread t: its call stays for the operation and, once
\* its row has been created, for the row it was about.
LEMMA ExecuteKeeps ==
  ASSUME StoresInv, NEW t \in Threads, Execute(t)
  PROVE  /\ StoresInv' /\ menu' = menu
         /\ \E d : /\ calls' = [calls EXCEPT ![t] = d]
                   /\ \/ d = Idle
                      \/ d.op = calls[t].op /\ (d.id = calls[t].id \/ Insert(t))
<1>1. Calling /\ menu' = menu
  BY Halves
     DEF Execute, Lock, Insert, Put, Read, Refuse, Alter, Fetch, Rewrite, Confirm, Delete,
         Clear, Take, Purge, HookAccepts, HookVetoes, HookTold, TablesKept
<1>2. ASSUME Shelved', NEW e, NEW d, Leaves(t, e, d), e.op = calls[t].op,
             e.id = calls[t].id \/ Insert(t)
      PROVE  /\ StoresInv'
             /\ calls' = [calls EXCEPT ![t] = d]
             /\ d = Idle \/ (d.op = calls[t].op /\ (d.id = calls[t].id \/ Insert(t)))
  BY <1>1, <1>2, CallingKept, HalvesNext DEF Leaves
<1>3. Shelved' /\ \E e, d : Leaves(t, e, d) /\ e.op = calls[t].op
                            /\ (e.id = calls[t].id \/ Insert(t))
  <2>1. CASE Lock(t)
    BY <2>1, LockKeeps
  <2>2. CASE Insert(t)
    BY <2>2, InsertKeeps
  <2>3. CASE Put(t)
    BY <2>3, PutKeeps
  <2>4. CASE Read(t) \/ Refuse(t) \/ Confirm(t)
    BY <2>4, ReadKeeps
  <2>5. CASE Alter(t)
    BY <2>5, AlterKeeps
  <2>6. CASE Fetch(t)
    BY <2>6, FetchKeeps
  <2>7. CASE Rewrite(t)
    BY <2>7, RewriteKeeps
  <2>8. CASE Delete(t)
    BY <2>8, DeleteKeeps
  <2>9. CASE Clear(t) \/ Purge(t)
    BY <2>9, ClearKeeps
  <2>10. CASE Take(t)
    BY <2>10, TakeKeeps
  <2>11. CASE HookAccepts(t)
    BY <2>11, AcceptKeeps
  <2>12. CASE HookVetoes(t) \/ HookTold(t)
    BY <2>12, HookKeeps
  <2> QED
    BY <2>1, <2>2, <2>3, <2>4, <2>5, <2>6, <2>7, <2>8, <2>9, <2>10, <2>11, <2>12 DEF Execute
<1> QED  BY <1>1, <1>2, <1>3

LEMMA AgeKeeps ==
  ASSUME StoresInv, NEW i \in Ids, Age(i)
  PROVE  StoresInv' /\ UNCHANGED <<menu, calls>>
<1>1. Shelved /\ Calling /\ UNCHANGED <<menu, index, calls, gone, takers>> /\ i \in Live
  BY Halves DEF Age
<1>2. PICK row : row = [rows[i] EXCEPT !.ripe = TRUE]
  OBVIOUS
<1>3. PICK last : last = [landed[i] EXCEPT !.ripe = TRUE]
  OBVIOUS
<1>4. rows[i] \in Row /\ landed[i] \in Row
  BY <1>1 DEF Shelved, Live
<1>5. row \in Row /\ row.key = rows[i].key /\ last \in Row
  BY <1>2, <1>3, <1>4 DEF Row
<1>6. rows' = [rows EXCEPT ![i] = row] /\ landed' = [landed EXCEPT ![i] = last]
  BY <1>2, <1>3 DEF Age
<1>7. last # None /\ (landed[i] = rows[i] => last = row)
  BY <1>2, <1>3, <1>5
<1>8. /\ landed' \in [Ids -> Row \cup {None}] /\ \A j \in Live : landed'[j] # None
      /\ \/ \A j \in Live : landed'[j] = IF j = i THEN row ELSE landed[j]
         \/ menu.store = "d1" /\ menu.table \in {"users", "accounts"}
  BY <1>1, <1>5, <1>6, <1>7 DEF Shelved, NothingLost, Live
<1>9. Shelved'
  BY <1>1, <1>5, <1>6, <1>8, WriteShelved
<1>10. Calling'
  BY <1>1, CallingSame
<1> QED  BY <1>1, <1>9, <1>10, HalvesNext

LEMMA AskKeeps ==
  ASSUME StoresInv, NEW t \in Threads, Ask(t)
  PROVE  StoresInv' /\ menu' = menu /\ \E d : calls' = [calls EXCEPT ![t] = d]
<1>1. Shelved /\ Calling /\ Shelved' /\ menu \in Menus /\ menu' = menu /\ gone \subseteq Ids
  BY Halves, ShelvedKept DEF Ask, Shelved, TablesKept
<1>2. PICK op \in DOMAIN Program :
     \E hooks \in {0} \cup (IF op \in Announced THEN {Hooks} ELSE {}),
        i \in Given(Live \cup gone, op, {"set", "fetch", "delete"}),
        k \in Given(Keys, op, Keyed(op)),
        o \in Given(Owners, op, {"insert", "put", "clear"}), c \in Named(op) :
       LET call == Asked(op, hooks, i, k, o, c) IN
       IF hooks = 0 THEN Enter(t, call, 1)
       ELSE Set(t, [call EXCEPT !.stage = "before", !.n = 1])
  BY DEF Ask
<1>3. PICK hooks \in {0} \cup (IF op \in Announced THEN {Hooks} ELSE {}),
           i \in Given(Live \cup gone, op, {"set", "fetch", "delete"}),
           k \in Given(Keys, op, Keyed(op)),
           o \in Given(Owners, op, {"insert", "put", "clear"}), column \in Named(op) :
        LET call == Asked(op, hooks, i, k, o, column) IN
        IF hooks = 0 THEN Enter(t, call, 1)
        ELSE Set(t, [call EXCEPT !.stage = "before", !.n = 1])
  BY <1>2
<1>4. PICK c : c = Asked(op, hooks, i, k, o, column)
  OBVIOUS
<1>5. /\ c \in Call /\ c.op = op /\ c.hooks = hooks /\ Carries(c)
      /\ c.takes = <<>> /\ c.got = 0 /\ hooks \in {0, Hooks}
  <2>1. hooks \in {0, Hooks}
    OBVIOUS
  <2>2. c = [stage |-> "idle", op |-> op, id |-> i, key |-> k, owner |-> o,
             column |-> column, hooks |-> hooks, n |-> 0, takes |-> <<>>, got |-> 0,
             seen |-> None]
    BY <1>4 DEF Asked, Idle
  <2>3. i \in Ids \cup {None} /\ k \in Keys \cup {None} /\ o \in Owners \cup {None}
    BY <1>1 DEF Live, Given
  <2>4. column \in {"key", "a", "b", None}
    BY DEF Columns, Named, Given
  <2>5. c \in Call
    BY <2>1, <2>2, <2>3, <2>4 DEF Call
  <2>6. Carries(c)
    <3> SUFFICES ASSUME NEW n \in 1..Len(Program[op]), NEW what, what = Program[op][n].does
                 PROVE  /\ what \in {"insert", "put", "take"} => k \in Keys
                        /\ what \in {"insert", "put", "clear"} => o \in Owners
                        /\ what \in {"set", "fetch"} => /\ column \in {"key", "a", "b"}
                                                        /\ column = "key" => k \in Keys
      BY <2>2 DEF Carries
    <3>1. what \in Steps(op)
      BY DEF Steps
    <3>2. what \in {"insert", "put", "take"} => k \in Keys
      BY <3>1 DEF Given, Keyed
    <3>3. what \in {"insert", "put", "clear"} => o \in Owners
      BY <3>1 DEF Given
    <3>4. ASSUME what \in {"set", "fetch"}
          PROVE  column \in {"key", "a", "b"} /\ (column = "key" => k \in Keys)
      <4>1. column \in Columns(op)
        BY <3>1, <3>4 DEF Named, Given
      <4>2. column = "key" => k \in Keys
        BY <3>1, <3>4 DEF Given, Keyed
      <4> QED  BY <4>1, <4>2 DEF Columns
    <3> QED  BY <3>2, <3>3, <3>4
  <2> QED  BY <2>1, <2>2, <2>5, <2>6
<1>6. CASE hooks = 0
  <2>1. 1 \in 1..Len(Program[c.op]) /\ Program[c.op][1].does # "rewrite"
    BY <1>1, <1>5, LengthFacts, StatementFacts, SMTT(60)
  <2>2. \E d : Leaves(t, c, d)
    BY <1>1, <1>3, <1>4, <1>5, <1>6, <2>1, EnterLeaves
  <2> QED  BY <1>1, <2>2, CallingKept, HalvesNext DEF Leaves
<1>7. CASE hooks # 0
  <2>1. PICK d : d = [c EXCEPT !.stage = "before", !.n = 1]
    OBVIOUS
  <2>2. calls' = [calls EXCEPT ![t] = d]
    BY <1>3, <1>4, <1>7, <2>1 DEF Set
  <2>3. d = [stage |-> "before", op |-> c.op, id |-> c.id, key |-> c.key,
             owner |-> c.owner, column |-> c.column, hooks |-> c.hooks, n |-> 1,
             takes |-> <<>>, got |-> 0, seen |-> c.seen]
    BY <1>5, <2>1 DEF Call
  <2>4. "before" \in {"idle", "before", "run", "after"} /\ 1 \in 0 .. Hooks + 3
        /\ 1 \in 1..c.hooks
    BY <1>5, <1>7
  <2>5. d \in Call
    BY <1>5, <2>3, <2>4 DEF Call
  <2>6. UnderWay(d)
    <3>1. Carries(d)
      BY <1>5, <2>3 DEF Carries
    <3> QED  BY <1>5, <2>3, <2>4, <3>1 DEF UnderWay
  <2>7. Leaves(t, d, d)
    BY <2>2, <2>5, <2>6 DEF Leaves
  <2> QED  BY <1>1, <2>2, <2>7, CallingKept, HalvesNext
<1> QED  BY <1>6, <1>7
-----------------------------------------------------------------------------
(* Initial states.                                                          *)

LEMMA StoresInitial ==
  ASSUME NEW start \in [Ids -> Row \cup {None}],
         \A i, j \in Ids : start[i] # None /\ start[j] # None /\ start[i].key = start[j].key => i = j,
         StoresInit(start)
  PROVE  StoresInv
<1>1. menu \in Menus /\ rows = start /\ landed = start /\ gone = {}
      /\ calls = [t \in Threads |-> Idle] /\ takers = [i \in Ids |-> 0]
  BY DEF StoresInit
<1>2. ASSUME NEW k \in Keys
      PROVE  /\ index[k] \in Ids \cup {None}
             /\ index[k] # None => Indexing /\ index[k] \in With(k)
             /\ Indexing /\ With(k) # {} => index[k] \in With(k)
  <2>1. index[k] = IF Indexing /\ With(k) # {} THEN CHOOSE i \in With(k) : TRUE ELSE None
    BY DEF StoresInit
  <2>2. With(k) # {} => (CHOOSE i \in With(k) : TRUE) \in With(k)
    OBVIOUS
  <2>3. With(k) \subseteq Ids
    BY DEF With, Live
  <2> QED  BY <2>1, <2>2, <2>3
<1>3. DOMAIN index = Keys /\ index = [k \in Keys |-> index[k]]
  BY DEF StoresInit
<1>4. index \in [Keys -> Ids \cup {None}]
  BY <1>2, <1>3
<1>5. ASSUME NEW i \in Live, Indexing PROVE index[rows[i].key] = i
  <2>1. i \in Ids /\ rows[i] # None /\ rows[i].key \in Keys /\ i \in With(rows[i].key)
    BY <1>1, <1>5 DEF Live, With, Row
  <2>2. index[rows[i].key] \in With(rows[i].key)
    BY <1>2, <1>5, <2>1
  <2> QED  BY <1>1, <2>1, <2>2 DEF With, Live
<1>6. ~Indexing => index = [k \in Keys |-> None]
  BY <1>2, <1>3
<1>7. Shelved
  BY <1>1, <1>2, <1>4, <1>5, <1>6 DEF Shelved, NothingLost, NoRevival, Live
<1>8. Calling
  BY <1>1, IdleFacts DEF Calling
<1> QED  BY <1>7, <1>8, Halves
-----------------------------------------------------------------------------
(* Requests.                                                                *)

LEMMA StoresKept ==
  ASSUME StoresInv, UNCHANGED storeVars
  PROVE  StoresInv'
<1>1. Shelved'
  BY Halves, ShelvedKept DEF storeVars, TablesKept
<1>2. Calling'
  BY Halves, CallingSame DEF storeVars
<1> QED  BY <1>1, <1>2, HalvesNext

\* What the requests under way are, and what the rate limit has counted.
Requested ==
  /\ requests \in [Threads -> {NoRequest} \cup Request]
  /\ \A t \in Threads : Serving(t)
Logged ==
  /\ buckets \in [Used -> SUBSET Passing] /\ passed \in [Used -> SUBSET Passing]
  /\ \A b \in Used : Counted(b)
  /\ Limited
Scenery ==
  /\ scene \in Scenes /\ scene.forms \subseteq Form
  /\ proves \in [{"session", "apikey"} -> Ids \cup {None}]
  /\ clock \in 0..scene.time /\ sent \in 0..scene.requests
  /\ scene.forms # {} => menu.table = "users"

LEMMA Thirds == FrontInv <=> StoresInv /\ Requested /\ Logged /\ Scenery
BY DEF FrontInv, TypeOK, Requested, Logged, Scenery

LEMMA ThirdsNext == FrontInv' <=> StoresInv' /\ Requested' /\ Logged' /\ Scenery'
BY DEF FrontInv, TypeOK, Requested, Logged, Scenery

LEMMA SceneFacts ==
  ASSUME Scenery
  PROVE  scene.requests \in Nat /\ scene.time \in Nat /\ scene.forms \in SUBSET Form
BY DEF Scenery

LEMMA LoggedKept ==
  ASSUME Logged, UNCHANGED <<scene, buckets, clock, passed>>
  PROVE  Logged'
BY DEF Logged, Used, Passing, Counted, Recent, Limited

\* The request of t becomes q, while its call and the others' stay what they are.
LEMMA RequestedKept ==
  ASSUME Requested, UNCHANGED <<menu, scene, proves, calls>>, NEW t \in Threads,
         NEW q \in {NoRequest} \cup Request, requests' = [requests EXCEPT ![t] = q],
         q # NoRequest => Settled(q) /\ menu.table = "users",
         q.stage # "working"
  PROVE  Requested'
<1>1. requests' \in [Threads -> {NoRequest} \cup Request']
  BY DEF Requested, Request
<1>2. ASSUME NEW u \in Threads PROVE Serving(u)'
  <2>1. Settled(q) => Settled(q)'
    BY DEF Settled
  <2>2. CASE u = t
    <3>1. requests'[u] = q
      BY <2>2 DEF Requested
    <3> QED  BY <2>1, <3>1 DEF Serving, Settled
  <2>3. CASE u # t
    <3>1. requests'[u] = requests[u] /\ calls'[u] = calls[u] /\ Serving(u)
      BY <2>3 DEF Requested
    <3> QED  BY <3>1 DEF Serving, Settled
  <2> QED  BY <2>2, <2>3
<1> QED  BY <1>1, <1>2 DEF Requested

LEMMA RespondKeeps ==
  ASSUME Requested, UNCHANGED <<menu, scene, proves, calls>>, NEW t \in Threads, Respond(t)
  PROVE  Requested'
<1>1. PICK q : q = NoRequest
  OBVIOUS
<1>2. q \in {NoRequest} \cup Request /\ q.stage # "working"
      /\ requests' = [requests EXCEPT ![t] = q]
  BY <1>1 DEF Respond, NoRequest
<1> QED  BY <1>1, <1>2, RequestedKept

\* What is known of the request of a thread that serves one.
LEMMA RequestFacts ==
  ASSUME FrontInv, NEW t \in Threads, requests[t].stage # "none"
  PROVE  /\ requests[t] \in Request /\ requests[t] # NoRequest
         /\ Settled(requests[t]) /\ menu.table = "users"
         /\ requests[t].form \in scene.forms /\ requests[t].form \in Form
<1>1. requests[t] \in Request /\ requests[t] # NoRequest /\ Serving(t)
  BY Thirds DEF Requested, NoRequest
<1>2. scene.forms \subseteq Form
  BY Thirds DEF Scenery
<1> QED  BY <1>1, <1>2 DEF Request, Serving

\* A step that changes the request of t only.
LEMMA OnlyRequest ==
  ASSUME FrontInv, Requested',
         UNCHANGED <<scene, proves, buckets, clock, passed, storeVars>>,
         sent' \in 0..scene.requests
  PROVE  FrontInv'
<1>1. StoresInv'
  BY StoresKept, Thirds
<1>2. Logged'
  BY LoggedKept, Thirds
<1>3. Scenery'
  BY Thirds DEF Scenery, storeVars
<1> QED  BY <1>1, <1>2, <1>3, ThirdsNext

LEMMA ReceiveKeeps ==
  ASSUME FrontInv, NEW t \in Threads, Receive(t)
  PROVE  FrontInv'
<1>1. Requested /\ Scenery /\ UNCHANGED <<menu, scene, proves, calls>>
  BY Thirds DEF Receive, storeVars
<1>2. PICK form \in scene.forms :
        requests' = [requests EXCEPT ![t] =
          [stage |-> IF form.via = "direct" THEN "called" ELSE "received",
           form |-> form, acts |-> None,
           virtual |-> IF form.claimed THEN proves.apikey ELSE None]]
  BY DEF Receive
<1>3. PICK q : q = [stage |-> IF form.via = "direct" THEN "called" ELSE "received",
                    form |-> form, acts |-> None,
                    virtual |-> IF form.claimed THEN proves.apikey ELSE None]
  OBVIOUS
<1>4. q \in Request /\ q # NoRequest /\ q.stage # "working"
  BY <1>1, <1>3 DEF Request, NoRequest, Scenery
<1>5. Settled(q) /\ menu.table = "users"
  BY <1>1, <1>3 DEF Settled, Scenery
<1>6. Requested'
  BY <1>1, <1>2, <1>3, <1>4, <1>5, RequestedKept
<1>7. sent' \in 0..scene.requests
  BY <1>1, SceneFacts DEF Receive, Scenery
<1> QED  BY <1>6, <1>7, OnlyRequest DEF Receive

LEMMA RouteKeeps ==
  ASSUME FrontInv, NEW t \in Threads, Route(t)
  PROVE  FrontInv'
<1>1. Requested /\ UNCHANGED <<menu, scene, proves, calls>> /\ sent' \in 0..scene.requests
  BY Thirds DEF Route, storeVars, Scenery
<1>2. PICK r : r = requests[t]
  OBVIOUS
<1>3. r \in Request /\ Settled(r) /\ menu.table = "users" /\ r.stage = "received"
      /\ r.form.via = "router"
  BY <1>2, RequestFacts DEF Route
<1>4. Requested'
  <2>1. CASE Respond(t)
    BY <1>1, <2>1, RespondKeeps
  <2>2. CASE Move(t, "called")
    <3>1. PICK q : q = [r EXCEPT !.stage = "called"]
      OBVIOUS
    <3>2. q = [stage |-> "called", form |-> r.form, virtual |-> r.virtual, acts |-> r.acts]
      BY <1>3, <3>1 DEF Request
    <3>3. q \in Request
      BY <1>3, <3>2 DEF Request
    <3>4. Settled(q)
      BY <1>3, <3>2 DEF Settled
    <3> QED  BY <1>1, <1>2, <1>3, <2>2, <3>1, <3>2, <3>3, <3>4, RequestedKept DEF Move
  <2> QED  BY <2>1, <2>2 DEF Route
<1> QED  BY <1>1, <1>4, OnlyRequest DEF Route
LEMMA LimitFacts == \A path : Limit(path) \in Nat /\ Limit(path) > 0
BY DEF Limit

\* A request passes the rate limit of its bucket, or is refused by it.
LEMMA LoggedPass ==
  ASSUME Logged, Scenery, NEW r \in scene.forms, UNCHANGED <<scene, clock>>,
         \/ /\ RateLimited(r) /\ UNCHANGED passed
            /\ buckets' = [buckets EXCEPT ![Bucket(r)] = Spared(r)]
         \/ /\ ~RateLimited(r)
            /\ buckets' = [buckets EXCEPT ![Bucket(r)] = Spared(r) \cup {Pass(r)}]
            /\ passed' = [passed EXCEPT ![Bucket(r)] = @ \cup {Pass(r)}]
  PROVE  Logged'
<1>1. PICK b : b = Bucket(r)
  OBVIOUS
<1>2. PICK spared : spared = Spared(r)
  OBVIOUS
<1>3. PICK p : p = Pass(r)
  OBVIOUS
<1>4. /\ b \in Used /\ b[2] = Path(r) /\ clock \in Nat
      /\ Used' = Used /\ Passing' = Passing
  BY <1>1, SceneFacts DEF Used, Bucket, Scenery, Passing
<1>5. /\ spared = {x \in buckets[b] : Recent(x.at)} /\ spared \subseteq passed[b]
      /\ IsFiniteSet(passed[b]) /\ passed[b] \in SUBSET Passing
      /\ \A x \in passed[b] : x.at \in 0..clock /\ (Recent(x.at) => x \in spared)
                              /\ x.nth <= Cardinality(passed[b])
  BY <1>1, <1>2, <1>4 DEF Spared, Logged, Counted, Passing
<1>6. IsFiniteSet(spared) /\ Cardinality(spared) \in Nat /\ Cardinality(passed[b]) \in Nat
  BY <1>5, FS_Subset, FS_CardinalityType
<1>7. /\ p = [at |-> clock, nth |-> Cardinality(passed[b]) + 1]
      /\ p \in Passing /\ p \notin passed[b] /\ p.at = clock
  <2>1. p = [at |-> clock, nth |-> Cardinality(passed[b]) + 1]
    BY <1>1, <1>3 DEF Pass
  <2>2. p \in Passing /\ p.at = clock
    BY <1>4, <1>6, <2>1 DEF Passing
  <2>3. p \notin passed[b]
    <3> SUFFICES ASSUME p \in passed[b] PROVE FALSE
      OBVIOUS
    <3>1. p.nth <= Cardinality(passed[b]) /\ p.nth = Cardinality(passed[b]) + 1
      BY <1>5, <2>1
    <3> QED  BY <1>6, <3>1
  <2> QED  BY <2>1, <2>2, <2>3
<1>8. CASE RateLimited(r)
  <2>1. passed' = passed /\ buckets' = [buckets EXCEPT ![b] = spared]
    BY <1>1, <1>2, <1>8
  <2>2. buckets' \in [Used -> SUBSET Passing] /\ passed' \in [Used -> SUBSET Passing]
    BY <1>4, <1>5, <2>1 DEF Logged
  <2>3. \A c \in Used : Counted(c)'
    BY <1>4, <1>5, <2>1 DEF Logged, Counted, Recent
  <2>4. Limited'
    BY <1>4, <2>1 DEF Logged, Limited
  <2> QED  BY <1>4, <2>2, <2>3, <2>4 DEF Logged
<1>9. CASE ~RateLimited(r)
  <2>1. /\ passed' = [passed EXCEPT ![b] = passed[b] \cup {p}]
        /\ buckets' = [buckets EXCEPT ![b] = spared \cup {p}]
        /\ Cardinality(spared) < Limit(b[2])
    <3>1. ~(Cardinality(spared) >= Limit(b[2]))
      BY <1>2, <1>4, <1>9 DEF RateLimited
    <3> QED  BY <1>1, <1>2, <1>3, <1>6, <1>9, <3>1, LimitFacts
  <2>2. buckets' \in [Used -> SUBSET Passing] /\ passed' \in [Used -> SUBSET Passing]
    BY <1>4, <1>5, <1>7, <2>1 DEF Logged
  <2>3. /\ IsFiniteSet(passed[b] \cup {p})
        /\ Cardinality(passed[b] \cup {p}) = Cardinality(passed[b]) + 1
    <3>1. PICK all : all = passed[b]
      OBVIOUS
    <3>2. IsFiniteSet(all \cup {p}) /\ Cardinality(all \cup {p}) = Cardinality(all) + 1
      BY <1>5, <1>7, <3>1, FS_AddElement, SMTT(60)
    <3> QED  BY <3>1, <3>2
  <2>4. ASSUME NEW c \in Used PROVE Counted(c)'
    <3>1. CASE c = b
      <4>1. passed'[c] = passed[b] \cup {p} /\ buckets'[c] = spared \cup {p}
        BY <1>4, <2>1, <3>1 DEF Logged
      <4>2. \A x \in passed'[c] : x.nth <= Cardinality(passed'[c])
        <5>1. \A x \in passed[b] : x.nth \in Nat /\ x.nth <= Cardinality(passed[b])
          BY <1>5 DEF Passing
        <5> QED  BY <1>6, <1>7, <2>3, <4>1, <5>1
      <4> QED  BY <1>4, <1>5, <2>3, <4>1, <4>2 DEF Counted, Recent
    <3>2. CASE c # b
      BY <1>4, <2>1, <3>2 DEF Logged, Counted, Recent
    <3> QED  BY <3>1, <3>2
  <2>5. Limited'
    <3> SUFFICES ASSUME NEW c \in Used, NEW from \in 0..clock
                 PROVE  Cardinality({x \in passed'[c] : x.at \in from .. from + Window - 1})
                          <= Limit(c[2])
      BY <1>4 DEF Limited, Limit
    <3>1. Cardinality({x \in passed[c] : x.at \in from .. from + Window - 1}) <= Limit(c[2])
      BY DEF Logged, Limited
    <3>2. CASE c # b
      BY <1>4, <2>1, <3>1, <3>2 DEF Logged
    <3>3. CASE c = b
      <4>1. PICK before : before = {x \in passed[b] : x.at \in from .. from + Window - 1}
        OBVIOUS
      <4>2. PICK now : now = {x \in passed'[b] : x.at \in from .. from + Window - 1}
        OBVIOUS
      <4>3. passed'[b] = passed[b] \cup {p}
        BY <1>4, <2>1 DEF Logged
      <4>4. CASE clock \notin from .. from + Window - 1
        <5>1. now = before
          BY <1>7, <4>1, <4>2, <4>3, <4>4
        <5> QED  BY <3>1, <3>3, <4>1, <4>2, <5>1
      <4>5. CASE clock \in from .. from + Window - 1
        <5>1. now = before \cup {p} /\ p \notin before
          BY <1>7, <4>1, <4>2, <4>3, <4>5
        <5>2. before \subseteq spared
          <6> SUFFICES ASSUME NEW x \in before PROVE x \in spared
            OBVIOUS
          <6>1. x \in passed[b] /\ x.at \in from .. from + Window - 1 /\ x.at \in 0..clock
            BY <1>5, <4>1
          <6>2. clock - x.at < Window
            BY <1>4, <4>5, <6>1
          <6> QED  BY <1>5, <6>1, <6>2 DEF Recent
        <5>3. IsFiniteSet(before) /\ Cardinality(before) <= Cardinality(spared)
              /\ Cardinality(before) \in Nat
          BY <1>6, <5>2, FS_Subset, FS_CardinalityType
        <5>4. Cardinality(now) = Cardinality(before) + 1
          BY <5>1, <5>3, FS_AddElement
        <5>5. Cardinality(now) <= Limit(b[2])
          BY <1>6, <2>1, <5>3, <5>4, LimitFacts
        <5> QED  BY <3>3, <4>2, <5>5
      <4> QED  BY <4>4, <4>5
    <3> QED  BY <3>2, <3>3
  <2> QED  BY <1>4, <2>2, <2>4, <2>5 DEF Logged
<1> QED  BY <1>8, <1>9
\* CSRF, CORS and the rate limit.
LEMMA HandleRequestKeeps ==
  ASSUME FrontInv, NEW t \in Threads, HandleRequest(t)
  PROVE  FrontInv'
<1>1. /\ Requested /\ Logged /\ Scenery
      /\ UNCHANGED <<menu, scene, proves, calls, clock, sent>>
      /\ UNCHANGED storeVars
  BY Thirds DEF HandleRequest, storeVars
<1>2. PICK q : q = requests[t]
  OBVIOUS
<1>3. PICK r : r = q.form
  OBVIOUS
<1>4. q \in Request /\ Settled(q) /\ menu.table = "users" /\ q.stage = "called"
      /\ r \in scene.forms
  BY <1>2, <1>3, RequestFacts DEF HandleRequest
<1>5. \/ Respond(t) /\ UNCHANGED <<buckets, passed>>
      \/ /\ Respond(t) \/ (Fits(r) /\ OriginOk(r) /\ requests' = [requests EXCEPT ![t] = FromParts(@)])
         /\ \/ /\ RateLimited(r) /\ UNCHANGED passed
               /\ buckets' = [buckets EXCEPT ![Bucket(r)] = Spared(r)]
            \/ /\ ~RateLimited(r)
               /\ buckets' = [buckets EXCEPT ![Bucket(r)] = Spared(r) \cup {Pass(r)}]
               /\ passed' = [passed EXCEPT ![Bucket(r)] = @ \cup {Pass(r)}]
  BY <1>2, <1>3 DEF HandleRequest
<1>6. Logged'
  <2>1. CASE UNCHANGED <<buckets, passed>>
    BY <1>1, <2>1, LoggedKept
  <2> QED  BY <1>1, <1>4, <1>5, <2>1, LoggedPass
<1>7. Requested'
  <2>1. CASE Respond(t)
    BY <1>1, <2>1, RespondKeeps
  <2>2. CASE Fits(r) /\ OriginOk(r) /\ requests' = [requests EXCEPT ![t] = FromParts(@)]
    <3>1. PICK d : d = FromParts(q)
      OBVIOUS
    <3>2. d = [stage |-> "dispatch", form |-> r, virtual |-> None, acts |-> q.acts]
      BY <1>3, <1>4, <3>1 DEF FromParts, Request
    <3>3. d \in Request
      BY <1>4, <3>2 DEF Request
    <3>4. Settled(d)
      BY <1>3, <1>4, <2>2, <3>2 DEF Settled
    <3>5. /\ d.stage # "working" /\ d \in {NoRequest} \cup Request
          /\ requests' = [requests EXCEPT ![t] = d]
      BY <1>2, <2>2, <3>1, <3>2, <3>3
    <3> QED  BY <1>1, <1>4, <3>4, <3>5, RequestedKept
  <2> QED  BY <1>5, <2>1, <2>2
<1>8. StoresInv'
  BY <1>1, StoresKept, Thirds
<1>9. Scenery'
  BY <1>1 DEF Scenery
<1> QED  BY <1>6, <1>7, <1>8, <1>9, ThirdsNext

\* The hook of the API key plugin.
LEMMA DispatchKeeps ==
  ASSUME FrontInv, NEW t \in Threads, Dispatch(t)
  PROVE  FrontInv'
<1>1. Requested /\ Scenery /\ UNCHANGED <<menu, scene, proves, calls>>
      /\ sent' \in 0..scene.requests
  BY Thirds DEF Dispatch, storeVars, Scenery
<1>2. PICK q : q = requests[t]
  OBVIOUS
<1>3. PICK r : r = q.form
  OBVIOUS
<1>4. q \in Request /\ Settled(q) /\ menu.table = "users" /\ q.stage = "dispatch"
      /\ r \in scene.forms
  BY <1>2, <1>3, RequestFacts DEF Dispatch
<1>5. Requested'
  <2>1. CASE Respond(t)
    BY <1>1, <2>1, RespondKeeps
  <2>2. CASE ~Respond(t)
    <3>1. PICK virtual : virtual = IF Vouches(r) THEN proves.apikey ELSE q.virtual
      OBVIOUS
    <3>2. PICK d : d = [q EXCEPT !.stage = "hooked", !.virtual = virtual]
      OBVIOUS
    <3>3. /\ ~Off(r) /\ (Vouches(r) => There(proves.apikey))
          /\ requests' = [requests EXCEPT ![t].stage = "hooked",
                                          ![t].virtual = IF Vouches(r) THEN proves.apikey ELSE @]
      BY <1>2, <1>3, <2>2 DEF Dispatch
    <3>4. requests' = [requests EXCEPT ![t] = d]
      BY <1>1, <1>2, <1>4, <3>1, <3>2, <3>3 DEF Requested, Request, NoRequest
    <3>5. virtual \in Ids \cup {None}
          /\ (virtual # None => r.credential = "apikey" /\ virtual = proves.apikey)
      BY <1>3, <1>4, <3>1, <3>3 DEF There, Live, Vouches, Settled, Request
    <3>6. d = [stage |-> "hooked", form |-> r, virtual |-> virtual, acts |-> q.acts]
      BY <1>3, <1>4, <3>2 DEF Request
    <3>7. d \in Request
      BY <1>4, <3>5, <3>6 DEF Request
    <3>8. Settled(d)
      BY <1>3, <1>4, <3>3, <3>5, <3>6 DEF Settled, Off
    <3>9. d.stage # "working" /\ d \in {NoRequest} \cup Request
      BY <3>6, <3>7
    <3> QED  BY <1>1, <1>4, <3>4, <3>8, <3>9, RequestedKept
  <2> QED  BY <2>1, <2>2
<1> QED  BY <1>1, <1>5, OnlyRequest DEF Dispatch

\* The request goes on to a handler for a user, if what it carries proves one.
LEMMA ActsForKeeps ==
  ASSUME FrontInv, NEW t \in Threads, UNCHANGED <<menu, scene, proves, calls>>,
         requests[t].stage # "none", NEW user,
         LET r == requests[t].form IN
         /\ r.via \in {"router", "direct"} =>
              Fits(r) /\ OriginOk(r) /\ r.endpoint \notin Disabled
         /\ user # None => r.credential # "none" /\ user = proves[r.credential],
         ActsFor(t, user) \/ Respond(t)
  PROVE  Requested'
<1>1. PICK q : q = requests[t]
  OBVIOUS
<1>2. PICK r : r = q.form
  OBVIOUS
<1>3. Requested /\ q \in Request /\ Settled(q) /\ menu.table = "users" /\ r \in scene.forms
  BY <1>1, <1>2, RequestFacts, Thirds
<1>4. CASE Respond(t)
  BY <1>3, <1>4, RespondKeeps
<1>5. CASE ~Respond(t)
  <2>1. /\ There(user)
        /\ requests' = [requests EXCEPT ![t].stage = "handler", ![t].acts = user]
    BY <1>5 DEF ActsFor
  <2>2. user \in Ids /\ user # None
    BY <2>1 DEF There, Live
  <2>3. PICK d : d = [q EXCEPT !.stage = "handler", !.acts = user]
    OBVIOUS
  <2>4. requests' = [requests EXCEPT ![t] = d]
    BY <1>1, <1>3, <2>1, <2>3 DEF Requested, Request, NoRequest
  <2>5. d = [stage |-> "handler", form |-> r, virtual |-> q.virtual, acts |-> user]
    BY <1>2, <1>3, <2>3 DEF Request
  <2>6. d \in Request
    BY <1>3, <2>2, <2>5 DEF Request
  <2>7. Settled(d)
    BY <1>1, <1>2, <2>2, <2>5 DEF Settled
  <2>8. d.stage # "working" /\ d \in {NoRequest} \cup Request
    BY <2>5, <2>6
  <2> QED  BY <1>3, <2>4, <2>7, <2>8, RequestedKept
<1> QED  BY <1>4, <1>5

LEMMA AuthenticateKeeps ==
  ASSUME FrontInv, NEW t \in Threads, Authenticate(t)
  PROVE  FrontInv'
<1>1. sent' \in 0..scene.requests /\ UNCHANGED <<menu, scene, proves, calls>>
  BY Thirds DEF Authenticate, storeVars, Scenery
<1>2. PICK q : q = requests[t]
  OBVIOUS
<1>3. q \in Request /\ Settled(q) /\ q.stage = "hooked"
  BY <1>2, RequestFacts DEF Authenticate
<1>4. PICK user : user = CurrentUser(t)
  OBVIOUS
<1>5. user # None => q.form.credential # "none" /\ user = proves[q.form.credential]
  BY <1>2, <1>3, <1>4 DEF CurrentUser, SessionUser, Settled
<1>6. q.form.via \in {"router", "direct"} =>
        Fits(q.form) /\ OriginOk(q.form) /\ q.form.endpoint \notin Disabled
  BY <1>3 DEF Settled
<1>7. Requested'
  BY <1>1, <1>2, <1>3, <1>4, <1>5, <1>6, ActsForKeeps DEF Authenticate
<1> QED  BY <1>1, <1>7, OnlyRequest DEF Authenticate

LEMMA ExtractKeeps ==
  ASSUME FrontInv, NEW t \in Threads, Extract(t) \/ HandleWorker(t)
  PROVE  FrontInv'
<1>1. /\ UNCHANGED <<scene, proves, buckets, clock, sent, passed, storeVars>>
      /\ sent' \in 0..scene.requests /\ UNCHANGED <<menu, calls>>
  BY Thirds DEF Extract, HandleWorker, storeVars, Scenery
<1>2. PICK q : q = requests[t]
  OBVIOUS
<1>3. q.stage = "received" /\ q.form.via \in {"plugin", "worker"}
  BY <1>2 DEF Extract, HandleWorker
<1>4. PICK user : user = SessionUser(q.form)
  OBVIOUS
<1>5. user # None => q.form.credential # "none" /\ user = proves[q.form.credential]
  BY <1>4 DEF SessionUser
<1>6. ActsFor(t, user) \/ Respond(t)
  BY <1>2, <1>4 DEF Extract, HandleWorker
<1>7. Requested'
  BY <1>1, <1>2, <1>3, <1>5, <1>6, ActsForKeeps
<1> QED  BY <1>1, <1>7, OnlyRequest
\* The methods a handler calls.
LEMMA UserMethods ==
  ASSUME menu \in Menus, menu.table = "users"
  PROVE  /\ {"get", "update", "delete"} \subseteq DOMAIN Program
         /\ \A op \in {"get", "update", "delete"} : \A n \in 1..Len(Program[op]) :
              /\ Program[op][n].does \notin {"insert", "put", "take", "clear"}
              /\ op # "update" => Program[op][n].does \notin {"set", "fetch"}
<1>1. PICK program : program = Program
  OBVIOUS
<1>2. Table(program, menu.store, "users")
  BY <1>1, Programs
<1>3. /\ {"get", "update", "delete"} \subseteq DOMAIN program
      /\ Does(program["get"]) = {"read"} /\ Does(program["delete"]) = {"delete"}
      /\ Does(program["update"]) \subseteq Single
  BY <1>2 DEF Table
<1>4. ASSUME NEW op \in {"get", "update", "delete"}, NEW n \in 1..Len(program[op])
      PROVE  /\ program[op][n].does \notin {"insert", "put", "take", "clear"}
             /\ op # "update" => program[op][n].does \notin {"set", "fetch"}
  <2>1. program[op][n].does \in Does(program[op])
    BY DEF Does
  <2> QED  BY <1>3, <2>1 DEF Single
<1> QED  BY <1>1, <1>3, <1>4

LEMMA WorkKeeps ==
  ASSUME FrontInv, NEW t \in Threads, Work(t)
  PROVE  FrontInv'
<1>1. PICK q : q = requests[t]
  OBVIOUS
<1>2. q \in Request /\ Settled(q) /\ menu.table = "users" /\ q.stage = "handler"
  BY <1>1, RequestFacts DEF Work
<1>3. PICK op : op = CASE q.form.endpoint = "delete-user" -> "delete"
                       [] q.form.endpoint \in {"update-user", "change-email"} -> "update"
                       [] OTHER -> "get"
  OBVIOUS
<1>4. op \in {"get", "update", "delete"}
  BY <1>3
<1>5. PICK c : c = [Idle EXCEPT !.op = op, !.id = q.acts,
                                !.column = IF op = "update" THEN "a" ELSE None]
  OBVIOUS
<1>6. c = [stage |-> "idle", op |-> op, id |-> q.acts, key |-> None, owner |-> None,
           column |-> IF op = "update" THEN "a" ELSE None, hooks |-> 0, n |-> 0,
           takes |-> <<>>, got |-> 0, seen |-> None]
  BY <1>5 DEF Idle
<1>7. /\ Shelved /\ Calling /\ Requested /\ Logged /\ Scenery /\ menu \in Menus
      /\ UNCHANGED <<menu, scene, proves, buckets, clock, passed, sent>> /\ Shelved'
  BY Thirds, Halves, ShelvedKept DEF Work, TablesKept, Shelved
<1>8. q.acts \in Ids /\ op \in DOMAIN Program
  BY <1>2, <1>4, <1>7, UserMethods DEF Settled
<1>9. c \in Call /\ c.op = op /\ c.id = q.acts
  <2>1. c \in Call
    BY <1>6, <1>8 DEF Call
  <2> QED  BY <1>6, <2>1
<1>10. Carries(c)
  BY <1>2, <1>4, <1>6, <1>7, UserMethods DEF Carries
<1>11. Enter(t, c, 1) /\ Move(t, "working")
  BY <1>1, <1>3, <1>5 DEF Work
<1>12. 1 \in 1..Len(Program[c.op]) /\ Program[c.op][1].does # "rewrite"
  <2>1. Len(Program[op]) \in 1..3
    BY <1>7, <1>8, LengthFacts
  <2>2. 1 \in 1..Len(Program[op])
    <3>1. \A length \in 1..3 : 1 \in 1..length
      OBVIOUS
    <3> QED  BY <2>1, <3>1
  <2>3. Program[op][1].does # "rewrite"
    BY <1>7, <1>8, <2>2, StatementFacts
  <2> QED  BY <1>9, <2>2, <2>3
<1>13. PICK d : Leaves(t, c, d)
  BY <1>7, <1>8, <1>9, <1>10, <1>11, <1>12, EnterLeaves
<1>14. StoresInv'
  BY <1>7, <1>13, CallingKept, HalvesNext
<1>15. Requested'
  <2>1. PICK e : e = [q EXCEPT !.stage = "working"]
    OBVIOUS
  <2>2. e = [stage |-> "working", form |-> q.form, virtual |-> q.virtual, acts |-> q.acts]
    BY <1>2, <2>1 DEF Request
  <2>3. requests' = [requests EXCEPT ![t] = e] /\ calls' = [calls EXCEPT ![t] = d]
        /\ (d # Idle => d.op = op /\ d.id = q.acts)
    BY <1>1, <1>9, <1>11, <1>13, <2>1 DEF Move, Leaves
  <2>4. e \in Request /\ Settled(e)
    BY <1>2, <2>2 DEF Request, Settled
  <2>5. requests' \in [Threads -> {NoRequest} \cup Request']
    BY <1>7, <2>3, <2>4 DEF Requested, Request
  <2>6. ASSUME NEW u \in Threads PROVE Serving(u)'
    <3>1. CASE u = t
      <4>1. requests'[u] = e /\ calls'[u] = d
        BY <1>7, <2>3, <3>1 DEF Requested, Calling
      <4>2. Settled(e)'
        BY <1>7, <2>4 DEF Settled
      <4> QED  BY <1>2, <1>4, <1>7, <2>2, <2>3, <4>1, <4>2 DEF Serving, Settled
    <3>2. CASE u # t
      <4>1. requests'[u] = requests[u] /\ calls'[u] = calls[u] /\ Serving(u)
        BY <1>7, <2>3, <3>2 DEF Requested, Calling
      <4> QED  BY <1>7, <4>1 DEF Serving, Settled
    <3> QED  BY <3>1, <3>2
  <2> QED  BY <2>5, <2>6 DEF Requested
<1>16. Logged' /\ Scenery'
  BY <1>7, LoggedKept DEF Scenery
<1> QED  BY <1>14, <1>15, <1>16, ThirdsNext

LEMMA WorkedKeeps ==
  ASSUME FrontInv, NEW t \in Threads, Worked(t)
  PROVE  FrontInv'
<1>1. Requested /\ UNCHANGED <<menu, scene, proves, calls>> /\ sent' \in 0..scene.requests
  BY Thirds DEF Worked, storeVars, Scenery
<1>2. Requested'
  BY <1>1, RespondKeeps DEF Worked
<1> QED  BY <1>1, <1>2, OnlyRequest DEF Worked

\* A step of the call of t: what a request has it do stays about its user.
LEMMA ExecuteServes ==
  ASSUME FrontInv, NEW t \in Threads, Execute(t), UNCHANGED frontVars
  PROVE  FrontInv'
<1>1. /\ Shelved /\ Calling /\ Requested /\ Logged /\ Scenery /\ StoresInv /\ menu \in Menus
      /\ UNCHANGED <<scene, proves, requests, buckets, clock, passed, sent>>
  BY Thirds, Halves DEF frontVars, Shelved
<1>2. PICK d : /\ calls' = [calls EXCEPT ![t] = d]
               /\ d = Idle \/ (d.op = calls[t].op /\ (d.id = calls[t].id \/ Insert(t)))
  BY <1>1, ExecuteKeeps
<1>3. StoresInv' /\ menu' = menu
  BY <1>1, ExecuteKeeps
<1>4. calls[t] # Idle
  <2>1. ASSUME calls[t] = Idle PROVE FALSE
    <3>1. Held[t] = [takes |-> <<>>, got |-> 0]
      BY <2>1 DEF Held, Idle
    <3>2. ~Locks!Waiting(t)
      BY <3>1 DEF Locks!Waiting
    <3>3. calls[t].stage = "idle"
      BY <2>1 DEF Idle
    <3> QED
      BY <3>2, <3>3
         DEF Execute, Lock, Insert, Put, Read, Refuse, Alter, Fetch, Rewrite, Confirm,
             Delete, Clear, Take, Purge, HookAccepts, HookVetoes, HookTold, At
  <2> QED  BY <2>1
<1>5. ASSUME NEW u \in Threads PROVE Serving(u)'
  <2>1. Serving(u) /\ (requests[u] # NoRequest => Settled(requests[u])')
    BY <1>1 DEF Requested, Serving, Settled
  <2>2. CASE u = t
    <3>1. ASSUME requests[t].stage = "working"
          PROVE  d = Idle \/ (d.op = calls[t].op /\ d.id = calls[t].id)
      <4>1. calls[t].op \in {"get", "update", "delete"} /\ menu.table = "users"
        BY <1>4, <2>1, <2>2, <3>1 DEF Serving, NoRequest
      <4>2. ~Insert(t)
        <5>1. PICK c : c = calls[t]
          OBVIOUS
        <5>2. ASSUME At(t, "insert") PROVE FALSE
          <6>1. c.n \in 1..Len(Program[c.op]) /\ Program[c.op][c.n].does = "insert"
            BY <1>1, <5>1, <5>2, AtFacts
          <6> QED  BY <1>1, <4>1, <5>1, <6>1, UserMethods
        <5> QED  BY <5>2 DEF Insert
      <4> QED  BY <1>2, <4>2
    <3>2. calls'[u] = d
      BY <1>1, <1>2, <2>2 DEF Calling
    <3> QED  BY <1>1, <1>3, <1>4, <2>1, <2>2, <3>1, <3>2 DEF Serving
  <2>3. CASE u # t
    <3>1. calls'[u] = calls[u]
      BY <1>1, <1>2, <2>3 DEF Calling
    <3> QED  BY <1>1, <1>3, <2>1, <3>1 DEF Serving
  <2> QED  BY <2>2, <2>3
<1>6. Requested'
  BY <1>1, <1>5 DEF Requested, Request
<1>7. Logged' /\ Scenery'
  BY <1>1, <1>3, LoggedKept DEF Scenery
<1> QED  BY <1>3, <1>6, <1>7, ThirdsNext
LEMMA ServeKeeps ==
  ASSUME FrontInv, NEW t \in Threads, Serve(t)
  PROVE  FrontInv'
BY ReceiveKeeps, RouteKeeps, HandleRequestKeeps, DispatchKeeps, AuthenticateKeeps,
   ExtractKeeps, WorkKeeps, WorkedKeeps DEF Serve

\* Without requests, nobody serves one.
LEMMA UseKeeps ==
  ASSUME FrontInv, NEW t \in Threads, Use(t)
  PROVE  FrontInv'
<1>1. /\ StoresInv /\ Calling /\ Requested /\ Logged /\ Scenery /\ scene.forms = {}
      /\ UNCHANGED <<scene, proves, requests, buckets, clock, passed, sent>>
  BY Thirds, Halves DEF Use, frontVars
<1>2. StoresInv' /\ menu' = menu
  BY <1>1, AskKeeps DEF Use
<1>3. requests \in [Threads -> {NoRequest}]
  BY <1>1 DEF Requested, Request
<1>4. Requested'
  BY <1>1, <1>3 DEF Requested, Serving, Request, NoRequest
<1>5. Logged' /\ Scenery'
  BY <1>1, <1>2, LoggedKept DEF Scenery
<1> QED  BY <1>2, <1>4, <1>5, ThirdsNext

LEMMA AgeServes ==
  ASSUME FrontInv, NEW i \in Ids, Age(i), UNCHANGED frontVars
  PROVE  FrontInv'
<1>1. /\ StoresInv /\ Requested /\ Logged /\ Scenery
      /\ UNCHANGED <<scene, proves, requests, buckets, clock, passed, sent>>
  BY Thirds DEF frontVars
<1>2. StoresInv' /\ UNCHANGED <<menu, calls>>
  BY <1>1, AgeKeeps
<1>3. Requested'
  BY <1>1, <1>2 DEF Requested, Request, Serving, Settled
<1>4. Logged' /\ Scenery'
  BY <1>1, <1>2, LoggedKept DEF Scenery
<1> QED  BY <1>2, <1>3, <1>4, ThirdsNext

\* As time passes, less is recent, and nothing has passed yet.
LEMMA TickKeeps ==
  ASSUME FrontInv, Tick
  PROVE  FrontInv'
<1>1. /\ StoresInv /\ Requested /\ Logged /\ Scenery /\ clock' = clock + 1
      /\ UNCHANGED <<scene, proves, requests, buckets, passed, sent>> /\ UNCHANGED storeVars
      /\ UNCHANGED <<menu, calls>>
  BY Thirds DEF Tick, storeVars
<1>2. clock \in Nat /\ clock' \in 0..scene.time /\ Used' = Used
  BY <1>1, SceneFacts DEF Tick, Scenery, Used
<1>3. StoresInv'
  BY <1>1, StoresKept
<1>4. Requested'
  BY <1>1 DEF Requested, Request, Serving, Settled
<1>5. Scenery'
  BY <1>1, <1>2 DEF Scenery
<1>6. ASSUME NEW b \in Used
      PROVE  passed[b] \in SUBSET Passing /\ buckets[b] \in SUBSET Passing /\ Counted(b)
  BY <1>1 DEF Logged
<1>7. Passing \subseteq Passing'
  BY <1>1, <1>2 DEF Passing
<1>8. buckets' \in [Used -> SUBSET Passing'] /\ passed' \in [Used -> SUBSET Passing']
  BY <1>1, <1>7 DEF Logged
<1>9. ASSUME NEW b \in Used PROVE Counted(b)'
  <2>1. \A p \in passed[b] : Recent(p.at)' => Recent(p.at)
    BY <1>1, <1>2, <1>6 DEF Recent, Passing
  <2> QED  BY <1>1, <1>6, <2>1 DEF Counted
<1>10. Limited'
  <2> SUFFICES ASSUME NEW b \in Used, NEW from \in 0..clock'
               PROVE  Cardinality({p \in passed[b] : p.at \in from .. from + Window - 1})
                        <= Limit(b[2])
    BY <1>1, <1>2 DEF Limited, Limit
  <2>1. CASE from \in 0..clock
    BY <1>1, <2>1 DEF Logged, Limited
  <2>2. CASE from \notin 0..clock
    <3>1. from = clock + 1
      BY <1>1, <1>2, <2>2
    <3>2. \A p \in passed[b] : p.at \in 0..clock
      BY <1>6 DEF Passing
    <3>3. {p \in passed[b] : p.at \in from .. from + Window - 1} = {}
      BY <1>2, <3>1, <3>2
    <3>4. Cardinality({p \in passed[b] : p.at \in from .. from + Window - 1}) = 0
      BY <3>3, FS_EmptySet
    <3>5. Limit(b[2]) \in Nat
      BY LimitFacts
    <3> QED  BY <3>4, <3>5
  <2> QED  BY <2>1, <2>2
<1>11. Logged'
  BY <1>2, <1>8, <1>9, <1>10 DEF Logged
<1> QED  BY <1>3, <1>4, <1>5, <1>11, ThirdsNext

LEMMA FrontInitial == Init => FrontInv
<1> SUFFICES ASSUME Init PROVE FrontInv
  OBVIOUS
<1>1. PICK start \in Populations : StoresInit(start)
  BY DEF Init
<1>2. StoresInv
  <2>1. CASE scene.forms = {}
    <3>1. start = [i \in Ids |-> None]
      BY <2>1 DEF Populations
    <3> QED  BY <1>1, <3>1, StoresInitial
  <2>2. CASE scene.forms # {}
    <3>1. start \in [Ids -> {row \in Row : row.a = 0 /\ row.b = 0 /\ ~row.ripe}]
          /\ \A i, j \in Ids : start[i].key = start[j].key => i = j
      BY <2>2 DEF Populations
    <3>2. start \in [Ids -> Row \cup {None}]
      BY <3>1
    <3> QED  BY <1>1, <3>1, <3>2, StoresInitial
  <2> QED  BY <2>1, <2>2
<1>3. Scenery
  <2>1. scene \in Scenes /\ clock = 0 /\ sent = 0 /\ (scene.forms # {} => menu.table = "users")
        /\ proves \in [{"session", "apikey"} -> Ids \cup {None}]
    BY DEF Init
  <2>2. scene.requests \in Nat /\ scene.time \in Nat /\ scene.forms \subseteq Form
    BY <2>1
  <2> QED  BY <2>1, <2>2 DEF Scenery
<1>4. Requested
  <2>1. requests = [t \in Threads |-> NoRequest]
    BY DEF Init
  <2> QED  BY <2>1 DEF Requested, Serving, NoRequest
<1>5. Logged
  <2>1. buckets = [b \in Used |-> {}] /\ passed = [b \in Used |-> {}]
    BY DEF Init
  <2>2. \A b \in Used : Counted(b)
    BY <2>1, FS_EmptySet DEF Counted
  <2>3. Limited
    <3> SUFFICES ASSUME NEW b \in Used, NEW from \in 0..clock
                 PROVE  Cardinality({p \in passed[b] : p.at \in from .. from + Window - 1})
                          <= Limit(b[2])
      BY DEF Limited
    <3>1. {p \in passed[b] : p.at \in from .. from + Window - 1} = {}
      BY <2>1
    <3>2. Cardinality({p \in passed[b] : p.at \in from .. from + Window - 1}) = 0
      BY <3>1, FS_EmptySet
    <3>3. Limit(b[2]) \in Nat
      BY LimitFacts
    <3> QED  BY <3>2, <3>3
  <2> QED  BY <2>1, <2>2, <2>3 DEF Logged
<1> QED  BY <1>2, <1>3, <1>4, <1>5, Thirds

LEMMA FrontStep == FrontInv /\ [Next]_<<storeVars, frontVars>> => FrontInv'
<1> SUFFICES ASSUME FrontInv, [Next]_<<storeVars, frontVars>> PROVE FrontInv'
  OBVIOUS
<1>1. ASSUME NEW t \in Threads, Serve(t) PROVE FrontInv'
  BY <1>1, ServeKeeps
<1>2. ASSUME NEW t \in Threads, Use(t) PROVE FrontInv'
  BY <1>2, UseKeeps
<1>3. ASSUME NEW t \in Threads, Execute(t), UNCHANGED frontVars PROVE FrontInv'
  BY <1>3, ExecuteServes
<1>4. ASSUME NEW i \in Ids, Age(i), UNCHANGED frontVars PROVE FrontInv'
  BY <1>4, AgeServes
<1>5. CASE Tick
  BY <1>5, TickKeeps
<1>6. CASE UNCHANGED <<storeVars, frontVars>>
  <2>1. /\ Requested /\ Logged /\ Scenery /\ StoresInv /\ UNCHANGED storeVars
        /\ UNCHANGED <<scene, proves, requests, buckets, clock, passed, sent>>
        /\ UNCHANGED <<menu, calls>>
    BY <1>6, Thirds DEF storeVars, frontVars
  <2>2. Requested'
    BY <2>1 DEF Requested, Request, Serving, Settled
  <2>3. Logged' /\ Scenery' /\ StoresInv'
    BY <2>1, LoggedKept, StoresKept DEF Scenery
  <2> QED  BY <2>2, <2>3, ThirdsNext
<1> QED  BY <1>1, <1>2, <1>3, <1>4, <1>5, <1>6 DEF Next

-----------------------------------------------------------------------------
(* Theorems.                                                                *)

\* The invariant of the whole way from a request to the statements of the
\* adapters holds in every state that is reached.
THEOREM FrontHolds == Spec => []FrontInv
BY FrontInitial, FrontStep, PTL DEF Spec

\* The indices of the memory adapter agree with its tables (create_user,
\* update_organization, delete_passkey, ...), however calls interleave.
THEOREM IndicesAgree == Spec => []Indexed
<1>1. FrontInv => Indexed
  BY DEF FrontInv, StoresInv
<1> QED  BY <1>1, FrontHolds, PTL

\* An update that lands stays, on every adapter but for the users and accounts of
\* D1, which are written back as they were read.
THEOREM UpdatesLand == Spec => []NothingLost
<1>1. FrontInv => NothingLost
  BY DEF FrontInv, StoresInv
<1> QED  BY <1>1, FrontHolds, PTL

\* What delete_user and its like remove never comes back: not by an upsert that
\* writes back what it read before.
THEOREM DeletedStay == Spec => []NoRevival
<1>1. FrontInv => NoRevival
  BY DEF FrontInv, StoresInv
<1> QED  BY <1>1, FrontHolds, PTL

\* However many threads race to consume a verification or a code
\* (consume_verification, DELETE ... RETURNING), one of them gets it.
THEOREM ConsumedOnce == Spec => []OneTaker
<1>1. FrontInv => OneTaker
  BY DEF FrontInv, StoresInv, OneTaker
<1> QED  BY <1>1, FrontHolds, PTL

\* Nothing stands between a request and its handler but what let it pass: the body
\* limit, CSRF, disabled_paths, and the credential of the user it acts for.
THEOREM AdmittedByRight == Spec => []Admitted
<1>1. FrontInv => Admitted
  BY DEF FrontInv, Admitted, Serving, Settled, NoRequest
<1> QED  BY <1>1, FrontHolds, PTL

\* The sliding window of RateLimitMiddleware keeps what it promises, whatever its
\* limit, its window and the paths that have a limit of their own.
THEOREM LimitKept == Spec => []Limited
<1>1. FrontInv => Limited
  BY DEF FrontInv
<1> QED  BY <1>1, FrontHolds, PTL

-----------------------------------------------------------------------------
(* Deadlocks.  The statements of the memory adapter other than the lookups   *)
(* take their locks in the order of Rank, and who waits for a lock that is   *)
(* held waits for someone who waits for a lock of a higher rank.             *)

\* A place for every lock in the order of the writers.
First == {"users", "sessions", "accounts", "verifications", "organizations",
          "two_factors", "api_keys", "passkey_credential_index",
          "oidc_clients", "oidc_codes", "oidc_access_tokens"}
Second == {"email_index", "slug_index", "passkeys"}
Third == {"username_index", "members"}

Rank(lock) == IF lock \in First THEN 1
              ELSE IF lock \in Second THEN 2
              ELSE IF lock \in Third THEN 3 ELSE 4

\* Every thread is idle, or has got the first few locks of a statement.
Progress ==
  /\ Held \in [Threads -> {Locks!Idle} \cup [takes : Locks!Statements, got : Nat]]
  /\ \A t \in Threads : Held[t].got <= Len(Held[t].takes)

\* What a statement that is no lookup takes, it takes in ascending order.
LEMMA Ascending ==
  ASSUME NEW s \in Locks!Statements \ Locks!Lookups,
         NEW i \in 1..Len(s), NEW j \in 1..Len(s), i < j
  PROVE  Rank(s[i]) < Rank(s[j])
<1>1. CASE s = <<"users", "email_index", "username_index">>
  BY <1>1 DEF Rank, First, Second, Third
<1>2. CASE s = <<"organizations", "slug_index">>
  BY <1>2 DEF Rank, First, Second, Third
<1>3. CASE s = <<"organizations", "slug_index", "members", "invitations">>
  BY <1>3 DEF Rank, First, Second, Third
<1>4. CASE s = <<"passkey_credential_index", "passkeys">>
  BY <1>4 DEF Rank, First, Second, Third
<1>5. CASE Len(s) = 1
  BY <1>5
<1>6. \/ s = <<"users", "email_index", "username_index">>
      \/ s = <<"organizations", "slug_index">>
      \/ s = <<"organizations", "slug_index", "members", "invitations">>
      \/ s = <<"passkey_credential_index", "passkeys">>
      \/ \E lock : s = <<lock>>
  BY DEF Locks!Statements, Locks!Lookups, Locks!Alone, Locks!UserReads, Locks!UserWrites, Locks!UserLookups,
         Locks!SessionLocks, Locks!AccountLocks, Locks!VerificationLocks, Locks!OrganizationReads,
         Locks!OrganizationWrites, Locks!OrganizationLookups, Locks!MemberLocks, Locks!InvitationLocks,
         Locks!TwoFactorLocks, Locks!ApiKeyLocks, Locks!PasskeyWrites, Locks!PasskeyReads, Locks!ClientLocks,
         Locks!CodeLocks, Locks!AccessTokenLocks
<1> QED
  BY <1>1, <1>2, <1>3, <1>4, <1>5, <1>6

LEMMA Ranks == \A lock : Rank(lock) \in 1..4
  BY DEF Rank

LEMMA Lengths == \A s \in Locks!Statements \cup {<<>>} : Len(s) \in Nat
  BY DEF Locks!Statements, Locks!Lookups, Locks!Alone, Locks!UserReads, Locks!UserWrites, Locks!UserLookups,
         Locks!SessionLocks, Locks!AccountLocks, Locks!VerificationLocks, Locks!OrganizationReads,
         Locks!OrganizationWrites, Locks!OrganizationLookups, Locks!MemberLocks, Locks!InvitationLocks,
         Locks!TwoFactorLocks, Locks!ApiKeyLocks, Locks!PasskeyWrites, Locks!PasskeyReads, Locks!ClientLocks,
         Locks!CodeLocks, Locks!AccessTokenLocks

\* Progress is an invariant: a thread takes the locks of its statement one by
\* one, up to the last.
THEOREM ProgressHolds == Locks!Spec => []Progress
<1>1. Locks!Init => Progress
  BY Lengths DEF Locks!Init, Progress, Locks!Idle
<1>2. Progress /\ [Locks!Next]_Held => Progress'
  <2> SUFFICES ASSUME Progress, [Locks!Next]_Held PROVE Progress'
    OBVIOUS
  <2> USE Lengths
  <2>1. ASSUME NEW t \in Threads, Locks!Call(t) PROVE Progress'
    BY <2>1 DEF Progress, Locks!Call, Locks!Idle, Locks!Busy
  <2>2. ASSUME NEW t \in Threads, Locks!Lock(t) PROVE Progress'
    <3>1. Held[t] \in [takes : Locks!Statements, got : Nat]
      BY <2>2 DEF Progress, Locks!Lock, Locks!Waiting, Locks!Busy
    <3> QED
      BY <2>2, <3>1 DEF Progress, Locks!Lock, Locks!Waiting
  <2>3. ASSUME NEW t \in Threads, Locks!Return(t) PROVE Progress'
    BY <2>3 DEF Progress, Locks!Return, Locks!Idle
  <2>4. CASE UNCHANGED Held
    BY <2>4 DEF Progress
  <2> QED
    BY <2>1, <2>2, <2>3, <2>4 DEF Locks!Next
<1> QED
  BY <1>1, <1>2, PTL DEF Locks!Spec

\* A thread that waits and is no lookup has a lock of a lower rank than the one
\* it waits for, whichever of its locks one looks at.
LEMMA WaitsHigher ==
  ASSUME Progress, NEW t \in Threads, Locks!Waiting(t), Held[t].takes \notin Locks!Lookups,
         NEW lock, Locks!Holds(t, lock)
  PROVE  Rank(lock) < Rank(Locks!Wanted(t))
<1> DEFINE s == Held[t].takes
<1>1. s \in Locks!Statements \ Locks!Lookups /\ Held[t].got \in Nat
  BY DEF Progress, Locks!Waiting, Locks!Busy
<1>2. PICK n \in 1..Held[t].got : s[n] = lock
  BY DEF Locks!Holds
<1>3. Len(s) \in Nat
  BY <1>1, Lengths
<1>4. n \in 1..Len(s) /\ Held[t].got + 1 \in 1..Len(s) /\ n < Held[t].got + 1
  BY <1>1, <1>2, <1>3 DEF Locks!Waiting
<1>5. Rank(s[n]) < Rank(s[Held[t].got + 1])
  BY <1>1, <1>4, Ascending
<1> QED
  BY <1>2, <1>5 DEF Locks!Wanted

\* The heart of the argument: in a stuck group without lookups nobody waits for
\* a lock of any rank, as its holder would wait for a higher one.
LEMMA NotStuck ==
  ASSUME Progress, NEW group \in SUBSET Threads, Locks!Stuck(group),
         \A t \in group : Held[t].takes \notin Locks!Lookups
  PROVE  FALSE
<1>1. \A t \in group : \E u \in group : Rank(Locks!Wanted(t)) < Rank(Locks!Wanted(u))
  BY WaitsHigher DEF Locks!Stuck
<1>2. \A t \in group : Rank(Locks!Wanted(t)) \in 1..4
  BY Ranks
<1>3. \A t \in group : Rank(Locks!Wanted(t)) \in 1..3
  BY <1>1, <1>2
<1>4. \A t \in group : Rank(Locks!Wanted(t)) \in 1..2
  BY <1>1, <1>3
<1>5. \A t \in group : Rank(Locks!Wanted(t)) \in 1..1
  BY <1>1, <1>4
<1>6. group = {}
  BY <1>1, <1>5
<1> QED
  BY <1>6 DEF Locks!Stuck

\* Whatever the number of threads, statements that wait for each other for ever
\* have a lookup among them.
THEOREM DeadlocksNeedLookups == Locks!Spec => []Locks!OnlyLookupsBlock
<1>1. Progress => Locks!OnlyLookupsBlock
  BY NotStuck DEF Locks!OnlyLookupsBlock
<1> QED
  BY <1>1, ProgressHolds, PTL

LEMMA HeldProgress ==
  ASSUME Calling, menu \in Menus
  PROVE  Progress
<1>1. ASSUME NEW t \in Threads
      PROVE  /\ Held[t] \in {Locks!Idle} \cup [takes : Locks!Statements, got : Nat]
             /\ Held[t].got <= Len(Held[t].takes)
  <2>1. PICK c : c = calls[t]
    OBVIOUS
  <2>2. c \in Call /\ UnderWay(c) /\ Held[t] = [takes |-> c.takes, got |-> c.got]
    BY <2>1 DEF Calling, Held
  <2>3. c.got \in Nat /\ c.takes \in {<<>>} \cup Locks!Statements /\ c.got <= Len(c.takes)
    <3>1. c.got \in Nat /\ c.takes \in {<<>>} \cup Locks!Statements
      BY <2>2 DEF Call
    <3>2. c.got <= Len(c.takes)
      BY <2>2 DEF UnderWay, Idle
    <3> QED  BY <3>1, <3>2
  <2>4. c.takes = <<>> => c.got = 0
    BY <2>3
  <2> QED  BY <2>2, <2>3, <2>4 DEF Locks!Idle
<1>2. Held \in [Threads -> {Locks!Idle} \cup [takes : Locks!Statements, got : Nat]]
  BY <1>1 DEF Held
<1> QED  BY <1>1, <1>2 DEF Progress

\* Statements of the memory adapter never wait for each other in a circle unless
\* a lookup takes part, get_user_by_email or another that locks the other way
\* round, however many threads call it with whatever hooks.
THEOREM MutexesOrdered == Spec => []OnlyLookupsBlock
<1>1. FrontInv => Progress
  BY HeldProgress, Thirds, Halves DEF Shelved
<1>2. Progress => OnlyLookupsBlock
  BY NotStuck DEF OnlyLookupsBlock, Locks!OnlyLookupsBlock
<1> QED  BY <1>1, <1>2, FrontHolds, PTL
=============================================================================
