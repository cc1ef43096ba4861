-------------------------------- MODULE Stores --------------------------------
(***************************************************************************)
(* The three database adapters, SqlxAdapter (PostgreSQL), D1DatabaseAdapter *)
(* (Workers) and MemoryDatabaseAdapter, and the hooks one may wrap round an *)
(* adapter.  The other modules take a method of an adapter as one step; here *)
(* a method is the statements it executes, and two calls interleave between *)
(* statements and, in memory, between the locks a statement takes.          *)
(*                                                                         *)
(* A behaviour is about one table of one adapter, menu.  A row has the key  *)
(* it is looked up by (an address, a slug, a token, a hash, ...), an owner, *)
(* two further columns, and has expired or not.  One key stands for e-mail  *)
(* and username.  A session is named by its id where the code uses its      *)
(* token, a two-factor row where it uses its user: both are unique.         *)
(***************************************************************************)
EXTENDS Naturals, Sequences, FiniteSets

CONSTANTS
  Threads,   \* who calls the adapter at the same time
  Ids,       \* the rows that can be created
  Keys,      \* the keys of rows
  Owners,    \* the users, or organizations, that own rows
  Hooks,     \* how many hooks a wrapper has
  Menus,     \* the [store, table] to consider
  None

ASSUME StoresAssumption == Hooks \in Nat /\ None \notin Ids \cup Keys

VARIABLES
  menu,      \* the adapter and the table
  rows,      \* the table
  index,     \* in memory: key -> id, for the tables that have an index
  calls,     \* thread -> the method it is executing
  landed,    \* history: each row, as the calls that named its columns wrote it
  gone,      \* history: rows that were deleted
  takers     \* history: how many calls consumed a row

storeVars == <<menu, rows, index, calls, landed, gone, takers>>

\* The mutexes of the memory adapter, held by the statements under way.
Held == [t \in Threads |-> [takes |-> calls[t].takes, got |-> calls[t].got]]
Locks == INSTANCE MemoryLocks WITH calls <- Held

-----------------------------------------------------------------------------
(* Programs: what a method does, statement by statement.                    *)

Under(what, locks) == <<[does |-> what, locks |-> locks]>>
One(what) == Under(what, {<<>>})
Two(what, next) == One(what) \o One(next)

\* PostgreSQL: a statement for each method; RETURNING gives back what it wrote.
SqlUserUpdate_read_then_written == Two("fetch", "rewrite")
SqlUserUpdate == One("set")
SqlUserList == Two("read", "read")
SqlUsers ==
  [create |-> One("insert"), get |-> One("read"), find |-> One("read"),
   update |-> SqlUserUpdate, delete |-> One("delete"), list |-> SqlUserList]
SqlSessions ==
  [create |-> One("insert"), get |-> One("read"), list |-> One("read"),
   touch |-> One("set"), mark |-> One("set"), delete |-> One("delete"),
   clear |-> One("clear"), purge |-> One("purge")]
SqlAccounts ==
  [create |-> One("insert"), find |-> One("read"), list |-> One("read"),
   update |-> One("set"), delete |-> One("delete")]
SqlVerifications ==
  [create |-> One("insert"), find |-> One("read"), consume |-> One("take"),
   delete |-> One("delete"), purge |-> One("purge")]
SqlOrganizations ==
  [create |-> One("insert"), get |-> One("read"), find |-> One("read"),
   update |-> One("set"), delete |-> One("delete"), list |-> One("read")]
SqlMembers ==
  [create |-> One("insert"), get |-> One("read"), find |-> One("read"),
   role |-> One("set"), delete |-> One("delete"), list |-> One("read"),
   count |-> One("read"), disband |-> One("clear")]
SqlInvitations ==
  [create |-> One("insert"), get |-> One("read"), find |-> One("read"),
   settle |-> One("set"), list |-> One("read"), disband |-> One("clear")]
SqlTwoFactors ==
  [create |-> One("insert"), find |-> One("read"), replace |-> One("set"),
   delete |-> One("delete")]
SqlApiKeyUpdate == One("set")
SqlApiKeys ==
  [create |-> One("insert"), get |-> One("read"), find |-> One("read"),
   list |-> One("read"), update |-> SqlApiKeyUpdate, delete |-> One("delete"),
   purge |-> One("purge")]
SqlPasskeys ==
  [create |-> One("insert"), get |-> One("read"), find |-> One("read"),
   list |-> One("read"), counter |-> One("set"), rename |-> One("set"),
   delete |-> One("delete")]
SqlClients == [get |-> One("read")]
SqlCodes ==
  [create |-> One("insert"), consume |-> One("take"), purge |-> One("purge")]
SqlTokens ==
  [create |-> One("insert"), find |-> One("read"), purge |-> One("purge")]

\* D1: what was inserted or updated is read again; users and accounts are read,
\* and then written as they were read, but for what the update names.
D1UserUpdate == Two("fetch", "rewrite") \o One("confirm")
D1UserList == One("read")
D1Users ==
  [create |-> Two("insert", "confirm"), get |-> One("read"),
   find |-> One("read"), update |-> D1UserUpdate, delete |-> One("delete"),
   list |-> D1UserList]
D1Sessions ==
  [create |-> Two("insert", "confirm"), get |-> One("read"),
   list |-> One("read"), touch |-> One("set"), mark |-> Two("set", "confirm"),
   delete |-> One("delete"), clear |-> One("clear"), purge |-> One("purge")]
D1Accounts ==
  [create |-> Two("insert", "confirm"), find |-> One("read"),
   list |-> One("read"), update |-> Two("fetch", "rewrite") \o One("confirm"),
   delete |-> One("delete")]
D1Verifications ==
  [create |-> Two("insert", "confirm"), find |-> One("read"),
   consume |-> One("take"), delete |-> One("delete"), purge |-> One("purge")]
D1Clients == [get |-> One("read")]
D1Codes ==
  [create |-> One("insert"), consume |-> One("take"), purge |-> One("purge")]
D1Tokens ==
  [create |-> One("insert"), find |-> One("read"), purge |-> One("purge")]

\* The Worker adapter has no statements for these tables: every method fails.
Unsupported(table) == [op \in DOMAIN table |-> One("refuse")]
D1Organizations == Unsupported(SqlOrganizations)
D1Members == Unsupported(SqlMembers)
D1Invitations == Unsupported(SqlInvitations)
D1TwoFactors == Unsupported(SqlTwoFactors)
D1ApiKeys == Unsupported(SqlApiKeys)
D1Passkeys == Unsupported(SqlPasskeys)

\* Memory: one statement under the locks of the tables and indices it is about.
MemoryUsers ==
  [create |-> Under("insert", Locks!UserWrites),
   get |-> Under("read", Locks!UserReads),
   find |-> Under("read", Locks!UserLookups),
   update |-> Under("set", Locks!UserWrites),
   delete |-> Under("delete", Locks!UserWrites),
   list |-> Under("read", Locks!UserReads)]
MemorySessions ==
  LET Alone(what) == Under(what, Locks!SessionLocks) IN
  [create |-> Alone("put"), get |-> Alone("read"), list |-> Alone("read"),
   touch |-> Alone("set"), mark |-> Alone("set"), delete |-> Alone("delete"),
   clear |-> Alone("clear"), purge |-> Alone("purge")]
MemoryAccounts ==
  LET Alone(what) == Under(what, Locks!AccountLocks) IN
  [create |-> Alone("insert"), find |-> Alone("read"), list |-> Alone("read"),
   update |-> Alone("set"), delete |-> Alone("delete")]
MemoryVerifications ==
  LET Alone(what) == Under(what, Locks!VerificationLocks) IN
  [create |-> Alone("insert"), find |-> Alone("read"),
   consume |-> Alone("take"), delete |-> Alone("delete"),
   purge |-> Alone("purge")]
MemoryDisband ==
  Under("clear", {s \in Locks!OrganizationWrites : Len(s) = 4})
MemoryOrganizations ==
  LET Pair == {s \in Locks!OrganizationWrites : Len(s) = 2}
      By(lock) == {s \in Locks!OrganizationLookups : s[1] = lock}
  IN [create |-> Under("insert", Pair),
      get |-> Under("read", Locks!OrganizationReads),
      find |-> Under("read", By("slug_index")),
      update |-> Under("set", Pair),
      delete |-> Under("delete", Locks!OrganizationWrites \ Pair),
      list |-> Under("read", By("members"))]
MemoryMembers ==
  LET Alone(what) == Under(what, Locks!MemberLocks) IN
  [create |-> Alone("insert"), get |-> Alone("read"), find |-> Alone("read"),
   role |-> Alone("set"), delete |-> Alone("delete"), list |-> Alone("read"),
   count |-> Alone("read"), disband |-> MemoryDisband]
MemoryInvitations ==
  LET Alone(what) == Under(what, Locks!InvitationLocks) IN
  [create |-> Alone("insert"), get |-> Alone("read"), find |-> Alone("read"),
   settle |-> Alone("set"), list |-> Alone("read"), disband |-> MemoryDisband]
MemoryTwoFactors ==
  LET Alone(what) == Under(what, Locks!TwoFactorLocks) IN
  [create |-> Alone("insert"), find |-> Alone("read"),
   replace |-> Alone("set"), delete |-> Alone("delete")]
MemoryApiKeys ==
  LET Alone(what) == Under(what, Locks!ApiKeyLocks) IN
  [create |-> Alone("insert"), get |-> Alone("read"), find |-> Alone("read"),
   list |-> Alone("read"), update |-> Alone("set"), delete |-> Alone("delete"),
   purge |-> Alone("purge")]
MemoryPasskeys ==
  LET Only(lock) == {<<lock>>} \cap Locks!PasskeyReads
      Table(what) == Under(what, Only("passkeys"))
      Both(what) == Under(what, Locks!PasskeyWrites)
  IN [create |-> Both("insert"), get |-> Table("read"),
      find |-> Under("read", Only("passkey_credential_index")) \o Table("read"),
      list |-> Table("read"), counter |-> Table("set"), rename |-> Table("set"),
      delete |-> Both("delete")]
MemoryClients == [get |-> Under("read", Locks!ClientLocks)]
MemoryCodes ==
  LET Alone(what) == Under(what, Locks!CodeLocks) IN
  [create |-> Alone("put"), consume |-> Alone("take"), purge |-> Alone("purge")]
MemoryTokens ==
  LET Alone(what) == Under(what, Locks!AccessTokenLocks) IN
  [create |-> Alone("put"), find |-> Alone("read"), purge |-> Alone("purge")]

Schema ==
  [sqlx |->
     [users |-> SqlUsers, sessions |-> SqlSessions, accounts |-> SqlAccounts,
      verifications |-> SqlVerifications, organizations |-> SqlOrganizations,
      members |-> SqlMembers, invitations |-> SqlInvitations,
      two_factors |-> SqlTwoFactors, api_keys |-> SqlApiKeys,
      passkeys |-> SqlPasskeys, clients |-> SqlClients, codes |-> SqlCodes,
      tokens |-> SqlTokens],
   d1 |->
     [users |-> D1Users, sessions |-> D1Sessions, accounts |-> D1Accounts,
      verifications |-> D1Verifications, organizations |-> D1Organizations,
      members |-> D1Members, invitations |-> D1Invitations,
      two_factors |-> D1TwoFactors, api_keys |-> D1ApiKeys,
      passkeys |-> D1Passkeys, clients |-> D1Clients, codes |-> D1Codes,
      tokens |-> D1Tokens],
   memory |->
     [users |-> MemoryUsers, sessions |-> MemorySessions,
      accounts |-> MemoryAccounts, verifications |-> MemoryVerifications,
      organizations |-> MemoryOrganizations, members |-> MemoryMembers,
      invitations |-> MemoryInvitations, two_factors |-> MemoryTwoFactors,
      api_keys |-> MemoryApiKeys, passkeys |-> MemoryPasskeys,
      clients |-> MemoryClients,
      codes |-> MemoryCodes, tokens |-> MemoryTokens]]

ASSUME MenusAssumption ==
  Menus \subseteq [store : DOMAIN Schema, table : DOMAIN Schema.sqlx]

Program == Schema[menu.store][menu.table]

\* The tables the hook wrapper announces changes of, and which.  It passes
\* everything else on, and does not have the methods of passkeys, clients,
\* codes and tokens.
HookedUsers == {"create", "update", "delete"}
HookedSessions == {"create", "delete"}
HookedAccounts == {"create", "update", "delete"}
HookedVerifications == {"create", "delete"}
PassedOn == {}
Announced ==
  CASE menu.table = "users" -> HookedUsers
    [] menu.table = "sessions" -> HookedSessions
    [] menu.table = "accounts" -> HookedAccounts
    [] menu.table = "verifications" -> HookedVerifications
    [] OTHER -> PassedOn

\* The column an operation writes.
Columns(op) ==
  IF op \in {"mark", "rename"} THEN {"b"}
  ELSE IF op # "update" THEN {"a"}
  ELSE IF menu.table \in {"users", "organizations"} THEN {"key", "a"}
  ELSE {"a", "b"}

\* The tables in which a key is refused to a second row.
SqlUnique ==
  {"users", "sessions", "accounts", "organizations", "members", "two_factors",
   "api_keys", "passkeys", "codes", "tokens"}
D1Unique == {"users", "sessions", "accounts", "verifications", "codes", "tokens"}
MemoryUnique ==
  {"users", "organizations", "members", "two_factors", "api_keys", "passkeys"}
Unique ==
  menu.table \in CASE menu.store = "sqlx" -> SqlUnique
                   [] menu.store = "d1" -> D1Unique
                   [] menu.store = "memory" -> MemoryUnique

\* In memory, the tables that have an index.
Indexing ==
  menu.store = "memory" /\ menu.table \in {"users", "organizations", "passkeys"}

Live == {i \in Ids : rows[i] # None}
With(key) == {i \in Live : rows[i].key = key}
Taken(key) == IF Indexing THEN index[key] # None ELSE With(key) # {}

\* May row i change its key?  In memory a user takes an address from another.
Free(i, key) ==
  \/ key = rows[i].key
  \/ ~Taken(key)
  \/ menu.store = "memory" /\ menu.table = "users"

Row == [key : Keys, owner : Owners, a : 0..1, b : 0..1, ripe : BOOLEAN]
ASSUME NoneAssumption == None \notin Row
NewRow(c) == [key |-> c.key, owner |-> c.owner, a |-> 0, b |-> 0, ripe |-> FALSE]

\* What an update writes over a row: the column it names.
Updated(row, c) ==
  [row EXCEPT ![c.column] = IF c.column = "key" THEN c.key ELSE 1,
              !.ripe = IF c.op = "touch" THEN FALSE ELSE @]

\* Rows a consuming statement may return; D1 does not look at the expiry of a
\* verification.
Consumable(key) ==
  {i \in With(key) : rows[i].ripe => menu.store = "d1" /\ menu.table = "verifications"}

Dropped(is) == [i \in Ids |-> IF i \in is THEN None ELSE rows[i]]
Unindexed_forgotten(i) == index
Unindexed(i) == IF Indexing THEN [index EXCEPT ![rows[i].key] = None] ELSE index
Reindexed(i, key) ==
  IF Indexing
  THEN [k \in Keys |-> IF k = key THEN i
                       ELSE IF k = rows[i].key THEN None ELSE index[k]]
  ELSE index

-----------------------------------------------------------------------------
(* Calls.                                                                   *)

\* A call is idle, before or after its statements (where the hooks run, n
\* counts them) or at statement n, of whose locks it has got some; seen is the
\* row it fetched.
Idle ==
  [stage |-> "idle", op |-> None, id |-> None, key |-> None, owner |-> None,
   column |-> None, hooks |-> 0, n |-> 0, takes |-> <<>>, got |-> 0, seen |-> None]

Quiet(t) == calls[t] = Idle
Set(t, c) == calls' = [calls EXCEPT ![t] = c]
Abort(t) == Set(t, Idle)

\* Call c of t goes on to its statement n.
Enter(t, c, n) ==
  \E s \in Program[c.op][n].locks :
    Set(t, [c EXCEPT !.stage = "run", !.n = n, !.takes = s, !.got = 0])

\* t has all it needs to execute a statement of this kind.
At(t, what) ==
  /\ calls[t].stage = "run"
  /\ calls[t].got = Len(calls[t].takes)
  /\ Program[calls[t].op][calls[t].n].does = what

\* Statement n of c has succeeded: the next one, the hooks, or the end.
Goes(t, c) ==
  IF c.n < Len(Program[c.op]) THEN Enter(t, c, c.n + 1)
  ELSE IF c.hooks > 0
  THEN Set(t, [c EXCEPT !.stage = "after", !.n = 1, !.takes = <<>>, !.got = 0])
  ELSE Abort(t)
Succeed(t) == Goes(t, calls[t])

TablesKept == UNCHANGED <<menu, rows, index, landed, gone, takers>>

\* What the statements of op need to be given.
Steps(op) == {Program[op][n].does : n \in 1..Len(Program[op])}
Given(set, op, kinds) == IF Steps(op) \cap kinds # {} THEN set ELSE {None}
Named(op) == Given(Columns(op), op, {"set", "fetch"})
Keyed(op) ==
  {"insert", "put", "take"} \cup IF "key" \in Named(op) THEN {"set", "fetch"} ELSE {}

Asked(op, hooks, i, k, o, c) ==
  [Idle EXCEPT !.op = op, !.hooks = hooks, !.id = i, !.key = k, !.owner = o, !.column = c]

\* t calls a method of the adapter, or of the wrapper, for a row that exists or
\* existed.
Ask(t) ==
  /\ Quiet(t)
  /\ \E op \in DOMAIN Program :
     \E hooks \in {0} \cup (IF op \in Announced THEN {Hooks} ELSE {}),
        i \in Given(Live \cup gone, op, {"set", "fetch", "delete"}),
        k \in Given(Keys, op, Keyed(op)),
        o \in Given(Owners, op, {"insert", "put", "clear"}), c \in Named(op) :
       LET call == Asked(op, hooks, i, k, o, c) IN
       IF hooks = 0 THEN Enter(t, call, 1)
       ELSE Set(t, [call EXCEPT !.stage = "before", !.n = 1])
  /\ TablesKept

\* A hook is told of the call first.  It may change what is going to be
\* written, or veto the call.
HookAccepts(t) ==
  LET c == calls[t] IN
  /\ c.stage = "before"
  /\ \E k \in {c.key} \cup (IF c.key \in Keys THEN Keys ELSE {}) :
       LET d == [c EXCEPT !.key = k] IN
       IF c.n < c.hooks THEN Set(t, [d EXCEPT !.n = @ + 1]) ELSE Enter(t, d, 1)
  /\ TablesKept

HookVetoes(t) == calls[t].stage = "before" /\ Abort(t) /\ TablesKept

\* A hook is told of what was written; when one fails, the caller is told the
\* call failed and the rest of the hooks nothing.
HookTold(t) ==
  LET c == calls[t] IN
  /\ c.stage = "after"
  /\ \/ Abort(t)
     \/ c.n < c.hooks /\ Set(t, [c EXCEPT !.n = @ + 1])
  /\ TablesKept

\* In memory: t gets the next lock of its statement.
Lock(t) ==
  LET c == calls[t] IN
  /\ Locks!Waiting(t)
  /\ \A u \in Threads : ~Locks!Holds(u, Locks!Wanted(t))
  /\ Set(t, [c EXCEPT !.got = @ + 1])
  /\ TablesKept

\* Statements.  Each ends the call when it fails.
Store(i, row) ==
  /\ rows' = [rows EXCEPT ![i] = row]
  /\ landed' = [landed EXCEPT ![i] = row]

Insert(t) ==
  LET c == calls[t] IN
  /\ At(t, "insert")
  /\ \/ /\ Unique /\ Taken(c.key)
        /\ Abort(t) /\ UNCHANGED <<rows, index, landed>>
     \/ /\ ~(Unique /\ Taken(c.key))
        /\ \E i \in Ids \ (Live \cup gone) :
             /\ Store(i, NewRow(c))
             /\ index' = IF Indexing THEN [index EXCEPT ![c.key] = i] ELSE index
             /\ Goes(t, [c EXCEPT !.id = i])
  /\ UNCHANGED <<menu, gone, takers>>

\* The maps of sessions, codes and tokens are from key to row.
Put(t) ==
  LET c == calls[t] IN
  /\ At(t, "put")
  /\ \E i \in Ids \ (Live \cup gone) :
       /\ rows' = [Dropped(With(c.key)) EXCEPT ![i] = NewRow(c)]
       /\ landed' = [landed EXCEPT ![i] = NewRow(c)]
  /\ gone' = gone \cup With(c.key)
  /\ Succeed(t)
  /\ UNCHANGED <<menu, index, takers>>

Read(t) == At(t, "read") /\ Succeed(t) /\ TablesKept

Refuse(t) == At(t, "refuse") /\ Abort(t) /\ TablesKept

\* The row is there, and the key it is to have is free.
Alterable(c) ==
  c.id \in Live /\ (c.column = "key" /\ Unique => Free(c.id, c.key))

Alter(t) ==
  LET c == calls[t] IN
  /\ At(t, "set")
  /\ \/ /\ ~Alterable(c)
        /\ Abort(t) /\ UNCHANGED <<rows, index, landed>>
     \/ /\ Alterable(c)
        /\ rows' = [rows EXCEPT ![c.id] = Updated(@, c)]
        /\ landed' = [landed EXCEPT ![c.id] = Updated(@, c)]
        /\ index' = IF c.column = "key" THEN Reindexed(c.id, c.key) ELSE index
        /\ Succeed(t)
  /\ UNCHANGED <<menu, gone, takers>>

\* D1: the row is read, ...
Fetch(t) ==
  LET c == calls[t] IN
  /\ At(t, "fetch")
  /\ IF c.id \in Live THEN Goes(t, [c EXCEPT !.seen = rows[c.id]]) ELSE Abort(t)
  /\ TablesKept

\* ... and, if it is still there, written with every column as it was read but
\* the ones the update names.
Rewritable_upsert(c) == TRUE
Rewritable(c) == c.id \in Live
Rewrite(t) ==
  LET c == calls[t] IN
  /\ At(t, "rewrite")
  /\ LET row == Updated(c.seen, c) IN
     \/ /\ \E i \in With(row.key) : i # c.id
        /\ Abort(t) /\ UNCHANGED <<rows, landed>>
     \/ /\ \A i \in With(row.key) : i = c.id
        /\ IF Rewritable(c)
           THEN /\ rows' = [rows EXCEPT ![c.id] = row]
                /\ landed' = [landed EXCEPT ![c.id] = Updated(@, c)]
           ELSE UNCHANGED <<rows, landed>>
        /\ Goes(t, [c EXCEPT !.seen = None])
  /\ UNCHANGED <<menu, index, gone, takers>>

\* The row is read again; without it the call fails.
Confirm(t) ==
  /\ At(t, "confirm")
  /\ IF calls[t].id \in Live THEN Succeed(t) ELSE Abort(t)
  /\ TablesKept

\* The rows is leave the table.
Remove(is) ==
  /\ rows' = Dropped(is)
  /\ gone' = gone \cup is

Delete(t) ==
  LET c == calls[t] IN
  /\ At(t, "delete")
  /\ Remove({c.id} \cap Live)
  /\ index' = IF c.id \in Live THEN Unindexed(c.id) ELSE index
  /\ Succeed(t)
  /\ UNCHANGED <<menu, landed, takers>>

Clear(t) ==
  /\ At(t, "clear")
  /\ Remove({i \in Live : rows[i].owner = calls[t].owner})
  /\ Succeed(t)
  /\ UNCHANGED <<menu, index, landed, takers>>

\* A row is deleted and returned in one statement.
Withdrawn_selected(i) == {}
Withdrawn(i) == {i}
Take(t) ==
  LET c == calls[t] IN
  /\ At(t, "take")
  /\ IF Consumable(c.key) = {} THEN UNCHANGED <<rows, gone, takers>>
     ELSE \E i \in Consumable(c.key) :
            /\ Remove(Withdrawn(i))
            /\ takers' = [takers EXCEPT ![i] = @ + 1]
  /\ Succeed(t)
  /\ UNCHANGED <<menu, index, landed>>

Purge(t) ==
  /\ At(t, "purge")
  /\ Remove({i \in Live : rows[i].ripe})
  /\ Succeed(t)
  /\ UNCHANGED <<menu, index, landed, takers>>

Execute(t) ==
  \/ Lock(t) \/ Insert(t) \/ Put(t) \/ Read(t) \/ Refuse(t) \/ Alter(t)
  \/ Fetch(t) \/ Rewrite(t) \/ Confirm(t) \/ Delete(t) \/ Clear(t)
  \/ Take(t) \/ Purge(t) \/ HookAccepts(t) \/ HookVetoes(t) \/ HookTold(t)

\* A row that can expire does.
Age(i) ==
  /\ "purge" \in DOMAIN Program
  /\ i \in Live /\ ~rows[i].ripe
  /\ rows' = [rows EXCEPT ![i].ripe = TRUE]
  /\ landed' = [landed EXCEPT ![i].ripe = TRUE]
  /\ UNCHANGED <<menu, index, calls, gone, takers>>

\* The table has the rows of start.
StoresInit(start) ==
  /\ menu \in Menus
  /\ rows = start
  /\ index = [k \in Keys |->
                LET is == With(k) IN
                IF Indexing /\ is # {} THEN CHOOSE i \in is : TRUE ELSE None]
  /\ calls = [t \in Threads |-> Idle]
  /\ landed = start
  /\ gone = {}
  /\ takers = [i \in Ids |-> 0]

-----------------------------------------------------------------------------
(* Properties.                                                              *)

Call ==
  [stage : {"idle", "before", "run", "after"},
   op : DOMAIN Program \cup {None}, id : Ids \cup {None},
   key : Keys \cup {None}, owner : Owners \cup {None},
   column : {"key", "a", "b", None}, hooks : 0..Hooks, n : 0 .. Hooks + 3,
   takes : {<<>>} \cup Locks!Statements, got : 0..4, seen : Row \cup {None}]

StoresTypeOK ==
  /\ menu \in Menus
  /\ rows \in [Ids -> Row \cup {None}] /\ landed \in [Ids -> Row \cup {None}]
  /\ index \in [Keys -> Ids \cup {None}]
  /\ calls \in [Threads -> Call]
  /\ gone \subseteq Ids
  /\ takers \in [Ids -> Nat]

\* The indices of the memory adapter never lead to a row that is not there or
\* has another key, and lead to every organization and passkey.  (Not to every
\* user: update_user takes the entry of an address from whoever has it.)
Indexed ==
  /\ StoresTypeOK
  /\ \A k \in Keys : index[k] # None => index[k] \in With(k)
  /\ Indexing /\ menu.table # "users" => \A i \in Live : index[rows[i].key] = i

\* A statement writes the columns its call names and no others: however updates
\* of a row cross, each column is as the last call that named it left it.  Not
\* so users and accounts on D1, where an update writes back what it has read of
\* the others.
NothingLost ==
  menu.store # "d1" \/ menu.table \notin {"users", "accounts"} =>
    \A i \in Live : rows[i] = landed[i]

\* A row that was deleted stays deleted, whoever had read it and writes it back.
NoRevival == Live \cap gone = {}

\* However many calls race for a verification or a code, one gets it.
OneTaker == \A i \in Ids : takers[i] <= 1

\* Statements of the memory adapter never wait for each other in a circle
\* unless one of the lookups takes part that lock an index, or the members,
\* before the table.
OnlyLookupsBlock == Locks!OnlyLookupsBlock

-----------------------------------------------------------------------------
(* What they rest on.                                                       *)

\* A call carries what the statements of its method need.
Carries(c) ==
  \A n \in 1..Len(Program[c.op]) :
    LET does == Program[c.op][n].does IN
    /\ does \in {"insert", "put", "take"} => c.key \in Keys
    /\ does \in {"insert", "put", "clear"} => c.owner \in Owners
    /\ does \in {"set", "fetch"} => /\ c.column \in {"key", "a", "b"}
                                    /\ c.column = "key" => c.key \in Keys

\* A call that is not idle is at a hook, or has got some of the locks of one of
\* its statements, and has read the row it is to write back.
UnderWay(c) ==
  \/ c = Idle
  \/ /\ c.op \in DOMAIN Program /\ Carries(c)
     /\ \/ /\ c.stage \in {"before", "after"} /\ c.n \in 1..c.hooks
           /\ c.takes = <<>> /\ c.got = 0
        \/ /\ c.stage = "run" /\ c.n \in 1..Len(Program[c.op])
           /\ c.takes \in Program[c.op][c.n].locks /\ c.got <= Len(c.takes)
           /\ Program[c.op][c.n].does = "rewrite" => c.seen \in Row

\* The inductive invariant of an adapter: a row is consumed as it is deleted.
StoresInv ==
  /\ StoresTypeOK
  /\ \A t \in Threads : UnderWay(calls[t])
  /\ Indexed
  /\ ~Indexing => index = [k \in Keys |-> None]
  /\ NothingLost
  /\ \A i \in Live : landed[i] # None
  /\ NoRevival
  /\ \A i \in Ids : takers[i] = 0 \/ (takers[i] = 1 /\ i \in gone)
=============================================================================
