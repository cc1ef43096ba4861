# better-auth-rs: TLA+ models, checks and proofs

This directory is a formal model of better-auth-rs, an authentication
framework: a core library (sessions, adapters, hooks, middleware), a plugin for
each feature, an Axum front end, and a Cloudflare Worker front end with a D1
adapter. Every definition is translated from the Rust source, and `PROJECT.json`
maps each one to its lines. Where a definition stands for code that is much
longer than it, the lines it names include the detail it leaves out: the SQL
text, the conversions, the wording of answers.

## Inventory

| Component | State it keeps | Operations | Talks to | What is hard |
|---|---|---|---|---|
| Sessions (`core/session.rs`, `session_management.rs`, `plugin.rs`) | the sessions table, the clock | create, get with refresh and best-effort purge, sign-out, list, revoke one, all or others, sweep | adapters; every plugin through `require_session` | every database call is an await, and rows read before it are used after it; a refresh can cross a revocation; the expiry is drawn in four places |
| OIDC provider (`plugins/oidc_provider`, `core/oidc`) | codes, access tokens, clients | authorize, token, userinfo, JWKS, discovery | sessions, users, signer | a code is used once whoever races for it; a request the token endpoint rejects must not burn it |
| E-mail and password, password management | users, password hash in the metadata, links | sign-up, sign-in, forget, reset, set, change | sessions, verifications, mailer | a link used twice; sessions that survive a change |
| E-mail verification, user management, core endpoints | links, users | send, verify, change address, delete account | sessions, mailer | several statements without a transaction; two sets of endpoints for one path |
| Two-factor authentication | secret, backup codes, pending verifications | enable, disable, verify, regenerate | verifications, sessions | codes read, matched and written back; a flag and a row |
| Passkeys | challenges, credentials | register, authenticate, delete | verifications, sessions | a challenge presented twice |
| API keys | key rows; limiters in the process | create, verify, update, delete, sweep | users, request hook | counters read before an await and written after it |
| Organizations | organizations, members, invitations | create, invite, accept, change roles, leave | sessions (active organization) | the last owner, limits, invitations accepted twice |
| Device authorization | rows for a code | request, poll, approve, deny | sessions | polls race decisions and the expiry |
| OAuth sign-in, account management | states, accounts | redirect, callback, link, unlink, refresh | verifications, providers | one-time states; accounts looked up and then linked |
| Administration | roles, bans, impersonations | ban, impersonate, remove, set role or password | sessions, users, accounts | what a removal leaves behind; a ban that crosses a sign-in |
| Adapters: memory, SQLx, D1 | the tables; in memory a mutex for each table and index | every statement | all of the above | nested mutexes; methods that are several statements; what differs between adapters |
| Hooked adapter (`core/hooks.rs`) | none | hooks before and after a write | adapters | a hook that vetoes, or fails after the write |
| Middleware | request times per client and path | rate limit, CSRF, CORS, body limit | dispatcher | the edge of the window; order |
| Dispatcher (`src/core/auth.rs`, `handlers/axum.rs`), Worker entry | none | middleware, hooks, core endpoints, plugins | all plugins | four ways in, each with other checks |
| Configuration, types, signing, discovery, macros, cache, legacy crate | configuration | conversions, I/O, generated code | | not modelled, see the end |

Requests interact through the database only: a request is a task of the
runtime, each database call an await at which other tasks run, and there are no
transactions. That is the common shape of the component modules: `reqs` holds
for each task where it is (`pc`) and what it has read so far, the tables are
functions from ids to rows or `None`, an action is one statement with the
synchronous code up to the next await, and history variables, marked so,
remember what properties need. Nothing is atomic that the code does in two
statements. What a request read before an await stays in its record, so that a
stale read is a stale read in the model.

## The modules

| Module | Models | Abstracted |
|---|---|---|
| `SessionLife` | the promise of the session layer, without database, clock or refresh: a token is issued once, ended once, and a request that asks after its token ended is not granted | |
| `Sessions` | `SessionManager`, `require_session`, the session endpoints and statements, account deletion | one session is a token, an owner, an expiry and a last update |
| `SessionsProofs` | proofs about `Sessions` | |
| `OidcProvider`, `OidcProofs` | `/authorize`, `/token`, `/userinfo` over the ports of `oidc/store.rs`; proofs | hashes are opaque, signing succeeds or fails |
| `ApiKeys`, `ApiKeysProofs` | every endpoint, `validate_api_key`, the cached limiters and the throttled clean-up; proofs | permissions; key generation |
| `Organizations`, `OrganizationsProofs` | every endpoint that writes, the RBAC of the three default roles, unique and foreign keys; proofs | e-mails are users; custom roles, names, logos |
| `DeviceFlow`, `DeviceProofs` | the four endpoints over the verification store; proofs | a code is the device code and the user code together; client and scope |
| `Accounts`, `AccountsProofs` | e-mail and password, password management, e-mail verification, user management, the core endpoints that shadow it; proofs of `Accounts` and `Factors` | names, hashing, linked OAuth accounts; `require_session` is one step |
| `Factors` | two-factor authentication and passkeys | a TOTP code is its secret; a row that expires goes; users stay; counters |
| `Directory` | the users, accounts and sessions tables with their keys | names, profile |
| `OAuth` | sign-in, link, callback, refresh, unlink (`EXTENDS Directory`) | provider external; PKCE, scopes, token encryption |
| `Admin` | the admin endpoints that write (`EXTENDS Directory`) | listings, reasons and expiry of bans |
| `Identity`, `IdentityProofs` | composes `OAuth` and `Admin` on one directory; proofs | |
| `MemoryLocks` | the mutexes each statement of the memory adapter takes, in its order | |
| `Stores` | the statements each method of the three adapters executes, the hooks of a wrapper, and in memory the mutexes (`INSTANCE MemoryLocks`) | rows have a key, an owner and two columns |
| `Front` | the Axum router, `handle_request` with the four middlewares and the API-key hook, the routers of `AxumPlugin`s and the Worker entry, over `Stores` (`EXTENDS Stores`) | headers, formats, what handlers do beyond one call |

`MC*` modules give the constants values for TLC. An operator `X_y` that stands
before `X` is a plausible bug in `X`; `PROJECT.json` lists for each property of
each passing run one such bug that the run finds.

Composition. `Identity` puts two plugins on the same tables, `Accounts` four
plugins and the core endpoints, `Factors` two. `Front` puts the way of a request
on top of the adapters. The component modules take a method of an adapter as
one atomic step; `Stores` is where that is opened up. For SQLx the step is one
statement. In memory it holds one lock throughout, or the locks `MemoryLocks`
describes. On D1 an update of a user or an account is not one step (see
`NothingLost`), so what the runs of `Accounts` and `Identity` show is about SQLx
and, where the text says so, memory.

Where code and model differ in a way a reader may trip over:

- `Organizations`: requests start from databases that calls of the API lead to
  (`Starts`), each with the calls clients then make. Ids are drawn by `CHOOSE`
  where they cannot be told apart.
- `DeviceFlow`: an expired row is invisible to every statement that checks the
  expiry, so the sweep is left out. `Adapter = "d1"` drops that check, as the
  code does.
- `Accounts`: `CoreFirst` says whether requests come through
  `BetterAuth::handle_request`, whose core endpoints shadow those of the plugin,
  or through a router that mounts the plugin's endpoints.
- `Identity`: nothing at sign-in reads `banned`, and `allow_different_emails` is
  read by no code; the model follows. `Constraints` is FALSE for the memory
  adapter, which has neither foreign keys nor a unique provider identity.
- `Stores`: one key stands for e-mail and username. Handlers call the adapter
  unhooked: `HookedDatabaseAdapter` lacks the operations of passkeys, clients,
  codes and tokens, hence it is no `DatabaseAdapter`, although
  `AuthBuilder::build` (`src/src/core/auth.rs:180`) tells users to pass one to `database`. The
  application may still call a wrapper itself, which the scene without requests
  does.
- `Front`: reading a user, one statement in the code, is part of the step that
  needs it. `run_after` only adds headers. A request counts against the rate
  limit even if CSRF or CORS answers it. The path that is counted, and looked up
  among the overrides, is the one that was sent, while the disabled paths are
  compared without `base_path`.

## Runs

Twelve runs, one for each question. "States" are distinct states, with the
symmetry the configuration names.

| Run | Instance | States | Shows |
|---|---|---|---|
| `sessions_races` | 2 users, 2 tokens, 2 tasks that sign in, revoke one, revoke others, delete the account; lifetime 1, refresh always, clock to 2 | 2.1 M | types; what a revocation answered for is gone (`RevokedMeansGone`); a deleted user's session admits nobody (`DeletedUserStaysOut`); a session nobody refreshed runs out (`IdleTimeout`); `Sessions` implements `SessionLife` (`KeepsPromise`); nobody ends another's good session (`OwnerOnly`) |
| `sessions_live` | 1 user, 2 tokens, 2 tasks; sign-in, sign-out and the manager's revocations; every statement may fail; update age 1; the SQLx sweep | 0.49 M | every request is answered (`Answered`) |
| `oidc_codes` | a public and a confidential client, 2 codes, 2 access tokens, 2 tasks, lifetimes 1 | 0.70 M | one token response for a code; only its holder gets it; what was authorized and no more; userinfo within lifetime and scope; a failed client authentication burns no code |
| `apikeys_race` | 2 users, a key, 2 tasks; keys that run out of time, of uses, or are limited; clock to 2, window 3, at most 5 passes of a limiter | 1.45 M | `Consistent` (quota never stored below zero, a verification that begins after the deletion fails), `StaysDeleted`, `BurstBounded` |
| `apikeys_quota` | 1 key, 2 tasks | to the violation | `QuotaHolds` is violated, finding 1 |
| `orgs_races` | 4 users, 2 organizations, 4 members, 3 invitations, 2 tasks, 4 databases, limits 2, 2 and 1; joining and settling may fail | 2.97 M | `Consistent` (members once, slugs once, active organizations joined), `LimitsHold`, `SeatsByRight` |
| `orgs_owners` | two owners, 2 tasks | to the violation | `OwnerRemains` is violated, finding 2 |
| `device_codes` | 1 code, 1 user, 3 tasks, at most 3 rows, lifetime 2, interval 1, clock to 2; statements fail; the user may go | 1.68 M | `OneTokenPerApproval`, `DecisionFinal`, `Consistent` (decisions outlast crossing polls) |
| `accounts_flow` | 2 users, addresses, tokens, links and tasks; three sets of endpoints; SQLx; deletes and revocations may fail | 1.85 M | `Consistent` (an index that agrees, marks only for proven addresses), `DeadLinks`, `OldSessionsEnd`, `DeletionConfirmed` |
| `factors_flow` | 2 of everything, 3 challenges, 4 codes in batches of 2, four sets of endpoints; clearing up may fail | 4.25 M | `Consistent` (a challenge leads one request on), `BothFactors`, `SpentFactors` |
| `identity_flow` | an administrator, a user, room for one more; a trusted and another provider, 2 subjects, 2 states, 4 tokens, 4 accounts, 2 tasks; seven sets of endpoints | 3.36 M | `Consistent` (tokens act for their account), `TrustedLinks`, `EndedStay`, `FullyRemoved`, `StateOnce` |
| `front_requests` | 39 pairs of adapter and table, 2 threads, 2 rows, 2 keys, 2 hooks; and five scenes of 2 to 4 requests over the users table of each adapter, limit 2 (1 where overridden) in a window of 2, clock to 3 in the scene about the limit | 2.40 M | `Indexed`, `NothingLost`, `NoRevival`, `OneTaker`, `OnlyLookupsBlock`, `Admitted`, `Limited` |

Why the bounds are enough. Every race here is between two tasks over one row:
one reads, the other writes, the first acts. So two tasks, two owners and two
rows of a kind let each race happen in both orders, on the same row and on
different ones; where a third party matters (a poll that races a decision and
another poll) there are three tasks. Each instance gives a task time to finish
and another to start after it, with fresh ids left, which the properties about
"afterwards" need. Lifetimes and windows are 1 or 2 ticks, so that the clock
stands before, at and after each expiry. Limits of the model are constants
with the comment "bound": `MaxTime`, `MaxPasses`, `MaxRows`, `scene.requests`
and `scene.time`, and the sets of ids. Menus and starts split what would be
too large an instance into sets of operations that touch the same rows; two
operations that share no menu do not cross in that run.

Deadlock checking is off in `device_codes`, `accounts_flow`, `factors_flow`,
`identity_flow` and `front_requests`. In the first four the ids or the links
run out. In the last, scenes end when their requests are spent, and the memory
adapter really can deadlock: `get_user_by_email` locks the index and then the
users, `create_user` the users and then the index. `OnlyLookupsBlock`, and its
proof, say which statements any such deadlock needs.

Fairness. Only `sessions_live` assumes any: weak fairness of the steps of each
task, and of nothing else. The runtime polls every task that can go on, and a
statement returns, with an error if need be; that is what the code relies on. No
client has to ask, no sweep to run, and the clock need not advance.

## Properties that need a word

- `OwnerOnly` lets a task delete a session it has read as expired, even if its
  owner's request refreshed it in between. That happens: the purge in
  `get_session` is by token and not conditional.
- `RevokedMeansGone`, `OldSessionsEnd`, `EndedStay` speak of the sessions there
  were when the request began. A sign-in that had checked the old password, or
  the ban, before may insert its session afterwards.
- `OneTokenPerApproval` counts approvals. Two approvals of one code, both under
  way at once, give two exchanges.
- `BurstBounded`: the limiter is a token bucket whose cells come back one a
  period. A window holds a burst and a pass for each period begun in it: with
  the period rounded down (`Window \div max`), that can be more than twice the
  maximum. The limit named in the configuration is not a limit for each window.
- `LimitsHold`: the limits are read before they are used up, so that n requests
  at once exceed them by up to n - 1.
- `BothFactors`: crossing enabling and disabling may leave the flag without a
  row; a sign-in obeys the flag. A backup code can be used by two requests at
  once (`two_factor.rs:493`), so no property says otherwise.
- `Consistent` of `Accounts` says that what is verified was proven, which needs a
  router that does not shadow `/update-user` and no `update_without_verification`:
  with it, an address that is changed at once between the lookup and the mark of
  a verification is marked in its place (TLC shows it with `ConfirmEmail` FALSE).
- `DeletionConfirmed` holds for the plugin's router; through `handle_request`
  the core endpoint deletes at once whatever `require_verification` says.
- `DeadLinks` and `Consistent` of `DeviceFlow` are about SQLx and memory: D1's
  lookups of verifications do not read `expires_at`. The half of `DeadLinks` about
  links that were answered for holds on D1 too (`SpentLinksDead`).
- `FullyRemoved` needs the foreign keys; TLC refutes it with `Constraints`
  FALSE, that is, for the memory adapter.
- `NothingLost` leaves out users and accounts on D1, whose updates write back
  every column they read: a lost update, which the property would find.
- `Indexed` does not say that every user is found by address: in memory an
  update takes an address over from the user who has it.
- `Admitted` asks for the checks of the middleware only where there is one: the
  router of an `AxumPlugin` and `handle_worker_plugin_request` run none, and
  know no disabled paths. By every way, the row written is the one of the user
  the request's own credential proves.
- `Limited` counts each spelling of a path apart, as the code does.

## Findings

1. `apikeys_quota`. `validate_api_key` writes `remaining - 1` computed from the
   row it read before the await (`api_key/mod.rs:669`). Two verifications of a
   key with one use left both succeed, though api-key.mdx:62 describes
   `remaining` as "Usage quota (decremented on each use...)".
2. `orgs_owners`. The last owner is protected by a count in one statement and a
   write in the next (`org.rs:273`, `member.rs:147`). Two owners who leave,
   remove or demote each other at once leave none, though the code answers
   "Cannot leave organization as the last owner".

## Proofs

Each theorem holds for every value of the constants that satisfies the named
assumptions of its module. Those give the constants their kind, or say what
databases requests start from (`StartsAssumption`: everybody a member once, and
no more over the limits than races lead to; `IdentityAssumption`: users with an
address each and a password), and TLC evaluates them on the runs. In each module
the argument is the one a programmer would give: an invariant (`IInv`, `KInv`,
`FrontInv`, `DeviceInv`, ...) that says for each place of a task what the
statements before it have established, in a form that no statement of another
task undoes, and what the tables have in common with that. TLC has checked each
of these invariants on the instance of the run before it was proved.

`SessionsProofs`. `Invariance` proves `IInv` inductive, action by action. It
adds to the properties what each place of a task has established (`Placed`:
which row it holds, that a token about to be inserted is new), that no two
sign-ins hold one new token (`DrawnOnce`), and how far a revocation has got
(`OnItsWay`: whatever of its user's sessions is still there is still on its
list). Without the last, `RevokedMeansGone` is not inductive: a revocation half
way has deleted some rows, and only the list says which are left. `DrawnOnce`
keeps a token that was revoked from being inserted by another task, and `Placed`
bounds the expiry a refresh is about to write, which `IdleTimeout` needs.
`TypeCorrect`, `RevocationHolds` and `TimeoutHolds` follow. `Knowledge` proves a
second invariant, `KInv`, of what tasks know: since a task began no user has
been added to those it started with and no ended token has come back
(`Remembers`), and a token it has looked up belongs to the owner it read, if it
is still there (`Learnt`). `DeletedStayOut` and `OwnersDecide` rest on it.
`Refinement` proves `KeepsPromise`: every step of `Sessions` is a step of
`SessionLife` or leaves its variables alone, under the mapping the run uses.

`OidcProofs`. `IInv` is types, `Placed`, `SpentApart` (two tasks past the
consumption of a code redeem different codes), `TablesAgree` (rows are what was
authorized, responses are for codes that are gone) and `SingleUse`. `SingleUse`
alone is not inductive: two tasks about to mint for one code would break it, and
`SpentApart` rules them out because consuming is one statement. From it follow
`CodeUsedOnce`, `GrantsHonoured`, `OnlyHolders`, `InfoIsAuthorized` and
`ClientsOnlySpend`.

`FrontProofs`. For any number of threads, rows, keys and hooks, and any scenes
of well-formed requests. Lemmas about the tables of programs come first: which
statements the methods of each adapter consist of and which locks those take,
checked for every entry of every table. `StoresInv` adds to the properties that
a call carries what its statements need and that a row is consumed by the
statement that deletes it. `FrontInv` adds what has been settled about a request
stage by stage (`Settled`: the checks its entrance makes, whom its credential
proves), that the call it makes is on that user's row (`Serving`), and that the
limiter forgets no request of the last window (`Counted`). `IndicesAgree`,
`UpdatesLand` (which leaves out D1, as `NothingLost` does), `DeletedStay`,
`ConsumedOnce`, `AdmittedByRight` and `LimitKept` follow.

Its last part is about deadlock. Locks get ranks (`Rank`, at most 4), and every
statement but the lookups takes its locks in ascending rank (`Ascending`), so a
waiting thread waits for a lock of higher rank than those it holds
(`WaitsHigher`). In a circle without lookups each thread waits for one that
waits for something still higher, and four ranks are soon used up (`NotStuck`).
Hence `DeadlocksNeedLookups`, about the statements of `MemoryLocks` whoever calls
them (`ProgressHolds` is its invariant), and `MutexesOrdered`, about every method
of the memory adapter. No fairness is assumed.

`DeviceProofs`. For each adapter, any interval and lifetime. Rows are never
changed, only deleted and written anew under another id, and a code has at most
one row under its user code, pending and not yet decided (`RowsKept`). A poll or
a decision names rows of its own code only (`TasksKept`), and decisions under
way are counted (`DecisionsCounted`), since two of them may cross. What makes
`OneTokenPerApproval` inductive is a balance (`Balanced`): approved rows in the
store, polls that have consumed one and not yet answered, and tokens minted are
together no more than the approvals. `TokensApproved`, `DecisionsKept` and
`DecisionsFinal` follow.

`OrganizationsProofs`. For any users, organizations, limits and sound starting
databases. Each task carries what it has read: that its caller was a member
whose role permits the call (`Entitled`), whose row it is to change (`Targets`),
which invitation it answers (`Answers`); and nobody gets far with an
organization before its creator has joined (`Founded`). `LimitsKept` is by
counting (`Seated`, `Invited`): the rows there are and the tasks that have found
room and not yet taken it are together at most the limit plus the number of
tasks less one, since the last of them to look found room. `TablesAgree` and
`SeatsKept` follow as well. The lemmas on cardinality are those of
`FiniteSetTheorems`.

`ApiKeysProofs`. For any limits, windows and forms. Ids are drawn once and what
is deleted stays deleted (`Evolves`), so a verification that begins after the
deletion finds nothing (`Barred`); every write of a counter is over the row that
is there (`DeletedStays`, `KeysConsistent`). `BurstsBounded` is about
arithmetic: the invariant `Bucket` relates any two passes of a limiter, with a
period between them for each pass but for the burst, and any pass with the time
at which the limiter is full again. `BucketGrows` shows that a pass keeps it and
`BucketBounds` that it bounds a window. A weaker bound, twice the maximum less
one, is what one would expect; the proof failed for it where the period is
rounded down, and TLC then found such a limiter.

`IdentityProofs`. For any users, providers, configurations and menus, with the
foreign keys and without. Each task carries what it has learnt (`Carries`): the
provider's subject, that a link it is about to make is permitted, whose tokens
it is about to write, and that the sessions it is to end belong to its user or
are gone. Ids are drawn once and rows keep their owner and subject (`Evolves`),
so no step of another task makes that untrue. `TokensMatch`, `LinksTrusted`,
`EndedForGood` and `StatesOnce` follow, and `RemovalsComplete` from the foreign
keys: its assumption is `Constraints`, which the run sets to TRUE.

`AccountsProofs`. On every adapter and under every configuration. `AccountsInv`
says what each task has learnt at its place (`Learnt`: its link is of the right
kind and was mailed to an address that is now proven; a deletion by link is of
the link's user; a change or deletion without a link is one the configuration
allows) and what it leaves behind (`Barred`: a link that was spent when the task
began is one it has not found yet; once the sessions have been revoked, none of
those there were is its user's). It is inductive because links are drawn once and
never change, because a link that was answered for is in the table no more and
is not put back (`LinksFine`), and because an address changes only for one that
is proven (`Evolves`). `SpentLinksDead`, `OldSessionsEndHolds` and `TypeCorrect` need no
assumption. `DeadLinksHold` leaves out D1; `ConsistentHolds` and
`DeletionsConfirmed` assume the configuration the properties are about, which
is the one of the run.

The first part of `AccountsProofs` is about `Factors`, on the same users: an
`INSTANCE` of it (`F`) with constants and variables of its own, and the
assumptions of `Factors`, which the run evaluates, as the hypothesis
`FactorConstants`. One of them, `KindsAssumption`, says that nothing is taken for
a thing of another kind: the code gives the identifiers of its verifications
prefixes (`2fa_pending:`, `2fa_otp:`, `passkey_reg:`, `passkey_auth:`).
`FactorsInv` says what a task brings along (`Brings`), what it has learnt
(`Learnt`: once the flag of a guarded sign-in is read, it is not on its way to a
session; the token and the factor of a verification are its user's; the
challenge of a request that consumed it is in the table no more and nobody has
signed in with it), and that a task which presents what was spent has not found
it (`Barred`). `ChallengeOnce` is not inductive: it says nothing of an
authentication on its way to its session, and nothing of a spent row that might
be in the table still. `TasksFine` (no two tasks have taken one challenge) and
`RowsFine` (nothing spent is in the table) supply that. `FactorsHolds` proves it,
`FactorsConsistent`, `BothFactorsHold` and `SpentFactorsDead` follow. That two
requests may use one backup code (see above) is no obstacle: its codes are the
user's all the same.

Only model-checked: `Answered`, a liveness property, which like `ENABLED` is out
of the prover's reach. So is induction over data, for which no proof here has a
use. The violations of `apikeys_quota` and `orgs_owners` are traces of TLC.

## Not modelled

- Configuration, types, conversions, OpenAPI, e-mail wording: data. The options
  that steer a modelled component are constants of its module.
- OIDC signing keys, discovery, JWKS: cryptography and a static document. The
  model lets signing fail.
- Worker bindings, capabilities and configuration: glue. The entry point is in
  `Front`.
- The derive macros: code generation.
- The cache of `adapters/cache.rs`: no code calls it, nor
  `is_session_fresh`, the reader of `session.fresh_age`; `session.cookie_cache`
  has no reader.
- `crates/better-auth-api`: an earlier copy of the plugins outside the
  workspace.
- Endpoints that only read, and fields no property is about (names, images,
  metadata other than the password, counters of passkeys).
- Crashes. Nothing is kept that a restart would have to recover but rows; a
  request cut off between two statements is, for the others, one whose next
  statement fails, which `DbFails`, `Failing` and `Abandon` have.

## Running

    tlc -workers 2 -config MCSessions_races.cfg MCSessions
    tlapm SessionsProofs.tla

Each run takes less than five minutes on two workers.
