--------------------------------- MODULE Front ---------------------------------
(***************************************************************************)
(* From a request to the adapter: BetterAuth::handle_request with its       *)
(* middleware and the hook of the API key plugin, the Axum router in front  *)
(* of it, and two ways round it: the router of an AxumPlugin, and           *)
(* handle_worker_plugin_request on Workers.  A thread serves one request    *)
(* after the other; the handler at the end of the way calls the adapter of  *)
(* Stores, so that requests interleave between the statements of their      *)
(* calls as well.                                                           *)
(*                                                                         *)
(* In a scene with request forms the application sends those; in a scene    *)
(* without, it calls the adapter itself, wrapped in hooks or not.  Reading  *)
(* a user, a statement of its own, is part of the step that needs it.       *)
(***************************************************************************)
EXTENDS Stores

CONSTANTS
  Scenes,        \* [forms, requests, time]: a set of request forms, and, as
                 \* bounds, how many requests are sent, and for how long
  Endpoints,     \* the paths below base_path
  Disabled,      \* disabled_paths
  Overrides,     \* the paths, as they were sent, with a limit of their own
  Max,           \* how many requests the rate limit lets through ...
  Window         \* ... in this much time

ASSUME FrontAssumption ==
  /\ Disabled \subseteq Endpoints
  /\ Overrides \subseteq [endpoint : Endpoints, prefixed : BOOLEAN]
  /\ {Max, Window} \subseteq Nat \ {0}

VARIABLES
  scene,      \* the request forms of this behaviour, and its bounds
  proves,     \* the users a session and an API key belong to
  requests,   \* thread -> the request it serves, how far it has got, the user
              \* a plugin vouched for and the user it acts for
  buckets,    \* RateLimitMiddleware: <<client, path>> -> when requests passed
  clock,
  sent,       \* how many requests were sent
  passed      \* history: what buckets held, nothing forgotten

frontVars == <<scene, proves, requests, buckets, clock, sent, passed>>

-----------------------------------------------------------------------------
(* What a request says.                                                     *)

\* A form: the way in (axum_router, handle_request itself, the router of an
\* AxumPlugin, or a Worker), and what the request carries.  claimed is the
\* virtual user id a caller of handle_request has put into it.
Form ==
  [via : {"router", "direct", "plugin", "worker"},
   method : {"get", "post", "options"}, endpoint : Endpoints, prefixed : BOOLEAN, client : Nat,
   origin : {"none", "trusted", "foreign"}, big : BOOLEAN,
   credential : {"none", "session", "apikey"}, claimed : BOOLEAN]

ASSUME ScenesAssumption ==
  Scenes \subseteq [forms : SUBSET Form, requests : Nat, time : Nat]

Path(r) == [endpoint |-> r.endpoint, prefixed |-> r.prefixed]

CoreEndpoints == {"update-user", "delete-user", "change-email"}
PluginEndpoints == {"plugin", "get-session", "api-key"}
MethodOf(endpoint) == IF endpoint = "get-session" THEN "get" ELSE "post"
Served(r) ==
  r.endpoint \in CoreEndpoints \cup PluginEndpoints /\ r.method = MethodOf(r.endpoint)

StateChanging(r) == r.method = "post"

NoRequest == [stage |-> "none", virtual |-> None, acts |-> None]
Move(t, stage) == requests' = [requests EXCEPT ![t].stage = stage]

\* The response; run_after, which only adds headers to it, included.
Respond(t) == requests' = [requests EXCEPT ![t] = NoRequest]

\* The user is in the table.
There(user) == user \in Live

-----------------------------------------------------------------------------
(* The way of a request.                                                    *)

Receive(t) ==
  /\ requests[t] = NoRequest /\ sent < scene.requests
  /\ \E form \in scene.forms :
       requests' = [requests EXCEPT ![t] =
         [stage |-> IF form.via = "direct" THEN "called" ELSE "received",
          form |-> form, acts |-> None,
          virtual |-> IF form.claimed THEN proves.apikey ELSE None]]
  /\ sent' = sent + 1
  /\ UNCHANGED <<scene, proves, buckets, clock, passed, storeVars>>

\* The body limit.
Fits(r) == ~r.big

\* axum_router has no routes for disabled paths, for paths with the prefix, and
\* for OPTIONS.
Mounted(r) == Served(r) /\ ~r.prefixed /\ r.endpoint \notin Disabled

\* The router calls handle_request with a body it has read up to the limit;
\* what it refuses, no middleware sees.
Route(t) ==
  LET r == requests[t].form IN
  /\ requests[t].stage = "received" /\ r.via = "router"
  /\ IF Mounted(r) /\ Fits(r)
     THEN Move(t, "called")
     ELSE Respond(t)
  /\ UNCHANGED <<scene, proves, buckets, clock, sent, passed, storeVars>>

\* handle_request builds the request anew: only a hook can vouch for a user.
FromParts_as_given(q) == [q EXCEPT !.stage = "dispatch"]
FromParts(q) == [q EXCEPT !.stage = "dispatch", !.virtual = None]

\* The rate limit: what is older than the window is forgotten.  The path is the
\* one that was sent, prefix and all.
Bucket(r) == <<r.client, Path(r)>>
Limit(path) == IF path \in Overrides THEN 1 ELSE Max
Recent_too_short(at) == clock - at < Window - 1
Recent(at) == clock - at < Window
Spared(r) == {p \in buckets[Bucket(r)] : Recent(p.at)}
RateLimited(r) == Cardinality(Spared(r)) >= Limit(Path(r))

\* A request passes now; nth tells the requests of one instant apart.
Pass(r) == [at |-> clock, nth |-> Cardinality(passed[Bucket(r)]) + 1]

\* CSRF: a request that changes state has a trusted origin or none at all.
Trusted(origin) == origin # "foreign"
OriginOk(r) == StateChanging(r) => Trusted(r.origin)

\* CORS answers a preflight itself.
Preflight(r) == r.method = "options" /\ r.origin = "trusted"

\* handle_request: run_before has the body limit, the rate limit, CSRF and CORS
\* look at the request.  It counts against the rate limit even if CSRF or CORS
\* goes on to answer it.
HandleRequest(t) ==
  LET r == requests[t].form IN
  /\ requests[t].stage = "called"
  /\ IF ~Fits(r) THEN Respond(t) /\ UNCHANGED <<buckets, passed>>
     ELSE IF RateLimited(r)
     THEN /\ Respond(t) /\ UNCHANGED passed
          /\ buckets' = [buckets EXCEPT ![Bucket(r)] = Spared(r)]
     ELSE /\ IF OriginOk(r) /\ ~Preflight(r)
             THEN requests' = [requests EXCEPT ![t] = FromParts(@)]
             ELSE Respond(t)
          /\ buckets' = [buckets EXCEPT ![Bucket(r)] = Spared(r) \cup {Pass(r)}]
          /\ passed' = [passed EXCEPT ![Bucket(r)] = @ \cup {Pass(r)}]
  /\ UNCHANGED <<scene, proves, clock, sent, storeVars>>

\* is_path_disabled looks at the path without its prefix.
Off(r) == r.endpoint \in Disabled

\* The hook of the API key plugin: a valid key vouches for its user, and is
\* answered at once on /get-session.  It leaves the routes of keys alone.
Vouches(r) == r.credential = "apikey" /\ r.endpoint # "api-key"
Dispatch(t) ==
  LET r == requests[t].form IN
  /\ requests[t].stage = "dispatch"
  /\ IF Off(r) \/ (Vouches(r) /\ (~There(proves.apikey) \/ r.endpoint = "get-session"))
     THEN Respond(t)
     ELSE requests' = [requests EXCEPT ![t].stage = "hooked",
                                       ![t].virtual = IF Vouches(r)
                                                      THEN proves.apikey ELSE @]
  /\ UNCHANGED <<scene, proves, buckets, clock, sent, passed, storeVars>>

\* Who a request acts for: core endpoints take the user a hook vouched for, and
\* plugins look for a session whatever the hook did (require_session).
SessionUser(r) == IF r.credential = "session" THEN proves.session ELSE None
CurrentUser(t) ==
  LET q == requests[t] IN
  IF q.form.endpoint \in CoreEndpoints /\ q.virtual # None THEN q.virtual
  ELSE SessionUser(q.form)

ActsFor(t, user) ==
  IF Served(requests[t].form) /\ There(user)
  THEN requests' = [requests EXCEPT ![t].stage = "handler", ![t].acts = user]
  ELSE Respond(t)

Authenticate(t) ==
  /\ requests[t].stage = "hooked"
  /\ ActsFor(t, CurrentUser(t))
  /\ UNCHANGED <<scene, proves, buckets, clock, sent, passed, storeVars>>

\* The router of an AxumPlugin, or a route of the application: the extractor
\* CurrentSession is all that stands before the handler.
Extract(t) ==
  LET r == requests[t].form IN
  /\ requests[t].stage = "received" /\ r.via = "plugin"
  /\ ActsFor(t, SessionUser(r))
  /\ UNCHANGED <<scene, proves, buckets, clock, sent, passed, storeVars>>

\* handle_worker_plugin_request hands the request to the one plugin it is given,
\* which knows its own paths only.
HandleWorker(t) ==
  LET r == requests[t].form IN
  /\ requests[t].stage = "received" /\ r.via = "worker"
  /\ IF r.endpoint \in PluginEndpoints /\ ~r.prefixed
     THEN ActsFor(t, SessionUser(r))
     ELSE Respond(t)
  /\ UNCHANGED <<scene, proves, buckets, clock, sent, passed, storeVars>>

\* The handler calls the adapter, without hooks: it updates or deletes the user
\* it acts for, or, in a plugin, reads.
Work(t) ==
  LET q == requests[t]
      op == CASE q.form.endpoint = "delete-user" -> "delete"
              [] q.form.endpoint \in {"update-user", "change-email"} -> "update"
              [] OTHER -> "get"
  IN /\ q.stage = "handler" /\ Quiet(t)
     /\ Enter(t, [Idle EXCEPT !.op = op, !.id = q.acts,
                              !.column = IF op = "update" THEN "a" ELSE None], 1)
     /\ Move(t, "working")
     /\ TablesKept
     /\ UNCHANGED <<scene, proves, buckets, clock, sent, passed>>

Worked(t) ==
  /\ requests[t].stage = "working" /\ Quiet(t)
  /\ Respond(t)
  /\ UNCHANGED <<scene, proves, buckets, clock, sent, passed, storeVars>>

Tick ==
  /\ clock < scene.time
  /\ clock' = clock + 1
  /\ UNCHANGED <<scene, proves, requests, buckets, sent, passed, storeVars>>

Serve(t) ==
  \/ Receive(t) \/ Route(t) \/ HandleRequest(t) \/ Dispatch(t)
  \/ Authenticate(t) \/ Extract(t) \/ HandleWorker(t) \/ Work(t) \/ Worked(t)

\* Without requests, code of the application calls the adapter.
Use(t) == scene.forms = {} /\ Ask(t) /\ UNCHANGED frontVars

Next ==
  \/ \E t \in Threads : Serve(t) \/ Use(t) \/ (Execute(t) /\ UNCHANGED frontVars)
  \/ \E i \in Ids : Age(i) /\ UNCHANGED frontVars
  \/ Tick

Paths == [endpoint : Endpoints, prefixed : BOOLEAN]
Buckets == Nat \X Paths
Used == {Bucket(r) : r \in scene.forms}

\* The tables to begin with: users, for requests are about users, or nothing.
Populations ==
  IF scene.forms = {} THEN {[i \in Ids |-> None]}
  ELSE {u \in [Ids -> {row \in Row : row.a = 0 /\ row.b = 0 /\ ~row.ripe}] :
          \A i, j \in Ids : u[i].key = u[j].key => i = j}

Init ==
  /\ scene \in Scenes
  /\ proves \in [{"session", "apikey"} -> IF scene.forms = {} THEN {None} ELSE Ids]
  /\ \E start \in Populations : StoresInit(start)
  /\ scene.forms # {} => menu.table = "users"
  /\ requests = [t \in Threads |-> NoRequest]
  /\ buckets = [b \in Used |-> {}]
  /\ clock = 0 /\ sent = 0
  /\ passed = buckets

Spec == Init /\ [][Next]_<<storeVars, frontVars>>

-----------------------------------------------------------------------------
(* Properties.                                                              *)

Request ==
  [stage : {"received", "called", "dispatch", "hooked", "handler", "working"},
   form : scene.forms, virtual : Ids \cup {None}, acts : Ids \cup {None}]
Passing == [at : 0..clock, nth : Nat]

TypeOK ==
  /\ scene \in Scenes /\ scene.forms \subseteq Form
  /\ proves \in [{"session", "apikey"} -> Ids \cup {None}]
  /\ requests \in [Threads -> {NoRequest} \cup Request]
  /\ buckets \in [Used -> SUBSET Passing] /\ passed \in [Used -> SUBSET Passing]
  /\ clock \in 0..scene.time /\ sent \in 0..scene.requests

\* While a handler works, whatever was in its way let the request pass: through
\* handle_request, by whichever spelling of the path, none that is too big, comes
\* from a foreign origin to change state, or is for a disabled endpoint.  And by
\* any way in, the row it has the adapter write is that of the user its own
\* credential proves, never one the caller of handle_request named.
Admitted ==
  /\ TypeOK
  /\ \A t \in Threads :
       requests[t].stage = "working" =>
         LET r == requests[t].form IN
         /\ r.via \in {"router", "direct"} =>
              Fits(r) /\ OriginOk(r) /\ r.endpoint \notin Disabled
         /\ r.credential # "none"
         /\ calls[t] # Idle => calls[t].id = proves[r.credential]

\* In no stretch of time as long as the window do more requests of a client get
\* past the limit of a path than it allows.
Limited ==
  \A b \in Used, from \in 0..clock :
    Cardinality({p \in passed[b] : p.at \in from .. from + Window - 1}) <= Limit(b[2])

-----------------------------------------------------------------------------
(* What they rest on.                                                       *)

\* What has been settled about the request q of a thread, stage by stage.
Settled(q) ==
  LET r == q.form IN
  /\ q.stage \in {"called", "dispatch", "hooked"} => r.via \in {"router", "direct"}
  /\ q.stage \in {"dispatch", "hooked"} => Fits(r) /\ OriginOk(r)
  /\ q.stage = "dispatch" => q.virtual = None
  /\ q.stage = "hooked" =>
       /\ r.endpoint \notin Disabled
       /\ q.virtual # None => r.credential = "apikey" /\ q.virtual = proves.apikey
  /\ q.stage \in {"handler", "working"} =>
       /\ r.via \in {"router", "direct"} =>
            Fits(r) /\ OriginOk(r) /\ r.endpoint \notin Disabled
       /\ r.credential # "none"
       /\ q.acts = proves[r.credential] /\ q.acts \in Ids

\* The call of a thread that serves a request is its request's.
Serving(t) ==
  /\ requests[t] # NoRequest => Settled(requests[t]) /\ menu.table = "users"
  /\ requests[t].stage = "working" /\ calls[t] # Idle =>
       /\ calls[t].op \in {"get", "update", "delete"}
       /\ calls[t].id = requests[t].acts

\* A bucket forgets nothing that is recent.
Counted(b) ==
  /\ IsFiniteSet(passed[b]) /\ buckets[b] \subseteq passed[b]
  /\ \A p \in passed[b] : /\ Recent(p.at) => p \in buckets[b]
                          /\ p.nth <= Cardinality(passed[b])

FrontInv ==
  /\ StoresInv /\ TypeOK
  /\ scene.forms # {} => menu.table = "users"
  /\ \A t \in Threads : Serving(t)
  /\ \A b \in Used : Counted(b)
  /\ Limited
=============================================================================
