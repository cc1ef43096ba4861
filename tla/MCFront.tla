-------------------------------- MODULE MCFront --------------------------------
(***************************************************************************)
(* Every table of the three adapters, and five scenes of requests.          *)
(***************************************************************************)
EXTENDS Front, TLC

CONSTANTS i1, i2, k1, k2, t1, t2, o1

AllMenus ==
  {[store |-> s, table |-> x] :
     s \in DOMAIN Schema, x \in SqlUnique \cup {"verifications", "invitations", "clients"}}

AllEndpoints == CoreEndpoints \cup PluginEndpoints \cup {"nothing"}
Strict == {[endpoint |-> "change-email", prefixed |-> FALSE],
           [endpoint |-> "plugin", prefixed |-> TRUE]}

\* An ordinary request; every scene varies some of it.
Plain ==
  [via |-> "direct", method |-> "post", endpoint |-> "update-user",
   prefixed |-> FALSE, client |-> 1, origin |-> "none", big |-> FALSE,
   credential |-> "session", claimed |-> FALSE]

Origins ==
  {[Plain EXCEPT !.via = v, !.method = m, !.origin = o] :
     v \in {"direct", "router"}, m \in {"get", "post", "options"},
     o \in {"none", "trusted", "foreign"}}
AllPaths ==
  {[Plain EXCEPT !.via = w[1], !.prefixed = w[2], !.endpoint = e,
                 !.method = MethodOf(e)] :
     w \in {<<"direct", FALSE>>, <<"direct", TRUE>>, <<"router", FALSE>>,
            <<"router", TRUE>>, <<"plugin", FALSE>>, <<"worker", FALSE>>},
     e \in AllEndpoints}
Credentials ==
  {[Plain EXCEPT !.endpoint = e, !.credential = c, !.method = MethodOf(e)] :
     e \in {"update-user", "delete-user", "plugin", "get-session", "api-key"},
     c \in {"none", "session", "apikey"}} \cup
  {[Plain EXCEPT !.credential = c, !.claimed = TRUE] :
     c \in {"none", "session", "apikey"}}
Sizes ==
  {[Plain EXCEPT !.via = v, !.big = b, !.origin = "foreign", !.credential = c] :
     v \in {"direct", "router", "plugin"}, b \in BOOLEAN, c \in {"none", "session"}}
Crowd ==
  {[Plain EXCEPT !.endpoint = "plugin", !.credential = "none",
                 !.client = c, !.prefixed = p] : c \in 1..2, p \in BOOLEAN}

AllScenes ==
  {[forms |-> {}, requests |-> 0, time |-> 0],
   [forms |-> Crowd, requests |-> 4, time |-> 3]} \cup
  {[forms |-> f, requests |-> 2, time |-> 0] : f \in {AllPaths, Credentials}} \cup
  {[forms |-> f, requests |-> 3, time |-> 0] : f \in {Origins, Sizes}}

Symmetry == Permutations(Threads) \cup Permutations(Ids) \cup Permutations(Keys)
=============================================================================
