---------------------------- MODULE SessionLife ----------------------------
(***************************************************************************)
(* What the session layer promises, without databases, clocks or refresh:  *)
(* a session token is issued once and ended once, and a request that asks  *)
(* after its token has ended is never granted.  A request whose token ends *)
(* while it is being answered may still be granted: the code says so where *)
(* it keeps the session it read before a refresh ("a concurrent revoke     *)
(* shouldn't log the user out mid-request").                               *)
(***************************************************************************)
CONSTANTS Tokens,     \* every token that may ever be generated
          Requests    \* the callers of require_session

VARIABLES life,       \* life[t]: where token t is in its life
          asks        \* asks[r]: the question request r asked last

lifeVars == <<life, asks>>

Life == {"unissued", "live", "ended"}

\* "quiet": asks nothing of the session layer.  "open": asked, not answered.
\* late: the token had already ended when the request asked.
Ask == [status : {"quiet", "open", "granted", "refused"}, late : BOOLEAN]
Quiet == [status |-> "quiet", late |-> FALSE]

Init == /\ life = [t \in Tokens |-> "unissued"]
        /\ asks = [r \in Requests |-> Quiet]

Issue(t) == /\ life[t] = "unissued"
            /\ life' = [life EXCEPT ![t] = "live"]

\* One statement may end many sessions (delete_user_sessions, a sweep).
End(T) == /\ \A t \in T : life[t] = "live"
          /\ life' = [t \in Tokens |-> IF t \in T THEN "ended" ELSE life[t]]

AskFor(r, t) == /\ asks[r].status # "open"
                /\ life[t] # "unissued"
                /\ asks' = [asks EXCEPT ![r] = [status |-> "open",
                                                late |-> life[t] = "ended"]]

\* The promise: a request that asked too late is not granted.
Grant(r) == /\ asks[r].status = "open"
            /\ ~ asks[r].late
            /\ asks' = [asks EXCEPT ![r].status = "granted"]

Refuse(r) == /\ asks[r].status = "open"
             /\ asks' = [asks EXCEPT ![r].status = "refused"]

\* The request slot is used for something other than a question.
Leave(r) == /\ asks[r].status # "open"
            /\ asks' = [asks EXCEPT ![r] = Quiet]

\* One database statement may end sessions and settle a question at once.
Next == /\ \/ UNCHANGED life
           \/ \E t \in Tokens : Issue(t)
           \/ \E T \in SUBSET Tokens : End(T)
        /\ \/ UNCHANGED asks
           \/ \E r \in Requests : Leave(r) \/ Grant(r) \/ Refuse(r)
           \/ \E r \in Requests, t \in Tokens : AskFor(r, t)

Spec == Init /\ [][Next]_lifeVars
=============================================================================
