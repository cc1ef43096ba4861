--------------------------- MODULE Organizations ---------------------------
(***************************************************************************)
(* The organization plugin: organizations, their members and invitations,   *)
(* and the active organization of each user's session, over the statements  *)
(* of the adapters.                                                         *)
(*                                                                         *)
(* A request is a task; other tasks run at each of its database awaits.     *)
(* Emails are users.  The endpoints that only read are left out.  X_y       *)
(* before X is a plausible bug in X.                                        *)
(***************************************************************************)
EXTENDS Integers, FiniteSets

CONSTANTS
  Users, Orgs, Slugs, Members, Invitations, Requests, None,
  Grants,        \* the roles that requests ask for
  Starts,        \* what the database holds at first, and what clients then call
  MemberLimit,   \* membership_limit, None for no limit
  PendingLimit,  \* invitation_limit, None for no limit
  OrgLimit,      \* organization_limit, None for no limit
  InviteTtl,     \* invitation_expires_in
  ForeignKeys,   \* SQLx: rows refer to an organization that exists
  Failing,       \* the statements that may fail
  MaxTime        \* bound: the clock stops here

Roles == {"owner", "admin", "member"}
Managing == {"update", "remove", "setRole", "invite", "cancel"}
Calls == Managing \cup {"create", "deleteOrg", "setActive", "leave", "accept", "reject"}

Member == [org : Orgs, user : Users, role : Roles]
Statuses == {"pending", "accepted", "rejected", "canceled"}
Invitation == [org : Orgs, user : Users, role : Roles, status : Statuses, expires : Nat]

\* Where a request of each endpoint may be.
Stops ==
  [create |-> {"orgLimit", "slug", "insert", "join"}, update |-> {"self", "slug", "rename"},
   deleteOrg |-> {"self", "dissolve"}, setActive |-> {"self", "activate"},
   leave |-> {"self", "count", "expel", "activate"},
   remove |-> {"self", "target", "count", "expel"},
   setRole |-> {"self", "target", "count", "setRole"},
   invite |-> {"self", "room", "pending", "already", "existing", "issue"},
   cancel |-> {"invitation", "self", "settle"}, reject |-> {"invitation", "settle"},
   accept |-> {"invitation", "room", "already", "join", "spoil", "settle", "activate"}]
Pcs == {"idle", "closed"} \cup UNION {Stops[op] : op \in Calls}

Start == [calls : SUBSET (Users \X Calls), orgs : [Orgs -> Slugs \cup {None}],
          members : [Members -> Member \cup {None}],
          invitations : [Invitations -> Invitation \cup {None}]]

\* Nobody is in an organization twice.
Once(rows) == \A m, n \in Members :
  /\ m # n /\ rows[m] # None /\ rows[n] # None
  => rows[m].org # rows[n].org \/ rows[m].user # rows[n].user

ASSUME OrganizationsAssumption ==
  /\ Grants \subseteq Roles
  /\ MemberLimit \in Nat \cup {None} /\ PendingLimit \in Nat \cup {None}
  /\ OrgLimit \in Nat \cup {None} /\ InviteTtl \in Nat /\ MaxTime \in Nat
  /\ ForeignKeys \in BOOLEAN /\ Failing \subseteq Pcs
  /\ IsFiniteSet(Requests) /\ Requests # {}
  /\ None \notin Member \cup Invitation \cup Slugs \cup Users \cup Orgs

VARIABLES
  now,
  orgs,         \* organization: id -> slug or None
  members,      \* member: id -> row or None
  invitations,  \* invitation: id -> row or None
  active,       \* user -> active_organization_id of their session
  reqs,         \* the state of every task
  drawn,        \* the ids that were ever given out
  joined,       \* history: who has been a member of what
  calls         \* who calls which endpoint in this behaviour

vars == <<now, orgs, members, invitations, active, reqs, drawn, joined, calls>>

-----------------------------------------------------------------------------

\* mine: the caller's role as it was read.  home: the active organization of the
\* session as it was read.  open: the invitation was pending when it was read.
\* late: it no longer was when the request came in (history).
Request == [pc : Pcs, op : Calls, user : Users \cup {None}, org : Orgs \cup {None},
            target : Members \cup Invitations \cup {None}, slug : Slugs \cup {None},
            who : Users \cup {None}, role : Roles \cup {None},
            mine : Roles \cup {None}, home : Orgs \cup {None},
            open : BOOLEAN, late : BOOLEAN, result : {"none", "ok", "refused", "error"}]

Blank == [pc |-> "idle", op |-> "create", user |-> None, org |-> None, target |-> None,
          slug |-> None, who |-> None, role |-> None, mine |-> None, home |-> None,
          open |-> FALSE, late |-> FALSE, result |-> "none"]

At(r, pc) == reqs[r].pc = pc
Free(r) == reqs[r].pc \in {"idle", "closed"}
Become(r, q) == reqs' = [reqs EXCEPT ![r] = q]
Go(q, pc) == [q EXCEPT !.pc = pc]
Close(q, res) == [Blank EXCEPT !.pc = "closed", !.op = q.op, !.late = q.late, !.result = res]

Rows(table) == {x \in DOMAIN table : table[x] # None}
MembersOf(o) == {m \in Rows(members) : members[m].org = o}
Owners(o) == {m \in MembersOf(o) : members[m].role = "owner"}
\* get_member.
Seats(o, u) == {m \in MembersOf(o) : members[m].user = u}
PendingFor(o) == {i \in Rows(invitations) :
                    invitations[i].org = o /\ invitations[i].status = "pending"}

\* The database at first is one that a sequence of calls leads to.
ASSUME StartsAssumption ==
  /\ Starts \subseteq Start
  /\ \A s \in Starts :
       /\ Once(s.members)
       /\ \A o, p \in Rows(s.orgs) : s.orgs[o] = s.orgs[p] => o = p
       /\ \A m \in Rows(s.members) : s.members[m].org \in Rows(s.orgs)
       /\ \A i \in Rows(s.invitations) : s.invitations[i].org \in Rows(s.orgs)
       /\ \A o \in Orgs :
            LET seats == {m \in Rows(s.members) : s.members[m].org = o}
                letters == {i \in Rows(s.invitations) :
                              s.invitations[i].org = o /\ s.invitations[i].status = "pending"}
                more == Cardinality(Requests) - 1
            IN /\ IsFiniteSet(seats) /\ IsFiniteSet(letters)
               /\ MemberLimit # None =>
                    Cardinality(seats) <= MemberLimit + more \/ Cardinality(seats) <= 1
               /\ PendingLimit # None => Cardinality(letters) <= PendingLimit + more

Init ==
  /\ now = 0
  /\ \E s \in Starts :
       /\ orgs = s.orgs /\ members = s.members /\ invitations = s.invitations
       /\ calls = s.calls
       /\ drawn = Rows(s.orgs) \cup Rows(s.members) \cup Rows(s.invitations)
       /\ joined = {<<s.members[m].user, s.members[m].org>> : m \in Rows(s.members)}
  /\ active = [u \in Users |-> None]
  /\ reqs = [r \in Requests |-> Blank]

-----------------------------------------------------------------------------
(* A request of a user with a session.  The organization is the one it       *)
(* names, or the session's active one.                                       *)

Known(S) == S \cap drawn
\* Bound: only these are invited.
Callers == {c[1] : c \in calls}
\* Ids are opaque: any one that was never given out will do.
Fresh(S) == CHOOSE x \in S : x \notin drawn
\* Bound: there are as many as the tasks under way may need.
Spare(op) ==
  LET Left(S) == Cardinality(S \ drawn)
      Needed(ops) == Cardinality({r \in Requests : ~Free(r) /\ reqs[r].op \in ops})
  IN /\ op \in {"create", "accept"} => Needed({"create", "accept"}) < Left(Members)
     /\ op = "create" => Needed({"create"}) < Left(Orgs)
     /\ op = "invite" => Needed({"invite"}) < Left(Invitations)

\* The form of a request: the organization it names or means, the member or
\* invitation, a slug, whom it is about and a role.
Named(op) ==
  CASE op = "setActive" -> Known(Orgs) \cup {None}
    [] op \in {"create", "accept", "reject", "cancel"} -> {None}
    [] OTHER -> Known(Orgs)
Aimed(op) ==
  CASE op \in {"remove", "setRole"} -> Known(Members)
    [] op \in {"accept", "reject", "cancel"} -> Known(Invitations)
    [] OTHER -> {None}
Given(op) == IF op \in {"create", "update"} THEN Slugs ELSE {None}
Meant(op) == IF op = "invite" THEN Callers ELSE {None}
Granted(op) == IF op \in {"setRole", "invite"} THEN Grants ELSE {None}

First(op, o) ==
  CASE op = "create" -> IF OrgLimit = None THEN "slug" ELSE "orgLimit"
    [] op \in {"accept", "reject", "cancel"} -> "invitation"
    [] OTHER -> IF o = None THEN "activate" ELSE "self"

\* The invitation is no longer pending.
Late(i) == invitations[i] = None \/ i \notin PendingFor(invitations[i].org)

Asked(op, u, o, t, s, w, role) ==
  [pc |-> First(op, o), op |-> op, user |-> u, org |-> o, target |-> t, slug |-> s,
   who |-> w, role |-> role, mine |-> None, home |-> active[u], open |-> FALSE,
   late |-> op \in {"accept", "reject", "cancel"} /\ Late(t), result |-> "none"]

Ask(r) ==
  /\ Free(r)
  /\ \E c \in calls : LET u == c[1]  op == c[2] IN
       /\ Spare(op)
       /\ \E o \in Named(op), t \in Aimed(op), s \in Given(op), w \in Meant(op),
            role \in Granted(op) : Become(r, Asked(op, u, o, t, s, w, role))
  /\ UNCHANGED <<now, orgs, members, invitations, active, drawn, joined, calls>>

-----------------------------------------------------------------------------
(* What requests read.  Only the task that reads changes.                    *)

Reads == UNCHANGED <<now, orgs, members, invitations, active, drawn, joined, calls>>

\* default_roles: what a role may do, beyond what every member may.
Permits(role, op) ==
  CASE role = "owner" -> op \in Managing \cup {"deleteOrg", "leave", "setActive"}
    [] role = "admin" -> op \in Managing \cup {"leave", "setActive"}
    [] role = "member" -> op \in {"leave", "setActive"}

\* get_member of the caller.
MySeats(q) == Seats(q.org, q.user)

\* remove_member asks for the permission later: anyone may remove themselves.
CheckSelf(r) ==
  /\ At(r, "self")
  /\ LET q == reqs[r] IN
       \/ MySeats(q) = {} /\ Become(r, Close(q, "refused"))
       \/ \E m \in MySeats(q) :
            LET role == members[m].role
                known == [q EXCEPT !.mine = role]
            IN Become(r,
                 IF q.op # "remove" /\ ~Permits(role, q.op) THEN Close(q, "refused")
                 ELSE CASE q.op = "update" -> Go(known, "slug")
                        [] q.op = "deleteOrg" -> Go(known, "dissolve")
                        [] q.op = "setActive" -> Go(known, "activate")
                        [] q.op \in {"remove", "setRole"} -> Go(known, "target")
                        [] q.op = "invite" ->
                             Go(known, IF MemberLimit # None THEN "room"
                                       ELSE IF PendingLimit # None THEN "pending"
                                       ELSE "already")
                        [] q.op = "cancel" -> IF q.open THEN Go(known, "settle")
                                              ELSE Close(q, "refused")
                        [] q.op = "leave" ->
                             [known EXCEPT !.target = m,
                                !.pc = IF role = "owner" THEN "count" ELSE "expel"])
  /\ Reads

Mismatch(q, row) == row.org # q.org

Doing(q) == IF q.op = "setRole" THEN "setRole" ELSE "expel"

\* get_member_by_id.  Owners are counted before one of them ceases to be one.
CheckTarget(r) ==
  /\ At(r, "target")
  /\ LET q == reqs[r]
         row == members[q.target]
     IN Become(r,
          IF row = None THEN Close(q, "refused")
          ELSE IF Mismatch(q, row) THEN Close(q, "refused")
          ELSE IF q.op = "remove" /\ row.user # q.user /\ ~Permits(q.mine, "remove")
               THEN Close(q, "refused")
          ELSE IF row.role = "owner" /\ q.role # "owner" THEN Go(q, "count")
          ELSE Go(q, Doing(q)))
  /\ Reads

CountOwners(r) ==
  /\ At(r, "count")
  /\ LET q == reqs[r] IN
       Become(r, IF Cardinality(Owners(q.org)) <= 1 THEN Close(q, "refused")
                 ELSE Go(q, Doing(q)))
  /\ Reads

CheckOrgLimit(r) ==
  /\ At(r, "orgLimit")
  /\ LET q == reqs[r]
         mine == {members[m].org : m \in {x \in Rows(members) : members[x].user = q.user}}
     IN Become(r, IF Cardinality(mine) >= OrgLimit THEN Close(q, "refused") ELSE Go(q, "slug"))
  /\ Reads

Taken(q) == \E o \in Rows(orgs) : orgs[o] = q.slug /\ o # q.org

CheckSlug(r) ==
  /\ At(r, "slug")
  /\ LET q == reqs[r] IN
       Become(r, IF Taken(q) THEN Close(q, "refused")
                 ELSE Go(q, IF q.op = "create" THEN "insert" ELSE "rename"))
  /\ Reads

\* Bug: an invitation that is no longer pending can be accepted.
Settled_Never(q, row) == FALSE
\* Whether the invitation cannot be accepted or rejected any more.
Settled(q, row) == row.status # "pending" \/ (q.op = "accept" /\ row.expires < now)

\* get_invitation_by_id.
CheckInvitation(r) ==
  /\ At(r, "invitation")
  /\ LET q == reqs[r]
         row == invitations[q.target]
     IN Become(r,
          IF row = None THEN Close(q, "refused")
          ELSE LET known == [q EXCEPT !.org = row.org, !.role = row.role,
                                      !.open = row.status = "pending"]
               IN IF q.op = "cancel" THEN Go(known, "self")
                  ELSE IF row.user # q.user \/ Settled(q, row) THEN Close(q, "refused")
                  ELSE Go(known, IF q.op = "reject" THEN "settle"
                                 ELSE IF MemberLimit # None THEN "room" ELSE "already"))
  /\ Reads

\* Bug: the limit may be reached and one more come.
Full_OffByOne(o) == Cardinality(MembersOf(o)) > MemberLimit
Full(o) == Cardinality(MembersOf(o)) >= MemberLimit

CheckRoom(r) ==
  /\ At(r, "room")
  /\ LET q == reqs[r] IN
       Become(r, IF Full(q.org) THEN Close(q, "refused")
                 ELSE Go(q, IF q.op = "invite" /\ PendingLimit # None THEN "pending"
                            ELSE "already"))
  /\ Reads

\* Invitations that have expired count as pending.
CheckPending(r) ==
  /\ At(r, "pending")
  /\ LET q == reqs[r] IN
       Become(r, IF Cardinality(PendingFor(q.org)) >= PendingLimit THEN Close(q, "refused")
                 ELSE Go(q, "already"))
  /\ Reads

\* get_member of the user invited, or of the user accepting.
CheckAlready(r) ==
  /\ At(r, "already")
  /\ LET q == reqs[r] IN
       Become(r, IF q.op = "invite"
                 THEN IF Seats(q.org, q.who) # {} THEN Close(q, "refused")
                      ELSE Go(q, "existing")
                 ELSE Go(q, IF Seats(q.org, q.user) # {} THEN "spoil" ELSE "join"))
  /\ Reads

\* get_pending_invitation: an invitation that is there is the answer.
CheckExisting(r) ==
  /\ At(r, "existing")
  /\ LET q == reqs[r] IN
       Become(r, IF \E i \in PendingFor(q.org) : invitations[i].user = q.who
                 THEN Close(q, "ok") ELSE Go(q, "issue"))
  /\ Reads

-----------------------------------------------------------------------------
(* What requests write.                                                      *)

\* create_organization; the creator joins in a statement of its own.
InsertOrg(r) ==
  /\ At(r, "insert")
  /\ LET q == reqs[r] IN
       IF Taken(q) THEN Become(r, Close(q, "refused")) /\ UNCHANGED <<orgs, drawn>>
       ELSE LET o == Fresh(Orgs) IN
              /\ Orgs \ drawn # {}
              /\ orgs' = [orgs EXCEPT ![o] = q.slug]
              /\ drawn' = drawn \cup {o}
              /\ Become(r, [q EXCEPT !.pc = "join", !.org = o, !.role = "owner"])
  /\ UNCHANGED <<now, members, invitations, active, joined, calls>>

Rename(r) ==
  /\ At(r, "rename")
  /\ LET q == reqs[r] IN
       IF orgs[q.org] = None \/ Taken(q)
       THEN Become(r, Close(q, "refused")) /\ UNCHANGED orgs
       ELSE Become(r, Close(q, "ok")) /\ orgs' = [orgs EXCEPT ![q.org] = q.slug]
  /\ UNCHANGED <<now, members, invitations, active, drawn, joined, calls>>

\* delete_organization, with the rows that refer to it; sessions keep it active.
Dissolve(r) ==
  /\ At(r, "dissolve")
  /\ LET o == reqs[r].org IN
       /\ orgs' = [orgs EXCEPT ![o] = None]
       /\ members' = [m \in Members |-> IF m \in MembersOf(o) THEN None ELSE members[m]]
       /\ invitations' = [i \in Invitations |->
            IF invitations[i] = None THEN None
            ELSE IF invitations[i].org = o THEN None ELSE invitations[i]]
  /\ Become(r, Close(reqs[r], "ok"))
  /\ UNCHANGED <<now, active, drawn, joined, calls>>

Gone(o) == ForeignKeys /\ orgs[o] = None

\* Bug: nothing keeps a user from joining twice.
Joinable_Twice(q) == ~Gone(q.org)
\* create_member: one row for each organization and user.
Joinable(q) == ~Gone(q.org) /\ Seats(q.org, q.user) = {}

Join(r) ==
  /\ At(r, "join")
  /\ LET q == reqs[r] IN
       IF ~Joinable(q)
       THEN Become(r, Close(q, "refused")) /\ UNCHANGED <<members, drawn, joined>>
       ELSE LET m == Fresh(Members) IN
              /\ Members \ drawn # {}
              /\ members' = [members EXCEPT ![m] =
                   [org |-> q.org, user |-> q.user, role |-> q.role]]
              /\ drawn' = drawn \cup {m}
              /\ joined' = joined \cup {<<q.user, q.org>>}
              /\ Become(r, IF q.op = "create" THEN Close(q, "ok") ELSE Go(q, "settle"))
  /\ UNCHANGED <<now, orgs, invitations, active, calls>>

\* delete_member.  Who leaves their active organization leaves it inactive.
Expel(r) ==
  /\ At(r, "expel")
  /\ LET q == reqs[r] IN
       /\ members' = [members EXCEPT ![q.target] = None]
       /\ Become(r, IF q.op = "leave" /\ q.home = q.org
                    THEN [q EXCEPT !.pc = "activate", !.org = None]
                    ELSE Close(q, "ok"))
  /\ UNCHANGED <<now, orgs, invitations, active, drawn, joined, calls>>

SetRole(r) ==
  /\ At(r, "setRole")
  /\ LET q == reqs[r] IN
       IF members[q.target] = None
       THEN Become(r, Close(q, "refused")) /\ UNCHANGED members
       ELSE Become(r, Close(q, "ok")) /\ members' = [members EXCEPT ![q.target].role = q.role]
  /\ UNCHANGED <<now, orgs, invitations, active, drawn, joined, calls>>

Letter(q) == [org |-> q.org, user |-> q.who, role |-> q.role,
              status |-> "pending", expires |-> now + InviteTtl]

\* create_invitation.
Issue(r) ==
  /\ At(r, "issue")
  /\ LET q == reqs[r] IN
       IF Gone(q.org)
       THEN Become(r, Close(q, "refused")) /\ UNCHANGED <<invitations, drawn>>
       ELSE LET i == Fresh(Invitations) IN
              /\ Invitations \ drawn # {}
              /\ invitations' = [invitations EXCEPT ![i] = Letter(q)]
              /\ drawn' = drawn \cup {i}
              /\ Become(r, Close(q, "ok"))
  /\ UNCHANGED <<now, orgs, members, active, joined, calls>>

Verdict(op) == CASE op = "accept" -> "accepted"
                 [] op = "reject" -> "rejected"
                 [] op = "cancel" -> "canceled"

\* update_invitation_status, whatever the status is by now.
Settle(r) ==
  /\ reqs[r].pc \in {"settle", "spoil"}
  /\ LET q == reqs[r] IN
       IF invitations[q.target] = None
       THEN Become(r, Close(q, "refused")) /\ UNCHANGED invitations
       ELSE /\ invitations' = [invitations EXCEPT ![q.target].status = Verdict(q.op)]
            /\ Become(r, IF q.pc = "spoil" THEN Close(q, "refused")
                         ELSE IF q.op = "accept" THEN Go(q, "activate")
                         ELSE Close(q, "ok"))
  /\ UNCHANGED <<now, orgs, members, active, drawn, joined, calls>>

\* update_session_active_organization.
Activate(r) ==
  /\ At(r, "activate")
  /\ active' = [active EXCEPT ![reqs[r].user] = reqs[r].org]
  /\ Become(r, Close(reqs[r], "ok"))
  /\ UNCHANGED <<now, orgs, members, invitations, drawn, joined, calls>>

\* A statement fails, or the client goes away and its task is dropped.
Fail(r) ==
  /\ ~Free(r) /\ reqs[r].pc \in Failing
  /\ Become(r, Close(reqs[r], "error"))
  /\ Reads

Tick ==
  /\ now < MaxTime
  /\ now' = now + 1
  /\ UNCHANGED <<orgs, members, invitations, active, reqs, drawn, joined, calls>>

Check(r) == \/ CheckSelf(r) \/ CheckTarget(r) \/ CountOwners(r) \/ CheckOrgLimit(r)
            \/ CheckSlug(r) \/ CheckInvitation(r) \/ CheckRoom(r) \/ CheckPending(r)
            \/ CheckAlready(r) \/ CheckExisting(r)
Write(r) == \/ InsertOrg(r) \/ Rename(r) \/ Dissolve(r) \/ Join(r) \/ Expel(r)
            \/ SetRole(r) \/ Issue(r) \/ Settle(r) \/ Activate(r)

Next == Tick \/ \E r \in Requests : Ask(r) \/ Check(r) \/ Write(r) \/ Fail(r)

Spec == Init /\ [][Next]_vars

-----------------------------------------------------------------------------
(* Properties.                                                              *)

\* Every variable holds a value of its type, and rows have ids given out.
TypeOK ==
  /\ now \in 0..MaxTime
  /\ orgs \in [Orgs -> Slugs \cup {None}]
  /\ members \in [Members -> Member \cup {None}]
  /\ invitations \in [Invitations -> Invitation \cup {None}]
  /\ active \in [Users -> Orgs \cup {None}]
  /\ reqs \in [Requests -> Request]
  /\ Rows(orgs) \cup Rows(members) \cup Rows(invitations) \subseteq drawn
  /\ drawn \subseteq Orgs \cup Members \cup Invitations
  /\ joined \subseteq Users \X Orgs
  /\ calls \subseteq Users \X Calls

\* However invitations are accepted twice or organizations joined at once, a
\* user is in an organization once, and a slug names one organization.
MemberOnce ==
  /\ Once(members)
  /\ \A o, p \in Rows(orgs) : orgs[o] = orgs[p] => o = p

\* A session's active organization is one its user has been a member of.
ActiveJoined == \A u \in Users : active[u] # None => <<u, active[u]>> \in joined

\* The tables agree with each other and with the past, however requests cross.
Consistent == TypeOK /\ MemberOnce /\ ActiveJoined

\* A request joins the organization it has created, or one that its user is
\* invited to.
Welcome(row) ==
  \E r \in Requests : LET q == reqs[r] IN
    /\ At(r, "join") /\ q # reqs'[r] /\ q.user = row.user
    /\ \/ q.op = "create" /\ MembersOf(row.org) = {}
       \/ /\ q.op = "accept" /\ ~q.late
          /\ LET i == invitations[q.target] IN
               IF i = None THEN ~ForeignKeys /\ orgs[row.org] = None
               ELSE <<i.org, i.user, i.role>> = <<row.org, row.user, row.role>>

\* A request changes the member's row, of its own user or with a role for it.
Allowed(row) ==
  \E r \in Requests : LET q == reqs[r] IN
    /\ q # reqs'[r] /\ q.org = row.org /\ <<q.user, q.org>> \in joined
    /\ \/ q.user = row.user /\ q.op \in {"leave", "remove"}
       \/ Permits(q.mine, q.op) /\ q.op \in {"remove", "setRole", "deleteOrg"}

\* A user becomes a member by creating the organization, or by accepting an
\* invitation to it: one that is theirs, was pending when the request came in,
\* and gives the role they get; only where rows may refer to an organization
\* that is gone, both may have gone meanwhile.  A member goes, or changes role,
\* on behalf of themselves or of someone who has been in the same organization
\* with a role that permits it.
SeatsByRight ==
  [][\A m \in Members :
       /\ members[m] = None /\ members'[m] # None => Welcome(members'[m])
       /\ members[m] # None /\ members'[m] # members[m] => Allowed(members[m])]_vars

\* Limits are checked before they are used up: with n requests at once an
\* organization has at most n - 1 members, and n - 1 pending invitations, more
\* than its limits; only its creator joins without asking.
LimitsHold ==
  \A o \in Orgs : LET more == Cardinality(Requests) - 1 IN
    /\ MemberLimit # None =>
         Cardinality(MembersOf(o)) <= MemberLimit + more \/ Cardinality(MembersOf(o)) <= 1
    /\ PendingLimit # None => Cardinality(PendingFor(o)) <= PendingLimit + more

\* "Cannot leave organization as the last owner", "Cannot remove the last owner
\* from an organization", "Cannot demote the last owner" (leave_organization_core,
\* remove_member_core, update_member_role_core): an organization with an owner
\* has one until it is deleted.
OwnerRemains ==
  [][\A o \in Orgs : Owners(o) # {} => Owners(o)' # {} \/ orgs'[o] = None]_vars
-----------------------------------------------------------------------------
(* The inductive invariant behind the properties.                           *)

\* A request that has passed the check of its caller's seat.
Admitted(q) == q.op \notin {"create", "accept", "reject"} /\ q.pc # "self" /\ q.org # None
\* A request that has read the invitation it accepts, and has not used it.
Accepting(q) == q.op = "accept" /\ q.pc \in {"room", "already", "join"}

\* What a task carries fits the way it has come.
Routed(q) ==
  /\ q.org \in Known(Orgs) \cup {None}
  /\ q.pc \in {"idle", "closed"} => q.org = None
  /\ q.pc \notin {"idle", "closed"} => q.pc \in Stops[q.op] /\ q.user \in Users
  /\ q.pc \notin {"idle", "closed", "orgLimit", "insert", "invitation", "activate"} =>
       q.org # None \/ (q.op = "create" /\ q.pc = "slug")
  /\ q.op = "create" /\ q.pc # "join" => q.org = None
  /\ q.op \in {"create", "update"} /\ q.pc \notin {"idle", "closed"} => q.slug \in Slugs
  /\ q.pc \in {"setRole", "issue", "room", "already", "join"} => q.role \in Roles
  /\ q.op = "setRole" /\ q.pc # "closed" => q.role \in Roles
  /\ q.op = "invite" /\ q.pc # "closed" => q.role \in Roles /\ q.who \in Users

\* The caller was a member, with a role that permits the call; only who removes
\* a member is asked for the permission later.
Entitled(q) ==
  /\ Admitted(q) =>
       /\ <<q.user, q.org>> \in joined
       /\ q.mine \in Roles
       /\ q.op # "remove" => Permits(q.mine, q.op)
  /\ q.op = "accept" /\ q.pc \in {"settle", "activate"} => <<q.user, q.org>> \in joined

\* The member whose row is about to change is in the organization, and is the
\* caller or someone whom the caller may remove.
Targets(q) ==
  /\ q.op \in {"remove", "setRole"} /\ q.pc # "closed" => q.target \in Known(Members)
  /\ q.pc \in {"count", "expel", "setRole"} =>
       /\ q.target \in Known(Members)
       /\ members[q.target] # None =>
            LET row == members[q.target] IN
            /\ row.org = q.org
            /\ q.op = "leave" => row.user = q.user
            /\ q.op = "remove" => row.user = q.user \/ Permits(q.mine, "remove")

\* The invitation that is accepted was pending, and says what the task does: it
\* only goes with its organization.
Answers(q) ==
  /\ q.op \in {"accept", "reject", "cancel"} /\ q.pc # "closed" =>
       q.target \in Known(Invitations)
  /\ q.op = "accept" /\ q.pc = "invitation" /\ q.late => Late(q.target)
  /\ Accepting(q) =>
       /\ ~q.late
       /\ LET i == invitations[q.target] IN
          IF i = None THEN orgs[q.org] = None
          ELSE <<i.org, i.user, i.role>> = <<q.org, q.user, q.role>>

\* Rows name organizations that were founded, and members have joined them.
RowsKept ==
  /\ \A m \in Rows(members) : /\ members[m].org \in drawn
                              /\ <<members[m].user, members[m].org>> \in joined
  /\ \A i \in Rows(invitations) : invitations[i].org \in drawn

\* Until its creator has joined, nobody gets far with a new organization.
Founded ==
  \A r \in Requests : reqs[r].op = "create" /\ At(r, "join") =>
    LET o == reqs[r].org IN
    /\ \A m \in Rows(members) : members[m].org # o
    /\ \A i \in Rows(invitations) : invitations[i].org # o
    /\ \A p \in Requests \ {r} : reqs[p].org = o => At(p, "self")

\* The tasks that have found room, each of them good for one more row.
Joining(o) ==
  {r \in Requests : /\ reqs[r].org = o
                    /\ \/ reqs[r].op = "accept" /\ reqs[r].pc \in {"already", "join"}
                       \/ reqs[r].op = "create" /\ At(r, "join")}
Issuing(o) == {r \in Requests : /\ reqs[r].org = o /\ reqs[r].op = "invite"
                                /\ reqs[r].pc \in {"already", "existing", "issue"}}

Seated(o) ==
  LET all == Cardinality(MembersOf(o)) + Cardinality(Joining(o)) IN
  /\ IsFiniteSet(MembersOf(o))
  /\ MemberLimit # None => all <= MemberLimit + Cardinality(Requests) - 1 \/ all <= 1
Invited(o) ==
  /\ IsFiniteSet(PendingFor(o))
  /\ PendingLimit # None =>
       Cardinality(PendingFor(o)) + Cardinality(Issuing(o))
         <= PendingLimit + Cardinality(Requests) - 1

OrganizationsInv ==
  /\ Consistent
  /\ RowsKept /\ Founded
  /\ \A r \in Requests : LET q == reqs[r] IN
       Routed(q) /\ Entitled(q) /\ Targets(q) /\ Answers(q)
  /\ \A o \in Orgs : Seated(o) /\ Invited(o)

=============================================================================
