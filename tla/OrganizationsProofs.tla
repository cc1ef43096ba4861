--------------------------- MODULE OrganizationsProofs --------------------------
(***************************************************************************)
(* Proofs about the organization plugin, for any number of users,           *)
(* organizations, rows, requests and limits.                                *)
(***************************************************************************)
EXTENDS Organizations, FiniteSetTheorems, TLAPS

USE OrganizationsAssumption

-----------------------------------------------------------------------------
(* Requests.                                                                *)

LEMMA PcsFacts ==
  Pcs = {"idle", "closed", "orgLimit", "slug", "insert", "join", "rename", "self",
         "dissolve", "target", "count", "expel", "setRole", "invitation", "room", "pending",
         "already", "existing", "issue", "settle", "spoil", "activate"}
BY DEF Pcs, Stops, Calls, Managing

LEMMA StopsFacts ==
  /\ Stops["create"] = {"orgLimit", "slug", "insert", "join"}
  /\ Stops["update"] = {"self", "slug", "rename"}
  /\ Stops["deleteOrg"] = {"self", "dissolve"}
  /\ Stops["setActive"] = {"self", "activate"}
  /\ Stops["leave"] = {"self", "count", "expel", "activate"}
  /\ Stops["remove"] = {"self", "target", "count", "expel"}
  /\ Stops["setRole"] = {"self", "target", "count", "setRole"}
  /\ Stops["invite"] = {"self", "room", "pending", "already", "existing", "issue"}
  /\ Stops["cancel"] = {"invitation", "self", "settle"}
  /\ Stops["reject"] = {"invitation", "settle"}
  /\ Stops["accept"] = {"invitation", "room", "already", "join", "spoil", "settle", "activate"}
BY DEF Stops

LEMMA RequestFacts ==
  ASSUME TypeOK, NEW r \in Requests
  PROVE  reqs[r] \in Request
BY DEF TypeOK

LEMMA FieldFacts ==
  ASSUME NEW q \in Request
  PROVE  /\ q.pc \in Pcs /\ q.op \in Calls /\ q.user \in Users \cup {None}
         /\ q.org \in Orgs \cup {None} /\ q.target \in Members \cup Invitations \cup {None}
         /\ q.slug \in Slugs \cup {None} /\ q.who \in Users \cup {None}
         /\ q.role \in Roles \cup {None} /\ q.mine \in Roles \cup {None}
         /\ q.home \in Orgs \cup {None} /\ q.open \in BOOLEAN /\ q.late \in BOOLEAN
BY DEF Request

\* Two requests that differ in their place at most.
Same(q, t) ==
  /\ t.op = q.op /\ t.user = q.user /\ t.org = q.org /\ t.target = q.target
  /\ t.slug = q.slug /\ t.who = q.who /\ t.role = q.role /\ t.mine = q.mine
  /\ t.home = q.home /\ t.open = q.open /\ t.late = q.late

LEMMA GoFacts ==
  ASSUME NEW q \in Request, NEW pc \in Pcs
  PROVE  Go(q, pc) \in Request /\ Go(q, pc).pc = pc /\ Same(q, Go(q, pc))
<1>1. PICK t : t = Go(q, pc)
  OBVIOUS
<1>2. t = [pc |-> pc, op |-> q.op, user |-> q.user, org |-> q.org, target |-> q.target,
           slug |-> q.slug, who |-> q.who, role |-> q.role, mine |-> q.mine,
           home |-> q.home, open |-> q.open, late |-> q.late, result |-> q.result]
  BY <1>1 DEF Go, Request
<1>3. t \in Request /\ t.pc = pc
  BY <1>2 DEF Request
<1>4. Same(q, t)
  BY <1>2 DEF Same
<1> QED  BY <1>1, <1>3, <1>4

LEMMA BlankFacts ==
  Blank \in Request /\ Blank.pc = "idle" /\ Blank.org = None /\ Blank.op = "create"
<1>1. "idle" \in Pcs
  BY PcsFacts
<1> QED  BY <1>1 DEF Blank, Request, Calls

LEMMA CloseFacts ==
  ASSUME NEW q \in Request, NEW res \in {"ok", "refused", "error"}
  PROVE  /\ Close(q, res) \in Request /\ Close(q, res).pc = "closed"
         /\ Close(q, res).org = None /\ Close(q, res).op = q.op
<1>1. PICK t : t = Close(q, res)
  OBVIOUS
<1>2. t = [pc |-> "closed", op |-> q.op, user |-> None, org |-> None, target |-> None,
           slug |-> None, who |-> None, role |-> None, mine |-> None, home |-> None,
           open |-> FALSE, late |-> q.late, result |-> res]
  BY <1>1 DEF Close, Blank
<1>3. "closed" \in Pcs
  BY PcsFacts
<1>4. t \in Request /\ t.pc = "closed" /\ t.org = None /\ t.op = q.op
  BY <1>2, <1>3 DEF Request
<1> QED  BY <1>1, <1>4

\* The task r goes on with t, and the other tasks stay where they are.
Moves(r, t) ==
  /\ t \in Request
  /\ reqs'[r] = t
  /\ \A q \in Requests \ {r} : reqs'[q] = reqs[q]
  /\ reqs' \in [Requests -> Request]

LEMMA BecomeFacts ==
  ASSUME TypeOK, NEW r \in Requests, NEW t \in Request, Become(r, t)
  PROVE  Moves(r, t)
BY DEF TypeOK, Become, Moves

\* The part of the invariant that is about one task.
Sound(q) == Routed(q) /\ Entitled(q) /\ Targets(q) /\ Answers(q)

LEMMA ClosedSound ==
  ASSUME NEW q \in Request, q.pc \in {"idle", "closed"}, q.org = None,
         q.pc = "idle" => q.op = "create"
  PROVE  Sound(q)
BY DEF Sound, Routed, Entitled, Targets, Answers, Admitted, Accepting

-----------------------------------------------------------------------------
(* What the other tasks do to the one that waits.                           *)

\* Ids are never given out twice; rows keep what they refer to; an organization
\* and an invitation that are gone stay away; an invitation is pending once.
Evolves ==
  /\ drawn \subseteq drawn' /\ joined \subseteq joined'
  /\ \A o \in Known(Orgs) : orgs[o] = None => orgs'[o] = None
  /\ \A m \in Known(Members) : members'[m] # None =>
       /\ members[m] # None
       /\ members'[m].org = members[m].org /\ members'[m].user = members[m].user
  /\ \A i \in Known(Invitations) :
       /\ invitations'[i] # None =>
            /\ invitations[i] # None
            /\ invitations'[i].org = invitations[i].org
            /\ invitations'[i].user = invitations[i].user
            /\ invitations'[i].role = invitations[i].role
            /\ invitations[i].status # "pending" => invitations'[i].status # "pending"
       /\ invitations'[i] = None /\ invitations[i] # None =>
            orgs'[invitations[i].org] = None

LEMMA LateStays ==
  ASSUME Evolves, TypeOK, TypeOK', NEW i \in Known(Invitations), Late(i)
  PROVE  Late(i)'
BY DEF Evolves, Late, PendingFor, Rows, TypeOK, Known

LEMMA SoundStays ==
  ASSUME Evolves, TypeOK, TypeOK', NEW q \in Request, Sound(q)
  PROVE  Sound(q)'
<1> USE DEF Sound
<1>1. Routed(q)'
  BY DEF Routed, Evolves, Known
<1>2. Entitled(q)'
  BY DEF Entitled, Evolves, Admitted
<1>3. Targets(q)'
  BY DEF Targets, Evolves, Known
<1>4. Answers(q)'
  <2>1. q.op \in {"accept", "reject", "cancel"} /\ q.pc # "closed" =>
          q.target \in Known(Invitations)
    BY DEF Answers
  <2>2. q.target \in Known(Invitations) => q.target \in Known(Invitations)'
    BY DEF Evolves, Known
  <2>3. q.target \in Known(Invitations) /\ Late(q.target) => Late(q.target)'
    BY LateStays
  <2>4. Accepting(q) => q.org \in Known(Orgs)
    BY DEF Accepting, Routed
  <2>5. ASSUME Accepting(q)
        PROVE  LET i == invitations'[q.target] IN
               IF i = None THEN orgs'[q.org] = None
               ELSE <<i.org, i.user, i.role>> = <<q.org, q.user, q.role>>
    BY <2>1, <2>4, <2>5 DEF Accepting, Answers, Evolves
  <2> QED  BY <2>1, <2>2, <2>3, <2>5 DEF Answers, Accepting
<1> QED  BY <1>1, <1>2, <1>3, <1>4

LEMMA TasksStay ==
  ASSUME Evolves, TypeOK, TypeOK', \A q \in Requests : Sound(reqs[q]),
         NEW r \in Requests, NEW t, Moves(r, t), Sound(t)'
  PROVE  \A q \in Requests : Sound(reqs[q])'
<1> SUFFICES ASSUME NEW q \in Requests PROVE Sound(reqs[q])'
  OBVIOUS
<1>1. PICK x : x = reqs'[q]
  OBVIOUS
<1>2. Sound(x)'
  <2>1. CASE q = r
    <3>1. x = t
      BY <1>1, <2>1 DEF Moves
    <3> QED  BY <3>1
  <2>2. CASE q # r
    <3>1. x = reqs[q] /\ x \in Request
      BY <1>1, <2>2, RequestFacts DEF Moves
    <3>2. Sound(x)
      BY <3>1
    <3> QED  BY <3>1, <3>2, SoundStays
  <2> QED  BY <2>1, <2>2
<1>3. Routed(reqs[q])'
  BY <1>1, <1>2 DEF Sound, Routed
<1>4. Entitled(reqs[q])'
  BY <1>1, <1>2 DEF Sound, Entitled, Admitted
<1>5. Targets(reqs[q])'
  BY <1>1, <1>2 DEF Sound, Targets
<1>6. Answers(reqs[q])'
  BY <1>1, <1>2 DEF Sound, Answers, Accepting, Late
<1> QED  BY <1>3, <1>4, <1>5, <1>6 DEF Sound

-----------------------------------------------------------------------------
(* New organizations.                                                       *)

Founder(q) == q.op = "create" /\ q.pc = "join"

\* The task is in the way of no founder: what it knows of an organization it has
\* from a form, from a task that is no founder's, or from a row.
Harmless(r, t) ==
  /\ ~Founder(t)
  /\ \/ t.org = None \/ t.pc = "self"
     \/ t.org = reqs[r].org /\ reqs[r].pc # "self"
     \/ \E m \in Rows(members) : members[m].org = t.org
     \/ \E i \in Rows(invitations) : invitations[i].org = t.org

\* New rows are of the organization that the task is in.
Adds(r) ==
  /\ \A m \in Rows(members)' :
       \/ m \in Rows(members) /\ members'[m].org = members[m].org
       \/ members'[m].org = reqs[r].org /\ reqs[r].pc # "self"
  /\ \A i \in Rows(invitations)' :
       \/ i \in Rows(invitations) /\ invitations'[i].org = invitations[i].org
       \/ invitations'[i].org = reqs[r].org /\ reqs[r].pc # "self"

LEMMA FoundedStays ==
  ASSUME TypeOK, \A q \in Requests : Sound(reqs[q]), Founded,
         NEW r \in Requests, NEW t, Moves(r, t), Harmless(r, t), Adds(r)
  PROVE  Founded'
<1> SUFFICES ASSUME NEW p \in Requests, Founder(reqs'[p])
             PROVE  LET o == reqs'[p].org IN
                    /\ \A m \in Rows(members)' : members'[m].org # o
                    /\ \A i \in Rows(invitations)' : invitations'[i].org # o
                    /\ \A q \in Requests \ {p} : reqs'[q].org = o => reqs'[q].pc = "self"
  BY DEF Founded, Founder, At
<1>1. p # r /\ reqs'[p] = reqs[p]
  BY DEF Moves, Harmless
<1>2. PICK o : o = reqs[p].org
  OBVIOUS
<1>3. /\ \A m \in Rows(members) : members[m].org # o
      /\ \A i \in Rows(invitations) : invitations[i].org # o
      /\ \A q \in Requests \ {p} : reqs[q].org = o => reqs[q].pc = "self"
  BY <1>1, <1>2 DEF Founded, Founder, At
<1>4. o # None
  BY <1>1, <1>2 DEF Sound, Routed, Founder
<1>5. \A m \in Rows(members)' : members'[m].org # o
  BY <1>1, <1>3 DEF Adds
<1>6. \A i \in Rows(invitations)' : invitations'[i].org # o
  BY <1>1, <1>3 DEF Adds
<1>7. \A q \in Requests \ {p} : reqs'[q].org = o => reqs'[q].pc = "self"
  BY <1>1, <1>3, <1>4 DEF Harmless, Moves
<1> QED  BY <1>1, <1>2, <1>5, <1>6, <1>7

-----------------------------------------------------------------------------
(* Counting.                                                                *)

LEMMA Requesters ==
  /\ Cardinality(Requests) \in Nat /\ Cardinality(Requests) >= 1
  /\ \A S \in SUBSET Requests :
       /\ IsFiniteSet(S) /\ Cardinality(S) \in Nat
       /\ Cardinality(S) <= Cardinality(Requests)
<1>1. Cardinality(Requests) \in Nat
  BY FS_CardinalityType
<1>2. Cardinality(Requests) # 0
  BY FS_EmptySet
<1>3. ASSUME NEW S \in SUBSET Requests
      PROVE  /\ IsFiniteSet(S) /\ Cardinality(S) \in Nat
             /\ Cardinality(S) <= Cardinality(Requests)
  <2>1. IsFiniteSet(S) /\ Cardinality(S) <= Cardinality(Requests)
    BY FS_Subset
  <2> QED  BY <2>1, FS_CardinalityType
<1> QED  BY <1>1, <1>2, <1>3

LEMMA Smaller ==
  ASSUME NEW S, IsFiniteSet(S), NEW S1 \in SUBSET S,
         NEW C, IsFiniteSet(C), NEW C1 \in SUBSET C
  PROVE  /\ IsFiniteSet(S1) /\ IsFiniteSet(C1)
         /\ Cardinality(S1) \in Nat /\ Cardinality(C1) \in Nat
         /\ Cardinality(S) \in Nat /\ Cardinality(C) \in Nat
         /\ Cardinality(S1) + Cardinality(C1) <= Cardinality(S) + Cardinality(C)
<1>1. IsFiniteSet(S1) /\ Cardinality(S1) <= Cardinality(S)
  BY FS_Subset
<1>2. IsFiniteSet(C1) /\ Cardinality(C1) <= Cardinality(C)
  BY FS_Subset
<1>3. /\ Cardinality(S1) \in Nat /\ Cardinality(C1) \in Nat
      /\ Cardinality(S) \in Nat /\ Cardinality(C) \in Nat
  BY <1>1, <1>2, FS_CardinalityType
<1> QED  BY <1>1, <1>2, <1>3

\* A task turns into a row.
LEMMA Swapped ==
  ASSUME NEW S, IsFiniteSet(S), NEW x, NEW S1 \in SUBSET (S \cup {x}),
         NEW C, IsFiniteSet(C), NEW c \in C, NEW C1 \in SUBSET (C \ {c})
  PROVE  /\ IsFiniteSet(S1) /\ IsFiniteSet(C1)
         /\ Cardinality(S1) \in Nat /\ Cardinality(C1) \in Nat
         /\ Cardinality(S) \in Nat /\ Cardinality(C) \in Nat
         /\ Cardinality(S1) + Cardinality(C1) <= Cardinality(S) + Cardinality(C)
<1>1. /\ IsFiniteSet(S \cup {x})
      /\ Cardinality(S \cup {x}) \in {Cardinality(S), Cardinality(S) + 1}
  BY FS_AddElement
<1>2. IsFiniteSet(C \ {c}) /\ Cardinality(C \ {c}) = Cardinality(C) - 1
  BY FS_RemoveElement
<1>3. IsFiniteSet(S1) /\ Cardinality(S1) <= Cardinality(S \cup {x})
  BY <1>1, FS_Subset
<1>4. IsFiniteSet(C1) /\ Cardinality(C1) <= Cardinality(C \ {c})
  BY <1>2, FS_Subset
<1>5. /\ Cardinality(S1) \in Nat /\ Cardinality(C1) \in Nat
      /\ Cardinality(S) \in Nat /\ Cardinality(C) \in Nat
  BY <1>3, <1>4, FS_CardinalityType
<1> QED  BY <1>1, <1>2, <1>3, <1>4, <1>5

LEMMA SeatedShrinks ==
  ASSUME NEW o \in Orgs, Seated(o),
         MembersOf(o)' \subseteq MembersOf(o), Joining(o)' \subseteq Joining(o)
  PROVE  Seated(o)'
<1>1. PICK S : S = MembersOf(o)
  OBVIOUS
<1>2. PICK S1 : S1 = MembersOf(o)'
  OBVIOUS
<1>3. PICK C : C = Joining(o)
  OBVIOUS
<1>4. PICK C1 : C1 = Joining(o)'
  OBVIOUS
<1>5. C \in SUBSET Requests
  BY <1>3 DEF Joining
<1>6. IsFiniteSet(S) /\ IsFiniteSet(C)
  BY <1>1, <1>5, Requesters DEF Seated
<1>7. /\ IsFiniteSet(S1) /\ Cardinality(S1) \in Nat /\ Cardinality(C1) \in Nat
      /\ Cardinality(S) \in Nat /\ Cardinality(C) \in Nat
      /\ Cardinality(S1) + Cardinality(C1) <= Cardinality(S) + Cardinality(C)
  BY <1>1, <1>2, <1>3, <1>4, <1>6, Smaller
<1>8. MemberLimit # None =>
        \/ Cardinality(S) + Cardinality(C) <= MemberLimit + Cardinality(Requests) - 1
        \/ Cardinality(S) + Cardinality(C) <= 1
  BY <1>1, <1>3 DEF Seated
<1>9. MemberLimit # None =>
        \/ Cardinality(S1) + Cardinality(C1) <= MemberLimit + Cardinality(Requests) - 1
        \/ Cardinality(S1) + Cardinality(C1) <= 1
  BY <1>7, <1>8, Requesters
<1> QED  BY <1>2, <1>4, <1>7, <1>9 DEF Seated

LEMMA InvitedShrinks ==
  ASSUME NEW o \in Orgs, Invited(o),
         PendingFor(o)' \subseteq PendingFor(o), Issuing(o)' \subseteq Issuing(o)
  PROVE  Invited(o)'
<1>1. PICK S : S = PendingFor(o)
  OBVIOUS
<1>2. PICK S1 : S1 = PendingFor(o)'
  OBVIOUS
<1>3. PICK C : C = Issuing(o)
  OBVIOUS
<1>4. PICK C1 : C1 = Issuing(o)'
  OBVIOUS
<1>5. C \in SUBSET Requests
  BY <1>3 DEF Issuing
<1>6. IsFiniteSet(S) /\ IsFiniteSet(C)
  BY <1>1, <1>5, Requesters DEF Invited
<1>7. /\ IsFiniteSet(S1) /\ Cardinality(S1) \in Nat /\ Cardinality(C1) \in Nat
      /\ Cardinality(S) \in Nat /\ Cardinality(C) \in Nat
      /\ Cardinality(S1) + Cardinality(C1) <= Cardinality(S) + Cardinality(C)
  BY <1>1, <1>2, <1>3, <1>4, <1>6, Smaller
<1>8. PendingLimit # None =>
        Cardinality(S) + Cardinality(C) <= PendingLimit + Cardinality(Requests) - 1
  BY <1>1, <1>3 DEF Invited
<1>9. PendingLimit # None =>
        Cardinality(S1) + Cardinality(C1) <= PendingLimit + Cardinality(Requests) - 1
  BY <1>7, <1>8, Requesters
<1> QED  BY <1>2, <1>4, <1>7, <1>9 DEF Invited

\* A task that has found room goes on.
LEMMA SeatedGrows ==
  ASSUME NEW o \in Orgs, Seated(o), MembersOf(o)' \subseteq MembersOf(o),
         MemberLimit # None => Cardinality(MembersOf(o)) < MemberLimit
  PROVE  Seated(o)'
<1>1. PICK S : S = MembersOf(o)
  OBVIOUS
<1>2. PICK S1 : S1 = MembersOf(o)'
  OBVIOUS
<1>4. PICK C1 : C1 = Joining(o)'
  OBVIOUS
<1>5. C1 \in SUBSET Requests
  BY <1>4 DEF Joining
<1>6. Cardinality(C1) \in Nat /\ Cardinality(C1) <= Cardinality(Requests)
  BY <1>5, Requesters
<1>7. IsFiniteSet(S) /\ S1 \in SUBSET S
  BY <1>1, <1>2 DEF Seated
<1>8. IsFiniteSet(S1) /\ Cardinality(S1) <= Cardinality(S)
  BY <1>7, FS_Subset
<1>9. Cardinality(S1) \in Nat /\ Cardinality(S) \in Nat
  BY <1>7, <1>8, FS_CardinalityType
<1>10. MemberLimit # None =>
         Cardinality(S1) + Cardinality(C1) <= MemberLimit + Cardinality(Requests) - 1
  BY <1>1, <1>6, <1>8, <1>9, Requesters
<1> QED  BY <1>2, <1>4, <1>8, <1>10 DEF Seated

LEMMA InvitedGrows ==
  ASSUME NEW o \in Orgs, Invited(o), PendingFor(o)' \subseteq PendingFor(o),
         PendingLimit # None => Cardinality(PendingFor(o)) < PendingLimit
  PROVE  Invited(o)'
<1>1. PICK S : S = PendingFor(o)
  OBVIOUS
<1>2. PICK S1 : S1 = PendingFor(o)'
  OBVIOUS
<1>4. PICK C1 : C1 = Issuing(o)'
  OBVIOUS
<1>5. C1 \in SUBSET Requests
  BY <1>4 DEF Issuing
<1>6. Cardinality(C1) \in Nat /\ Cardinality(C1) <= Cardinality(Requests)
  BY <1>5, Requesters
<1>7. IsFiniteSet(S) /\ S1 \in SUBSET S
  BY <1>1, <1>2 DEF Invited
<1>8. IsFiniteSet(S1) /\ Cardinality(S1) <= Cardinality(S)
  BY <1>7, FS_Subset
<1>9. Cardinality(S1) \in Nat /\ Cardinality(S) \in Nat
  BY <1>7, <1>8, FS_CardinalityType
<1>10. PendingLimit # None =>
         Cardinality(S1) + Cardinality(C1) <= PendingLimit + Cardinality(Requests) - 1
  BY <1>1, <1>6, <1>8, <1>9, Requesters
<1> QED  BY <1>2, <1>4, <1>8, <1>10 DEF Invited

-----------------------------------------------------------------------------
(* The steps that only read.                                                *)

Enters(q) == \/ q.op = "accept" /\ q.pc \in {"already", "join"}
             \/ Founder(q)
Writes(q) == q.op = "invite" /\ q.pc \in {"already", "existing", "issue"}

\* The task passes a limit only where there is room.
HasRoom(r, t) ==
  /\ Enters(t) => \/ Enters(reqs[r]) /\ reqs[r].org = t.org
                  \/ MemberLimit # None => Cardinality(MembersOf(t.org)) < MemberLimit
  /\ Writes(t) => \/ Writes(reqs[r]) /\ reqs[r].org = t.org
                  \/ PendingLimit # None => Cardinality(PendingFor(t.org)) < PendingLimit

LEMMA LimitsStay ==
  ASSUME \A o \in Orgs : Seated(o) /\ Invited(o),
         \A o \in Orgs : MembersOf(o)' \subseteq MembersOf(o),
         \A o \in Orgs : PendingFor(o)' \subseteq PendingFor(o),
         NEW r \in Requests, NEW t, Moves(r, t), HasRoom(r, t)
  PROVE  \A o \in Orgs : Seated(o)' /\ Invited(o)'
<1> SUFFICES ASSUME NEW o \in Orgs PROVE Seated(o)' /\ Invited(o)'
  OBVIOUS
<1>1. Seated(o)'
  <2>1. CASE Enters(t) /\ t.org = o /\ ~(Enters(reqs[r]) /\ reqs[r].org = o)
    BY <2>1, SeatedGrows DEF HasRoom
  <2>2. CASE ~(Enters(t) /\ t.org = o) \/ (Enters(reqs[r]) /\ reqs[r].org = o)
    <3>1. Joining(o)' \subseteq Joining(o)
      BY <2>2 DEF Joining, Moves, Enters, Founder, At
    <3> QED  BY <3>1, SeatedShrinks
  <2> QED  BY <2>1, <2>2
<1>2. Invited(o)'
  <2>1. CASE Writes(t) /\ t.org = o /\ ~(Writes(reqs[r]) /\ reqs[r].org = o)
    BY <2>1, InvitedGrows DEF HasRoom
  <2>2. CASE ~(Writes(t) /\ t.org = o) \/ (Writes(reqs[r]) /\ reqs[r].org = o)
    <3>1. Issuing(o)' \subseteq Issuing(o)
      BY <2>2 DEF Issuing, Moves, Writes
    <3> QED  BY <3>1, InvitedShrinks
  <2> QED  BY <2>1, <2>2
<1> QED  BY <1>1, <1>2

LEMMA QuietKeeps ==
  ASSUME OrganizationsInv, NEW r \in Requests, NEW t, Moves(r, t), Reads,
         Sound(t), Harmless(r, t), HasRoom(r, t)
  PROVE  OrganizationsInv'
<1>1. TypeOK /\ \A q \in Requests : Sound(reqs[q])
  BY DEF OrganizationsInv, Consistent, Sound
<1>2. UNCHANGED <<now, orgs, members, invitations, active, drawn, joined, calls>>
  BY DEF Reads
<1>3. TypeOK'
  BY <1>1, <1>2 DEF TypeOK, Moves, Rows
<1>4. MemberOnce' /\ ActiveJoined' /\ RowsKept'
  BY <1>2 DEF OrganizationsInv, Consistent, MemberOnce, Once, ActiveJoined, RowsKept, Rows
<1>5. Evolves
  BY <1>2 DEF Evolves
<1>6. Sound(t)'
  BY <1>2 DEF Sound, Routed, Entitled, Targets, Answers, Admitted, Accepting, Late,
              PendingFor, Rows, Known
<1>7. \A q \in Requests : Sound(reqs[q])'
  BY <1>1, <1>3, <1>5, <1>6, TasksStay
<1>8. Adds(r)
  BY <1>2 DEF Adds, Rows
<1>9. Founded'
  BY <1>1, <1>8, FoundedStays DEF OrganizationsInv
<1>10. \A o \in Orgs : MembersOf(o)' \subseteq MembersOf(o)
  BY <1>2 DEF MembersOf, Rows
<1>11. \A o \in Orgs : PendingFor(o)' \subseteq PendingFor(o)
  BY <1>2 DEF PendingFor, Rows
<1>12. \A o \in Orgs : Seated(o)' /\ Invited(o)'
  BY <1>10, <1>11, LimitsStay DEF OrganizationsInv
<1>13. Consistent'
  BY <1>3, <1>4 DEF Consistent
<1> QED  BY <1>4, <1>7, <1>9, <1>12, <1>13 DEF OrganizationsInv, Sound

\* The request at hand.
LEMMA TaskFacts ==
  ASSUME OrganizationsInv, NEW r \in Requests
  PROVE  TypeOK /\ reqs[r] \in Request /\ Sound(reqs[r])
BY RequestFacts DEF OrganizationsInv, Consistent, Sound

LEMMA CloseKeeps ==
  ASSUME OrganizationsInv, NEW r \in Requests, NEW res \in {"ok", "refused", "error"},
         Become(r, Close(reqs[r], res)), Reads
  PROVE  OrganizationsInv'
<1>1. PICK t : t = Close(reqs[r], res)
  OBVIOUS
<1>2. t \in Request /\ t.pc = "closed" /\ t.org = None
  BY <1>1, TaskFacts, CloseFacts
<1>3. Moves(r, t)
  BY <1>1, <1>2, TaskFacts, BecomeFacts
<1>4. Sound(t)
  BY <1>2, ClosedSound
<1>5. Harmless(r, t) /\ HasRoom(r, t)
  BY <1>2 DEF Harmless, HasRoom, Founder, Enters, Writes
<1> QED  BY <1>3, <1>4, <1>5, QuietKeeps

\* A statement finds what it needs, and the task goes on where it is.
LEMMA GoKeeps ==
  ASSUME OrganizationsInv, NEW r \in Requests, NEW pc \in Pcs,
         Become(r, Go(reqs[r], pc)), Reads, reqs[r].pc # "self",
         ~(reqs[r].op = "create" /\ pc = "join"),
         Sound(Go(reqs[r], pc)), HasRoom(r, Go(reqs[r], pc))
  PROVE  OrganizationsInv'
<1>1. PICK t : t = Go(reqs[r], pc)
  OBVIOUS
<1>2. t \in Request /\ t.pc = pc /\ Same(reqs[r], t)
  BY <1>1, TaskFacts, GoFacts
<1>3. Moves(r, t)
  BY <1>1, <1>2, TaskFacts, BecomeFacts
<1>4. Harmless(r, t)
  BY <1>2 DEF Harmless, Founder, Same
<1> QED  BY <1>1, <1>3, <1>4, QuietKeeps

\* Where a task goes from each place.
LEMMA CountOwnersKeeps ==
  ASSUME OrganizationsInv, NEW r \in Requests, CountOwners(r)
  PROVE  OrganizationsInv'
<1>1. Reads /\ reqs[r].pc = "count"
  BY DEF CountOwners, At
<1>2. CASE Become(r, Close(reqs[r], "refused"))
  BY <1>1, <1>2, CloseKeeps
<1>3. CASE Become(r, Go(reqs[r], Doing(reqs[r])))
  <2>1. PICK q : q = reqs[r]
    OBVIOUS
  <2>2. q \in Request /\ Sound(q) /\ q.op \in {"leave", "remove", "setRole"}
    BY <1>1, <2>1, TaskFacts, StopsFacts DEF Sound, Routed, Request, Calls, Managing
  <2>3. PICK pc : pc = Doing(q)
    OBVIOUS
  <2>4. pc = (IF q.op = "setRole" THEN "setRole" ELSE "expel") /\ pc \in Pcs
    BY <2>3, PcsFacts DEF Doing
  <2>5. PICK t : t = Go(q, pc)
    OBVIOUS
  <2>6. t.pc = pc /\ Same(q, t)
    BY <2>2, <2>4, <2>5, GoFacts
  <2>7. Sound(t)
    <3>1. Routed(t)
      BY <1>1, <2>1, <2>2, <2>4, <2>6, StopsFacts DEF Sound, Routed, Same
    <3>2. Entitled(t)
      BY <1>1, <2>1, <2>2, <2>4, <2>6 DEF Sound, Entitled, Admitted, Same
    <3>3. Targets(t)
      BY <1>1, <2>1, <2>2, <2>4, <2>6 DEF Sound, Targets, Same
    <3>4. Answers(t)
      BY <1>1, <2>1, <2>2, <2>4, <2>6 DEF Answers, Accepting, Same
    <3> QED  BY <3>1, <3>2, <3>3, <3>4 DEF Sound
  <2>8. HasRoom(r, t)
    BY <2>2, <2>4, <2>6 DEF HasRoom, Enters, Writes, Founder, Same
  <2> QED  BY <1>1, <1>3, <2>1, <2>2, <2>3, <2>4, <2>5, <2>7, <2>8, GoKeeps
<1> QED  BY <1>2, <1>3 DEF CountOwners

LEMMA CheckTargetKeeps ==
  ASSUME OrganizationsInv, NEW r \in Requests, CheckTarget(r)
  PROVE  OrganizationsInv'
<1>1. Reads /\ reqs[r].pc = "target"
  BY DEF CheckTarget, At
<1>2. CASE Become(r, Close(reqs[r], "refused"))
  BY <1>1, <1>2, CloseKeeps
<1>3. CASE ~Become(r, Close(reqs[r], "refused"))
  <2>1. PICK q : q = reqs[r]
    OBVIOUS
  <2>2. q \in Request /\ Sound(q) /\ q.op \in {"remove", "setRole"}
    BY <1>1, <2>1, TaskFacts, StopsFacts DEF Sound, Routed, Request, Calls, Managing
  <2>3. PICK row : row = members[q.target]
    OBVIOUS
  <2>4. PICK pc : pc = IF row.role = "owner" /\ q.role # "owner" THEN "count" ELSE Doing(q)
    OBVIOUS
  <2>5. /\ row # None /\ row.org = q.org
        /\ q.op = "remove" /\ row.user # q.user => Permits(q.mine, "remove")
        /\ Become(r, Go(q, pc))
    BY <1>3, <2>1, <2>3, <2>4 DEF CheckTarget, Mismatch
  <2>6. pc \in {"count", IF q.op = "setRole" THEN "setRole" ELSE "expel"} /\ pc \in Pcs
    BY <2>4, PcsFacts DEF Doing
  <2>7. PICK t : t = Go(q, pc)
    OBVIOUS
  <2>8. t.pc = pc /\ Same(q, t)
    BY <2>2, <2>6, <2>7, GoFacts
  <2>9. Sound(t)
    <3>1. Routed(t)
      BY <1>1, <2>1, <2>2, <2>6, <2>8, StopsFacts DEF Sound, Routed, Same
    <3>2. Entitled(t)
      BY <1>1, <2>1, <2>2, <2>6, <2>8 DEF Sound, Entitled, Admitted, Same
    <3>3. Targets(t)
      BY <1>1, <2>1, <2>2, <2>3, <2>5, <2>6, <2>8 DEF Sound, Targets, Same
    <3>4. Answers(t)
      BY <1>1, <2>1, <2>2, <2>6, <2>8 DEF Answers, Accepting, Same
    <3> QED  BY <3>1, <3>2, <3>3, <3>4 DEF Sound
  <2>10. HasRoom(r, t)
    BY <2>2, <2>6, <2>8 DEF HasRoom, Enters, Writes, Founder, Same
  <2> QED  BY <1>1, <2>1, <2>2, <2>5, <2>6, <2>7, <2>9, <2>10, GoKeeps
<1> QED  BY <1>2, <1>3

LEMMA CheckOrgLimitKeeps ==
  ASSUME OrganizationsInv, NEW r \in Requests, CheckOrgLimit(r)
  PROVE  OrganizationsInv'
<1>1. Reads /\ reqs[r].pc = "orgLimit"
  BY DEF CheckOrgLimit, At
<1>2. CASE \E res \in {"ok", "refused", "error"} : Become(r, Close(reqs[r], res))
  BY <1>1, <1>2, CloseKeeps
<1>3. CASE ~\E res \in {"ok", "refused", "error"} : Become(r, Close(reqs[r], res))
  <2>1. PICK q : q = reqs[r]
    OBVIOUS
  <2>2. q \in Request /\ Sound(q) /\ q.op = "create"
    BY <1>1, <2>1, TaskFacts, StopsFacts DEF Sound, Routed, Request, Calls, Managing
  <2>3. PICK pc : pc = "slug"
    OBVIOUS
  <2>4. Become(r, Go(q, pc))
    BY <1>3, <2>1, <2>2, <2>3 DEF CheckOrgLimit
  <2>5. pc \in {"slug"} /\ pc \in Pcs
    BY <2>2, <2>3, PcsFacts
  <2>6. PICK t : t = Go(q, pc)
    OBVIOUS
  <2>7. t.pc = pc /\ Same(q, t)
    BY <2>2, <2>5, <2>6, GoFacts
  <2>8. Sound(t)
    <3>1. Routed(t)
      BY <1>1, <2>1, <2>2, <2>3, <2>5, <2>7, StopsFacts DEF Sound, Routed, Same
    <3>2. Entitled(t)
      BY <1>1, <2>1, <2>2, <2>3, <2>5, <2>7 DEF Sound, Entitled, Admitted, Same
    <3>3. Targets(t)
      BY <1>1, <2>1, <2>2, <2>3, <2>5, <2>7 DEF Sound, Targets, Same
    <3>4. Answers(t)
      BY <1>1, <2>1, <2>2, <2>3, <2>5, <2>7 DEF Sound, Answers, Accepting, Same
    <3> QED  BY <3>1, <3>2, <3>3, <3>4 DEF Sound
  <2>9. HasRoom(r, t)
    BY <1>1, <2>1, <2>2, <2>3, <2>4, <2>5, <2>7 DEF HasRoom, Enters, Writes, Founder, Same
  <2> QED  BY <1>1, <2>1, <2>2, <2>4, <2>5, <2>6, <2>8, <2>9, GoKeeps
<1> QED  BY <1>2, <1>3

LEMMA CheckSlugKeeps ==
  ASSUME OrganizationsInv, NEW r \in Requests, CheckSlug(r)
  PROVE  OrganizationsInv'
<1>1. Reads /\ reqs[r].pc = "slug"
  BY DEF CheckSlug, At
<1>2. CASE \E res \in {"ok", "refused", "error"} : Become(r, Close(reqs[r], res))
  BY <1>1, <1>2, CloseKeeps
<1>3. CASE ~\E res \in {"ok", "refused", "error"} : Become(r, Close(reqs[r], res))
  <2>1. PICK q : q = reqs[r]
    OBVIOUS
  <2>2. q \in Request /\ Sound(q) /\ q.op \in {"create", "update"}
    BY <1>1, <2>1, TaskFacts, StopsFacts DEF Sound, Routed, Request, Calls, Managing
  <2>3. PICK pc : pc = IF q.op = "create" THEN "insert" ELSE "rename"
    OBVIOUS
  <2>4. Become(r, Go(q, pc))
    BY <1>3, <2>1, <2>2, <2>3 DEF CheckSlug
  <2>5. pc \in {IF q.op = "create" THEN "insert" ELSE "rename"} /\ pc \in Pcs
    BY <2>2, <2>3, PcsFacts
  <2>6. PICK t : t = Go(q, pc)
    OBVIOUS
  <2>7. t.pc = pc /\ Same(q, t)
    BY <2>2, <2>5, <2>6, GoFacts
  <2>8. Sound(t)
    <3>1. Routed(t)
      BY <1>1, <2>1, <2>2, <2>3, <2>5, <2>7, StopsFacts DEF Sound, Routed, Same
    <3>2. Entitled(t)
      BY <1>1, <2>1, <2>2, <2>3, <2>5, <2>7 DEF Sound, Entitled, Admitted, Same
    <3>3. Targets(t)
      BY <1>1, <2>1, <2>2, <2>3, <2>5, <2>7 DEF Sound, Targets, Same
    <3>4. Answers(t)
      BY <1>1, <2>1, <2>2, <2>3, <2>5, <2>7 DEF Sound, Answers, Accepting, Same
    <3> QED  BY <3>1, <3>2, <3>3, <3>4 DEF Sound
  <2>9. HasRoom(r, t)
    BY <1>1, <2>1, <2>2, <2>3, <2>4, <2>5, <2>7 DEF HasRoom, Enters, Writes, Founder, Same
  <2> QED  BY <1>1, <2>1, <2>2, <2>4, <2>5, <2>6, <2>8, <2>9, GoKeeps
<1> QED  BY <1>2, <1>3

LEMMA CheckRoomKeeps ==
  ASSUME OrganizationsInv, NEW r \in Requests, CheckRoom(r)
  PROVE  OrganizationsInv'
<1>1. Reads /\ reqs[r].pc = "room"
  BY DEF CheckRoom, At
<1>2. CASE \E res \in {"ok", "refused", "error"} : Become(r, Close(reqs[r], res))
  BY <1>1, <1>2, CloseKeeps
<1>3. CASE ~\E res \in {"ok", "refused", "error"} : Become(r, Close(reqs[r], res))
  <2>1. PICK q : q = reqs[r]
    OBVIOUS
  <2>2. q \in Request /\ Sound(q) /\ q.op \in {"invite", "accept"}
    BY <1>1, <2>1, TaskFacts, StopsFacts DEF Sound, Routed, Request, Calls, Managing
  <2>3. PICK pc : pc = IF q.op = "invite" /\ PendingLimit # None THEN "pending" ELSE "already"
    OBVIOUS
  <2>4. Become(r, Go(q, pc)) /\ ~Full(q.org)
    BY <1>3, <2>1, <2>2, <2>3 DEF CheckRoom
  <2>5. pc \in {IF q.op = "invite" /\ PendingLimit # None THEN "pending" ELSE "already"} /\ pc \in Pcs
    BY <2>2, <2>3, PcsFacts
  <2>6. PICK t : t = Go(q, pc)
    OBVIOUS
  <2>7. t.pc = pc /\ Same(q, t)
    BY <2>2, <2>5, <2>6, GoFacts
  <2>8. Sound(t)
    <3>1. Routed(t)
      BY <1>1, <2>1, <2>2, <2>3, <2>5, <2>7, StopsFacts DEF Sound, Routed, Same
    <3>2. Entitled(t)
      BY <1>1, <2>1, <2>2, <2>3, <2>5, <2>7 DEF Sound, Entitled, Admitted, Same
    <3>3. Targets(t)
      BY <1>1, <2>1, <2>2, <2>3, <2>5, <2>7 DEF Sound, Targets, Same
    <3>4. Answers(t)
      BY <1>1, <2>1, <2>2, <2>3, <2>5, <2>7 DEF Sound, Answers, Accepting, Same
    <3> QED  BY <3>1, <3>2, <3>3, <3>4 DEF Sound
  <2>9. HasRoom(r, t)
    <3>1. q.org \in Orgs
      BY <1>1, <2>1, <2>2 DEF Sound, Routed, Known
    <3>2. IsFiniteSet(MembersOf(q.org))
      BY <3>1 DEF OrganizationsInv, Seated
    <3>3. Cardinality(MembersOf(q.org)) \in Nat
      BY <3>2, FS_CardinalityType
    <3>4. MemberLimit # None => Cardinality(MembersOf(q.org)) < MemberLimit
      BY <2>4, <3>3 DEF Full
    <3>5. ~Founder(t) /\ t.org = q.org
      BY <2>2, <2>7 DEF Founder, Same
    <3>6. Writes(t) => PendingLimit = None
      BY <2>3, <2>7 DEF Writes, Same
    <3> QED  BY <3>4, <3>5, <3>6 DEF HasRoom, Enters
  <2> QED  BY <1>1, <2>1, <2>2, <2>4, <2>5, <2>6, <2>8, <2>9, GoKeeps
<1> QED  BY <1>2, <1>3

LEMMA CheckPendingKeeps ==
  ASSUME OrganizationsInv, NEW r \in Requests, CheckPending(r)
  PROVE  OrganizationsInv'
<1>1. Reads /\ reqs[r].pc = "pending"
  BY DEF CheckPending, At
<1>2. CASE \E res \in {"ok", "refused", "error"} : Become(r, Close(reqs[r], res))
  BY <1>1, <1>2, CloseKeeps
<1>3. CASE ~\E res \in {"ok", "refused", "error"} : Become(r, Close(reqs[r], res))
  <2>1. PICK q : q = reqs[r]
    OBVIOUS
  <2>2. q \in Request /\ Sound(q) /\ q.op = "invite"
    BY <1>1, <2>1, TaskFacts, StopsFacts DEF Sound, Routed, Request, Calls, Managing
  <2>3. PICK pc : pc = "already"
    OBVIOUS
  <2>4. Become(r, Go(q, pc)) /\ ~(Cardinality(PendingFor(q.org)) >= PendingLimit)
    BY <1>3, <2>1, <2>2, <2>3 DEF CheckPending
  <2>5. pc \in {"already"} /\ pc \in Pcs
    BY <2>2, <2>3, PcsFacts
  <2>6. PICK t : t = Go(q, pc)
    OBVIOUS
  <2>7. t.pc = pc /\ Same(q, t)
    BY <2>2, <2>5, <2>6, GoFacts
  <2>8. Sound(t)
    <3>1. Routed(t)
      BY <1>1, <2>1, <2>2, <2>3, <2>5, <2>7, StopsFacts DEF Sound, Routed, Same
    <3>2. Entitled(t)
      BY <1>1, <2>1, <2>2, <2>3, <2>5, <2>7 DEF Sound, Entitled, Admitted, Same
    <3>3. Targets(t)
      BY <1>1, <2>1, <2>2, <2>3, <2>5, <2>7 DEF Sound, Targets, Same
    <3>4. Answers(t)
      BY <1>1, <2>1, <2>2, <2>3, <2>5, <2>7 DEF Sound, Answers, Accepting, Same
    <3> QED  BY <3>1, <3>2, <3>3, <3>4 DEF Sound
  <2>9. HasRoom(r, t)
    <3>1. q.org \in Orgs
      BY <1>1, <2>1, <2>2 DEF Sound, Routed, Known
    <3>2. IsFiniteSet(PendingFor(q.org))
      BY <3>1 DEF OrganizationsInv, Invited
    <3>3. Cardinality(PendingFor(q.org)) \in Nat
      BY <3>2, FS_CardinalityType
    <3>4. PendingLimit # None => Cardinality(PendingFor(q.org)) < PendingLimit
      BY <2>4, <3>3
    <3>5. t.org = q.org /\ ~Enters(t)
      BY <2>2, <2>7 DEF Enters, Founder, Same
    <3> QED  BY <3>4, <3>5 DEF HasRoom
  <2> QED  BY <1>1, <2>1, <2>2, <2>4, <2>5, <2>6, <2>8, <2>9, GoKeeps
<1> QED  BY <1>2, <1>3

LEMMA CheckAlreadyKeeps ==
  ASSUME OrganizationsInv, NEW r \in Requests, CheckAlready(r)
  PROVE  OrganizationsInv'
<1>1. Reads /\ reqs[r].pc = "already"
  BY DEF CheckAlready, At
<1>2. CASE \E res \in {"ok", "refused", "error"} : Become(r, Close(reqs[r], res))
  BY <1>1, <1>2, CloseKeeps
<1>3. CASE ~\E res \in {"ok", "refused", "error"} : Become(r, Close(reqs[r], res))
  <2>1. PICK q : q = reqs[r]
    OBVIOUS
  <2>2. q \in Request /\ Sound(q) /\ q.op \in {"invite", "accept"}
    BY <1>1, <2>1, TaskFacts, StopsFacts DEF Sound, Routed, Request, Calls, Managing
  <2>3. PICK pc : pc = IF q.op = "invite" THEN "existing"
                    ELSE IF Seats(q.org, q.user) # {} THEN "spoil" ELSE "join"
    OBVIOUS
  <2>4. Become(r, Go(q, pc))
    BY <1>3, <2>1, <2>2, <2>3 DEF CheckAlready
  <2>5. pc \in {IF q.op = "invite" THEN "existing"
               ELSE IF Seats(q.org, q.user) # {} THEN "spoil" ELSE "join"} /\ pc \in Pcs
    BY <2>2, <2>3, PcsFacts
  <2>6. PICK t : t = Go(q, pc)
    OBVIOUS
  <2>7. t.pc = pc /\ Same(q, t)
    BY <2>2, <2>5, <2>6, GoFacts
  <2>8. Sound(t)
    <3>1. Routed(t)
      BY <1>1, <2>1, <2>2, <2>3, <2>5, <2>7, StopsFacts DEF Sound, Routed, Same
    <3>2. Entitled(t)
      BY <1>1, <2>1, <2>2, <2>3, <2>5, <2>7 DEF Sound, Entitled, Admitted, Same
    <3>3. Targets(t)
      BY <1>1, <2>1, <2>2, <2>3, <2>5, <2>7 DEF Sound, Targets, Same
    <3>4. Answers(t)
      BY <1>1, <2>1, <2>2, <2>3, <2>5, <2>7 DEF Sound, Answers, Accepting, Same
    <3> QED  BY <3>1, <3>2, <3>3, <3>4 DEF Sound
  <2>9. HasRoom(r, t)
    BY <1>1, <2>1, <2>2, <2>3, <2>4, <2>5, <2>7 DEF HasRoom, Enters, Writes, Founder, Same
  <2> QED  BY <1>1, <2>1, <2>2, <2>4, <2>5, <2>6, <2>8, <2>9, GoKeeps
<1> QED  BY <1>2, <1>3

LEMMA CheckExistingKeeps ==
  ASSUME OrganizationsInv, NEW r \in Requests, CheckExisting(r)
  PROVE  OrganizationsInv'
<1>1. Reads /\ reqs[r].pc = "existing"
  BY DEF CheckExisting, At
<1>2. CASE \E res \in {"ok", "refused", "error"} : Become(r, Close(reqs[r], res))
  BY <1>1, <1>2, CloseKeeps
<1>3. CASE ~\E res \in {"ok", "refused", "error"} : Become(r, Close(reqs[r], res))
  <2>1. PICK q : q = reqs[r]
    OBVIOUS
  <2>2. q \in Request /\ Sound(q) /\ q.op = "invite"
    BY <1>1, <2>1, TaskFacts, StopsFacts DEF Sound, Routed, Request, Calls, Managing
  <2>3. PICK pc : pc = "issue"
    OBVIOUS
  <2>4. Become(r, Go(q, pc))
    BY <1>3, <2>1, <2>2, <2>3 DEF CheckExisting
  <2>5. pc \in {"issue"} /\ pc \in Pcs
    BY <2>2, <2>3, PcsFacts
  <2>6. PICK t : t = Go(q, pc)
    OBVIOUS
  <2>7. t.pc = pc /\ Same(q, t)
    BY <2>2, <2>5, <2>6, GoFacts
  <2>8. Sound(t)
    <3>1. Routed(t)
      BY <1>1, <2>1, <2>2, <2>3, <2>5, <2>7, StopsFacts DEF Sound, Routed, Same
    <3>2. Entitled(t)
      BY <1>1, <2>1, <2>2, <2>3, <2>5, <2>7 DEF Sound, Entitled, Admitted, Same
    <3>3. Targets(t)
      BY <1>1, <2>1, <2>2, <2>3, <2>5, <2>7 DEF Sound, Targets, Same
    <3>4. Answers(t)
      BY <1>1, <2>1, <2>2, <2>3, <2>5, <2>7 DEF Sound, Answers, Accepting, Same
    <3> QED  BY <3>1, <3>2, <3>3, <3>4 DEF Sound
  <2>9. HasRoom(r, t)
    BY <1>1, <2>1, <2>2, <2>3, <2>4, <2>5, <2>7 DEF HasRoom, Enters, Writes, Founder, Same
  <2> QED  BY <1>1, <2>1, <2>2, <2>4, <2>5, <2>6, <2>8, <2>9, GoKeeps
<1> QED  BY <1>2, <1>3

LEMMA FailKeeps ==
  ASSUME OrganizationsInv, NEW r \in Requests, Fail(r)
  PROVE  OrganizationsInv'
<1>1. Become(r, Close(reqs[r], "error")) /\ Reads
  BY DEF Fail
<1> QED  BY <1>1, CloseKeeps

LEMMA RowFacts ==
  ASSUME TypeOK
  PROVE  /\ \A m \in Rows(members) : m \in Members /\ m \in drawn /\ members[m] \in Member
         /\ \A i \in Rows(invitations) :
              i \in Invitations /\ i \in drawn /\ invitations[i] \in Invitation
         /\ \A o \in Rows(orgs) : o \in Orgs /\ o \in drawn /\ orgs[o] \in Slugs
BY DEF TypeOK, Rows

LEMMA CheckInvitationKeeps ==
  ASSUME OrganizationsInv, NEW r \in Requests, CheckInvitation(r)
  PROVE  OrganizationsInv'
<1>1. Reads /\ reqs[r].pc = "invitation"
  BY DEF CheckInvitation, At
<1>2. CASE Become(r, Close(reqs[r], "refused"))
  BY <1>1, <1>2, CloseKeeps
<1>3. CASE ~Become(r, Close(reqs[r], "refused"))
  <2>1. PICK q : q = reqs[r]
    OBVIOUS
  <2>2. q \in Request /\ Sound(q) /\ q.op \in {"accept", "reject", "cancel"}
    BY <1>1, <2>1, TaskFacts, StopsFacts DEF Sound, Routed, Request, Calls, Managing
  <2>3. PICK row : row = invitations[q.target]
    OBVIOUS
  <2>4. PICK known : known = [q EXCEPT !.org = row.org, !.role = row.role,
                                       !.open = row.status = "pending"]
    OBVIOUS
  <2>5. PICK pc : pc = IF q.op = "cancel" THEN "self"
                       ELSE IF q.op = "reject" THEN "settle"
                       ELSE IF MemberLimit # None THEN "room" ELSE "already"
    OBVIOUS
  <2>6. row # None /\ Become(r, Go(known, pc))
    BY <1>3, <2>1, <2>2, <2>3, <2>4, <2>5 DEF CheckInvitation
  <2>7. q.op # "cancel" => row.user = q.user /\ ~Settled(q, row)
    BY <1>3, <2>1, <2>2, <2>3, <2>4, <2>5 DEF CheckInvitation
  <2>8. /\ q.target \in Known(Invitations) /\ q.target \in Rows(invitations)
        /\ row \in Invitation /\ row.org \in Known(Orgs)
    <3>1. q.target \in Known(Invitations)
      BY <1>1, <2>1, <2>2 DEF Sound, Answers
    <3>2. q.target \in Rows(invitations)
      BY <2>3, <2>6, <3>1, TaskFacts DEF Rows, Known, TypeOK
    <3>3. row \in Invitation
      BY <2>3, <3>2, TaskFacts, RowFacts
    <3>4. row.org \in Orgs /\ row.org \in drawn
      BY <2>3, <3>2, <3>3 DEF OrganizationsInv, RowsKept, Invitation
    <3> QED  BY <3>1, <3>2, <3>3, <3>4 DEF Known
  <2>9. /\ row.org \in Orgs /\ row.user \in Users /\ row.role \in Roles
    BY <2>8 DEF Invitation
  <2>10. PICK open \in BOOLEAN : open = (row.status = "pending")
    OBVIOUS
  <2>11. known = [pc |-> q.pc, op |-> q.op, user |-> q.user, org |-> row.org,
                  target |-> q.target, slug |-> q.slug, who |-> q.who, role |-> row.role,
                  mine |-> q.mine, home |-> q.home, open |-> open, late |-> q.late,
                  result |-> q.result]
    BY <2>2, <2>4, <2>10 DEF Request
  <2>12. known \in Request
    BY <2>2, <2>9, <2>11 DEF Request
  <2>13. /\ known.op = q.op /\ known.user = q.user /\ known.org = row.org
         /\ known.target = q.target /\ known.role = row.role /\ known.late = q.late
    BY <2>11
  <2>14. pc \in Pcs /\ pc \in {"self", "settle", "room", "already"}
    BY <2>5, PcsFacts
  <2>15. PICK t : t = Go(known, pc)
    OBVIOUS
  <2>16. t \in Request /\ t.pc = pc /\ Same(known, t)
    BY <2>12, <2>14, <2>15, GoFacts
  <2>17. /\ t.op = q.op /\ t.user = q.user /\ t.org = row.org
         /\ t.target = q.target /\ t.role = row.role /\ t.late = q.late
    BY <2>13, <2>16 DEF Same
  <2>18. Moves(r, t)
    BY <2>6, <2>15, <2>16, TaskFacts, BecomeFacts
  <2>19. Sound(t)
    <3>1. Routed(t)
      BY <1>1, <2>1, <2>2, <2>5, <2>8, <2>9, <2>16, <2>17, StopsFacts DEF Sound, Routed
    <3>2. Entitled(t)
      BY <2>2, <2>5, <2>16, <2>17 DEF Entitled, Admitted
    <3>3. Targets(t)
      BY <2>2, <2>5, <2>16, <2>17 DEF Targets
    <3>4. Accepting(t) => ~t.late
      <4>1. q.op # "cancel" => q.target \in PendingFor(row.org)
        BY <2>3, <2>7, <2>8 DEF Settled, PendingFor
      <4>2. q.op = "accept" => ~Late(q.target)
        BY <2>3, <2>6, <4>1 DEF Late
      <4> QED  BY <1>1, <2>1, <2>2, <2>17, <4>2 DEF Accepting, Sound, Answers
    <3>5. Answers(t)
      BY <2>2, <2>3, <2>5, <2>6, <2>7, <2>8, <2>16, <2>17, <3>4 DEF Answers, Accepting
    <3> QED  BY <3>1, <3>2, <3>3, <3>5 DEF Sound
  <2>20. Harmless(r, t)
    BY <2>2, <2>3, <2>8, <2>17 DEF Harmless, Founder
  <2>21. HasRoom(r, t)
    BY <2>2, <2>5, <2>16, <2>17 DEF HasRoom, Enters, Writes, Founder
  <2> QED  BY <1>1, <2>18, <2>19, <2>20, <2>21, QuietKeeps
<1> QED  BY <1>2, <1>3

LEMMA CheckSelfKeeps ==
  ASSUME OrganizationsInv, NEW r \in Requests, CheckSelf(r)
  PROVE  OrganizationsInv'
<1>1. Reads /\ reqs[r].pc = "self"
  BY DEF CheckSelf, At
<1>2. CASE Become(r, Close(reqs[r], "refused"))
  BY <1>1, <1>2, CloseKeeps
<1>3. CASE ~Become(r, Close(reqs[r], "refused"))
  <2>1. PICK q : q = reqs[r]
    OBVIOUS
  <2>2. /\ q \in Request /\ Sound(q) /\ q.op \notin {"create", "accept", "reject"}
        /\ q.op \in Calls
    BY <1>1, <2>1, TaskFacts, StopsFacts DEF Sound, Routed, Request, Calls, Managing
  <2>3. PICK m \in MySeats(q) :
            LET role == members[m].role
                known == [q EXCEPT !.mine = role]
            IN Become(r,
                 IF q.op # "remove" /\ ~Permits(role, q.op) THEN Close(q, "refused")
                 ELSE CASE q.op = "update" -> Go(known, "slug")
                        [] q.op = "deleteOrg" -> Go(known, "dissolve")
                        [] q.op = "setActive" -> Go(known, "activate")
                        [] q.op \in {"remove", "setRole"} -> Go(known, "target")
                        [] q.op = "invite" ->
                             Go(known, IF MemberLimit # None THEN "room"
                                       ELSE IF PendingLimit # None THEN "pending"
                                       ELSE "already")
                        [] q.op = "cancel" -> IF q.open THEN Go(known, "settle")
                                              ELSE Close(q, "refused")
                        [] q.op = "leave" ->
                             [known EXCEPT !.target = m,
                                !.pc = IF role = "owner" THEN "count" ELSE "expel"])
    BY <1>3, <2>1 DEF CheckSelf
  <2>4. PICK role : role = members[m].role
    OBVIOUS
  <2>5. /\ m \in Rows(members) /\ members[m].org = q.org /\ members[m].user = q.user
        /\ m \in Known(Members) /\ role \in Roles /\ q.org \in Known(Orgs)
        /\ <<q.user, q.org>> \in joined
    <3>1. m \in Rows(members) /\ members[m].org = q.org /\ members[m].user = q.user
      BY DEF MySeats, Seats, MembersOf
    <3>2. m \in Known(Members) /\ role \in Roles
      BY <2>4, <3>1, TaskFacts, RowFacts DEF Known, Member
    <3>3. q.org \in Known(Orgs)
      BY <1>1, <2>1, <2>2 DEF Sound, Routed
    <3> QED  BY <3>1, <3>2, <3>3 DEF OrganizationsInv, RowsKept
  <2>6. PICK known : known = [q EXCEPT !.mine = role]
    OBVIOUS
  <2>7. known = [pc |-> q.pc, op |-> q.op, user |-> q.user, org |-> q.org,
                 target |-> q.target, slug |-> q.slug, who |-> q.who, role |-> q.role,
                 mine |-> role, home |-> q.home, open |-> q.open, late |-> q.late,
                 result |-> q.result]
    BY <2>2, <2>6 DEF Request
  <2>8. known \in Request
    BY <2>2, <2>5, <2>7 DEF Request
  <2>9. q.op # "remove" => Permits(role, q.op)
    BY <1>3, <2>1, <2>3, <2>4
  <2>10. PICK pc : pc =
           CASE q.op = "update" -> "slug"
             [] q.op = "deleteOrg" -> "dissolve"
             [] q.op = "setActive" -> "activate"
             [] q.op \in {"remove", "setRole"} -> "target"
             [] q.op = "invite" -> IF MemberLimit # None THEN "room"
                                   ELSE IF PendingLimit # None THEN "pending" ELSE "already"
             [] q.op = "cancel" -> "settle"
             [] q.op = "leave" -> IF role = "owner" THEN "count" ELSE "expel"
    OBVIOUS
  <2>11. /\ pc \in Stops[q.op] /\ pc \in Pcs
         /\ pc \in {"slug", "dissolve", "activate", "target", "room", "pending", "already",
                    "settle", "count", "expel"}
    BY <2>2, <2>10, StopsFacts, PcsFacts DEF Calls, Managing
  <2>12. \E t \in Request :
           /\ Become(r, t) /\ t.pc = pc /\ t.op = q.op /\ t.user = q.user /\ t.org = q.org
           /\ t.slug = q.slug /\ t.role = q.role /\ t.who = q.who /\ t.mine = role
           /\ t.late = q.late /\ t.target = IF q.op = "leave" THEN m ELSE q.target
    <3>1. CASE q.op # "leave"
      <4>1. PICK t : t = Go(known, pc)
        OBVIOUS
      <4>2. t \in Request /\ t.pc = pc /\ Same(known, t)
        BY <2>8, <2>11, <4>1, GoFacts
      <4>3. Become(r, t)
        BY <1>3, <2>1, <2>2, <2>3, <2>4, <2>6, <2>9, <2>10, <3>1, <4>1 DEF Calls, Managing
      <4> QED  BY <2>7, <3>1, <4>2, <4>3 DEF Same
    <3>2. CASE q.op = "leave"
      <4>1. PICK t : t = [known EXCEPT !.target = m, !.pc = pc]
        OBVIOUS
      <4>2. t = [pc |-> pc, op |-> q.op, user |-> q.user, org |-> q.org,
                 target |-> m, slug |-> q.slug, who |-> q.who, role |-> q.role,
                 mine |-> role, home |-> q.home, open |-> q.open, late |-> q.late,
                 result |-> q.result]
        BY <2>7, <4>1
      <4>3. m \in Members
        BY <2>5 DEF Known
      <4>4. t \in Request
        BY <2>2, <2>5, <2>11, <4>2, <4>3 DEF Request
      <4>5. pc = IF role = "owner" THEN "count" ELSE "expel"
        BY <2>10, <3>2
      <4>6. Become(r, [known EXCEPT !.target = m,
                                    !.pc = IF role = "owner" THEN "count" ELSE "expel"])
        BY <2>3, <2>4, <2>6, <2>9, <3>2
      <4>7. Become(r, t)
        BY <4>1, <4>5, <4>6
      <4> QED  BY <3>2, <4>2, <4>4, <4>7
    <3> QED  BY <3>1, <3>2
  <2>13. PICK t \in Request :
           /\ Become(r, t) /\ t.pc = pc /\ t.op = q.op /\ t.user = q.user /\ t.org = q.org
           /\ t.slug = q.slug /\ t.role = q.role /\ t.who = q.who /\ t.mine = role
           /\ t.late = q.late /\ t.target = IF q.op = "leave" THEN m ELSE q.target
    BY <2>12
  <2>14. Moves(r, t)
    BY <2>13, TaskFacts, BecomeFacts
  <2>15. pc # "self" /\ (pc \in {"count", "expel"} => q.op = "leave")
         /\ (pc = "slug" => q.op = "update") /\ pc # "setRole"
         /\ (pc \in {"room", "already", "pending"} => q.op = "invite")
    BY <2>2, <2>10 DEF Calls, Managing
  <2>16. Sound(t)
    <3>1. Routed(t)
      BY <1>1, <2>1, <2>2, <2>5, <2>11, <2>13, <2>15 DEF Sound, Routed
    <3>2. Entitled(t)
      BY <2>2, <2>5, <2>9, <2>13 DEF Entitled, Admitted
    <3>3. Targets(t)
      BY <1>1, <2>1, <2>2, <2>5, <2>13, <2>15 DEF Sound, Targets
    <3>4. Answers(t)
      BY <1>1, <2>1, <2>2, <2>13 DEF Sound, Answers, Accepting
    <3> QED  BY <3>1, <3>2, <3>3, <3>4 DEF Sound
  <2>17. Harmless(r, t)
    BY <2>2, <2>5, <2>13 DEF Harmless, Founder
  <2>18. HasRoom(r, t)
    <3>1. ~Enters(t)
      BY <2>2, <2>13 DEF Enters, Founder
    <3>2. pc = "already" => PendingLimit = None
      BY <2>2, <2>10, <2>15
    <3>3. pc \notin {"existing", "issue"}
      BY <2>11
    <3> QED  BY <2>13, <3>1, <3>2, <3>3 DEF HasRoom, Writes
  <2> QED  BY <1>1, <2>14, <2>16, <2>17, <2>18, QuietKeeps
<1> QED  BY <1>2, <1>3

LEMMA AskKeeps ==
  ASSUME OrganizationsInv, NEW r \in Requests, Ask(r)
  PROVE  OrganizationsInv'
<1>0. TypeOK /\ Reads
  BY TaskFacts DEF Ask, Reads
<1>1. PICK c \in calls : \E o \in Named(c[2]), t \in Aimed(c[2]), s \in Given(c[2]),
         w \in Meant(c[2]), role \in Granted(c[2]) :
           Become(r, Asked(c[2], c[1], o, t, s, w, role))
  BY DEF Ask
<1>2. PICK op : op = c[2]
  OBVIOUS
<1>3. PICK u : u = c[1]
  OBVIOUS
<1>4. u \in Users /\ op \in Calls
  BY <1>0, <1>2, <1>3 DEF TypeOK
<1>5. PICK o \in Named(op), aim \in Aimed(op), s \in Given(op), w \in Meant(op),
           role \in Granted(op) : Become(r, Asked(op, u, o, aim, s, w, role))
  BY <1>1, <1>2, <1>3
<1>6. /\ o \in Known(Orgs) \cup {None} /\ (op \in {"create", "accept", "reject", "cancel"} => o = None)
      /\ (op \notin {"create", "accept", "reject", "cancel", "setActive"} => o # None)
  BY DEF Named, Known
<1>7. /\ aim \in Members \cup Invitations \cup {None}
      /\ op \in {"remove", "setRole"} => aim \in Known(Members)
      /\ op \in {"accept", "reject", "cancel"} => aim \in Known(Invitations)
  BY DEF Aimed, Known
<1>8. s \in Slugs \cup {None} /\ (op \in {"create", "update"} => s \in Slugs)
  BY DEF Given
<1>9. w \in Users \cup {None} /\ (op = "invite" => w \in Users)
  BY <1>0 DEF Meant, Callers, TypeOK
<1>10. role \in Roles \cup {None} /\ (op \in {"setRole", "invite"} => role \in Roles)
  BY DEF Granted
<1>11. PICK pc : pc = First(op, o)
  OBVIOUS
<1>12. /\ pc \in Stops[op] /\ pc \in Pcs
       /\ pc \in {"slug", "orgLimit", "invitation", "activate", "self"}
       /\ pc \in {"slug", "orgLimit"} => op = "create"
       /\ pc = "activate" => op = "setActive" /\ o = None
       /\ pc = "self" => o # None
       /\ pc = "invitation" => op \in {"accept", "reject", "cancel"}
       /\ op = "accept" => pc = "invitation"
       /\ op = "create" => pc # "join"
  BY <1>4, <1>6, <1>11, StopsFacts, PcsFacts DEF First, Calls, Managing
<1>13. PICK late \in BOOLEAN :
         late = (op \in {"accept", "reject", "cancel"} /\ Late(aim))
  OBVIOUS
<1>14. PICK t : t = Asked(op, u, o, aim, s, w, role)
  OBVIOUS
<1>15. t = [pc |-> pc, op |-> op, user |-> u, org |-> o, target |-> aim, slug |-> s,
            who |-> w, role |-> role, mine |-> None, home |-> active[u], open |-> FALSE,
            late |-> late, result |-> "none"]
  BY <1>11, <1>13, <1>14 DEF Asked
<1>16. active[u] \in Orgs \cup {None} /\ o \in Orgs \cup {None}
  BY <1>0, <1>4, <1>6 DEF TypeOK, Known
<1>17. t \in Request
  BY <1>4, <1>7, <1>8, <1>9, <1>10, <1>12, <1>15, <1>16 DEF Request
<1>18. /\ t.pc = pc /\ t.op = op /\ t.user = u /\ t.org = o /\ t.target = aim /\ t.slug = s
       /\ t.who = w /\ t.role = role /\ t.late = late
  BY <1>15
<1>19. Moves(r, t)
  BY <1>0, <1>5, <1>14, <1>17, BecomeFacts
<1>20. Sound(t)
  <2>1. Routed(t)
    BY <1>4, <1>6, <1>8, <1>9, <1>10, <1>12, <1>18 DEF Routed
  <2>2. Entitled(t)
    BY <1>6, <1>12, <1>18 DEF Entitled, Admitted
  <2>3. Targets(t)
    BY <1>7, <1>12, <1>18 DEF Targets
  <2>4. Answers(t)
    BY <1>7, <1>12, <1>13, <1>18 DEF Answers, Accepting
  <2> QED  BY <2>1, <2>2, <2>3, <2>4 DEF Sound
<1>21. Harmless(r, t)
  BY <1>6, <1>12, <1>18 DEF Harmless, Founder
<1>22. HasRoom(r, t)
  BY <1>12, <1>18 DEF HasRoom, Enters, Writes, Founder
<1> QED  BY <1>0, <1>19, <1>20, <1>21, <1>22, QuietKeeps

-----------------------------------------------------------------------------
(* The steps that write.                                                    *)

LEMMA WriteKeeps ==
  ASSUME OrganizationsInv, NEW r \in Requests, NEW t, Moves(r, t),
         TypeOK', MemberOnce', ActiveJoined', RowsKept', Evolves,
         Sound(t)', Harmless(r, t), HasRoom(r, t), Adds(r),
         \A o \in Orgs : MembersOf(o)' \subseteq MembersOf(o),
         \A o \in Orgs : PendingFor(o)' \subseteq PendingFor(o)
  PROVE  OrganizationsInv'
<1>1. TypeOK /\ \A q \in Requests : Sound(reqs[q])
  BY DEF OrganizationsInv, Consistent, Sound
<1>2. \A q \in Requests : Sound(reqs[q])'
  BY <1>1, TasksStay
<1>3. Founded'
  BY <1>1, FoundedStays DEF OrganizationsInv
<1>4. \A o \in Orgs : Seated(o)' /\ Invited(o)'
  BY LimitsStay DEF OrganizationsInv
<1>5. Consistent'
  BY DEF Consistent
<1> QED  BY <1>2, <1>3, <1>4, <1>5 DEF OrganizationsInv, Sound

\* The last step of a task.
LEMMA EndKeeps ==
  ASSUME OrganizationsInv, NEW r \in Requests, NEW res \in {"ok", "refused", "error"},
         Become(r, Close(reqs[r], res)),
         TypeOK', MemberOnce', ActiveJoined', RowsKept', Evolves, Adds(r),
         \A o \in Orgs : MembersOf(o)' \subseteq MembersOf(o),
         \A o \in Orgs : PendingFor(o)' \subseteq PendingFor(o)
  PROVE  OrganizationsInv'
<1>1. PICK t : t = Close(reqs[r], res)
  OBVIOUS
<1>2. t \in Request /\ t.pc = "closed" /\ t.org = None
  BY <1>1, TaskFacts, CloseFacts
<1>3. Moves(r, t)
  BY <1>1, <1>2, TaskFacts, BecomeFacts
<1>4. Sound(t)'
  BY <1>2 DEF Sound, Routed, Entitled, Targets, Answers, Admitted, Accepting
<1>5. Harmless(r, t) /\ HasRoom(r, t)
  BY <1>2 DEF Harmless, HasRoom, Founder, Enters, Writes
<1> QED  BY <1>3, <1>4, <1>5, WriteKeeps

LEMMA ActivateKeeps ==
  ASSUME OrganizationsInv, NEW r \in Requests, Activate(r)
  PROVE  OrganizationsInv'
<1>1. /\ UNCHANGED <<now, orgs, members, invitations, drawn, joined, calls>>
      /\ reqs[r].pc = "activate" /\ Become(r, Close(reqs[r], "ok"))
  BY DEF Activate, At
<1>2. PICK q : q = reqs[r]
  OBVIOUS
<1>3. TypeOK /\ q \in Request /\ Sound(q) /\ q.op \in {"setActive", "leave", "accept"}
  BY <1>1, <1>2, TaskFacts, StopsFacts DEF Sound, Routed, Request, Calls, Managing
<1>4. /\ q.user \in Users /\ q.org \in Orgs \cup {None}
      /\ q.org # None => <<q.user, q.org>> \in joined
  BY <1>1, <1>2, <1>3 DEF Sound, Routed, Entitled, Admitted, Known
<1>5. active' = [active EXCEPT ![q.user] = q.org]
  BY <1>2 DEF Activate
<1>6. reqs' \in [Requests -> Request]
  BY <1>1, <1>3, TaskFacts, CloseFacts, BecomeFacts DEF Moves
<1>7. TypeOK'
  BY <1>1, <1>3, <1>4, <1>5, <1>6 DEF TypeOK, Rows
<1>8. MemberOnce' /\ RowsKept'
  BY <1>1 DEF OrganizationsInv, Consistent, MemberOnce, Once, RowsKept, Rows
<1>9. ActiveJoined'
  BY <1>1, <1>3, <1>4, <1>5 DEF OrganizationsInv, Consistent, ActiveJoined, TypeOK
<1>10. Evolves /\ Adds(r)
  BY <1>1 DEF Evolves, Adds, Rows
<1>11. \A o \in Orgs : MembersOf(o)' \subseteq MembersOf(o)
  BY <1>1 DEF MembersOf, Rows
<1>12. \A o \in Orgs : PendingFor(o)' \subseteq PendingFor(o)
  BY <1>1 DEF PendingFor, Rows
<1> QED  BY <1>1, <1>7, <1>8, <1>9, <1>10, <1>11, <1>12, EndKeeps

LEMMA RenameKeeps ==
  ASSUME OrganizationsInv, NEW r \in Requests, Rename(r)
  PROVE  OrganizationsInv'
<1>1. /\ UNCHANGED <<now, members, invitations, active, drawn, joined, calls>>
      /\ reqs[r].pc = "rename"
  BY DEF Rename, At
<1>2. PICK q : q = reqs[r]
  OBVIOUS
<1>3. TypeOK /\ q \in Request /\ Sound(q) /\ q.op = "update"
  BY <1>1, <1>2, TaskFacts, StopsFacts DEF Sound, Routed, Request, Calls, Managing
<1>4. q.org \in Orgs /\ q.slug \in Slugs
  BY <1>1, <1>2, <1>3 DEF Sound, Routed, Known
<1>5. CASE Become(r, Close(q, "refused")) /\ UNCHANGED orgs
  BY <1>1, <1>2, <1>5, CloseKeeps DEF Reads
<1>6. CASE /\ orgs[q.org] # None /\ ~Taken(q)
           /\ Become(r, Close(q, "ok")) /\ orgs' = [orgs EXCEPT ![q.org] = q.slug]
  <2>1. reqs' \in [Requests -> Request]
    BY <1>2, <1>3, <1>6, CloseFacts, BecomeFacts DEF Moves
  <2>2. /\ orgs' \in [Orgs -> Slugs \cup {None}] /\ orgs'[q.org] = q.slug
        /\ \A o \in Orgs \ {q.org} : orgs'[o] = orgs[o]
    BY <1>3, <1>4, <1>6 DEF TypeOK
  <2>3. Rows(orgs)' = Rows(orgs)
    BY <1>3, <1>4, <1>6, <2>2 DEF Rows, TypeOK
  <2>4. TypeOK'
    BY <1>1, <1>3, <2>1, <2>2, <2>3 DEF TypeOK, Rows
  <2>5. MemberOnce'
    <3>1. Once(members)'
      BY <1>1 DEF OrganizationsInv, Consistent, MemberOnce, Once
    <3>2. \A o, p \in Rows(orgs) : orgs[o] = orgs[p] => o = p
      BY DEF OrganizationsInv, Consistent, MemberOnce
    <3>3. \A o \in Rows(orgs) : o \in Orgs
      BY <1>3, RowFacts
    <3>4. \A o \in Rows(orgs) : o # q.org => orgs[o] # q.slug
      BY <1>6 DEF Taken
    <3>5. \A o, p \in Rows(orgs) : orgs'[o] = orgs'[p] => o = p
      BY <2>2, <3>2, <3>3, <3>4
    <3> QED  BY <2>3, <3>1, <3>5 DEF MemberOnce
  <2>6. ActiveJoined' /\ RowsKept'
    BY <1>1 DEF OrganizationsInv, Consistent, ActiveJoined, RowsKept, Rows
  <2>7. Evolves /\ Adds(r)
    BY <1>1, <1>6, <2>2 DEF Evolves, Adds, Rows, Known
  <2>8. \A o \in Orgs : MembersOf(o)' \subseteq MembersOf(o)
    BY <1>1 DEF MembersOf, Rows
  <2>9. \A o \in Orgs : PendingFor(o)' \subseteq PendingFor(o)
    BY <1>1 DEF PendingFor, Rows
  <2> QED  BY <1>2, <1>6, <2>4, <2>5, <2>6, <2>7, <2>8, <2>9, EndKeeps
<1> QED  BY <1>2, <1>5, <1>6 DEF Rename

LEMMA DissolveKeeps ==
  ASSUME OrganizationsInv, NEW r \in Requests, Dissolve(r)
  PROVE  OrganizationsInv'
<1>1. /\ UNCHANGED <<now, active, drawn, joined, calls>>
      /\ reqs[r].pc = "dissolve" /\ Become(r, Close(reqs[r], "ok"))
  BY DEF Dissolve, At
<1>2. PICK o : o = reqs[r].org
  OBVIOUS
<1>3. TypeOK /\ reqs[r] \in Request /\ Sound(reqs[r])
  BY TaskFacts
<1>4. o \in Orgs
  BY <1>1, <1>2, <1>3 DEF Sound, Routed, Known
<1>5. orgs' = [orgs EXCEPT ![o] = None]
  BY <1>2 DEF Dissolve
<1>6. /\ orgs' \in [Orgs -> Slugs \cup {None}] /\ orgs'[o] = None
      /\ \A p \in Orgs : p # o => orgs'[p] = orgs[p]
  BY <1>3, <1>4, <1>5 DEF TypeOK
<1>7. members' = [m \in Members |-> IF m \in MembersOf(o) THEN None ELSE members[m]]
  BY <1>2 DEF Dissolve
<1>8. /\ members' \in [Members -> Member \cup {None}]
      /\ \A m \in Members : members'[m] = members[m] \/ members'[m] = None
  BY <1>3, <1>7 DEF TypeOK
<1>9. invitations' = [i \in Invitations |->
            IF invitations[i] = None THEN None
            ELSE IF invitations[i].org = o THEN None ELSE invitations[i]]
  BY <1>2 DEF Dissolve
<1>10. /\ invitations' \in [Invitations -> Invitation \cup {None}]
       /\ \A i \in Invitations : \/ invitations'[i] = invitations[i]
                                 \/ invitations'[i] = None /\ invitations[i].org = o
  BY <1>3, <1>9 DEF TypeOK
<1>11. reqs' \in [Requests -> Request]
  BY <1>1, <1>3, CloseFacts, BecomeFacts DEF Moves
<1>12. /\ Rows(orgs)' \subseteq Rows(orgs) /\ Rows(members)' \subseteq Rows(members)
       /\ Rows(invitations)' \subseteq Rows(invitations)
       /\ \A m \in Rows(members)' : members'[m] = members[m]
       /\ \A i \in Rows(invitations)' : invitations'[i] = invitations[i]
       /\ \A p \in Rows(orgs)' : orgs'[p] = orgs[p]
  BY <1>3, <1>6, <1>8, <1>10 DEF Rows, TypeOK
<1>13. TypeOK'
  BY <1>1, <1>3, <1>6, <1>8, <1>10, <1>11, <1>12 DEF TypeOK
<1>14. MemberOnce'
  <2>1. Once(members)'
    BY <1>8 DEF OrganizationsInv, Consistent, MemberOnce, Once
  <2>2. \A p, s \in Rows(orgs) : orgs[p] = orgs[s] => p = s
    BY DEF OrganizationsInv, Consistent, MemberOnce
  <2> QED  BY <1>12, <2>1, <2>2 DEF MemberOnce
<1>15. ActiveJoined' /\ RowsKept'
  BY <1>1, <1>12 DEF OrganizationsInv, Consistent, ActiveJoined, RowsKept
<1>16. Evolves
  <2>1. \A p \in Known(Orgs) : orgs[p] = None => orgs'[p] = None
    BY <1>6 DEF Known
  <2>2. \A m \in Known(Members) : members'[m] # None =>
       /\ members[m] # None
       /\ members'[m].org = members[m].org /\ members'[m].user = members[m].user
    BY <1>8 DEF Known
  <2>3. \A i \in Known(Invitations) :
       /\ invitations'[i] # None =>
            /\ invitations[i] # None
            /\ invitations'[i].org = invitations[i].org
            /\ invitations'[i].user = invitations[i].user
            /\ invitations'[i].role = invitations[i].role
            /\ invitations[i].status # "pending" => invitations'[i].status # "pending"
       /\ invitations'[i] = None /\ invitations[i] # None =>
            orgs'[invitations[i].org] = None
    BY <1>6, <1>10 DEF Known
  <2> QED  BY <1>1, <2>1, <2>2, <2>3 DEF Evolves
<1>17. Adds(r)
  BY <1>12 DEF Adds
<1>18. \A p \in Orgs : MembersOf(p)' \subseteq MembersOf(p)
  BY <1>12 DEF MembersOf
<1>19. \A p \in Orgs : PendingFor(p)' \subseteq PendingFor(p)
  BY <1>12 DEF PendingFor
<1> QED  BY <1>1, <1>13, <1>14, <1>15, <1>16, <1>17, <1>18, <1>19, EndKeeps

\* Member rows go, or change role.
LEMMA SeatsMove ==
  ASSUME OrganizationsInv, NEW r \in Requests, reqs' \in [Requests -> Request],
         UNCHANGED <<now, orgs, invitations, active, drawn, joined, calls>>,
         members' \in [Members -> Member \cup {None}],
         \A m \in Members : members'[m] # None =>
           /\ members[m] # None
           /\ members'[m].org = members[m].org /\ members'[m].user = members[m].user
  PROVE  /\ TypeOK' /\ MemberOnce' /\ ActiveJoined' /\ RowsKept' /\ Evolves /\ Adds(r)
         /\ \A o \in Orgs : MembersOf(o)' \subseteq MembersOf(o)
         /\ \A o \in Orgs : PendingFor(o)' \subseteq PendingFor(o)
<1>1. TypeOK
  BY DEF OrganizationsInv, Consistent
<1>2. /\ Rows(members)' \subseteq Rows(members)
      /\ \A m \in Rows(members)' : m \in Members /\ members'[m] # None
      /\ Rows(orgs)' = Rows(orgs) /\ Rows(invitations)' = Rows(invitations)
  BY <1>1 DEF Rows, TypeOK
<1>3. TypeOK'
  BY <1>1, <1>2 DEF TypeOK
<1>4. MemberOnce'
  <2>1. Once(members)'
    BY DEF OrganizationsInv, Consistent, MemberOnce, Once
  <2>2. \A o, p \in Rows(orgs) : orgs[o] = orgs[p] => o = p
    BY DEF OrganizationsInv, Consistent, MemberOnce
  <2> QED  BY <1>2, <2>1, <2>2 DEF MemberOnce
<1>5. ActiveJoined' /\ RowsKept'
  BY <1>2 DEF OrganizationsInv, Consistent, ActiveJoined, RowsKept
<1>6. Evolves
  BY DEF Evolves, Known
<1>7. Adds(r)
  BY <1>2 DEF Adds
<1>8. \A o \in Orgs : MembersOf(o)' \subseteq MembersOf(o)
  BY <1>2 DEF MembersOf
<1>9. \A o \in Orgs : PendingFor(o)' \subseteq PendingFor(o)
  BY <1>2 DEF PendingFor
<1> QED  BY <1>3, <1>4, <1>5, <1>6, <1>7, <1>8, <1>9

LEMMA ExpelKeeps ==
  ASSUME OrganizationsInv, NEW r \in Requests, Expel(r)
  PROVE  OrganizationsInv'
<1>1. UNCHANGED <<now, orgs, invitations, active, drawn, joined, calls>> /\ reqs[r].pc = "expel"
  BY DEF Expel, At
<1>2. PICK q : q = reqs[r]
  OBVIOUS
<1>3. TypeOK /\ q \in Request /\ Sound(q) /\ q.op \in {"leave", "remove"}
  BY <1>1, <1>2, TaskFacts, StopsFacts DEF Sound, Routed, Request, Calls, Managing
<1>4. q.target \in Members
  BY <1>1, <1>2, <1>3 DEF Sound, Targets, Known
<1>5. members' = [members EXCEPT ![q.target] = None]
  BY <1>2 DEF Expel
<1>6. /\ members' \in [Members -> Member \cup {None}]
      /\ \A m \in Members : members'[m] # None => members'[m] = members[m]
  BY <1>3, <1>4, <1>5 DEF TypeOK
<1>7. CASE Become(r, Close(q, "ok"))
  <2>1. reqs' \in [Requests -> Request]
    BY <1>3, <1>7, CloseFacts, BecomeFacts DEF Moves
  <2> QED  BY <1>1, <1>2, <1>6, <1>7, <2>1, SeatsMove, EndKeeps
<1>8. CASE q.op = "leave" /\ Become(r, [q EXCEPT !.pc = "activate", !.org = None])
  <2>1. PICK t : t = [q EXCEPT !.pc = "activate", !.org = None]
    OBVIOUS
  <2>2. t = [pc |-> "activate", op |-> q.op, user |-> q.user, org |-> None,
             target |-> q.target, slug |-> q.slug, who |-> q.who, role |-> q.role,
             mine |-> q.mine, home |-> q.home, open |-> q.open, late |-> q.late,
             result |-> q.result]
    BY <1>3, <2>1 DEF Request
  <2>3. "activate" \in Pcs
    BY PcsFacts
  <2>4. t \in Request
    BY <1>3, <2>2, <2>3 DEF Request
  <2>5. t.pc = "activate" /\ t.op = "leave" /\ t.user = q.user /\ t.org = None
    BY <1>8, <2>2
  <2>6. Moves(r, t)
    BY <1>3, <1>8, <2>1, <2>4, BecomeFacts
  <2>7. reqs' \in [Requests -> Request]
    BY <2>6 DEF Moves
  <2>8. Sound(t)'
    <3>1. q.user \in Users
      BY <1>1, <1>2, <1>3 DEF Sound, Routed
    <3> QED  BY <2>5, <3>1, StopsFacts
             DEF Sound, Routed, Entitled, Targets, Answers, Admitted, Accepting
  <2>9. Harmless(r, t) /\ HasRoom(r, t)
    BY <2>5 DEF Harmless, HasRoom, Founder, Enters, Writes
  <2> QED  BY <1>1, <1>6, <2>6, <2>7, <2>8, <2>9, SeatsMove, WriteKeeps
<1> QED  BY <1>2, <1>7, <1>8 DEF Expel

LEMMA SetRoleKeeps ==
  ASSUME OrganizationsInv, NEW r \in Requests, SetRole(r)
  PROVE  OrganizationsInv'
<1>1. UNCHANGED <<now, orgs, invitations, active, drawn, joined, calls>> /\ reqs[r].pc = "setRole"
  BY DEF SetRole, At
<1>2. PICK q : q = reqs[r]
  OBVIOUS
<1>3. TypeOK /\ q \in Request /\ Sound(q)
  BY <1>2, TaskFacts
<1>4. q.target \in Members /\ q.role \in Roles
  BY <1>1, <1>2, <1>3 DEF Sound, Targets, Routed, Known
<1>5. CASE Become(r, Close(q, "refused")) /\ UNCHANGED members
  BY <1>1, <1>2, <1>5, CloseKeeps DEF Reads
<1>6. CASE /\ members[q.target] # None /\ Become(r, Close(q, "ok"))
           /\ members' = [members EXCEPT ![q.target].role = q.role]
  <2>1. PICK row : row = [members[q.target] EXCEPT !.role = q.role]
    OBVIOUS
  <2>2. members[q.target] \in Member
    BY <1>3, <1>4, <1>6 DEF TypeOK
  <2>3. row = [org |-> members[q.target].org, user |-> members[q.target].user, role |-> q.role]
    BY <2>1, <2>2 DEF Member
  <2>4. row \in Member
    BY <1>4, <2>2, <2>3 DEF Member
  <2>5. members' = [members EXCEPT ![q.target] = row]
    BY <1>6, <2>1
  <2>6. members' \in [Members -> Member \cup {None}]
    BY <1>3, <1>4, <2>4, <2>5 DEF TypeOK
  <2>7. \A m \in Members : members'[m] # None =>
           /\ members[m] # None
           /\ members'[m].org = members[m].org /\ members'[m].user = members[m].user
    BY <1>3, <1>4, <1>6, <2>3, <2>5 DEF TypeOK
  <2>8. reqs' \in [Requests -> Request]
    BY <1>3, <1>6, CloseFacts, BecomeFacts DEF Moves
  <2> QED  BY <1>1, <1>2, <1>6, <2>6, <2>7, <2>8, SeatsMove, EndKeeps
<1> QED  BY <1>2, <1>5, <1>6 DEF SetRole

LEMMA SettleKeeps ==
  ASSUME OrganizationsInv, NEW r \in Requests, Settle(r)
  PROVE  OrganizationsInv'
<1>1. /\ UNCHANGED <<now, orgs, members, active, drawn, joined, calls>>
      /\ reqs[r].pc \in {"settle", "spoil"}
  BY DEF Settle
<1>2. PICK q : q = reqs[r]
  OBVIOUS
<1>3. TypeOK /\ q \in Request /\ Sound(q) /\ q.op \in {"accept", "reject", "cancel"}
  BY <1>1, <1>2, TaskFacts, StopsFacts DEF Sound, Routed, Request, Calls, Managing
<1>4. q.target \in Known(Invitations) /\ q.target \in Invitations
  BY <1>1, <1>2, <1>3 DEF Sound, Answers, Known
<1>5. PICK verdict : verdict = Verdict(q.op)
  OBVIOUS
<1>6. verdict \in Statuses \ {"pending"}
  BY <1>3, <1>5 DEF Verdict, Statuses
<1>7. CASE Become(r, Close(q, "refused")) /\ UNCHANGED invitations
  BY <1>1, <1>2, <1>7, CloseKeeps DEF Reads
<1>8. CASE /\ invitations[q.target] # None
           /\ invitations' = [invitations EXCEPT ![q.target].status = verdict]
           /\ \/ \E res \in {"ok", "refused", "error"} : Become(r, Close(q, res))
              \/ q.pc = "settle" /\ q.op = "accept" /\ Become(r, Go(q, "activate"))
  <2>1. PICK row : row = [invitations[q.target] EXCEPT !.status = verdict]
    OBVIOUS
  <2>2. PICK old : old = invitations[q.target]
    OBVIOUS
  <2>3. old \in Invitation
    BY <1>3, <1>4, <1>8, <2>2 DEF TypeOK
  <2>4. row = [org |-> old.org, user |-> old.user, role |-> old.role,
               status |-> verdict, expires |-> old.expires]
    BY <2>1, <2>2, <2>3 DEF Invitation
  <2>5. /\ row \in Invitation /\ row.status # "pending"
        /\ row.org = old.org /\ row.user = old.user /\ row.role = old.role
    BY <1>6, <2>3, <2>4 DEF Invitation
  <2>6. invitations' = [invitations EXCEPT ![q.target] = row]
    BY <1>8, <2>1
  <2>7. invitations' \in [Invitations -> Invitation \cup {None}]
    BY <1>3, <1>4, <2>5, <2>6 DEF TypeOK
  <2>8. \A i \in Invitations :
          \/ invitations'[i] = invitations[i]
          \/ /\ i = q.target /\ invitations[i] = old /\ invitations'[i] = row
    BY <1>3, <1>4, <2>2, <2>6 DEF TypeOK
  <2>9. old # None /\ row # None
    BY <2>3, <2>5
  <2>10. reqs' \in [Requests -> Request]
    <3>1. \A res \in {"ok", "refused", "error"} : Close(q, res) \in Request
      BY <1>3, CloseFacts
    <3>2. Go(q, "activate") \in Request
      BY <1>3, PcsFacts, GoFacts
    <3> QED  BY <1>3, <1>8, <3>1, <3>2, BecomeFacts DEF Moves
  <2>11. /\ Rows(invitations)' = Rows(invitations) /\ Rows(orgs)' = Rows(orgs)
         /\ Rows(members)' = Rows(members)
    BY <1>1, <1>3, <2>7, <2>8, <2>9 DEF Rows, TypeOK
  <2>12. \A i \in Rows(invitations) :
           /\ i \in Invitations /\ invitations'[i].org = invitations[i].org
           /\ invitations'[i].user = invitations[i].user
           /\ invitations'[i].role = invitations[i].role
           /\ invitations[i].status # "pending" => invitations'[i].status # "pending"
    BY <1>3, <2>5, <2>8, RowFacts
  <2>13. TypeOK'
    BY <1>1, <1>3, <2>7, <2>10, <2>11 DEF TypeOK
  <2>14. MemberOnce' /\ ActiveJoined' /\ RowsKept'
    BY <1>1, <2>11, <2>12
       DEF OrganizationsInv, Consistent, MemberOnce, Once, ActiveJoined, RowsKept
  <2>15. Evolves
    <3>1. \A i \in Known(Invitations) : invitations'[i] # None => i \in Rows(invitations)
      BY <1>3, <2>8, <2>9 DEF Known, Rows, TypeOK
    <3>2. \A i \in Known(Invitations) : invitations'[i] = None => invitations[i] = None
      BY <2>8, <2>9 DEF Known
    <3>3. \A i \in Rows(invitations) : invitations[i] # None
      BY DEF Rows
    <3> QED  BY <1>1, <2>12, <3>1, <3>2, <3>3 DEF Evolves
  <2>16. Adds(r)
    BY <1>1, <2>11, <2>12 DEF Adds, Rows
  <2>17. \A o \in Orgs : MembersOf(o)' \subseteq MembersOf(o)
    BY <1>1 DEF MembersOf, Rows
  <2>18. \A o \in Orgs : PendingFor(o)' \subseteq PendingFor(o)
    BY <2>11, <2>12 DEF PendingFor
  <2>19. CASE \E res \in {"ok", "refused", "error"} : Become(r, Close(q, res))
    BY <1>2, <2>13, <2>14, <2>15, <2>16, <2>17, <2>18, <2>19, EndKeeps
  <2>20. CASE q.pc = "settle" /\ q.op = "accept" /\ Become(r, Go(q, "activate"))
    <3>1. PICK t : t = Go(q, "activate")
      OBVIOUS
    <3>2. t \in Request /\ t.pc = "activate" /\ Same(q, t)
      BY <1>3, <3>1, PcsFacts, GoFacts
    <3>3. Moves(r, t)
      BY <1>3, <2>20, <3>1, <3>2, BecomeFacts
    <3>4. Sound(t)
      <4>1. Routed(t)
        BY <1>3, <2>20, <3>2, StopsFacts DEF Sound, Routed, Same
      <4>2. Entitled(t)
        BY <1>3, <2>20, <3>2 DEF Sound, Entitled, Admitted, Same
      <4>3. Targets(t)
        BY <2>20, <3>2 DEF Targets, Same
      <4>4. Answers(t)
        BY <1>3, <1>4, <2>20, <3>2 DEF Sound, Answers, Accepting, Same
      <4> QED  BY <4>1, <4>2, <4>3, <4>4 DEF Sound
    <3>5. Sound(t)'
      BY <1>3, <2>13, <2>15, <3>2, <3>4, SoundStays
    <3>6. Harmless(r, t) /\ HasRoom(r, t)
      BY <1>2, <2>20, <3>2 DEF Harmless, HasRoom, Founder, Enters, Writes, Same
    <3> QED  BY <2>13, <2>14, <2>15, <2>16, <2>17, <2>18, <3>3, <3>5, <3>6, WriteKeeps
  <2> QED  BY <1>8, <2>19, <2>20
<1>9. CASE invitations[q.target] = None
  BY <1>2, <1>7, <1>9 DEF Settle
<1>10. CASE invitations[q.target] # None
  BY <1>2, <1>3, <1>5, <1>8, <1>10 DEF Settle
<1> QED  BY <1>9, <1>10

\* Rows with new ids.
LEMMA FreshFacts ==
  ASSUME NEW S, S \ drawn # {}
  PROVE  Fresh(S) \in S /\ Fresh(S) \notin drawn
BY DEF Fresh

LEMMA RowKeeps ==
  ASSUME OrganizationsInv, NEW r \in Requests, NEW t, Moves(r, t),
         TypeOK', MemberOnce', ActiveJoined', RowsKept', Evolves, Sound(t)', Founded',
         \A o \in Orgs : Seated(o)' /\ Invited(o)'
  PROVE  OrganizationsInv'
<1>1. TypeOK /\ \A q \in Requests : Sound(reqs[q])
  BY DEF OrganizationsInv, Consistent, Sound
<1>2. \A q \in Requests : Sound(reqs[q])'
  BY <1>1, TasksStay
<1>3. Consistent'
  BY DEF Consistent
<1> QED  BY <1>2, <1>3 DEF OrganizationsInv, Sound

\* The only members of a new organization are to be.
LEMMA InsertOrgKeeps ==
  ASSUME OrganizationsInv, NEW r \in Requests, InsertOrg(r)
  PROVE  OrganizationsInv'
<1>1. UNCHANGED <<now, members, invitations, active, joined, calls>> /\ reqs[r].pc = "insert"
  BY DEF InsertOrg, At
<1>2. PICK q : q = reqs[r]
  OBVIOUS
<1>3. TypeOK /\ q \in Request /\ Sound(q) /\ q.op = "create"
  BY <1>1, <1>2, TaskFacts, StopsFacts DEF Sound, Routed, Request, Calls, Managing
<1>4. q.slug \in Slugs /\ q.org = None
  BY <1>1, <1>2, <1>3 DEF Sound, Routed
<1>5. CASE Become(r, Close(q, "refused")) /\ UNCHANGED <<orgs, drawn>>
  BY <1>1, <1>2, <1>5, CloseKeeps DEF Reads
<1>6. CASE ~Taken(q)
  <2>1. PICK o : o = Fresh(Orgs)
    OBVIOUS
  <2>2. /\ Orgs \ drawn # {} /\ orgs' = [orgs EXCEPT ![o] = q.slug] /\ drawn' = drawn \cup {o}
        /\ Become(r, [q EXCEPT !.pc = "join", !.org = o, !.role = "owner"])
    BY <1>2, <1>6, <2>1 DEF InsertOrg
  <2>3. o \in Orgs /\ o \notin drawn
    BY <2>1, <2>2, FreshFacts
  <2>4. PICK t : t = [q EXCEPT !.pc = "join", !.org = o, !.role = "owner"]
    OBVIOUS
  <2>5. t = [pc |-> "join", op |-> q.op, user |-> q.user, org |-> o,
             target |-> q.target, slug |-> q.slug, who |-> q.who, role |-> "owner",
             mine |-> q.mine, home |-> q.home, open |-> q.open, late |-> q.late,
             result |-> q.result]
    BY <1>3, <2>4 DEF Request
  <2>6. "join" \in Pcs /\ "owner" \in Roles
    BY PcsFacts DEF Roles
  <2>7. t \in Request
    BY <1>3, <2>3, <2>5, <2>6 DEF Request
  <2>8. t.pc = "join" /\ t.op = "create" /\ t.user = q.user /\ t.org = o /\ t.role = "owner"
        /\ t.slug = q.slug
    BY <1>3, <2>5
  <2>9. Moves(r, t)
    BY <1>3, <2>2, <2>4, <2>7, BecomeFacts
  <2>10. /\ orgs' \in [Orgs -> Slugs \cup {None}] /\ orgs'[o] = q.slug
         /\ \A p \in Orgs : p # o => orgs'[p] = orgs[p]
    BY <1>3, <1>4, <2>2, <2>3 DEF TypeOK
  <2>11. /\ \A p \in Rows(orgs)' : p \in Orgs /\ (p = o \/ p \in Rows(orgs))
         /\ Rows(members)' = Rows(members) /\ Rows(invitations)' = Rows(invitations)
    BY <1>1, <1>3, <2>10 DEF Rows, TypeOK
  <2>12. TypeOK'
    <3>1. reqs' \in [Requests -> Request]
      BY <2>9 DEF Moves
    <3> QED  BY <1>1, <1>3, <2>2, <2>3, <2>10, <2>11, <3>1 DEF TypeOK
  <2>13. MemberOnce'
    <3>1. Once(members)'
      BY <1>1 DEF OrganizationsInv, Consistent, MemberOnce, Once
    <3>2. \A p, s \in Rows(orgs) : orgs[p] = orgs[s] => p = s
      BY DEF OrganizationsInv, Consistent, MemberOnce
    <3>3. \A p \in Rows(orgs) : p \in Orgs /\ p # o /\ orgs[p] # q.slug
      BY <1>3, <1>4, <1>6, <2>3, RowFacts DEF Taken
    <3> QED  BY <2>10, <2>11, <3>1, <3>2, <3>3 DEF MemberOnce
  <2>14. ActiveJoined' /\ RowsKept'
    BY <1>1, <2>2, <2>11 DEF OrganizationsInv, Consistent, ActiveJoined, RowsKept
  <2>15. Evolves
    BY <1>1, <2>2, <2>3, <2>10 DEF Evolves, Known
  <2>16. Sound(t)'
    <3>1. q.user \in Users
      BY <1>1, <1>2, <1>3 DEF Sound, Routed
    <3> QED  BY <1>4, <2>2, <2>3, <2>6, <2>8, <3>1, StopsFacts
             DEF Sound, Routed, Entitled, Targets, Answers, Admitted, Accepting, Known
  <2>17. \A p \in Requests : reqs[p].org # o
    BY <2>3, TaskFacts DEF Sound, Routed, Known
  <2>18. Founded'
    <3> SUFFICES ASSUME NEW p \in Requests, Founder(reqs'[p])
                 PROVE  LET n == reqs'[p].org IN
                        /\ \A m \in Rows(members)' : members'[m].org # n
                        /\ \A i \in Rows(invitations)' : invitations'[i].org # n
                        /\ \A s \in Requests \ {p} : reqs'[s].org = n => reqs'[s].pc = "self"
      BY DEF Founded, Founder, At
    <3>1. CASE p = r
      <4>1. reqs'[p].org = o
        BY <2>8, <2>9, <3>1 DEF Moves
      <4>2. \A m \in Rows(members) : members[m].org # o
        BY <2>3 DEF OrganizationsInv, RowsKept
      <4>3. \A i \in Rows(invitations) : invitations[i].org # o
        BY <2>3 DEF OrganizationsInv, RowsKept
      <4>4. \A s \in Requests \ {p} : reqs'[s].org # o
        BY <2>9, <2>17, <3>1 DEF Moves
      <4> QED  BY <1>1, <2>11, <4>1, <4>2, <4>3, <4>4
    <3>2. CASE p # r
      <4>1. PICK n : n = reqs[p].org
        OBVIOUS
      <4>2. reqs'[p] = reqs[p] /\ n # o
        BY <2>9, <2>17, <3>2, <4>1 DEF Moves
      <4>3. /\ \A m \in Rows(members) : members[m].org # n
            /\ \A i \in Rows(invitations) : invitations[i].org # n
            /\ \A s \in Requests \ {p} : reqs[s].org = n => reqs[s].pc = "self"
        BY <4>1, <4>2 DEF OrganizationsInv, Founded, Founder, At
      <4>4. \A s \in Requests \ {p} : reqs'[s].org = n => reqs'[s].pc = "self"
        BY <2>8, <2>9, <4>2, <4>3 DEF Moves
      <4> QED  BY <1>1, <2>11, <4>1, <4>2, <4>3, <4>4
    <3> QED  BY <3>1, <3>2
  <2>19. \A p \in Orgs : Seated(p)'
    <3> SUFFICES ASSUME NEW p \in Orgs PROVE Seated(p)'
      OBVIOUS
    <3>1. MembersOf(p)' = MembersOf(p) /\ Seated(p)
      BY <1>1, <2>11 DEF MembersOf, OrganizationsInv
    <3>2. CASE p # o
      <4>1. Joining(p)' \subseteq Joining(p)
        BY <2>8, <2>9, <3>2 DEF Joining, Moves, At
      <4> QED  BY <3>1, <4>1, SeatedShrinks
    <3>3. CASE p = o
      <4>1. MembersOf(p)' = {}
        BY <2>3, <3>1, <3>3 DEF MembersOf, OrganizationsInv, RowsKept
      <4>2. Joining(p)' \subseteq {r}
        BY <2>9, <2>17, <3>3 DEF Joining, Moves
      <4>3. PICK C : C = Joining(p)'
        OBVIOUS
      <4>4. C = {} \/ C = {r}
        BY <4>2, <4>3
      <4>5. Cardinality(C) \in {0, 1}
        BY <4>4, FS_EmptySet, FS_Singleton
      <4>6. PICK S : S = MembersOf(p)'
        OBVIOUS
      <4>7. IsFiniteSet(S) /\ Cardinality(S) = 0
        BY <4>1, <4>6, FS_EmptySet
      <4>8. Cardinality(S) + Cardinality(C) <= 1
        BY <4>5, <4>7
      <4> QED  BY <4>3, <4>6, <4>7, <4>8 DEF Seated
    <3> QED  BY <3>2, <3>3
  <2>20. \A p \in Orgs : Invited(p)'
    <3> SUFFICES ASSUME NEW p \in Orgs PROVE Invited(p)'
      OBVIOUS
    <3>1. PendingFor(p)' = PendingFor(p) /\ Invited(p)
      BY <1>1, <2>11 DEF PendingFor, OrganizationsInv
    <3>2. Issuing(p)' \subseteq Issuing(p)
      BY <2>8, <2>9 DEF Issuing, Moves
    <3> QED  BY <3>1, <3>2, InvitedShrinks
  <2> QED  BY <2>9, <2>12, <2>13, <2>14, <2>15, <2>16, <2>18, <2>19, <2>20, RowKeeps
<1>7. CASE Taken(q)
  BY <1>2, <1>5, <1>7 DEF InsertOrg
<1> QED  BY <1>6, <1>7

\* The task that found room becomes the row.
LEMMA JoinKeeps ==
  ASSUME OrganizationsInv, NEW r \in Requests, Join(r)
  PROVE  OrganizationsInv'
<1>1. UNCHANGED <<now, orgs, invitations, active, calls>> /\ reqs[r].pc = "join"
  BY DEF Join, At
<1>2. PICK q : q = reqs[r]
  OBVIOUS
<1>3. TypeOK /\ q \in Request /\ Sound(q) /\ q.op \in {"create", "accept"}
  BY <1>1, <1>2, TaskFacts, StopsFacts DEF Sound, Routed, Request, Calls, Managing
<1>4. /\ q.user \in Users /\ q.org \in Orgs /\ q.org \in drawn /\ q.role \in Roles
      /\ q.op = "accept" => q.target \in Known(Invitations)
  BY <1>1, <1>2, <1>3 DEF Sound, Routed, Answers, Known
<1>5. CASE Become(r, Close(q, "refused")) /\ UNCHANGED <<members, drawn, joined>>
  BY <1>1, <1>2, <1>5, CloseKeeps DEF Reads
<1>6. CASE Joinable(q)
  <2>1. PICK m : m = Fresh(Members)
    OBVIOUS
  <2>2. PICK row : row = [org |-> q.org, user |-> q.user, role |-> q.role]
    OBVIOUS
  <2>3. /\ Members \ drawn # {} /\ members' = [members EXCEPT ![m] = row]
        /\ drawn' = drawn \cup {m} /\ joined' = joined \cup {<<q.user, q.org>>}
        /\ \/ Become(r, Close(q, "ok"))
           \/ q.op = "accept" /\ Become(r, Go(q, "settle"))
    BY <1>2, <1>3, <1>6, <2>1, <2>2 DEF Join
  <2>4. m \in Members /\ m \notin drawn
    BY <2>1, <2>3, FreshFacts
  <2>5. row \in Member /\ row # None /\ row.org = q.org /\ row.user = q.user
    BY <1>4, <2>2 DEF Member
  <2>6. /\ members' \in [Members -> Member \cup {None}] /\ members'[m] = row
        /\ \A n \in Members : n # m => members'[n] = members[n]
    BY <1>3, <2>3, <2>4, <2>5 DEF TypeOK
  <2>7. /\ \A n \in Rows(members)' : n \in Members /\ members'[n] # None
                                     /\ (n = m \/ n \in Rows(members))
        /\ Rows(orgs)' = Rows(orgs) /\ Rows(invitations)' = Rows(invitations)
        /\ \A n \in Rows(members) : n \in Members /\ n # m /\ members'[n] = members[n]
    BY <1>1, <1>3, <2>4, <2>6, RowFacts DEF Rows, TypeOK
  <2>8. PICK t \in Request :
          /\ Become(r, t) /\ t.pc \in {"closed", "settle"} /\ t.op = q.op
          /\ t.pc = "closed" => t.org = None
          /\ t.pc = "settle" => q.op = "accept" /\ Same(q, t)
    <3>1. CASE Become(r, Close(q, "ok"))
      BY <1>3, <3>1, CloseFacts
    <3>2. CASE q.op = "accept" /\ Become(r, Go(q, "settle"))
      BY <1>3, <3>2, PcsFacts, GoFacts DEF Same
    <3> QED  BY <2>3, <3>1, <3>2
  <2>9. Moves(r, t)
    BY <1>3, <2>8, BecomeFacts
  <2>10. TypeOK'
    <3>1. reqs' \in [Requests -> Request]
      BY <2>9 DEF Moves
    <3>2. joined' \subseteq Users \X Orgs
      BY <1>3, <1>4, <2>3 DEF TypeOK
    <3>3. drawn' \subseteq Orgs \cup Members \cup Invitations
      BY <1>3, <2>3, <2>4 DEF TypeOK
    <3>4. Rows(orgs)' \cup Rows(members)' \cup Rows(invitations)' \subseteq drawn'
      BY <1>3, <2>3, <2>7 DEF TypeOK
    <3> QED  BY <1>1, <1>3, <2>6, <3>1, <3>2, <3>3, <3>4 DEF TypeOK
  <2>11. MemberOnce'
    <3>1. \A n \in Rows(members) : members[n].org # q.org \/ members[n].user # q.user
      BY <1>6 DEF Joinable, Seats, MembersOf
    <3>2. \A n \in Members : members[n] # None => n \in Rows(members)
      BY <1>3 DEF Rows, TypeOK
    <3>3. Once(members)
      BY DEF OrganizationsInv, Consistent, MemberOnce
    <3>4. Once(members)'
      BY <2>5, <2>6, <3>1, <3>2, <3>3 DEF Once
    <3> QED  BY <1>1, <2>7, <3>4 DEF OrganizationsInv, Consistent, MemberOnce
  <2>12. ActiveJoined'
    BY <1>1, <2>3 DEF OrganizationsInv, Consistent, ActiveJoined
  <2>13. RowsKept'
    <3>1. ASSUME NEW n \in Rows(members)'
          PROVE  members'[n].org \in drawn' /\ <<members'[n].user, members'[n].org>> \in joined'
      <4>1. CASE n = m
        BY <1>4, <2>3, <2>5, <2>6, <4>1
      <4>2. CASE n \in Rows(members)
        BY <2>3, <2>7, <4>2 DEF OrganizationsInv, RowsKept
      <4> QED  BY <2>7, <4>1, <4>2
    <3>2. \A i \in Rows(invitations)' : invitations'[i].org \in drawn'
      BY <1>1, <2>3, <2>7 DEF OrganizationsInv, RowsKept
    <3> QED  BY <3>1, <3>2 DEF RowsKept
  <2>14. Evolves
    BY <1>1, <2>3, <2>4, <2>6 DEF Evolves, Known
  <2>15. Sound(t)'
    <3>1. CASE t.pc = "closed"
      BY <2>8, <3>1
         DEF Sound, Routed, Entitled, Targets, Answers, Admitted, Accepting
    <3>2. CASE t.pc = "settle"
      <4>1. t.op = "accept" /\ t.user = q.user /\ t.org = q.org /\ t.target = q.target
        BY <2>8, <3>2 DEF Same
      <4>2. Routed(t)'
        BY <1>4, <2>3, <3>2, <4>1, StopsFacts DEF Routed, Known
      <4>3. Entitled(t)'
        BY <2>3, <3>2, <4>1 DEF Entitled, Admitted
      <4>4. Targets(t)'
        BY <3>2, <4>1 DEF Targets
      <4>5. Answers(t)'
        BY <1>4, <2>3, <2>8, <3>2, <4>1 DEF Answers, Accepting, Known
      <4> QED  BY <4>2, <4>3, <4>4, <4>5 DEF Sound
    <3> QED  BY <2>8, <3>1, <3>2
  <2>16. Founded'
    <3>1. Harmless(r, t)
      BY <1>1, <1>2, <2>8 DEF Harmless, Founder, Same
    <3>2. Adds(r)
      BY <1>1, <1>2, <2>5, <2>6, <2>7 DEF Adds, Rows
    <3> QED  BY <2>9, <3>1, <3>2, FoundedStays, TaskFacts DEF OrganizationsInv
  <2>17. \A o \in Orgs : Seated(o)'
    <3> SUFFICES ASSUME NEW o \in Orgs PROVE Seated(o)'
      OBVIOUS
    <3>1. Seated(o)
      BY DEF OrganizationsInv
    <3>2. CASE o # q.org
      <4>1. MembersOf(o)' \subseteq MembersOf(o)
        BY <2>5, <2>6, <2>7, <3>2 DEF MembersOf
      <4>2. Joining(o)' \subseteq Joining(o)
        BY <2>8, <2>9 DEF Joining, Moves, At
      <4> QED  BY <3>1, <4>1, <4>2, SeatedShrinks
    <3>3. CASE o = q.org
      <4>1. PICK S : S = MembersOf(o)
        OBVIOUS
      <4>2. PICK S1 : S1 = MembersOf(o)'
        OBVIOUS
      <4>3. PICK C : C = Joining(o)
        OBVIOUS
      <4>4. PICK C1 : C1 = Joining(o)'
        OBVIOUS
      <4>5. S1 \in SUBSET (S \cup {m})
        BY <2>7, <4>1, <4>2 DEF MembersOf
      <4>6. r \in C
        BY <1>1, <1>2, <1>3, <3>3, <4>3 DEF Joining, At
      <4>7. C1 \in SUBSET (C \ {r})
        BY <2>8, <2>9, <4>3, <4>4 DEF Joining, Moves, At
      <4>8. C \in SUBSET Requests
        BY <4>3 DEF Joining
      <4>9. IsFiniteSet(S) /\ IsFiniteSet(C)
        BY <3>1, <4>1, <4>8, Requesters DEF Seated
      <4>10. /\ IsFiniteSet(S1) /\ Cardinality(S1) \in Nat /\ Cardinality(C1) \in Nat
             /\ Cardinality(S) \in Nat /\ Cardinality(C) \in Nat
             /\ Cardinality(S1) + Cardinality(C1) <= Cardinality(S) + Cardinality(C)
        BY <4>5, <4>6, <4>7, <4>9, Swapped
      <4>11. MemberLimit # None =>
               \/ Cardinality(S) + Cardinality(C) <= MemberLimit + Cardinality(Requests) - 1
               \/ Cardinality(S) + Cardinality(C) <= 1
        BY <3>1, <4>1, <4>3 DEF Seated
      <4>12. MemberLimit # None =>
               \/ Cardinality(S1) + Cardinality(C1) <= MemberLimit + Cardinality(Requests) - 1
               \/ Cardinality(S1) + Cardinality(C1) <= 1
        BY <4>10, <4>11, Requesters
      <4> QED  BY <4>2, <4>4, <4>10, <4>12 DEF Seated
    <3> QED  BY <3>2, <3>3
  <2>18. \A o \in Orgs : Invited(o)'
    <3> SUFFICES ASSUME NEW o \in Orgs PROVE Invited(o)'
      OBVIOUS
    <3>1. PendingFor(o)' = PendingFor(o) /\ Invited(o)
      BY <1>1, <2>7 DEF PendingFor, OrganizationsInv
    <3>2. Issuing(o)' \subseteq Issuing(o)
      BY <2>8, <2>9 DEF Issuing, Moves
    <3> QED  BY <3>1, <3>2, InvitedShrinks
  <2> QED  BY <2>9, <2>10, <2>11, <2>12, <2>13, <2>14, <2>15, <2>16, <2>17, <2>18, RowKeeps
<1>7. CASE ~Joinable(q)
  BY <1>2, <1>5, <1>7 DEF Join
<1> QED  BY <1>6, <1>7

LEMMA IssueKeeps ==
  ASSUME OrganizationsInv, NEW r \in Requests, Issue(r)
  PROVE  OrganizationsInv'
<1>1. UNCHANGED <<now, orgs, members, active, joined, calls>> /\ reqs[r].pc = "issue"
  BY DEF Issue, At
<1>2. PICK q : q = reqs[r]
  OBVIOUS
<1>3. TypeOK /\ q \in Request /\ Sound(q) /\ q.op = "invite"
  BY <1>1, <1>2, TaskFacts, StopsFacts DEF Sound, Routed, Request, Calls, Managing
<1>4. q.org \in Orgs /\ q.org \in drawn /\ q.role \in Roles /\ q.who \in Users
  BY <1>1, <1>2, <1>3 DEF Sound, Routed, Known
<1>5. CASE Become(r, Close(q, "refused")) /\ UNCHANGED <<invitations, drawn>>
  BY <1>1, <1>2, <1>5, CloseKeeps DEF Reads
<1>6. CASE ~Gone(q.org)
  <2>1. PICK i : i = Fresh(Invitations)
    OBVIOUS
  <2>2. PICK row : row = Letter(q)
    OBVIOUS
  <2>3. /\ Invitations \ drawn # {} /\ invitations' = [invitations EXCEPT ![i] = row]
        /\ drawn' = drawn \cup {i} /\ Become(r, Close(q, "ok"))
    BY <1>2, <1>6, <2>1, <2>2 DEF Issue
  <2>4. i \in Invitations /\ i \notin drawn
    BY <2>1, <2>3, FreshFacts
  <2>5. row \in Invitation /\ row # None /\ row.org = q.org
    <3>1. now + InviteTtl \in Nat
      BY <1>3 DEF TypeOK
    <3>2. row = [org |-> q.org, user |-> q.who, role |-> q.role,
                 status |-> "pending", expires |-> now + InviteTtl]
      BY <2>2 DEF Letter
    <3>3. row \in Invitation
      BY <1>4, <3>1, <3>2 DEF Invitation, Statuses
    <3> QED  BY <3>2, <3>3
  <2>6. /\ invitations' \in [Invitations -> Invitation \cup {None}] /\ invitations'[i] = row
        /\ \A n \in Invitations : n # i => invitations'[n] = invitations[n]
    BY <1>3, <2>3, <2>4, <2>5 DEF TypeOK
  <2>7. /\ \A n \in Rows(invitations)' : n \in Invitations /\ invitations'[n] # None
                                         /\ (n = i \/ n \in Rows(invitations))
        /\ Rows(orgs)' = Rows(orgs) /\ Rows(members)' = Rows(members)
        /\ \A n \in Rows(invitations) :
             n \in Invitations /\ n # i /\ invitations'[n] = invitations[n]
    BY <1>1, <1>3, <2>4, <2>6, RowFacts DEF Rows, TypeOK
  <2>8. PICK t : t = Close(q, "ok")
    OBVIOUS
  <2>9. t \in Request /\ t.pc = "closed" /\ t.org = None
    BY <1>3, <2>8, CloseFacts
  <2>10. Moves(r, t)
    BY <1>3, <2>3, <2>8, <2>9, BecomeFacts
  <2>11. TypeOK'
    <3>1. reqs' \in [Requests -> Request]
      BY <2>10 DEF Moves
    <3>2. drawn' \subseteq Orgs \cup Members \cup Invitations
      BY <1>3, <2>3, <2>4 DEF TypeOK
    <3>3. Rows(orgs)' \cup Rows(members)' \cup Rows(invitations)' \subseteq drawn'
      BY <1>3, <2>3, <2>7 DEF TypeOK
    <3> QED  BY <1>1, <1>3, <2>6, <3>1, <3>2, <3>3 DEF TypeOK
  <2>12. MemberOnce' /\ ActiveJoined'
    BY <1>1, <2>7 DEF OrganizationsInv, Consistent, MemberOnce, Once, ActiveJoined
  <2>13. RowsKept'
    BY <1>1, <1>4, <2>3, <2>5, <2>6, <2>7 DEF OrganizationsInv, RowsKept
  <2>14. Evolves
    BY <1>1, <2>3, <2>4, <2>6 DEF Evolves, Known
  <2>15. Sound(t)'
    BY <2>9 DEF Sound, Routed, Entitled, Targets, Answers, Admitted, Accepting
  <2>16. Founded'
    <3>1. Harmless(r, t)
      BY <2>9 DEF Harmless, Founder
    <3>2. Adds(r)
      BY <1>1, <1>2, <2>5, <2>6, <2>7 DEF Adds, Rows
    <3> QED  BY <2>10, <3>1, <3>2, FoundedStays, TaskFacts DEF OrganizationsInv
  <2>17. \A o \in Orgs : Seated(o)'
    <3> SUFFICES ASSUME NEW o \in Orgs PROVE Seated(o)'
      OBVIOUS
    <3>1. MembersOf(o)' = MembersOf(o) /\ Seated(o)
      BY <1>1, <2>7 DEF MembersOf, OrganizationsInv
    <3>2. Joining(o)' \subseteq Joining(o)
      BY <2>9, <2>10 DEF Joining, Moves, At
    <3> QED  BY <3>1, <3>2, SeatedShrinks
  <2>18. \A o \in Orgs : Invited(o)'
    <3> SUFFICES ASSUME NEW o \in Orgs PROVE Invited(o)'
      OBVIOUS
    <3>1. Invited(o)
      BY DEF OrganizationsInv
    <3>2. Issuing(o)' \subseteq Issuing(o) \ {r}
      BY <2>9, <2>10 DEF Issuing, Moves
    <3>3. CASE o # q.org
      <4>1. PendingFor(o)' \subseteq PendingFor(o)
        BY <2>5, <2>6, <2>7, <3>3 DEF PendingFor
      <4> QED  BY <3>1, <3>2, <4>1, InvitedShrinks
    <3>4. CASE o = q.org
      <4>1. PICK S : S = PendingFor(o)
        OBVIOUS
      <4>2. PICK S1 : S1 = PendingFor(o)'
        OBVIOUS
      <4>3. PICK C : C = Issuing(o)
        OBVIOUS
      <4>4. PICK C1 : C1 = Issuing(o)'
        OBVIOUS
      <4>5. S1 \in SUBSET (S \cup {i})
        BY <2>7, <4>1, <4>2 DEF PendingFor
      <4>6. r \in C
        BY <1>1, <1>2, <1>3, <3>4, <4>3 DEF Issuing
      <4>7. C1 \in SUBSET (C \ {r})
        BY <3>2, <4>3, <4>4
      <4>8. C \in SUBSET Requests
        BY <4>3 DEF Issuing
      <4>9. IsFiniteSet(S) /\ IsFiniteSet(C)
        BY <3>1, <4>1, <4>8, Requesters DEF Invited
      <4>10. /\ IsFiniteSet(S1) /\ Cardinality(S1) \in Nat /\ Cardinality(C1) \in Nat
             /\ Cardinality(S) \in Nat /\ Cardinality(C) \in Nat
             /\ Cardinality(S1) + Cardinality(C1) <= Cardinality(S) + Cardinality(C)
        BY <4>5, <4>6, <4>7, <4>9, Swapped
      <4>11. PendingLimit # None =>
               Cardinality(S) + Cardinality(C) <= PendingLimit + Cardinality(Requests) - 1
        BY <3>1, <4>1, <4>3 DEF Invited
      <4>12. PendingLimit # None =>
               Cardinality(S1) + Cardinality(C1) <= PendingLimit + Cardinality(Requests) - 1
        BY <4>10, <4>11, Requesters
      <4> QED  BY <4>2, <4>4, <4>10, <4>12 DEF Invited
    <3> QED  BY <3>3, <3>4
  <2> QED  BY <2>10, <2>11, <2>12, <2>13, <2>14, <2>15, <2>16, <2>17, <2>18, RowKeeps
<1>7. CASE Gone(q.org)
  BY <1>2, <1>5, <1>7 DEF Issue
<1> QED  BY <1>6, <1>7

-----------------------------------------------------------------------------
(* The whole specification.                                                 *)

LEMMA TickKeeps ==
  ASSUME OrganizationsInv, UNCHANGED <<orgs, members, invitations, active, reqs, drawn, joined, calls>>,
         now' \in 0..MaxTime
  PROVE  OrganizationsInv'
<1>1. TypeOK' /\ MemberOnce' /\ ActiveJoined'
  BY DEF OrganizationsInv, Consistent, TypeOK, MemberOnce, Once, ActiveJoined, Rows
<1>2. RowsKept' /\ Founded'
  BY DEF OrganizationsInv, RowsKept, Founded, Rows, At
<1>3. \A r \in Requests : Routed(reqs[r])' /\ Entitled(reqs[r])' /\ Targets(reqs[r])'
  BY DEF OrganizationsInv, Routed, Entitled, Targets, Admitted, Known
<1>4. \A r \in Requests : Answers(reqs[r])'
  BY DEF OrganizationsInv, Answers, Accepting, Known, Late, PendingFor, Rows
<1>5. \A o \in Orgs : Seated(o)' /\ Invited(o)'
  BY DEF OrganizationsInv, Seated, Invited, MembersOf, PendingFor, Joining, Issuing, Rows, At
<1> QED  BY <1>1, <1>2, <1>3, <1>4, <1>5 DEF OrganizationsInv, Consistent

LEMMA InvInit == Init => OrganizationsInv
<1> SUFFICES ASSUME Init PROVE OrganizationsInv
  OBVIOUS
<1>1. PICK s \in Starts :
        /\ orgs = s.orgs /\ members = s.members /\ invitations = s.invitations
        /\ calls = s.calls
        /\ drawn = Rows(s.orgs) \cup Rows(s.members) \cup Rows(s.invitations)
        /\ joined = {<<s.members[m].user, s.members[m].org>> : m \in Rows(s.members)}
  BY DEF Init
<1>2. /\ calls \subseteq Users \X Calls /\ orgs \in [Orgs -> Slugs \cup {None}]
      /\ members \in [Members -> Member \cup {None}]
      /\ invitations \in [Invitations -> Invitation \cup {None}]
  BY <1>1, StartsAssumption DEF Start
<1>3. drawn = Rows(orgs) \cup Rows(members) \cup Rows(invitations)
  BY <1>1
<1>4. joined = {<<members[m].user, members[m].org>> : m \in Rows(members)}
  BY <1>1
<1>5. /\ \A o \in Rows(orgs) : o \in Orgs
      /\ \A m \in Rows(members) : m \in Members /\ members[m] \in Member
      /\ \A i \in Rows(invitations) : i \in Invitations
  BY <1>2 DEF Rows
<1>6. now = 0 /\ active = [u \in Users |-> None] /\ reqs = [r \in Requests |-> Blank]
  BY DEF Init
<1>7. TypeOK
  <2>1. joined \subseteq Users \X Orgs
    BY <1>4, <1>5 DEF Member
  <2>2. reqs \in [Requests -> Request]
    BY <1>6, BlankFacts
  <2>3. drawn \subseteq Orgs \cup Members \cup Invitations
    BY <1>3, <1>5
  <2> QED  BY <1>2, <1>3, <1>6, <2>1, <2>2, <2>3 DEF TypeOK
<1>8. MemberOnce
  BY <1>1, StartsAssumption DEF MemberOnce
<1>9. ActiveJoined
  BY <1>6 DEF ActiveJoined
<1>10. RowsKept
  <2>1. /\ \A m \in Rows(members) : members[m].org \in Rows(orgs)
        /\ \A i \in Rows(invitations) : invitations[i].org \in Rows(orgs)
    BY <1>1, StartsAssumption
  <2> QED  BY <1>3, <1>4, <2>1 DEF RowsKept
<1>11. \A r \in Requests : reqs[r] = Blank
  BY <1>6
<1>12. \A r \in Requests : Sound(reqs[r])
  BY <1>11, BlankFacts, ClosedSound
<1>13. Founded
  BY <1>11, BlankFacts DEF Founded, At
<1>14. \A o \in Orgs : Joining(o) = {} /\ Issuing(o) = {}
  BY <1>11, BlankFacts DEF Joining, Issuing
<1>15. ASSUME NEW o \in Orgs
       PROVE  Seated(o) /\ Invited(o)
  <2>1. PICK S : S = MembersOf(o)
    OBVIOUS
  <2>2. PICK L : L = PendingFor(o)
    OBVIOUS
  <2>3. S = {m \in Rows(s.members) : s.members[m].org = o}
    BY <1>1, <2>1 DEF MembersOf
  <2>4. L = {i \in Rows(s.invitations) :
               s.invitations[i].org = o /\ s.invitations[i].status = "pending"}
    BY <1>1, <2>2 DEF PendingFor
  <2>5. /\ IsFiniteSet(S) /\ IsFiniteSet(L)
        /\ MemberLimit # None =>
             \/ Cardinality(S) <= MemberLimit + (Cardinality(Requests) - 1)
             \/ Cardinality(S) <= 1
        /\ PendingLimit # None => Cardinality(L) <= PendingLimit + (Cardinality(Requests) - 1)
    BY <2>3, <2>4, StartsAssumption, SMTT(60)
  <2>6. Cardinality(S) \in Nat /\ Cardinality(L) \in Nat
    BY <2>5, FS_CardinalityType
  <2>7. PICK C : C = Joining(o)
    OBVIOUS
  <2>8. PICK D : D = Issuing(o)
    OBVIOUS
  <2>9. Cardinality(C) = 0 /\ Cardinality(D) = 0
    BY <1>14, <2>7, <2>8, FS_EmptySet
  <2>10. /\ MemberLimit # None =>
              \/ Cardinality(S) + Cardinality(C) <= MemberLimit + Cardinality(Requests) - 1
              \/ Cardinality(S) + Cardinality(C) <= 1
         /\ PendingLimit # None =>
              Cardinality(L) + Cardinality(D) <= PendingLimit + Cardinality(Requests) - 1
    BY <2>5, <2>6, <2>9, Requesters
  <2>11. Seated(o)
    BY <2>1, <2>5, <2>7, <2>10 DEF Seated
  <2>12. Invited(o)
    BY <2>2, <2>5, <2>8, <2>10 DEF Invited
  <2> QED  BY <2>11, <2>12
<1> QED  BY <1>7, <1>8, <1>9, <1>10, <1>12, <1>13, <1>15 DEF OrganizationsInv, Consistent, Sound

LEMMA InvStep == OrganizationsInv /\ [Next]_vars => OrganizationsInv'
<1> SUFFICES ASSUME OrganizationsInv, [Next]_vars PROVE OrganizationsInv'
  OBVIOUS
<1>1. now \in 0..MaxTime
  BY DEF OrganizationsInv, Consistent, TypeOK
<1>2. CASE UNCHANGED vars
  BY <1>1, <1>2, TickKeeps DEF vars
<1>3. CASE Tick
  <2>1. now' \in 0..MaxTime
    BY <1>1, <1>3 DEF Tick
  <2> QED  BY <1>3, <2>1, TickKeeps DEF Tick
<1>4. ASSUME NEW r \in Requests, Ask(r) \/ Fail(r)
      PROVE  OrganizationsInv'
  BY <1>4, AskKeeps, FailKeeps
<1>5. ASSUME NEW r \in Requests, Check(r)
      PROVE  OrganizationsInv'
  BY <1>5, CheckSelfKeeps, CheckTargetKeeps, CountOwnersKeeps, CheckOrgLimitKeeps,
     CheckSlugKeeps, CheckInvitationKeeps, CheckRoomKeeps, CheckPendingKeeps,
     CheckAlreadyKeeps, CheckExistingKeeps DEF Check
<1>6. ASSUME NEW r \in Requests, Write(r)
      PROVE  OrganizationsInv'
  BY <1>6, InsertOrgKeeps, RenameKeeps, DissolveKeeps, JoinKeeps, ExpelKeeps,
     SetRoleKeeps, IssueKeeps, SettleKeeps, ActivateKeeps DEF Write
<1> QED  BY <1>2, <1>3, <1>4, <1>5, <1>6 DEF Next

\* The inductive invariant: what a request read is still true of the rows it
\* acts on, or they are gone, and whoever found room counts as a row.
THEOREM OrganizationsHolds == Spec => []OrganizationsInv
BY InvInit, InvStep, PTL DEF Spec

\* A user is in an organization once, a slug names one organization, and a
\* session's active organization is one its user has been in
\* (accept_invitation_core, create_organization_core, set_active_core).
THEOREM TablesAgree == Spec => []Consistent
<1>1. OrganizationsInv => Consistent
  BY DEF OrganizationsInv
<1> QED  BY <1>1, OrganizationsHolds, PTL

\* An organization has at most n - 1 members, and n - 1 pending invitations,
\* more than its limits when n requests cross (accept_invitation_core,
\* invite_member_core): each limit is read before it is used up.
THEOREM LimitsKept == Spec => []LimitsHold
<1>1. OrganizationsInv => LimitsHold
  <2> SUFFICES ASSUME OrganizationsInv, NEW o \in Orgs
               PROVE  LET more == Cardinality(Requests) - 1 IN
                      /\ MemberLimit # None =>
                           \/ Cardinality(MembersOf(o)) <= MemberLimit + more
                           \/ Cardinality(MembersOf(o)) <= 1
                      /\ PendingLimit # None =>
                           Cardinality(PendingFor(o)) <= PendingLimit + more
    BY DEF LimitsHold
  <2>1. Seated(o) /\ Invited(o)
    BY DEF OrganizationsInv
  <2>2. Joining(o) \in SUBSET Requests /\ Issuing(o) \in SUBSET Requests
    BY DEF Joining, Issuing
  <2>3. Cardinality(Joining(o)) \in Nat /\ Cardinality(Issuing(o)) \in Nat
    BY <2>2, Requesters
  <2>4. Cardinality(MembersOf(o)) \in Nat /\ Cardinality(PendingFor(o)) \in Nat
    BY <2>1, FS_CardinalityType DEF Seated, Invited
  <2> QED  BY <2>1, <2>3, <2>4, Requesters DEF Seated, Invited
<1> QED  BY <1>1, OrganizationsHolds, PTL

-----------------------------------------------------------------------------
(* Who changes the members.                                                 *)

LEMMA MembersChange ==
  ASSUME Next, members' # members
  PROVE  \E r \in Requests : Join(r) \/ Dissolve(r) \/ Expel(r) \/ SetRole(r)
BY ZenonT(120) DEF Next, Tick, Ask, Fail, Check, Write, Reads, CheckSelf, CheckTarget, CountOwners,
       CheckOrgLimit, CheckSlug, CheckInvitation, CheckRoom, CheckPending, CheckAlready,
       CheckExisting, InsertOrg, Rename, Issue, Settle, Activate

LEMMA Steps ==
  ASSUME OrganizationsInv, NEW r \in Requests, NEW res \in {"ok", "refused", "error"},
         Become(r, Close(reqs[r], res)), reqs[r].pc # "closed"
  PROVE  reqs[r] # reqs'[r]
<1>1. PICK t : t = Close(reqs[r], res)
  OBVIOUS
<1>2. t \in Request /\ t.pc = "closed"
  BY <1>1, TaskFacts, CloseFacts
<1>3. Moves(r, t)
  BY <1>1, <1>2, TaskFacts, BecomeFacts
<1> QED  BY <1>2, <1>3 DEF Moves

LEMMA JoinByRight ==
  ASSUME OrganizationsInv, NEW r \in Requests, Join(r), NEW m \in Members,
         members'[m] # members[m]
  PROVE  members[m] = None /\ Welcome(members'[m])
<1>1. PICK q : q = reqs[r]
  OBVIOUS
<1>2. /\ TypeOK /\ q \in Request /\ Sound(q) /\ q.pc = "join"
      /\ q.op \in {"create", "accept"}
  BY <1>1, TaskFacts, StopsFacts DEF Join, At, Sound, Routed, Request, Calls, Managing
<1>3. Joinable(q)
  BY <1>1 DEF Join
<1>4. PICK n : n = Fresh(Members)
  OBVIOUS
<1>5. PICK row : row = [org |-> q.org, user |-> q.user, role |-> q.role]
  OBVIOUS
<1>6. /\ Members \ drawn # {} /\ members' = [members EXCEPT ![n] = row]
      /\ Become(r, IF q.op = "create" THEN Close(q, "ok") ELSE Go(q, "settle"))
  BY <1>1, <1>3, <1>4, <1>5 DEF Join
<1>7. n \in Members /\ n \notin drawn
  BY <1>4, <1>6, FreshFacts
<1>8. m = n /\ members'[m] = row
  BY <1>2, <1>6, <1>7 DEF TypeOK
<1>9. members[m] = None
  BY <1>2, <1>7, <1>8 DEF TypeOK, Rows
<1>10. q # reqs'[r]
  <2>1. CASE q.op = "create"
    BY <1>1, <1>2, <1>6, <2>1, Steps
  <2>2. CASE q.op = "accept"
    <3>1. PICK t : t = Go(q, "settle")
      OBVIOUS
    <3>2. t \in Request /\ t.pc = "settle"
      BY <1>2, <3>1, PcsFacts, GoFacts
    <3>3. Moves(r, t)
      BY <1>2, <1>6, <2>2, <3>1, <3>2, BecomeFacts
    <3> QED  BY <1>2, <3>2, <3>3 DEF Moves
  <2> QED  BY <1>2, <2>1, <2>2
<1>11. /\ row.org = q.org /\ row.user = q.user /\ row.role = q.role
  BY <1>5
<1>12. \/ q.op = "create" /\ MembersOf(row.org) = {}
       \/ /\ q.op = "accept" /\ ~q.late
          /\ LET i == invitations[q.target] IN
               IF i = None THEN ~ForeignKeys /\ orgs[row.org] = None
               ELSE <<i.org, i.user, i.role>> = <<row.org, row.user, row.role>>
  <2>1. CASE q.op = "create"
    BY <1>1, <1>2, <1>11, <2>1 DEF OrganizationsInv, Founded, At, MembersOf
  <2>2. CASE q.op = "accept"
    BY <1>2, <1>3, <1>11, <2>2 DEF Sound, Answers, Accepting, Joinable, Gone
  <2> QED  BY <1>2, <2>1, <2>2
<1>13. Welcome(row)
  BY <1>1, <1>2, <1>10, <1>11, <1>12 DEF Welcome, At
<1> QED  BY <1>8, <1>9, <1>13

LEMMA DissolveByRight ==
  ASSUME OrganizationsInv, NEW r \in Requests, Dissolve(r), NEW m \in Members,
         members'[m] # members[m]
  PROVE  members[m] # None /\ members'[m] = None /\ Allowed(members[m])
<1>1. PICK q : q = reqs[r]
  OBVIOUS
<1>2. TypeOK /\ Sound(q) /\ q.pc = "dissolve" /\ q.op = "deleteOrg"
  BY <1>1, TaskFacts, StopsFacts DEF Dissolve, At, Sound, Routed, Request, Calls, Managing
<1>3. q.org # None
  BY <1>2 DEF Sound, Routed
<1>4. Permits(q.mine, "deleteOrg") /\ <<q.user, q.org>> \in joined
  BY <1>2, <1>3 DEF Sound, Entitled, Admitted
<1>5. members' = [n \in Members |-> IF n \in MembersOf(q.org) THEN None ELSE members[n]]
  BY <1>1 DEF Dissolve
<1>6. m \in MembersOf(q.org) /\ members'[m] = None
  BY <1>5
<1>7. members[m] # None /\ members[m].org = q.org
  BY <1>6 DEF MembersOf, Rows
<1>8. q # reqs'[r]
  BY <1>1, <1>2, Steps DEF Dissolve
<1> QED  BY <1>1, <1>2, <1>4, <1>6, <1>7, <1>8 DEF Allowed

LEMMA ExpelByRight ==
  ASSUME OrganizationsInv, NEW r \in Requests, Expel(r), NEW m \in Members,
         members'[m] # members[m]
  PROVE  members[m] # None /\ members'[m] = None /\ Allowed(members[m])
<1>1. PICK q : q = reqs[r]
  OBVIOUS
<1>2. TypeOK /\ q \in Request /\ Sound(q) /\ q.pc = "expel" /\ q.op \in {"leave", "remove"}
  BY <1>1, TaskFacts, StopsFacts DEF Expel, At, Sound, Routed, Request, Calls, Managing
<1>3. q.org # None
  BY <1>2 DEF Sound, Routed
<1>4. <<q.user, q.org>> \in joined
  BY <1>2, <1>3 DEF Sound, Entitled, Admitted
<1>5. members' = [members EXCEPT ![q.target] = None]
  BY <1>1 DEF Expel
<1>6. m = q.target /\ members'[m] = None /\ members[m] # None
  BY <1>2, <1>5 DEF TypeOK
<1>7. /\ members[m].org = q.org
      /\ \/ members[m].user = q.user
         \/ q.op = "remove" /\ Permits(q.mine, "remove")
  BY <1>2, <1>6 DEF Sound, Targets
<1>8. q # reqs'[r]
  <2>1. CASE Become(r, Close(q, "ok"))
    BY <1>1, <1>2, <2>1, Steps
  <2>2. CASE Become(r, [q EXCEPT !.pc = "activate", !.org = None])
    <3>1. reqs'[r].pc = "activate"
      BY <1>2, <2>2 DEF Become, TypeOK, Request
    <3> QED  BY <1>2, <3>1
  <2> QED  BY <1>1, <2>1, <2>2 DEF Expel
<1> QED  BY <1>1, <1>2, <1>4, <1>6, <1>7, <1>8 DEF Allowed

LEMMA SetRoleByRight ==
  ASSUME OrganizationsInv, NEW r \in Requests, SetRole(r), NEW m \in Members,
         members'[m] # members[m]
  PROVE  members[m] # None /\ Allowed(members[m])
<1>1. PICK q : q = reqs[r]
  OBVIOUS
<1>2. TypeOK /\ q \in Request /\ Sound(q) /\ q.pc = "setRole" /\ q.op = "setRole"
  BY <1>1, TaskFacts, StopsFacts DEF SetRole, At, Sound, Routed, Request, Calls, Managing
<1>3. q.org # None
  BY <1>2 DEF Sound, Routed
<1>4. <<q.user, q.org>> \in joined /\ Permits(q.mine, "setRole")
  BY <1>2, <1>3 DEF Sound, Entitled, Admitted
<1>5. members[q.target] # None /\ members' = [members EXCEPT ![q.target].role = q.role]
  BY <1>1 DEF SetRole
<1>6. m = q.target
  BY <1>2, <1>5 DEF TypeOK
<1>7. members[m].org = q.org
  BY <1>2, <1>5, <1>6 DEF Sound, Targets
<1>8. q # reqs'[r]
  BY <1>1, <1>2, Steps DEF SetRole
<1> QED  BY <1>1, <1>2, <1>4, <1>5, <1>6, <1>7, <1>8 DEF Allowed

\* Members come by creating an organization, or by an invitation of their own
\* that was pending when they accepted it; rows go, or change, on behalf of
\* their user or of someone whose role permits it (accept_invitation_core,
\* remove_member_core, update_member_role_core, delete_organization_core).
THEOREM SeatsKept == Spec => SeatsByRight
<1>1. OrganizationsInv /\ [Next]_vars =>
        [\A m \in Members :
           /\ members[m] = None /\ members'[m] # None => Welcome(members'[m])
           /\ members[m] # None /\ members'[m] # members[m] => Allowed(members[m])]_vars
  <2> SUFFICES ASSUME OrganizationsInv, Next, NEW m \in Members, members'[m] # members[m]
               PROVE  /\ members[m] = None => Welcome(members'[m])
                      /\ members[m] # None => Allowed(members[m])
    OBVIOUS
  <2>1. PICK r \in Requests : Join(r) \/ Dissolve(r) \/ Expel(r) \/ SetRole(r)
    BY MembersChange
  <2> QED  BY <2>1, JoinByRight, DissolveByRight, ExpelByRight, SetRoleByRight
<1> QED  BY <1>1, OrganizationsHolds, PTL DEF Spec, SeatsByRight

=============================================================================
