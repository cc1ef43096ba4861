-------------------------- MODULE MCOrganizations --------------------------
(* TLC instances of Organizations: databases to start from, each one that a   *)
(* sequence of calls leads to, and the calls that clients then make.          *)
EXTENDS Organizations, TLC

CONSTANTS u1, u2, u3, u4, o1, o2, s1, s2, m1, m2, m3, m4, i1, i2, i3

Empty(table) == [x \in table |-> None]
Seat(o, u, role) == [org |-> o, user |-> u, role |-> role]
Letters(o, u, role) ==
  [org |-> o, user |-> u, role |-> role, status |-> "pending", expires |-> InviteTtl]

Nothing == [calls |-> {}, orgs |-> Empty(Orgs), members |-> Empty(Members),
            invitations |-> Empty(Invitations)]
\* u1 has an organization of their own.
One == [Nothing EXCEPT !.orgs[o1] = s1, !.members[m1] = Seat(o1, u1, "owner")]

Do(users, ops) == users \X ops
\* Users found, rename, activate, leave and dissolve organizations.
Founding == [Nothing EXCEPT
  !.calls = Do({u1, u2}, {"create"}) \cup Do({u1}, {"leave", "update", "setActive"})
              \cup Do({u1}, {"deleteOrg"})]
\* An owner, an administrator, and the owner of another organization.
Staffing == [One EXCEPT
  !.calls = Do({u1, u2, u3}, {"remove", "setRole"}) \cup Do({u2}, {"leave"}),
  !.orgs[o2] = s2, !.members[m2] = Seat(o1, u2, "admin"), !.members[m3] = Seat(o2, u3, "owner")]
\* An invitation was canceled before.
Inviting == [One EXCEPT
  !.calls = Do({u1}, {"invite", "cancel"}) \cup Do({u2}, {"accept", "reject"}),
  !.invitations[i1] = [Letters(o1, u2, "member") EXCEPT !.status = "canceled"]]
\* The invitations that fill an organization have been sent.
Filling == [One EXCEPT
  !.calls = Do({u2, u3, u4}, {"accept"}) \cup Do({u1}, {"remove", "deleteOrg"}),
  !.invitations[i1] = Letters(o1, u2, "member"), !.invitations[i2] = Letters(o1, u3, "admin"),
  !.invitations[i3] = Letters(o1, u4, "owner")]
\* Two owners.
Owning == [One EXCEPT !.calls = Do({u1, u2}, {"leave", "remove", "setRole"}),
                      !.members[m2] = Seat(o1, u2, "owner")]

AllStarts == {Founding, Staffing, Inviting, Filling}
TwoOwners == {Owning}
=============================================================================
