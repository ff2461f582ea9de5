-------------------------- MODULE MembershipRules --------------------------
(***************************************************************************)
(* What membership management promises: the organizations and the           *)
(* memberships table change by whole creations, grants, role changes and     *)
(* revocations, each decided on the table it changes.  Membership.tla is the *)
(* program, which decides on what it read some awaits earlier.               *)
(***************************************************************************)
EXTENDS Roles

CONSTANTS Ids,      \* ids a membership row may have
          Orgs,     \* slugs an organization may have
          Users     \* users

VARIABLES orgs,     \* the organizations that exist
          members   \* the rows of the memberships table

Rows == [id : Ids, org : Orgs, user : Users, role : Roles]

HasOwner(rows, o) == \E m \in rows : m.org = o /\ m.role = "owner"

(* a may manage the organization, up to its own rank. *)
MayManage(a, o, role) ==
    a.org = o /\ CanManageMembers(a.role) /\ OutranksOrEquals(a.role, role)

-----------------------------------------------------------------------------
IsNew(row) == ~ \E m \in members : m.id = row.id \/ (m.org = row.org /\ m.user = row.user)

(* Anybody founds an organization, under a slug nobody has, and owns it. *)
Found(new) ==
    /\ new.org \notin orgs /\ new.role = "owner"
    /\ IsNew(new)
    /\ orgs' = orgs \cup {new.org}
    /\ members' = members \cup {new}

Grant(a, new) ==
    /\ MayManage(a, new.org, new.role)
    /\ IsNew(new)
    /\ members' = members \cup {new}
    /\ UNCHANGED orgs

ChangeRole(a, t, role) ==
    /\ MayManage(a, t.org, t.role) /\ MayManage(a, t.org, role)
    /\ t.role = "owner" => HasOwner(members \ {t}, t.org)
    /\ members' = (members \ {t}) \cup {[t EXCEPT !.role = role]}
    /\ UNCHANGED orgs

Revoke(a, t) ==
    /\ MayManage(a, t.org, t.role)
    /\ t.role = "owner" => HasOwner(members \ {t}, t.org)
    /\ members' = members \ {t}
    /\ UNCHANGED orgs

-----------------------------------------------------------------------------
OneMembershipPerUser ==
    \A m, n \in members : m.org = n.org /\ m.user = n.user => m = n

AlwaysAnOwner == \A o \in orgs : HasOwner(members, o)

Init == orgs \subseteq Orgs /\ members \subseteq Rows /\ OneMembershipPerUser /\ AlwaysAnOwner

By(a) ==
    \/ \E new \in Rows : Grant(a, new)
    \/ \E t \in members, role \in Roles : ChangeRole(a, t, role)
    \/ \E t \in members : Revoke(a, t)

Next == (\E new \in Rows : Found(new)) \/ \E a \in members : By(a)

Spec == Init /\ [][Next]_<<orgs, members>>
=============================================================================
