------------------------------- MODULE Roles -------------------------------
(***************************************************************************)
(* The roles a user may have in an organization, ordered by rank           *)
(* (src/core/entities/value-objects/MembershipRole.ts).  A role name the    *)
(* value object does not know is a string outside Roles.                    *)
(***************************************************************************)
EXTENDS Integers

Roles == {"owner", "admin", "member"}

Rank == [owner |-> 3, admin |-> 2, member |-> 1]

CanManageMembers(role) == Rank[role] >= Rank["admin"]

OutranksOrEquals(mine, other) == Rank[mine] >= Rank[other]
=============================================================================
