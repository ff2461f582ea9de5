--------------------------- MODULE MCMembership ----------------------------
(* Instances of Membership.tla for TLC. *)
EXTENDS Membership, TLC

Interchangeable ==
    Permutations(Requests) \cup Permutations(Registered) \cup Permutations(Orgs)
=============================================================================
