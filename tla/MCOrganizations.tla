-------------------------- MODULE MCOrganizations --------------------------
(* One request at a time on organizations named by slugs: the rules of Membership.tla,
   and what its Orgs take for granted of Slug.tla.  A text is composed only before there
   is an organization or a request, and no request comes while there is a text: the
   two do not multiply. *)
EXTENDS MCMembership, Slug

Before == orgs = {} /\ \A r \in Requests : pc[r] = "idle"

NextWithTexts ==
    \/ text = <<>> /\ Next /\ UNCHANGED text
    \/ Before /\ (Compose \/ Discard) /\ UNCHANGED vars

SpecWithTexts == Init /\ text = <<>> /\ [][NextWithTexts]_<<vars, text>>
=============================================================================
