------------------------ MODULE MCOrganizationCache ------------------------
(* The instance of OrganizationCache.tla for TLC. *)
EXTENDS OrganizationCache
=============================================================================
