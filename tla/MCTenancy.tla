----------------------------- MODULE MCTenancy -----------------------------
(* TLC instance of Tenancy: a platform admin, the owner of an organization *)
(* and a guest; a second organization and two workflows can be created.    *)
EXTENDS Tenancy
=============================================================================
