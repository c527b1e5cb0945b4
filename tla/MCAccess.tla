------------------------------ MODULE MCAccess ------------------------------
(* Access on small instances. *)
EXTENDS Access, TLC

CONSTANTS a, b, adminOfA, adminOfB

\* An administrator's role in each company.
MCRoleCompany == (adminOfA :> a) @@ (adminOfB :> b)
MCGrants == [r \in Roles |-> Permissions]

Symmetry == Permutations(Procs)
=============================================================================
