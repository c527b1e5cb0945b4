------------------------------- MODULE MCCrm -------------------------------
(* Crm on small instances.                                                 *)
EXTENDS Crm, TLC

CONSTANTS p1, p2

\* Both calls may be about customers and deals, one of them about stages.
MCServes ==
    (p1 :> {"createCustomer", "createDeal", "stage", "deleteDeal"}) @@
    (p2 :> {"createCustomer", "updateCustomer", "deleteCustomer", "moveDeal"})

\* A rule for new customers, and two for deals that are won.
MCMatches(r, e) ==
    IF e.key = "customer_created" THEN r = 1 ELSE r \in {2, 3} /\ e.to = "won"

Symmetry == Permutations(CustomerIds)
=============================================================================
