-------------------------------- MODULE Crm --------------------------------
(***************************************************************************)
(* Customers and deals together: the calls share the customers, the event  *)
(* bus and the rules.  A rule that runs for a deal reads the customer while *)
(* other calls change or delete it.                                        *)
(***************************************************************************)
EXTENDS Customers, Deals

vars == <<customer, pc, call, event, pos, log, records, audited, raced,
          deal, dropped>>

TypeOK == EngineTypeOK /\ DealTypeOK /\ raced \subseteq Emails

Init == EngineInit /\ CustomerInit /\ DealInit

Next ==
    \E p \in Procs :
        \/ CustomerStep(p) /\ UNCHANGED dealVars
        \/ DealStep(p) /\ UNCHANGED raced
        \/ EngineStep(p) /\ UNCHANGED <<raced, dealVars>>
        \/ DealFails(p) /\ UNCHANGED raced

Spec == Init /\ [][Next]_vars
=============================================================================
