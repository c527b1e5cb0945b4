------------------------------- MODULE Outbox -------------------------------
(***************************************************************************)
(* What the communications component promises about one message: it is     *)
(* handed to a delivery provider only while its outcome is still open, it  *)
(* is recorded as accepted only after the provider took a copy of it, and  *)
(* an outcome once recorded is never revised.  Delivery is at least once:  *)
(* several copies may be handed over before the outcome is recorded.       *)
(*                                                                         *)
(* MessageDelivery implements this module when no two executions of the    *)
(* retry job overlap.                                                      *)
(***************************************************************************)
EXTENDS Naturals

CONSTANT Messages

VARIABLES outcome,   \* outcome[m]: what the system says about m
          copies     \* copies[m]: how many copies the provider took

outboxVars == <<outcome, copies>>

Outcomes == {"none", "open", "accepted", "abandoned"}

OutboxTypeOK ==
    /\ outcome \in [Messages -> Outcomes]
    /\ copies \in [Messages -> Nat]

OutboxInit ==
    /\ outcome = [m \in Messages |-> "none"]
    /\ copies = [m \in Messages |-> 0]

\* A client asks for m to be sent.
Submit(m) ==
    /\ outcome[m] = "none"
    /\ outcome' = [outcome EXCEPT ![m] = "open"]
    /\ UNCHANGED copies

\* The provider takes a copy of m.
HandOver(m) ==
    /\ outcome[m] = "open"
    /\ copies' = [copies EXCEPT ![m] = @ + 1]
    /\ UNCHANGED outcome

\* m is recorded as sent: only if a copy was taken.
Accept(m) ==
    /\ outcome[m] = "open"
    /\ copies[m] > 0
    /\ outcome' = [outcome EXCEPT ![m] = "accepted"]
    /\ UNCHANGED copies

\* The retries of m are used up.
Abandon(m) ==
    /\ outcome[m] = "open"
    /\ outcome' = [outcome EXCEPT ![m] = "abandoned"]
    /\ UNCHANGED copies

OutboxNext ==
    \E m \in Messages : Submit(m) \/ HandOver(m) \/ Accept(m) \/ Abandon(m)

OutboxSpec == OutboxInit /\ [][OutboxNext]_outboxVars
=============================================================================
