----------------------------- MODULE MCContacts -----------------------------
(* Contacts on small instances.                                            *)
EXTENDS Contacts, TLC

CONSTANTS p1, p2
=============================================================================
