----------------------------- MODULE Customers -----------------------------
(***************************************************************************)
(* CustomersService: create, update and softDelete.  The check for the     *)
(* e-mail address and the write it is about are statements of their own,   *)
(* without a transaction, and the schema has no unique key on the column.  *)
(* A call whose checks fail ends with 400 or 404 and changes nothing; the  *)
(* reads of a call's checks are one step.                                  *)
(***************************************************************************)
EXTENDS EventEngine

VARIABLE raced  \* history: addresses two calls were giving at the same time

CustomerInit == raced = {}

LiveWith(e) == {c \in CustomerIds : customer[c].live /\ customer[c].email = e}

CustomerCall(op, c, e) ==
    [op |-> op, customer |-> c, deal |-> NoDeal, email |-> e,
     from |-> "new", to |-> "new"]

\* The insert of c is under way.
Creating(c) ==
    \E p \in Procs :
        pc[p] # "idle" /\ call[p].op = "createCustomer" /\ call[p].customer = c

\* Mutant: the address is not checked.
EmailFreeAlways(e, c) == TRUE

\* exists, clash: no other customer that is not deleted has the address.
EmailFree(e, c) == e = NoEmail \/ LiveWith(e) \subseteq {c}

\* The calls under way that will give their customer the address.
Giving(e) ==
    {p \in Procs : /\ pc[p] = "write"
                   /\ call[p].op \in {"createCustomer", "updateCustomer"}
                   /\ call[p].email = e}

\* The call goes on to give c the address e.
EnterGiving(p, op, c, e) ==
    /\ EmailFree(e, c)
    /\ Enter(p, CustomerCall(op, c, e))
    /\ raced' = IF e # NoEmail /\ \E q \in Giving(e) : call[q].customer # c
                THEN raced \cup {e} ELSE raced
    /\ UNCHANGED customer

CallCreateCustomer(p, c, e) ==
    /\ ~customer[c].exists
    /\ ~Creating(c)
    /\ EnterGiving(p, "createCustomer", c, e)

\* An update that leaves email alone changes nothing that is modelled.
CallUpdateCustomer(p, c, e) ==
    /\ customer[c].live
    /\ EnterGiving(p, "updateCustomer", c, e)

CallDeleteCustomer(p, c) ==
    /\ customer[c].live
    /\ Enter(p, CustomerCall("deleteCustomer", c, NoEmail))
    /\ UNCHANGED <<customer, raced>>

WritesCustomer(p, op, columns) ==
    /\ At(p, "write", op)
    /\ customer' = [customer EXCEPT ![call[p].customer] = columns]
    /\ UNCHANGED raced

InsertsCustomer(p) ==
    /\ WritesCustomer(p, "createCustomer",
           [exists |-> TRUE, live |-> TRUE, email |-> call[p].email])
    /\ GoesToPublish(p)

\* By id: the row may have been deleted meanwhile.
UpdatesCustomer(p) ==
    /\ WritesCustomer(p, "updateCustomer",
           [customer[call[p].customer] EXCEPT !.email = call[p].email])
    /\ Returns(p)
    /\ UNCHANGED engineVars

DeletesCustomer(p) ==
    /\ WritesCustomer(p, "deleteCustomer",
           [customer[call[p].customer] EXCEPT !.live = FALSE])
    /\ Returns(p)
    /\ UNCHANGED engineVars

PublishesCreated(p) ==
    /\ At(p, "publish", "createCustomer")
    /\ Publishes(p, [key |-> "customer_created", customer |-> call[p].customer,
                     deal |-> NoDeal, from |-> "new", to |-> "new"])
    /\ UNCHANGED raced

CustomerCalls(p) ==
    \E c \in CustomerIds :
        \/ \E e \in Emails \cup {NoEmail} :
              CallCreateCustomer(p, c, e) \/ CallUpdateCustomer(p, c, e)
        \/ CallDeleteCustomer(p, c)

CustomerStep(p) ==
    \/ CustomerCalls(p)
    \/ InsertsCustomer(p) \/ UpdatesCustomer(p) \/ DeletesCustomer(p)
    \/ PublishesCreated(p)

----------------------------------------------------------------------------
(* Properties *)

\* Two customers that are not deleted share an address only if two calls
\* were giving it to them at the same time: calls that do not overlap keep
\* the addresses of a company's customers apart.
SharedOnlyByRace ==
    \A e \in Emails \ raced : \A c, d \in LiveWith(e) : c = d

\* Customers that have the address or are about to get it.
Claims(e) == LiveWith(e) \cup {call[p].customer : p \in Giving(e)}

OneClaim == \A e \in Emails \ raced : \A c, d \in Claims(e) : c = d
=============================================================================
