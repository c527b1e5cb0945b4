------------------------------- MODULE Deals -------------------------------
(***************************************************************************)
(* DealsService: create, update, updateStage and softDelete.  Each call    *)
(* reads the deal and the customer, and then writes by id.  The event of   *)
(* updateStage tells the stage and the customer that were read.            *)
(***************************************************************************)
EXTENDS EventEngine

VARIABLES
    deal,     \* deal[d]: the columns of deal d
    dropped   \* history: a change of d's stage was not announced

dealVars == <<deal, dropped>>

Deal == [exists : BOOLEAN, live : BOOLEAN, stage : Stages,
         customer : CustomerIds]

DealTypeOK ==
    /\ deal \in [DealIds -> Deal]
    /\ dropped \in [DealIds -> BOOLEAN]

\* The customer of a deal that does not exist means nothing.
NoDeals == [exists : {FALSE}, live : {FALSE}, stage : {"new"},
            customer : CustomerIds]

DealInit ==
    /\ deal \in [DealIds -> NoDeals]
    /\ dropped = [d \in DealIds |-> FALSE]

DealCall(op, d, c, from, to) ==
    [op |-> op, customer |-> c, deal |-> d, email |-> NoEmail,
     from |-> from, to |-> to]

\* The calls under way on deal d.
On(d) == {p \in Procs : pc[p] # "idle" /\ call[p].deal = d}

\* ensureCustomer
CallCreateDeal(p, d, c) ==
    /\ ~deal[d].exists
    /\ On(d) = {}
    /\ customer[c].live
    /\ Enter(p, DealCall("createDeal", d, c, "new", "new"))
    /\ UNCHANGED <<customer, dealVars>>

\* update with a customerId; the other columns are left out.
CallMoveDeal(p, d, c) ==
    /\ deal[d].live
    /\ customer[c].live
    /\ Enter(p, DealCall("moveDeal", d, c, "new", "new"))
    /\ UNCHANGED <<customer, dealVars>>

\* Mutant: updateStage does not return early.
CallStageAnyway(p, d, to) ==
    /\ deal[d].live
    /\ Enter(p, DealCall("stage", d, deal[d].customer, deal[d].stage, to))
    /\ UNCHANGED <<customer, dealVars>>

\* A call for the stage the deal has already returns at once.
CallStage(p, d, to) ==
    /\ deal[d].live
    /\ deal[d].stage # to
    /\ Enter(p, DealCall("stage", d, deal[d].customer, deal[d].stage, to))
    /\ UNCHANGED <<customer, dealVars>>

CallDeleteDeal(p, d) ==
    /\ deal[d].live
    /\ Enter(p, DealCall("deleteDeal", d, deal[d].customer, "new", "new"))
    /\ UNCHANGED <<customer, dealVars>>

OwnDeal(p) == deal[call[p].deal]

\* By id: the row may have changed since it was read.
WritesDeal(p, op, columns) ==
    /\ At(p, "write", op)
    /\ deal' = [deal EXCEPT ![call[p].deal] = columns]
    /\ UNCHANGED <<customer, dropped>>

InsertsDeal(p) ==
    /\ WritesDeal(p, "createDeal",
           [exists |-> TRUE, live |-> TRUE, stage |-> "new",
            customer |-> call[p].customer])
    /\ Returns(p)
    /\ UNCHANGED engineVars

MovesDeal(p) ==
    /\ WritesDeal(p, "moveDeal",
           [OwnDeal(p) EXCEPT !.customer = call[p].customer])
    /\ Returns(p)
    /\ UNCHANGED engineVars

WritesStage(p) ==
    /\ WritesDeal(p, "stage", [OwnDeal(p) EXCEPT !.stage = call[p].to])
    /\ GoesToPublish(p)

DeletesDeal(p) ==
    /\ WritesDeal(p, "deleteDeal", [OwnDeal(p) EXCEPT !.live = FALSE])
    /\ Returns(p)
    /\ UNCHANGED engineVars

PublishesStage(p) ==
    /\ At(p, "publish", "stage")
    /\ Publishes(p, [key |-> "deal_stage_changed",
                     customer |-> call[p].customer, deal |-> call[p].deal,
                     from |-> call[p].from, to |-> call[p].to])
    /\ UNCHANGED dealVars

DealCalls(p) ==
    \E d \in DealIds :
        \/ \E c \in CustomerIds : CallCreateDeal(p, d, c) \/ CallMoveDeal(p, d, c)
        \/ \E to \in Stages : CallStage(p, d, to)
        \/ CallDeleteDeal(p, d)

DealStep(p) ==
    \/ DealCalls(p)
    \/ InsertsDeal(p) \/ MovesDeal(p) \/ WritesStage(p) \/ DeletesDeal(p)
    \/ PublishesStage(p)

\* A call that fails between its write and its event leaves the change
\* unannounced, and a second call finds the new stage and does nothing.
DealFails(p) ==
    /\ Fails(p)
    /\ dropped' = [d \in DealIds |->
                     dropped[d] \/ (At(p, "publish", "stage") /\ call[p].deal = d)]
    /\ UNCHANGED deal

----------------------------------------------------------------------------
(* Properties *)

\* The first i events lead deal d to this stage: the last of its own ends
\* there, or there is none and a deal starts as new.
LeadTo(events, d, i, stage) ==
    \/ stage = "new" /\ \A j \in 1 .. i : events[j].deal # d
    \/ \E j \in 1 .. i : /\ events[j].deal = d /\ events[j].to = stage
                        /\ \A h \in j + 1 .. i : events[h].deal # d

\* Each event of d tells a real change, from where those before it lead, and
\* all of them lead to this stage.
Replay(events, d, stage) ==
    /\ \A i \in 1 .. Len(events) : events[i].deal = d =>
          /\ events[i].from # events[i].to
          /\ LeadTo(events, d, i - 1, events[i].from)
    /\ LeadTo(events, d, Len(events), stage)

\* Where no two calls change the stage of a deal at once and none was cut off
\* before its event, the events of a deal replay its history.
EventsReplay ==
    \A d \in DealIds : ~dropped[d] /\ On(d) = {} =>
        Replay(log, d, deal[d].stage)
=============================================================================
