---------------------------- MODULE EventEngine ----------------------------
(***************************************************************************)
(* The event bus and the workflow engine as the services of customers and  *)
(* deals use them.  A call writes its row, publishes an event and, in the  *)
(* same request, awaits every rule of the event: the rules run one after   *)
(* the other, the first exception leaves the call, and the audit row comes *)
(* last.  Nothing of it is in a transaction: what was written stays.       *)
(*                                                                         *)
(* Customers and Deals extend this module with their operations, Crm puts  *)
(* them together.                                                          *)
(***************************************************************************)
EXTENDS Integers, Sequences, FiniteSets

CONSTANTS
    Procs,          \* calls that may be under way at the same time
    NoCall,         \* no call under way
    Serves,         \* Serves[p]: the operations p may be asked for
    CustomerIds,    \* the customers of a company
    DealIds,        \* its deals
    NoDeal,         \* the event or the call is not about a deal
    Emails,         \* e-mail addresses of customers
    NoEmail,        \* email is null
    Stages,         \* DealStage; a deal starts as "new"
    NRules,         \* enabled rules, 1 .. NRules by createdAt
    Matches(_, _),  \* rule r is about event e, its conditions hold
                    \* and its action sends a message
    WantsCustomer,  \* the rules whose recipient is customer.email
    MaxEvents       \* bound on the events ever published

Rules == 1 .. NRules

Ops == {"createCustomer", "updateCustomer", "deleteCustomer",
        "createDeal", "moveDeal", "stage", "deleteDeal"}

\* What a call has been asked for and has read.
Call == [op : Ops, customer : CustomerIds, deal : DealIds \cup {NoDeal},
         email : Emails \cup {NoEmail}, from : Stages, to : Stages]

Event == [key : {"customer_created", "deal_stage_changed"},
          customer : CustomerIds, deal : DealIds \cup {NoDeal},
          from : Stages, to : Stages]

ASSUME EngineAssumption ==
    /\ IsFiniteSet(Procs)
    /\ NoCall \notin Call
    /\ Serves \in [Procs -> SUBSET Ops]
    /\ NoDeal \notin DealIds
    /\ NoEmail \notin Emails
    /\ "new" \in Stages
    /\ NRules \in Nat
    /\ \A r \in Rules, e \in Event : Matches(r, e) \in BOOLEAN
    /\ WantsCustomer \subseteq Rules
    /\ MaxEvents \in Nat

VARIABLES
    customer,  \* customer[c]: the columns of customer c
    pc,        \* pc[p]: the statement call p is at
    call,      \* call[p]: the call p is at work on
    event,     \* event[p]: the event p has published, 0 if none
    pos,       \* pos[p]: the next rule the engine looks at
    log,       \* history: the events published, in order
    records,   \* history: CommunicationRecords made for <<event, rule>>
    audited    \* history: the audit row of the event's call is written

engineVars == <<event, pos, log, records, audited>>

----------------------------------------------------------------------------
Customer == [exists : BOOLEAN, live : BOOLEAN, email : Emails \cup {NoEmail}]

NoCustomer == [exists |-> FALSE, live |-> FALSE, email |-> NoEmail]

EngineTypeOK ==
    /\ customer \in [CustomerIds -> Customer]
    /\ pc \in [Procs -> {"idle", "write", "publish", "rules"}]
    /\ call \in [Procs -> Call \cup {NoCall}]
    /\ \A p \in Procs : pc[p] = "idle" <=> call[p] = NoCall
    /\ event \in [Procs -> 0 .. MaxEvents]
    /\ \A p \in Procs : pc[p] = "rules" <=> event[p] # 0
    /\ pos \in [Procs -> 1 .. NRules + 1]
    /\ log \in Seq(Event)
    /\ Len(log) <= MaxEvents
    /\ records \in [(1 .. MaxEvents) \X Rules -> Nat]
    /\ audited \in [1 .. MaxEvents -> BOOLEAN]

EngineInit ==
    /\ customer = [c \in CustomerIds |-> NoCustomer]
    /\ pc = [p \in Procs |-> "idle"]
    /\ call = [p \in Procs |-> NoCall]
    /\ event = [p \in Procs |-> 0]
    /\ pos = [p \in Procs |-> 1]
    /\ log = <<>>
    /\ records = [ir \in (1 .. MaxEvents) \X Rules |-> 0]
    /\ audited = [i \in 1 .. MaxEvents |-> FALSE]

At(p, where, op) == pc[p] = where /\ call[p].op = op

\* The call has made its checks.
Enter(p, c) ==
    /\ pc[p] = "idle"
    /\ c.op \in Serves[p]
    /\ call' = [call EXCEPT ![p] = c]
    /\ pc' = [pc EXCEPT ![p] = "write"]
    /\ UNCHANGED engineVars

\* Its write is made; there is an event to publish, or it returns.  (The
\* audit row of a call that publishes nothing is left out.)
GoesToPublish(p) ==
    /\ pc' = [pc EXCEPT ![p] = "publish"]
    /\ UNCHANGED <<call, engineVars>>

Returns(p) ==
    /\ pc' = [pc EXCEPT ![p] = "idle"]
    /\ call' = [call EXCEPT ![p] = NoCall]

Leave(p) ==
    /\ Returns(p)
    /\ event' = [event EXCEPT ![p] = 0]
    /\ pos' = [pos EXCEPT ![p] = 1]

----------------------------------------------------------------------------
(* EventBus.publish and WorkflowEngineService *)

\* The bus calls the engine, which reads the rules of the event.
Publishes(p, e) ==
    /\ Len(log) < MaxEvents
    /\ log' = Append(log, e)
    /\ event' = [event EXCEPT ![p] = Len(log) + 1]
    /\ pos' = [pos EXCEPT ![p] = 1]
    /\ pc' = [pc EXCEPT ![p] = "rules"]
    /\ UNCHANGED <<customer, call, records, audited>>

\* p is at rule pos[p] of its event.
AtRule(p) == pc[p] = "rules" /\ pos[p] <= NRules

OwnEvent(p) == log[event[p]]

RuleMatches(p) == Matches(pos[p], OwnEvent(p))

\* resolveTo reads the customer when the rule runs.
NoRecipient(p) ==
    /\ pos[p] \in WantsCustomer
    /\ LET c == customer[OwnEvent(p).customer]
       IN  ~c.live \/ c.email = NoEmail

Recorded(p) == records' = [records EXCEPT ![<<event[p], pos[p]>>] = @ + 1]

RuleSkipped(p) ==
    /\ AtRule(p)
    /\ ~RuleMatches(p)
    /\ pos' = [pos EXCEPT ![p] = @ + 1]
    /\ UNCHANGED <<customer, pc, call, event, log, records, audited>>

RuleSends(p) ==
    /\ AtRule(p)
    /\ RuleMatches(p)
    /\ ~NoRecipient(p)
    /\ Recorded(p)
    /\ pos' = [pos EXCEPT ![p] = @ + 1]
    /\ UNCHANGED <<customer, pc, call, event, log, audited>>

\* Mutant: the exception is caught and the engine goes on with the next rule.
RuleThrowsCaught(p) ==
    /\ AtRule(p)
    /\ RuleMatches(p)
    /\ IF NoRecipient(p) THEN UNCHANGED records ELSE Recorded(p)
    /\ pos' = [pos EXCEPT ![p] = @ + 1]
    /\ UNCHANGED <<customer, pc, call, event, log, audited>>

\* resolveTo throws before there is a record, or the provider refuses the
\* message after sendManual made one: the exception leaves the call.  (What
\* throws before there is a record although there is a recipient is in Fails.)
RuleThrows(p) ==
    /\ AtRule(p)
    /\ RuleMatches(p)
    /\ IF NoRecipient(p) THEN UNCHANGED records ELSE Recorded(p)
    /\ Leave(p)
    /\ UNCHANGED <<customer, log, audited>>

\* publish has returned; audit.log writes its row, or swallows the error.
Audits(p) ==
    /\ pc[p] = "rules"
    /\ pos[p] = NRules + 1
    /\ \/ audited' = [audited EXCEPT ![event[p]] = TRUE]
       \/ UNCHANGED audited
    /\ Leave(p)
    /\ UNCHANGED <<customer, log, records>>

\* A statement throws or the process stops, before the next write is made.
Fails(p) ==
    /\ pc[p] # "idle"
    /\ Leave(p)
    /\ UNCHANGED <<customer, log, records, audited>>

EngineStep(p) ==
    RuleSkipped(p) \/ RuleSends(p) \/ RuleThrows(p) \/ Audits(p)

----------------------------------------------------------------------------
(* Properties *)

\* However many calls overlap, a rule makes at most one record for an event
\* (there is no second try), a call whose audit row is written had all its
\* matching rules run, and a rule that failed stopped those after it.
AnnouncedOnce ==
    \A i \in 1 .. Len(log) : \A r \in Rules :
        /\ records[<<i, r>>] <= 1
        /\ audited[i] /\ Matches(r, log[i]) => records[<<i, r>>] = 1
        /\ \A q \in Rules :
              r < q /\ Matches(r, log[i]) => records[<<i, q>>] <= records[<<i, r>>]

\* Where the calls stand: each has its own event, which has a record for the
\* matching rules passed so far and for no other.
RulesInProgress ==
    /\ \A p, q \in Procs : event[p] = event[q] /\ event[p] # 0 => p = q
    /\ \A p \in Procs : event[p] # 0 =>
          /\ event[p] <= Len(log)
          /\ ~audited[event[p]]
          /\ \A r \in Rules :
                /\ r < pos[p] /\ Matches(r, OwnEvent(p))
                      => records[<<event[p], r>>] = 1
                /\ r >= pos[p] => records[<<event[p], r>>] = 0
    /\ \A i \in 1 .. MaxEvents : i > Len(log) =>
          ~audited[i] /\ \A r \in Rules : records[<<i, r>>] = 0
=============================================================================
