----------------------------- MODULE CrmProofs -----------------------------
(***************************************************************************)
(* Proofs about Crm, for any number of overlapping calls.                  *)
(***************************************************************************)
EXTENDS Crm, SequenceTheorems, TLAPS

USE EngineAssumption

----------------------------------------------------------------------------
(* Type correctness *)

LEMMA InitType == Init => TypeOK
  <1> SUFFICES ASSUME Init
               PROVE  TypeOK
    OBVIOUS
  <1>1. EngineTypeOK
    BY DEF Init, EngineInit, EngineTypeOK, Customer, NoCustomer, Rules
  <1>2. NoDeals \subseteq Deal
    BY DEF NoDeals, Deal
  <1>3. DealTypeOK
    BY <1>2 DEF Init, DealInit, DealTypeOK
  <1> QED  BY <1>1, <1>3 DEF Init, CustomerInit, TypeOK

\* A call enters with what it has been asked for.
LEMMA EnterType ==
  ASSUME EngineTypeOK, NEW p \in Procs, NEW c \in Call, Enter(p, c),
         UNCHANGED customer
  PROVE  EngineTypeOK'
  BY DEF EngineTypeOK, Enter, engineVars

LEMMA CallTypes ==
  ASSUME NEW c \in CustomerIds, NEW e \in Emails \cup {NoEmail},
         NEW d \in DealIds, NEW op \in Ops,
         NEW from \in Stages, NEW to \in Stages
  PROVE  /\ CustomerCall(op, c, e) \in Call
         /\ DealCall(op, d, c, from, to) \in Call
  BY DEF CustomerCall, DealCall, Call

\* A call under way is a call of a service.
LEMMA UnderWay ==
  ASSUME EngineTypeOK, NEW p \in Procs, pc[p] # "idle"
  PROVE  call[p] \in Call
  BY DEF EngineTypeOK

\* The write of a call, with what follows it.
LEMMA WroteType ==
  ASSUME EngineTypeOK, NEW p \in Procs, pc[p] = "write",
         customer' \in [CustomerIds -> Customer],
         GoesToPublish(p) \/ (Returns(p) /\ UNCHANGED engineVars)
  PROVE  EngineTypeOK'
  BY DEF EngineTypeOK, GoesToPublish, Returns, engineVars

LEMMA PublishType ==
  ASSUME EngineTypeOK, NEW p \in Procs, pc[p] = "publish", NEW e \in Event,
         Publishes(p, e)
  PROVE  EngineTypeOK'
  <1>1. log' \in Seq(Event) /\ Len(log') = Len(log) + 1
    BY DEF EngineTypeOK, Publishes
  <1>2. Len(log) + 1 \in 1 .. MaxEvents
    BY DEF EngineTypeOK, Publishes
  <1> QED  BY <1>1, <1>2 DEF EngineTypeOK, Publishes

\* A call ends, whatever became of its records and its audit row.
LEMMA LeaveType ==
  ASSUME EngineTypeOK, NEW p \in Procs, Leave(p), UNCHANGED <<customer, log>>,
         records' \in [(1 .. MaxEvents) \X Rules -> Nat],
         audited' \in [1 .. MaxEvents -> BOOLEAN]
  PROVE  EngineTypeOK'
  BY DEF EngineTypeOK, Leave, Returns

LEMMA RecordedType ==
  ASSUME EngineTypeOK, NEW p \in Procs, AtRule(p), Recorded(p)
  PROVE  records' \in [(1 .. MaxEvents) \X Rules -> Nat]
  BY DEF EngineTypeOK, AtRule, Recorded, Rules

LEMMA EngineStepType ==
  ASSUME EngineTypeOK, NEW p \in Procs, EngineStep(p)
  PROVE  EngineTypeOK'
  <1>1. CASE RuleSkipped(p)
    <2>1. pos[p] + 1 \in 1 .. NRules + 1
      BY <1>1 DEF RuleSkipped, AtRule, EngineTypeOK
    <2> QED  BY <1>1, <2>1 DEF RuleSkipped, EngineTypeOK
  <1>2. CASE RuleSends(p)
    <2>1. pos[p] + 1 \in 1 .. NRules + 1
      BY <1>2 DEF RuleSends, AtRule, EngineTypeOK
    <2>2. records' \in [(1 .. MaxEvents) \X Rules -> Nat]
      BY <1>2, RecordedType DEF RuleSends
    <2> QED  BY <1>2, <2>1, <2>2 DEF RuleSends, EngineTypeOK
  <1>3. CASE RuleThrows(p)
    <2>1. records' \in [(1 .. MaxEvents) \X Rules -> Nat]
      BY <1>3, RecordedType DEF RuleThrows, EngineTypeOK
    <2>2. audited' \in [1 .. MaxEvents -> BOOLEAN]
      BY <1>3 DEF RuleThrows, EngineTypeOK
    <2> QED  BY <1>3, <2>1, <2>2, LeaveType DEF RuleThrows
  <1>4. CASE Audits(p)
    <2>1. audited' \in [1 .. MaxEvents -> BOOLEAN]
      BY <1>4 DEF Audits, EngineTypeOK
    <2>2. records' \in [(1 .. MaxEvents) \X Rules -> Nat]
      BY <1>4 DEF Audits, EngineTypeOK
    <2> QED  BY <1>4, <2>1, <2>2, LeaveType DEF Audits
  <1> QED  BY <1>1, <1>2, <1>3, <1>4 DEF EngineStep

LEMMA FailsType ==
  ASSUME EngineTypeOK, NEW p \in Procs, Fails(p)
  PROVE  EngineTypeOK'
  BY LeaveType DEF Fails, EngineTypeOK

\* What the writes make of a row.
LEMMA CustomerColumns ==
  ASSUME NEW r \in Customer, NEW e \in Emails \cup {NoEmail}
  PROVE  /\ [r EXCEPT !.email = e] \in Customer
         /\ [r EXCEPT !.live = FALSE] \in Customer
  BY DEF Customer

LEMMA DealColumns ==
  ASSUME NEW r \in Deal, NEW c \in CustomerIds, NEW s \in Stages
  PROVE  /\ [r EXCEPT !.customer = c] \in Deal
         /\ [r EXCEPT !.stage = s] \in Deal
         /\ [r EXCEPT !.live = FALSE] \in Deal
  BY DEF Deal

LEMMA CustomerType ==
  ASSUME EngineTypeOK, raced \subseteq Emails, NEW p \in Procs, CustomerStep(p)
  PROVE  EngineTypeOK' /\ raced' \subseteq Emails
  <1>1. ASSUME NEW c \in CustomerIds, NEW e \in Emails \cup {NoEmail},
               CallCreateCustomer(p, c, e) \/ CallUpdateCustomer(p, c, e)
        PROVE  EngineTypeOK' /\ raced' \subseteq Emails
    <2>1. PICK op \in {"createCustomer", "updateCustomer"} :
             EnterGiving(p, op, c, e)
      BY <1>1 DEF CallCreateCustomer, CallUpdateCustomer
    <2>2. CustomerCall(op, c, e) \in Call
      BY DEF CustomerCall, Call, Ops
    <2>3. raced' \subseteq Emails
      BY <2>1 DEF EnterGiving
    <2> QED  BY <2>1, <2>2, <2>3, EnterType DEF EnterGiving
  <1>2. ASSUME NEW c \in CustomerIds, CallDeleteCustomer(p, c)
        PROVE  EngineTypeOK' /\ raced' \subseteq Emails
    <2>1. CustomerCall("deleteCustomer", c, NoEmail) \in Call
      BY DEF CustomerCall, Call, Ops
    <2> QED  BY <1>2, <2>1, EnterType DEF CallDeleteCustomer
  <1>3. ASSUME NEW op \in Ops, NEW columns \in Customer,
               WritesCustomer(p, op, columns)
        PROVE  /\ pc[p] = "write"
               /\ customer' \in [CustomerIds -> Customer]
               /\ raced' \subseteq Emails
    BY <1>3 DEF WritesCustomer, At, EngineTypeOK, Call
  <1>4. CASE InsertsCustomer(p)
    <2>1. call[p].email \in Emails \cup {NoEmail}
      BY <1>4, UnderWay DEF InsertsCustomer, WritesCustomer, At, Call
    <2>2. [exists |-> TRUE, live |-> TRUE, email |-> call[p].email] \in Customer
      BY <2>1 DEF Customer
    <2> QED  BY <1>3, <1>4, <2>2, WroteType DEF InsertsCustomer, Ops
  <1>5. CASE UpdatesCustomer(p)
    <2>1. call[p].email \in Emails \cup {NoEmail} /\ call[p].customer \in CustomerIds
      BY <1>5, UnderWay DEF UpdatesCustomer, WritesCustomer, At, Call
    <2>2. [customer[call[p].customer] EXCEPT !.email = call[p].email] \in Customer
      BY <2>1, CustomerColumns DEF EngineTypeOK
    <2> QED  BY <1>3, <1>5, <2>2, WroteType DEF UpdatesCustomer, Ops
  <1>6. CASE DeletesCustomer(p)
    <2>1. call[p].customer \in CustomerIds
      BY <1>6, UnderWay DEF DeletesCustomer, WritesCustomer, At, Call
    <2>2. [customer[call[p].customer] EXCEPT !.live = FALSE] \in Customer
      BY <2>1, CustomerColumns DEF EngineTypeOK
    <2> QED  BY <1>3, <1>6, <2>2, WroteType DEF DeletesCustomer, Ops
  <1>7. CASE PublishesCreated(p)
    <2>1. call[p].customer \in CustomerIds
      BY <1>7, UnderWay DEF PublishesCreated, At, Call
    <2> DEFINE e == [key |-> "customer_created", customer |-> call[p].customer,
                     deal |-> NoDeal, from |-> "new", to |-> "new"]
    <2>2. e \in Event
      BY <2>1 DEF Event
    <2>3. pc[p] = "publish" /\ Publishes(p, e) /\ raced' = raced
      BY <1>7 DEF PublishesCreated, At
    <2> HIDE DEF e
    <2> QED  BY <2>2, <2>3, PublishType
  <1> QED
    BY <1>1, <1>2, <1>4, <1>5, <1>6, <1>7 DEF CustomerStep, CustomerCalls

LEMMA DealType ==
  ASSUME EngineTypeOK, DealTypeOK, NEW p \in Procs, DealStep(p)
  PROVE  EngineTypeOK' /\ DealTypeOK'
  <1>1. CASE DealCalls(p)
    <2>1. PICK d \in DealIds :
             \/ \E c \in CustomerIds : CallCreateDeal(p, d, c) \/ CallMoveDeal(p, d, c)
             \/ \E to \in Stages : CallStage(p, d, to)
             \/ CallDeleteDeal(p, d)
      BY <1>1 DEF DealCalls
    <2>2. /\ deal[d].customer \in CustomerIds
          /\ deal[d].stage \in Stages
      BY DEF DealTypeOK, Deal
    <2>3. PICK c \in Call : Enter(p, c)
      <3>1. ASSUME NEW op \in Ops, NEW c \in CustomerIds, NEW from \in Stages,
                   NEW to \in Stages, Enter(p, DealCall(op, d, c, from, to))
            PROVE  \E e \in Call : Enter(p, e)
        <4>1. DealCall(op, d, c, from, to) \in Call
          BY DEF DealCall, Call
        <4> QED  BY <3>1, <4>1
      <3>2. CASE \E c \in CustomerIds : CallCreateDeal(p, d, c) \/ CallMoveDeal(p, d, c)
        BY <3>1, <3>2 DEF CallCreateDeal, CallMoveDeal, Ops
      <3>3. CASE \E to \in Stages : CallStage(p, d, to)
        BY <3>1, <3>3, <2>2 DEF CallStage, Ops
      <3>4. CASE CallDeleteDeal(p, d)
        BY <3>1, <3>4, <2>2 DEF CallDeleteDeal, Ops
      <3> QED  BY <2>1, <3>2, <3>3, <3>4
    <2>4. UNCHANGED <<customer, dealVars>>
      BY <2>1 DEF CallCreateDeal, CallMoveDeal, CallStage, CallDeleteDeal
    <2> QED  BY <2>3, <2>4, EnterType DEF DealTypeOK, dealVars
  <1>2. ASSUME NEW op \in Ops, NEW columns, WritesDeal(p, op, columns),
               call[p].deal \in DealIds => columns \in Deal,
               GoesToPublish(p) \/ (Returns(p) /\ UNCHANGED engineVars)
        PROVE  EngineTypeOK' /\ DealTypeOK'
    <2>1. EngineTypeOK'
      BY <1>2, WroteType DEF WritesDeal, At, EngineTypeOK
    <2>2. deal' \in [DealIds -> Deal]
      BY <1>2 DEF WritesDeal, DealTypeOK
    <2> QED  BY <1>2, <2>1, <2>2 DEF WritesDeal, DealTypeOK
  <1>3. CASE InsertsDeal(p)
    <2>1. call[p].customer \in CustomerIds
      BY <1>3, UnderWay DEF InsertsDeal, WritesDeal, At, Call
    <2>2. [exists |-> TRUE, live |-> TRUE, stage |-> "new",
           customer |-> call[p].customer] \in Deal
      BY <2>1 DEF Deal
    <2> QED  BY <1>2, <1>3, <2>2 DEF InsertsDeal, Ops
  <1>4. ASSUME call[p].deal \in DealIds, call[p] \in Call
        PROVE  /\ [OwnDeal(p) EXCEPT !.customer = call[p].customer] \in Deal
               /\ [OwnDeal(p) EXCEPT !.stage = call[p].to] \in Deal
               /\ [OwnDeal(p) EXCEPT !.live = FALSE] \in Deal
    <2>1. call[p].customer \in CustomerIds /\ call[p].to \in Stages
      BY <1>4 DEF Call
    <2>2. OwnDeal(p) \in Deal
      BY <1>4 DEF OwnDeal, DealTypeOK
    <2> QED  BY <2>1, <2>2, DealColumns
  <1>5. CASE MovesDeal(p)
    <2>1. call[p] \in Call
      BY <1>5, UnderWay DEF MovesDeal, WritesDeal, At
    <2> QED  BY <1>2, <1>4, <1>5, <2>1 DEF MovesDeal, Ops
  <1>6. CASE WritesStage(p)
    <2>1. call[p] \in Call
      BY <1>6, UnderWay DEF WritesStage, WritesDeal, At
    <2> QED  BY <1>2, <1>4, <1>6, <2>1 DEF WritesStage, Ops
  <1>7. CASE DeletesDeal(p)
    <2>1. call[p] \in Call
      BY <1>7, UnderWay DEF DeletesDeal, WritesDeal, At
    <2> QED  BY <1>2, <1>4, <1>7, <2>1 DEF DeletesDeal, Ops
  <1>8. CASE PublishesStage(p)
    <2> DEFINE e == [key |-> "deal_stage_changed",
                     customer |-> call[p].customer, deal |-> call[p].deal,
                     from |-> call[p].from, to |-> call[p].to]
    <2>1. call[p] \in Call
      BY <1>8, UnderWay DEF PublishesStage, At
    <2>2. e \in Event
      BY <2>1 DEF Call, Event
    <2>3. pc[p] = "publish" /\ Publishes(p, e) /\ UNCHANGED dealVars
      BY <1>8 DEF PublishesStage, At
    <2> HIDE DEF e
    <2> QED  BY <2>2, <2>3, PublishType DEF DealTypeOK, dealVars
  <1> QED  BY <1>1, <1>3, <1>5, <1>6, <1>7, <1>8 DEF DealStep

LEMMA NextType == TypeOK /\ [Next]_vars => TypeOK'
  <1> SUFFICES ASSUME TypeOK, [Next]_vars
               PROVE  TypeOK'
    OBVIOUS
  <1> USE DEF TypeOK
  <1>1. CASE UNCHANGED vars
    BY <1>1 DEF vars, EngineTypeOK, DealTypeOK
  <1>2. ASSUME NEW p \in Procs, CustomerStep(p), UNCHANGED dealVars
        PROVE  TypeOK'
    BY <1>2, CustomerType DEF dealVars, DealTypeOK
  <1>3. ASSUME NEW p \in Procs, DealStep(p), UNCHANGED raced
        PROVE  TypeOK'
    BY <1>3, DealType
  <1>4. ASSUME NEW p \in Procs, EngineStep(p), UNCHANGED <<raced, dealVars>>
        PROVE  TypeOK'
    BY <1>4, EngineStepType DEF dealVars, DealTypeOK
  <1>5. ASSUME NEW p \in Procs, DealFails(p), UNCHANGED raced
        PROVE  TypeOK'
    <2>1. DealTypeOK'
      BY <1>5 DEF DealFails, DealTypeOK, At
    <2> QED  BY <1>5, <2>1, FailsType DEF DealFails
  <1> QED  BY <1>1, <1>2, <1>3, <1>4, <1>5 DEF Next

\* The variables keep their types, and a call under way is at the statement
\* its data say: it has an event exactly while its rules run.
THEOREM TypeCorrect == Spec => []TypeOK
  <1> QED  BY InitType, NextType, PTL DEF Spec

----------------------------------------------------------------------------
(* Every rule runs at most once, and in order *)

EngineInv == EngineTypeOK /\ RulesInProgress /\ AnnouncedOnce

LEMMA InitEngine == Init => RulesInProgress /\ AnnouncedOnce
  BY DEF Init, EngineInit, RulesInProgress, AnnouncedOnce

\* Most steps leave the engine alone.
LEMMA QuietEngine ==
  ASSUME EngineInv, UNCHANGED engineVars
  PROVE  RulesInProgress' /\ AnnouncedOnce'
  BY DEF EngineInv, engineVars, RulesInProgress, AnnouncedOnce, OwnEvent

\* The rule a call is at has made no record yet, and those before it have
\* made theirs.
LEMMA RecordedOnce ==
  ASSUME EngineInv, NEW p \in Procs, AtRule(p), RuleMatches(p), Recorded(p),
         UNCHANGED <<log, audited>>
  PROVE  /\ AnnouncedOnce'
         /\ \A i \in 1 .. MaxEvents, r \in Rules :
               records'[<<i, r>>] = IF i = event[p] /\ r = pos[p]
                                    THEN 1 ELSE records[<<i, r>>]
  <1>1. /\ event[p] \in 1 .. MaxEvents
        /\ event[p] <= Len(log)
        /\ pos[p] \in Rules
        /\ ~audited[event[p]]
        /\ records[<<event[p], pos[p]>>] = 0
        /\ \A r \in Rules : r > pos[p] => records[<<event[p], r>>] = 0
        /\ \A r \in Rules : r < pos[p] /\ Matches(r, log[event[p]])
                              => records[<<event[p], r>>] = 1
    BY DEF EngineInv, EngineTypeOK, RulesInProgress, AtRule, Rules, OwnEvent
  <1>2. \A i \in 1 .. MaxEvents, r \in Rules :
            records'[<<i, r>>] = IF i = event[p] /\ r = pos[p]
                                 THEN 1 ELSE records[<<i, r>>]
    BY <1>1 DEF EngineInv, EngineTypeOK, Recorded
  <1>3. ASSUME NEW i \in 1 .. Len(log)', NEW r \in Rules
        PROVE  /\ records'[<<i, r>>] <= 1
               /\ audited'[i] /\ Matches(r, log'[i]) => records'[<<i, r>>] = 1
               /\ \A q \in Rules : r < q /\ Matches(r, log'[i])
                      => records'[<<i, q>>] <= records'[<<i, r>>]
    <2>1. /\ i \in 1 .. Len(log)
          /\ i \in 1 .. MaxEvents
          /\ log' = log
          /\ audited' = audited
      BY <1>3 DEF EngineInv, EngineTypeOK
    <2>2. CASE i # event[p]
      BY <1>2, <2>1, <2>2 DEF EngineInv, AnnouncedOnce
    <2>3. CASE i = event[p]
      <3>1. /\ records[<<i, r>>] <= 1
            /\ \A q \in Rules : r < q /\ Matches(r, log[i])
                   => records[<<i, q>>] <= records[<<i, r>>]
        BY <2>1 DEF EngineInv, AnnouncedOnce
      <3>2. r \in Nat /\ pos[p] \in Nat
        BY <1>1 DEF Rules
      <3>3. ASSUME NEW q \in Rules, r < q, Matches(r, log[i])
            PROVE  records'[<<i, q>>] <= records'[<<i, r>>]
        <4>1. q \in Nat
          BY DEF Rules
        <4>2. CASE r < pos[p]
          BY <1>1, <1>2, <2>1, <2>3, <3>1, <3>2, <3>3, <4>1, <4>2
        <4>3. CASE r >= pos[p]
          <5>1. q > pos[p]
            BY <3>2, <3>3, <4>1, <4>3
          <5> QED  BY <1>1, <1>2, <2>1, <2>3, <3>1, <3>2, <3>3, <4>1, <5>1
        <4> QED  BY <3>2, <4>2, <4>3
      <3> QED  BY <1>1, <1>2, <2>1, <2>3, <3>1, <3>3
    <2> QED  BY <2>2, <2>3
  <1> QED  BY <1>2, <1>3 DEF AnnouncedOnce

\* A call that ends takes nothing with it but its own event.
LEMMA LeaveProgress ==
  ASSUME EngineInv, NEW p \in Procs, Leave(p), log' = log,
         \A i \in 1 .. MaxEvents : i # event[p] =>
            /\ audited'[i] = audited[i]
            /\ \A r \in Rules : records'[<<i, r>>] = records[<<i, r>>]
  PROVE  RulesInProgress'
  <1>1. /\ event'[p] = 0
        /\ \A q \in Procs : q # p => event'[q] = event[q] /\ pos'[q] = pos[q]
    BY DEF EngineInv, EngineTypeOK, Leave
  <1>2. \A q, t \in Procs : event'[q] = event'[t] /\ event'[q] # 0 => q = t
    BY <1>1 DEF EngineInv, RulesInProgress
  <1>3. ASSUME NEW q \in Procs, event'[q] # 0
        PROVE  /\ event'[q] <= Len(log)'
               /\ ~audited'[event'[q]]
               /\ \A r \in Rules :
                     /\ r < pos'[q] /\ Matches(r, log'[event'[q]])
                           => records'[<<event'[q], r>>] = 1
                     /\ r >= pos'[q] => records'[<<event'[q], r>>] = 0
    <2>1. q # p /\ event'[q] = event[q] /\ pos'[q] = pos[q]
      BY <1>1, <1>3
    <2>2. event[q] # event[p] /\ event[q] \in 1 .. MaxEvents
      BY <1>3, <2>1 DEF EngineInv, EngineTypeOK, RulesInProgress
    <2> QED  BY <1>3, <2>1, <2>2 DEF EngineInv, RulesInProgress, OwnEvent
  <1>4. ASSUME NEW i \in 1 .. MaxEvents, i > Len(log)'
        PROVE  ~audited'[i] /\ \A r \in Rules : records'[<<i, r>>] = 0
    <2>1. event[p] # 0 => event[p] <= Len(log)
      BY DEF EngineInv, RulesInProgress
    <2>2. i # event[p] /\ i > Len(log)
      BY <1>4, <2>1 DEF EngineInv, EngineTypeOK
    <2> QED  BY <2>2 DEF EngineInv, RulesInProgress
  <1> QED  BY <1>2, <1>3, <1>4 DEF RulesInProgress, OwnEvent

LEMMA PublishEngine ==
  ASSUME EngineInv, NEW p \in Procs, pc[p] = "publish", NEW e \in Event,
         Publishes(p, e)
  PROVE  RulesInProgress' /\ AnnouncedOnce'
  <1> DEFINE n == Len(log) + 1
  <1>1. /\ n \in 1 .. MaxEvents
        /\ Len(log)' = n
        /\ \A i \in 1 .. Len(log) : log'[i] = log[i]
        /\ records' = records /\ audited' = audited
        /\ \A q \in Procs : event'[q] = (IF q = p THEN n ELSE event[q])
        /\ \A q \in Procs : pos'[q] = (IF q = p THEN 1 ELSE pos[q])
    BY DEF EngineInv, EngineTypeOK, Publishes
  <1>2. ~audited[n] /\ \A r \in Rules : records[<<n, r>>] = 0
    BY <1>1 DEF EngineInv, EngineTypeOK, RulesInProgress
  <1>3. \A q \in Procs : event[q] \in Nat /\ (event[q] # 0 => event[q] <= Len(log))
    BY DEF EngineInv, EngineTypeOK, RulesInProgress
  <1>4. Len(log) \in Nat /\ \A r \in Rules : r \in Nat /\ r >= 1
    BY DEF EngineInv, EngineTypeOK, Rules
  <1> HIDE DEF n
  <1>5. n = Len(log) + 1
    BY DEF n
  <1>6. AnnouncedOnce'
    <2>1. ASSUME NEW i \in 1 .. Len(log)', NEW r \in Rules
          PROVE  /\ records'[<<i, r>>] <= 1
                 /\ audited'[i] /\ Matches(r, log'[i]) => records'[<<i, r>>] = 1
                 /\ \A q \in Rules : r < q /\ Matches(r, log'[i])
                        => records'[<<i, q>>] <= records'[<<i, r>>]
      <3>1. CASE i = n
        BY <1>1, <1>2, <3>1
      <3>2. CASE i # n
        <4>1. i \in 1 .. Len(log)
          BY <1>1, <1>4, <1>5, <3>2
        <4> QED  BY <1>1, <4>1 DEF EngineInv, AnnouncedOnce
      <3> QED  BY <3>1, <3>2
    <2> QED  BY <2>1 DEF AnnouncedOnce
  <1>7. \A q, t \in Procs : event'[q] = event'[t] /\ event'[q] # 0 => q = t
    <2>1. \A q \in Procs : event[q] # n
      BY <1>3, <1>4, <1>5
    <2> QED  BY <1>1, <2>1 DEF EngineInv, RulesInProgress
  <1>8. ASSUME NEW q \in Procs, event'[q] # 0
        PROVE  /\ event'[q] <= Len(log)'
               /\ ~audited'[event'[q]]
               /\ \A r \in Rules :
                     /\ r < pos'[q] /\ Matches(r, log'[event'[q]])
                           => records'[<<event'[q], r>>] = 1
                     /\ r >= pos'[q] => records'[<<event'[q], r>>] = 0
    <2>1. CASE q = p
      BY <1>1, <1>2, <1>4, <1>5, <2>1
    <2>2. CASE q # p
      <3>1. event'[q] = event[q] /\ pos'[q] = pos[q] /\ event[q] \in 1 .. Len(log)
        BY <1>1, <1>3, <1>4, <1>8, <2>2
      <3>2. log'[event[q]] = log[event[q]] /\ event[q] <= Len(log)'
        BY <1>1, <1>4, <1>5, <3>1
      <3> QED  BY <1>1, <1>8, <3>1, <3>2 DEF EngineInv, RulesInProgress, OwnEvent
    <2> QED  BY <2>1, <2>2
  <1>9. ASSUME NEW i \in 1 .. MaxEvents, i > Len(log)'
        PROVE  ~audited'[i] /\ \A r \in Rules : records'[<<i, r>>] = 0
    <2>1. i > Len(log)
      BY <1>1, <1>4, <1>5, <1>9
    <2> QED  BY <1>1, <2>1 DEF EngineInv, RulesInProgress
  <1> QED  BY <1>6, <1>7, <1>8, <1>9 DEF RulesInProgress, OwnEvent

LEMMA SkippedEngine ==
  ASSUME EngineInv, NEW p \in Procs, AtRule(p), event' = event,
         pos' = [pos EXCEPT ![p] = @ + 1], UNCHANGED <<log, audited>>,
         \A i \in 1 .. MaxEvents, r \in Rules :
            records'[<<i, r>>] = IF i = event[p] /\ r = pos[p] /\ RuleMatches(p)
                                 THEN 1 ELSE records[<<i, r>>]
  PROVE  RulesInProgress'
  <1>1. /\ event[p] \in 1 .. MaxEvents /\ event[p] <= Len(log)
        /\ pos[p] \in Nat
        /\ pos'[p] = pos[p] + 1
        /\ \A q \in Procs : q # p => pos'[q] = pos[q]
        /\ \A r \in Rules : r \in Nat
    BY DEF EngineInv, EngineTypeOK, RulesInProgress, AtRule, Rules
  <1>2. ASSUME NEW q \in Procs, event[q] # 0
        PROVE  /\ event[q] <= Len(log)
               /\ ~audited[event[q]]
               /\ \A r \in Rules :
                     /\ r < pos'[q] /\ Matches(r, log[event[q]])
                           => records'[<<event[q], r>>] = 1
                     /\ r >= pos'[q] => records'[<<event[q], r>>] = 0
    <2>1. /\ event[q] <= Len(log)
          /\ event[q] \in 1 .. MaxEvents
          /\ ~audited[event[q]]
          /\ \A r \in Rules :
                /\ r < pos[q] /\ Matches(r, log[event[q]])
                      => records[<<event[q], r>>] = 1
                /\ r >= pos[q] => records[<<event[q], r>>] = 0
      BY <1>2 DEF EngineInv, EngineTypeOK, RulesInProgress, OwnEvent
    <2>2. CASE q = p
      <3>1. ASSUME NEW r \in Rules, r < pos[p] + 1, Matches(r, log[event[p]])
            PROVE  records'[<<event[p], r>>] = 1
        <4>1. CASE r < pos[p]
          BY <1>1, <2>1, <2>2, <3>1, <4>1
        <4>2. CASE r = pos[p]
          BY <1>1, <3>1, <4>2 DEF RuleMatches, OwnEvent
        <4> QED  BY <1>1, <3>1, <4>1, <4>2
      <3>2. ASSUME NEW r \in Rules, r >= pos[p] + 1
            PROVE  records'[<<event[p], r>>] = 0
        BY <1>1, <2>1, <2>2, <3>2
      <3> QED  BY <1>1, <2>1, <2>2, <3>1, <3>2
    <2>3. CASE q # p
      <3>1. event[q] # event[p]
        BY <1>2, <2>3 DEF EngineInv, RulesInProgress
      <3> QED  BY <1>1, <2>1, <2>3, <3>1
    <2> QED  BY <2>2, <2>3
  <1>3. ASSUME NEW i \in 1 .. MaxEvents, i > Len(log)
        PROVE  ~audited[i] /\ \A r \in Rules : records'[<<i, r>>] = 0
    <2>1. i # event[p]
      BY <1>1, <1>3 DEF EngineInv, EngineTypeOK
    <2> QED  BY <1>3, <2>1 DEF EngineInv, RulesInProgress
  <1>4. \A q, t \in Procs : event'[q] = event'[t] /\ event'[q] # 0 => q = t
    BY DEF EngineInv, RulesInProgress
  <1> QED  BY <1>2, <1>3, <1>4 DEF RulesInProgress, OwnEvent

LEMMA EngineStepKeeps ==
  ASSUME EngineInv, NEW p \in Procs, EngineStep(p)
  PROVE  RulesInProgress' /\ AnnouncedOnce'
  <1>1. CASE RuleSkipped(p)
    <2>1. AnnouncedOnce'
      BY <1>1 DEF RuleSkipped, EngineInv, AnnouncedOnce
    <2> QED  BY <1>1, <2>1, SkippedEngine DEF RuleSkipped
  <1>2. CASE RuleSends(p)
    BY <1>2, RecordedOnce, SkippedEngine, ZenonT(30) DEF RuleSends
  <1>3. CASE RuleThrows(p)
    <2>1. CASE NoRecipient(p)
      <3>1. AnnouncedOnce'
        BY <1>3, <2>1 DEF RuleThrows, EngineInv, AnnouncedOnce
      <3> QED  BY <1>3, <2>1, <3>1, LeaveProgress DEF RuleThrows
    <2>2. CASE ~NoRecipient(p)
      BY <1>3, <2>2, RecordedOnce, LeaveProgress DEF RuleThrows
    <2> QED  BY <2>1, <2>2
  <1>4. CASE Audits(p)
    <2>1. /\ event[p] \in 1 .. MaxEvents
          /\ \A r \in Rules : Matches(r, log[event[p]])
                => records[<<event[p], r>>] = 1
      <3>1. \A r \in Rules : r < pos[p]
        BY <1>4 DEF Audits, Rules
      <3> QED  BY <1>4, <3>1 DEF Audits, EngineInv, EngineTypeOK, RulesInProgress, OwnEvent
    <2>2. \A i \in 1 .. MaxEvents : i # event[p] => audited'[i] = audited[i]
      BY <1>4, <2>1 DEF Audits, EngineInv, EngineTypeOK
    <2>3. UNCHANGED <<log, records>> /\ Leave(p)
      BY <1>4 DEF Audits
    <2>4. AnnouncedOnce'
      <3>1. \A i \in 1 .. Len(log) : i \in 1 .. MaxEvents
        BY DEF EngineInv, EngineTypeOK
      <3> QED  BY <2>1, <2>2, <2>3, <3>1 DEF EngineInv, AnnouncedOnce
    <2>5. RulesInProgress'
      BY <2>2, <2>3, LeaveProgress
    <2> QED  BY <2>4, <2>5
  <1> QED  BY <1>1, <1>2, <1>3, <1>4 DEF EngineStep

LEMMA FailsEngine ==
  ASSUME EngineInv, NEW p \in Procs, Fails(p)
  PROVE  RulesInProgress' /\ AnnouncedOnce'
  <1>1. AnnouncedOnce'
    BY DEF Fails, EngineInv, AnnouncedOnce
  <1> QED  BY <1>1, LeaveProgress DEF Fails

\* A step of customers or deals leaves the engine alone or publishes.
LEMMA ServiceStep ==
  ASSUME EngineTypeOK, NEW p \in Procs, CustomerStep(p) \/ DealStep(p)
  PROVE  \/ UNCHANGED engineVars
         \/ pc[p] = "publish" /\ \E e \in Event : Publishes(p, e)
  <1>1. CASE CustomerStep(p)
    <2>1. CASE CustomerCalls(p)
      BY <2>1 DEF CustomerCalls, CallCreateCustomer, CallUpdateCustomer,
                  CallDeleteCustomer, EnterGiving, Enter
    <2>2. CASE InsertsCustomer(p) \/ UpdatesCustomer(p) \/ DeletesCustomer(p)
      BY <2>2 DEF InsertsCustomer, UpdatesCustomer, DeletesCustomer, GoesToPublish
    <2>3. CASE PublishesCreated(p)
      <3> DEFINE e == [key |-> "customer_created", customer |-> call[p].customer,
                       deal |-> NoDeal, from |-> "new", to |-> "new"]
      <3>1. call[p] \in Call
        BY <2>3, UnderWay DEF PublishesCreated, At
      <3>2. e \in Event
        BY <3>1 DEF Call, Event
      <3>3. pc[p] = "publish" /\ Publishes(p, e)
        BY <2>3 DEF PublishesCreated, At
      <3> HIDE DEF e
      <3> QED  BY <3>2, <3>3
    <2> QED  BY <1>1, <2>1, <2>2, <2>3 DEF CustomerStep
  <1>2. CASE DealStep(p)
    <2>1. CASE DealCalls(p)
      BY <2>1 DEF DealCalls, CallCreateDeal, CallMoveDeal, CallStage,
                  CallDeleteDeal, Enter
    <2>2. CASE InsertsDeal(p) \/ MovesDeal(p) \/ WritesStage(p) \/ DeletesDeal(p)
      BY <2>2 DEF InsertsDeal, MovesDeal, WritesStage, DeletesDeal, GoesToPublish
    <2>3. CASE PublishesStage(p)
      <3> DEFINE e == [key |-> "deal_stage_changed",
                       customer |-> call[p].customer, deal |-> call[p].deal,
                       from |-> call[p].from, to |-> call[p].to]
      <3>1. call[p] \in Call
        BY <2>3, UnderWay DEF PublishesStage, At
      <3>2. e \in Event
        BY <3>1 DEF Call, Event
      <3>3. pc[p] = "publish" /\ Publishes(p, e)
        BY <2>3 DEF PublishesStage, At
      <3> HIDE DEF e
      <3> QED  BY <3>2, <3>3
    <2> QED  BY <1>2, <2>1, <2>2, <2>3 DEF DealStep
  <1> QED  BY <1>1, <1>2

LEMMA NextEngine == EngineInv /\ [Next]_vars => RulesInProgress' /\ AnnouncedOnce'
  <1> SUFFICES ASSUME EngineInv, [Next]_vars
               PROVE  RulesInProgress' /\ AnnouncedOnce'
    OBVIOUS
  <1>1. CASE UNCHANGED vars
    BY <1>1, QuietEngine DEF vars, engineVars
  <1>2. ASSUME NEW p \in Procs, CustomerStep(p) \/ DealStep(p)
        PROVE  RulesInProgress' /\ AnnouncedOnce'
    BY <1>2, ServiceStep, QuietEngine, PublishEngine DEF EngineInv
  <1>3. ASSUME NEW p \in Procs, EngineStep(p)
        PROVE  RulesInProgress' /\ AnnouncedOnce'
    BY <1>3, EngineStepKeeps
  <1>4. ASSUME NEW p \in Procs, DealFails(p)
        PROVE  RulesInProgress' /\ AnnouncedOnce'
    BY <1>4, FailsEngine DEF DealFails
  <1> QED  BY <1>1, <1>2, <1>3, <1>4 DEF Next

\* However many calls overlap and wherever they are cut off, no rule makes two
\* records for an event, a call that got to its audit row had every matching
\* rule make its record, and no rule runs after one that threw.
THEOREM Announced == Spec => []AnnouncedOnce
  <1>1. Init => RulesInProgress /\ AnnouncedOnce
    BY InitEngine
  <1>2. TypeOK /\ RulesInProgress /\ AnnouncedOnce /\ [Next]_vars
           => RulesInProgress' /\ AnnouncedOnce'
    BY NextEngine DEF EngineInv, TypeOK
  <1> QED  BY <1>1, <1>2, TypeCorrect, PTL DEF Spec

----------------------------------------------------------------------------
(* Addresses of customers *)

\* A step that adds no claim to an address keeps it apart.
LEMMA FewerClaims ==
  ASSUME OneClaim, raced \subseteq raced',
         \A e \in Emails : Claims(e)' \subseteq Claims(e)
  PROVE  OneClaim'
  BY DEF OneClaim

LEMMA QuietClaims ==
  ASSUME OneClaim, UNCHANGED <<customer, raced>>,
         \A e \in Emails : Giving(e)' \subseteq Giving(e),
         \A e \in Emails : \A q \in Giving(e)' : call'[q] = call[q]
  PROVE  OneClaim'
  <1>1. ASSUME NEW e \in Emails
        PROVE  Claims(e)' \subseteq Claims(e)
    BY DEF Claims, LiveWith
  <1> QED  BY <1>1, FewerClaims

\* A call of p ends or gives nothing.
LEMMA NoLongerGiving ==
  ASSUME OneClaim, UNCHANGED <<customer, raced>>, NEW p \in Procs,
         \A q \in Procs : q # p => pc'[q] = pc[q] /\ call'[q] = call[q],
         \/ pc'[p] # "write"
         \/ call'[p].op \notin {"createCustomer", "updateCustomer"}
  PROVE  OneClaim'
  <1>1. ASSUME NEW e \in Emails
        PROVE  /\ Giving(e)' \subseteq Giving(e)
               /\ \A q \in Giving(e)' : call'[q] = call[q]
    BY DEF Giving
  <1> QED  BY <1>1, QuietClaims

LEMMA EnterClaims ==
  ASSUME EngineTypeOK, OneClaim, NEW p \in Procs, NEW op \in Ops,
         NEW c \in CustomerIds, NEW e \in Emails \cup {NoEmail},
         EnterGiving(p, op, c, e)
  PROVE  OneClaim'
  <1>1. /\ customer' = customer
        /\ pc[p] = "idle"
        /\ call'[p] = CustomerCall(op, c, e)
        /\ \A q \in Procs : q # p => pc'[q] = pc[q] /\ call'[q] = call[q]
    BY DEF EngineTypeOK, EnterGiving, Enter
  <1>2. call'[p].customer = c /\ call'[p].email = e
    BY <1>1 DEF CustomerCall
  <1>3. ASSUME NEW f \in Emails \ raced', f # e
        PROVE  \A k, d \in Claims(f)' : k = d
    <2>1. Giving(f)' \subseteq Giving(f) /\ \A q \in Giving(f)' : call'[q] = call[q]
      BY <1>1, <1>2, <1>3 DEF Giving
    <2>2. Claims(f)' \subseteq Claims(f)
      BY <1>1, <2>1 DEF Claims, LiveWith
    <2>3. f \notin raced
      BY <1>3 DEF EnterGiving
    <2> QED  BY <2>2, <2>3 DEF OneClaim
  <1>4. ASSUME e \in Emails \ raced'
        PROVE  Claims(e)' \subseteq {c}
    <2>1. e # NoEmail
      BY <1>4
    <2>2. LiveWith(e)' \subseteq {c}
      BY <1>1, <2>1 DEF EnterGiving, EmailFree, LiveWith
    <2>3. \A q \in Giving(e) : call[q].customer = c
      BY <1>4, <2>1 DEF EnterGiving
    <2>4. \A q \in Giving(e)' : call'[q].customer = c
      BY <1>1, <1>2, <2>3 DEF Giving
    <2> QED  BY <2>2, <2>4 DEF Claims
  <1> QED  BY <1>3, <1>4 DEF OneClaim

\* What a call gives it has claimed, so the write adds no claim.
LEMMA WriteClaims ==
  ASSUME EngineTypeOK, OneClaim, NEW p \in Procs, pc[p] = "write", raced' = raced,
         GoesToPublish(p) \/ Returns(p), NEW columns,
         customer' = [customer EXCEPT ![call[p].customer] = columns],
         \/ columns.live = FALSE
         \/ /\ columns.email = call[p].email
            /\ call[p].op \in {"createCustomer", "updateCustomer"}
  PROVE  OneClaim'
  <1>1. /\ pc'[p] # "write"
        /\ \A q \in Procs : q # p => pc'[q] = pc[q] /\ call'[q] = call[q]
    BY DEF EngineTypeOK, GoesToPublish, Returns
  <1>2. \A d \in CustomerIds :
           customer'[d] = IF d = call[p].customer THEN columns ELSE customer[d]
    BY DEF EngineTypeOK
  <1>3. ASSUME NEW e \in Emails
        PROVE  Claims(e)' \subseteq Claims(e)
    <2>1. /\ Giving(e)' \subseteq Giving(e)
          /\ \A q \in Giving(e)' : call'[q] = call[q]
      BY <1>1 DEF Giving
    <2>2. ASSUME NEW d \in LiveWith(e)'
          PROVE  d \in Claims(e)
      <3>1. d \in CustomerIds /\ customer'[d].live /\ customer'[d].email = e
        BY <2>2 DEF LiveWith
      <3>2. CASE d # call[p].customer
        BY <1>2, <3>1, <3>2 DEF Claims, LiveWith
      <3>3. CASE d = call[p].customer
        <4>1. customer'[d] = columns
          BY <1>2, <3>1, <3>3
        <4>2. p \in Giving(e)
          BY <3>1, <4>1 DEF Giving
        <4> QED  BY <3>3, <4>2 DEF Claims
      <3> QED  BY <3>2, <3>3
    <2>3. \A q \in Giving(e)' : call'[q].customer \in Claims(e)
      BY <2>1 DEF Claims
    <2> QED  BY <2>2, <2>3 DEF Claims
  <1> QED  BY <1>3, FewerClaims

LEMMA CustomerClaims ==
  ASSUME EngineTypeOK, OneClaim, NEW p \in Procs, CustomerStep(p)
  PROVE  OneClaim'
  <1>1. ASSUME NEW c \in CustomerIds, NEW e \in Emails \cup {NoEmail},
               CallCreateCustomer(p, c, e) \/ CallUpdateCustomer(p, c, e)
        PROVE  OneClaim'
    BY <1>1, EnterClaims DEF CallCreateCustomer, CallUpdateCustomer, Ops
  <1>2. ASSUME NEW c \in CustomerIds, CallDeleteCustomer(p, c)
        PROVE  OneClaim'
    <2>1. /\ call'[p] = CustomerCall("deleteCustomer", c, NoEmail)
          /\ \A q \in Procs : q # p => pc'[q] = pc[q] /\ call'[q] = call[q]
      BY <1>2 DEF CallDeleteCustomer, Enter, EngineTypeOK
    <2>2. call'[p].op = "deleteCustomer"
      BY <2>1 DEF CustomerCall
    <2> QED  BY <1>2, <2>1, <2>2, NoLongerGiving DEF CallDeleteCustomer
  <1>3. CASE InsertsCustomer(p)
    <2> DEFINE r == [exists |-> TRUE, live |-> TRUE, email |-> call[p].email]
    <2>1. /\ pc[p] = "write" /\ call[p].op = "createCustomer" /\ raced' = raced
          /\ customer' = [customer EXCEPT ![call[p].customer] = r]
          /\ GoesToPublish(p)
      BY <1>3 DEF InsertsCustomer, WritesCustomer, At
    <2>2. r.email = call[p].email
      OBVIOUS
    <2> HIDE DEF r
    <2> QED  BY <2>1, <2>2, WriteClaims
  <1>4. ASSUME At(p, "write", "updateCustomer") \/ At(p, "write", "deleteCustomer")
        PROVE  customer[call[p].customer] \in Customer
    BY <1>4, UnderWay DEF At, Call, EngineTypeOK
  <1>5. CASE UpdatesCustomer(p)
    <2> DEFINE r == [customer[call[p].customer] EXCEPT !.email = call[p].email]
    <2>1. /\ At(p, "write", "updateCustomer") /\ raced' = raced
          /\ customer' = [customer EXCEPT ![call[p].customer] = r]
          /\ Returns(p)
      BY <1>5 DEF UpdatesCustomer, WritesCustomer
    <2>2. r.email = call[p].email
      BY <1>4, <2>1 DEF Customer
    <2> HIDE DEF r
    <2> QED  BY <2>1, <2>2, WriteClaims DEF At
  <1>6. CASE DeletesCustomer(p)
    <2> DEFINE r == [customer[call[p].customer] EXCEPT !.live = FALSE]
    <2>1. /\ At(p, "write", "deleteCustomer") /\ raced' = raced
          /\ customer' = [customer EXCEPT ![call[p].customer] = r]
          /\ Returns(p)
      BY <1>6 DEF DeletesCustomer, WritesCustomer
    <2>2. r.live = FALSE
      BY <1>4, <2>1 DEF Customer
    <2> HIDE DEF r
    <2> QED  BY <2>1, <2>2, WriteClaims DEF At
  <1>7. CASE PublishesCreated(p)
    <2>1. /\ pc'[p] # "write" /\ UNCHANGED <<customer, raced>>
          /\ \A q \in Procs : q # p => pc'[q] = pc[q] /\ call'[q] = call[q]
      BY <1>7 DEF PublishesCreated, Publishes, EngineTypeOK
    <2> QED  BY <2>1, NoLongerGiving
  <1> QED
    BY <1>1, <1>2, <1>3, <1>5, <1>6, <1>7 DEF CustomerStep, CustomerCalls

LEMMA DealClaims ==
  ASSUME EngineTypeOK, OneClaim, NEW p \in Procs, DealStep(p), UNCHANGED raced
  PROVE  OneClaim'
  <1>1. UNCHANGED customer
    BY DEF DealStep, DealCalls, CallCreateDeal, CallMoveDeal, CallStage,
           CallDeleteDeal, InsertsDeal, MovesDeal, WritesStage, DeletesDeal,
           WritesDeal, PublishesStage, Publishes
  <1>2. CASE DealCalls(p)
    <2>1. PICK op \in {"createDeal", "moveDeal", "stage", "deleteDeal"} :
             \E d, c, from, to : Enter(p, DealCall(op, d, c, from, to))
      BY <1>2 DEF DealCalls, CallCreateDeal, CallMoveDeal, CallStage, CallDeleteDeal
    <2>2. PICK d, c, from, to : Enter(p, DealCall(op, d, c, from, to))
      BY <2>1
    <2>3. /\ call'[p] = DealCall(op, d, c, from, to)
          /\ \A q \in Procs : q # p => pc'[q] = pc[q] /\ call'[q] = call[q]
      BY <2>2 DEF Enter, EngineTypeOK
    <2>4. call'[p].op = op
      BY <2>3 DEF DealCall
    <2> QED  BY <1>1, <2>3, <2>4, NoLongerGiving
  <1>3. CASE ~DealCalls(p)
    <2>1. GoesToPublish(p) \/ Returns(p) \/ \E e : Publishes(p, e)
      BY <1>3 DEF DealStep, InsertsDeal, MovesDeal, WritesStage, DeletesDeal,
                  PublishesStage
    <2>2. /\ pc'[p] # "write"
          /\ \A q \in Procs : q # p => pc'[q] = pc[q] /\ call'[q] = call[q]
      BY <2>1 DEF GoesToPublish, Returns, Publishes, EngineTypeOK
    <2> QED  BY <1>1, <2>2, NoLongerGiving
  <1> QED  BY <1>2, <1>3

LEMMA EngineClaims ==
  ASSUME EngineTypeOK, OneClaim, NEW p \in Procs, EngineStep(p) \/ Fails(p),
         UNCHANGED raced
  PROVE  OneClaim'
  <1>1. UNCHANGED customer
    BY DEF EngineStep, RuleSkipped, RuleSends, RuleThrows, Audits, Fails
  <1>2. CASE RuleSkipped(p) \/ RuleSends(p)
    <2>1. UNCHANGED <<pc, call>> /\ pc[p] = "rules"
      BY <1>2 DEF RuleSkipped, RuleSends, AtRule
    <2> QED  BY <1>1, <2>1, NoLongerGiving
  <1>3. CASE Leave(p)
    <2>1. /\ pc'[p] # "write"
          /\ \A q \in Procs : q # p => pc'[q] = pc[q] /\ call'[q] = call[q]
      BY <1>3 DEF Leave, Returns, EngineTypeOK
    <2> QED  BY <1>1, <2>1, NoLongerGiving
  <1> QED  BY <1>2, <1>3 DEF EngineStep, RuleThrows, Audits, Fails

LEMMA NextClaims == EngineTypeOK /\ OneClaim /\ [Next]_vars => OneClaim'
  <1> SUFFICES ASSUME EngineTypeOK, OneClaim, [Next]_vars
               PROVE  OneClaim'
    OBVIOUS
  <1>1. CASE UNCHANGED vars
    <2>1. UNCHANGED <<customer, raced, pc, call>>
      BY <1>1 DEF vars
    <2> QED  BY <2>1, QuietClaims DEF Giving
  <1>2. ASSUME NEW p \in Procs, CustomerStep(p)
        PROVE  OneClaim'
    BY <1>2, CustomerClaims
  <1>3. ASSUME NEW p \in Procs, DealStep(p), UNCHANGED raced
        PROVE  OneClaim'
    BY <1>3, DealClaims
  <1>4. ASSUME NEW p \in Procs, EngineStep(p) \/ DealFails(p), UNCHANGED raced
        PROVE  OneClaim'
    BY <1>4, EngineClaims DEF DealFails
  <1> QED  BY <1>1, <1>2, <1>3, <1>4 DEF Next

\* Two customers that are not deleted share an address only if two calls that
\* overlapped were giving it: the check of a call that runs alone is enough,
\* because what the other calls under way will give counts as given.
THEOREM SharedByRaceOnly == Spec => []SharedOnlyByRace
  <1>1. Init => OneClaim
    BY DEF Init, EngineInit, CustomerInit, NoCustomer, OneClaim, Claims,
           LiveWith, Giving
  <1>2. EngineTypeOK /\ OneClaim /\ [Next]_vars => OneClaim'
    BY NextClaims
  <1>3. OneClaim => SharedOnlyByRace
    BY DEF OneClaim, Claims, SharedOnlyByRace
  <1>4. TypeOK => EngineTypeOK
    BY DEF TypeOK
  <1> QED  BY <1>1, <1>2, <1>3, <1>4, TypeCorrect, PTL DEF Spec

----------------------------------------------------------------------------
(* The events of a deal *)

DealOps == {"createDeal", "moveDeal", "stage", "deleteDeal"}

\* p changes the stage of deal d.
Staging(p, d) == pc[p] # "idle" /\ call[p].op = "stage" /\ call[p].deal = d

\* One call at a time changes the stage of a deal.  Calls that create, move or
\* delete the deal, and those about other deals, may overlap with it.
StagesApart ==
    \A d \in DealIds : \A p, q \in Procs : Staging(p, d) /\ Staging(q, d) => p = q

Announcing(p, d) == At(p, "publish", "stage") /\ call[p].deal = d

\* What a call has read of its deal is still true when it writes.
DealRead(p) ==
    pc[p] # "idle" =>
        /\ call[p].deal \in DealIds <=> call[p].op \in DealOps
        /\ At(p, "write", "createDeal") => ~OwnDeal(p).exists
        /\ At(p, "write", "stage") =>
              OwnDeal(p).exists /\ OwnDeal(p).stage = call[p].from
        /\ At(p, "publish", "stage") => OwnDeal(p).stage = call[p].to
        /\ call[p].op = "stage" => call[p].from # call[p].to

\* The events lead a deal to its stage, or to the one before the change that
\* a call is about to announce.
DealTold(d) ==
    ~dropped[d] =>
        /\ (\A p \in Procs : ~Announcing(p, d)) => Replay(log, d, deal[d].stage)
        /\ \A p \in Procs : Announcing(p, d) => Replay(log, d, call[p].from)

\* A deal is no other call's before it is created.
CreatesAlone(p) ==
    At(p, "write", "createDeal") =>
        \A q \in Procs : pc[q] # "idle" /\ call[q].deal = call[p].deal => q = p

DealInv ==
    /\ \A d \in DealIds :
          /\ ~deal[d].exists => ~deal[d].live /\ deal[d].stage = "new"
          /\ DealTold(d)
    /\ \A p \in Procs : DealRead(p) /\ CreatesAlone(p)

\* An event about another deal, or about none, changes nothing for d.
LEMMA ReplayOther ==
  ASSUME NEW events \in Seq(Event), NEW e \in Event, NEW d \in DealIds,
         NEW stage, e.deal # d, Replay(events, d, stage)
  PROVE  Replay(Append(events, e), d, stage)
  <1> DEFINE more == Append(events, e)
             n == Len(events)
  <1>1. /\ n \in Nat /\ Len(more) = n + 1
        /\ \A j \in 1 .. n : more[j] = events[j]
        /\ more[n + 1] = e
    OBVIOUS
  <1> HIDE DEF more, n
  <1>2. ASSUME NEW i \in 0 .. n, NEW s, LeadTo(events, d, i, s)
        PROVE  LeadTo(more, d, i, s)
    <2>1. \A j \in 1 .. i : more[j] = events[j]
      BY <1>1
    <2>2. \A j \in 1 .. i : \A h \in j + 1 .. i : h \in 1 .. i
      BY <1>1
    <2> QED  BY <1>2, <2>1, <2>2 DEF LeadTo
  <1>3. LeadTo(more, d, n + 1, stage)
    <2>1. LeadTo(more, d, n, stage)
      BY <1>1, <1>2 DEF Replay, n
    <2>2. \A h \in 1 .. n + 1 : h \in 1 .. n \/ more[h].deal # d
      BY <1>1
    <2>3. CASE stage = "new" /\ \A j \in 1 .. n : more[j].deal # d
      BY <2>2, <2>3 DEF LeadTo
    <2>4. ASSUME NEW j \in 1 .. n, more[j].deal = d, more[j].to = stage,
                 \A h \in j + 1 .. n : more[h].deal # d
          PROVE  LeadTo(more, d, n + 1, stage)
      <3>1. j \in 1 .. n + 1
        BY <1>1
      <3>2. \A h \in j + 1 .. n + 1 : more[h].deal # d
        BY <1>1, <2>2, <2>4
      <3> QED  BY <2>4, <3>1, <3>2 DEF LeadTo
    <2> QED  BY <2>1, <2>3, <2>4 DEF LeadTo
  <1>4. ASSUME NEW i \in 1 .. n + 1, more[i].deal = d
        PROVE  more[i].from # more[i].to /\ LeadTo(more, d, i - 1, more[i].from)
    <2>1. i \in 1 .. n /\ i - 1 \in 0 .. n
      BY <1>1, <1>4
    <2> QED  BY <1>1, <1>2, <1>4, <2>1 DEF Replay, n
  <1>5. Replay(more, d, stage)
    BY <1>1, <1>3, <1>4 DEF Replay
  <1> QED  BY <1>5 DEF more

\* An event that tells a change from the stage so far leads to the next one.
LEMMA ReplayOwn ==
  ASSUME NEW events \in Seq(Event), NEW e \in Event, NEW d \in DealIds,
         e.deal = d, e.from # e.to, Replay(events, d, e.from)
  PROVE  Replay(Append(events, e), d, e.to)
  <1> DEFINE more == Append(events, e)
             n == Len(events)
  <1>1. /\ n \in Nat /\ Len(more) = n + 1
        /\ \A j \in 1 .. n : more[j] = events[j]
        /\ more[n + 1] = e
    OBVIOUS
  <1> HIDE DEF more, n
  <1>2. ASSUME NEW i \in 0 .. n, NEW s, LeadTo(events, d, i, s)
        PROVE  LeadTo(more, d, i, s)
    <2>1. \A j \in 1 .. i : more[j] = events[j]
      BY <1>1
    <2>2. \A j \in 1 .. i : \A h \in j + 1 .. i : h \in 1 .. i
      BY <1>1
    <2> QED  BY <1>2, <2>1, <2>2 DEF LeadTo
  <1>3. LeadTo(more, d, n + 1, e.to)
    <2>1. n + 1 \in 1 .. n + 1 /\ \A h \in (n + 1) + 1 .. n + 1 : FALSE
      BY <1>1
    <2> QED  BY <1>1, <2>1 DEF LeadTo
  <1>4. ASSUME NEW i \in 1 .. n + 1, more[i].deal = d
        PROVE  more[i].from # more[i].to /\ LeadTo(more, d, i - 1, more[i].from)
    <2>1. i - 1 \in 0 .. n /\ (i \in 1 .. n \/ (i = n + 1 /\ i - 1 = n))
      BY <1>1
    <2>2. CASE i \in 1 .. n
      BY <1>1, <1>2, <1>4, <2>1, <2>2 DEF Replay, n
    <2>3. CASE i = n + 1 /\ i - 1 = n
      <3>1. LeadTo(events, d, n, e.from)
        BY DEF Replay, n
      <3> QED  BY <1>1, <1>2, <2>1, <2>3, <3>1
    <2> QED  BY <2>1, <2>2, <2>3
  <1>5. Replay(more, d, e.to)
    BY <1>1, <1>3, <1>4 DEF Replay
  <1> QED  BY <1>5 DEF more

LEMMA DealInvInit == Init => DealInv
  <1> SUFFICES ASSUME Init
               PROVE  DealInv
    OBVIOUS
  <1>1. \A p \in Procs : pc[p] = "idle"
    BY DEF Init, EngineInit
  <1>2. \A d \in DealIds : ~deal[d].live /\ deal[d].stage = "new"
    BY DEF Init, DealInit, NoDeals
  <1>3. \A d \in DealIds : Replay(log, d, "new")
    BY DEF Init, EngineInit, Replay, LeadTo
  <1> QED  BY <1>1, <1>2, <1>3 DEF DealInv, DealTold, DealRead, CreatesAlone, Announcing, At

\* Calls that end or go on with the deal they are about leave a deal that is
\* being created alone.
LEMMA AloneKept ==
  ASSUME DealInv, NEW p \in Procs,
         \A q \in Procs : q # p => pc'[q] = pc[q] /\ call'[q] = call[q],
         \/ pc'[p] = "idle"
         \/ pc'[p] # "write" /\ pc[p] # "idle" /\ call'[p] = call[p]
         \/ pc'[p] = "write" /\ call'[p].deal \notin DealIds
                             /\ call'[p].op \notin DealOps
  PROVE  \A q \in Procs : CreatesAlone(q)'
  <1>1. ASSUME NEW q \in Procs, At(q, "write", "createDeal")'
        PROVE  /\ q # p /\ At(q, "write", "createDeal") /\ call'[q] = call[q]
               /\ call[q].deal \in DealIds
    BY <1>1 DEF At, DealInv, DealRead, DealOps
  <1> QED  BY <1>1 DEF CreatesAlone, DealInv

\* A step of p that changes no deal, publishes nothing and neither begins nor
\* ends an announcement.
LEMMA DealKept ==
  ASSUME DealInv, NEW p \in Procs, UNCHANGED <<deal, dropped, log>>,
         \A q \in Procs : q # p => pc'[q] = pc[q] /\ call'[q] = call[q],
         \A d \in DealIds : ~Announcing(p, d) /\ ~Announcing(p, d)',
         DealRead(p)', \A q \in Procs : CreatesAlone(q)'
  PROVE  DealInv'
  <1>1. \A q \in Procs : DealRead(q)'
    <2>1. ASSUME NEW q \in Procs, q # p
          PROVE  DealRead(q)'
      BY <2>1 DEF DealInv, DealRead, At, OwnDeal
    <2> QED  BY <2>1
  <1>2. \A q \in Procs, d \in DealIds :
            /\ Announcing(q, d)' <=> Announcing(q, d)
            /\ Announcing(q, d) => call'[q] = call[q]
    BY DEF Announcing, At
  <1>3. \A d \in DealIds : DealTold(d)'
    BY <1>2 DEF DealInv, DealTold
  <1> QED  BY <1>1, <1>3 DEF DealInv

LEMMA DealCallsKept ==
  ASSUME TypeOK, DealInv, NEW p \in Procs, DealCalls(p)
  PROVE  DealInv'
  <1>1. PICK d \in DealIds :
           \/ \E c \in CustomerIds : CallCreateDeal(p, d, c) \/ CallMoveDeal(p, d, c)
           \/ \E to \in Stages : CallStage(p, d, to)
           \/ CallDeleteDeal(p, d)
    BY DEF DealCalls
  <1>2. PICK op \in DealOps, c \in CustomerIds, from \in Stages, to \in Stages :
            /\ Enter(p, DealCall(op, d, c, from, to))
            /\ op = "createDeal" => ~deal[d].exists /\ On(d) = {}
            /\ op # "createDeal" => deal[d].exists
            /\ op = "stage" => /\ deal[d].live /\ deal[d].stage = from
                               /\ from # to
    <2>1. /\ deal[d].customer \in CustomerIds /\ deal[d].stage \in Stages
          /\ deal[d].live => deal[d].exists
      BY DEF TypeOK, DealTypeOK, Deal, DealInv
    <2>2. CASE \E c \in CustomerIds : CallCreateDeal(p, d, c)
      BY <2>2 DEF CallCreateDeal, DealOps
    <2>3. CASE \E c \in CustomerIds : CallMoveDeal(p, d, c)
      BY <2>1, <2>3 DEF CallMoveDeal, DealOps
    <2>4. CASE \E to \in Stages : CallStage(p, d, to)
      BY <2>1, <2>4 DEF CallStage, DealOps
    <2>5. CASE CallDeleteDeal(p, d)
      BY <2>1, <2>5 DEF CallDeleteDeal, DealOps
    <2> QED  BY <1>1, <2>2, <2>3, <2>4, <2>5
  <1> DEFINE c0 == DealCall(op, d, c, from, to)
  <1>3. /\ c0.op = op /\ c0.deal = d /\ c0.from = from /\ c0.to = to
    BY DEF DealCall
  <1> HIDE DEF c0
  <1>4. /\ pc[p] = "idle" /\ c0.op \in Serves[p]
        /\ pc'[p] = "write" /\ call'[p] = c0
        /\ \A q \in Procs : q # p => pc'[q] = pc[q] /\ call'[q] = call[q]
        /\ log' = log
    BY <1>2 DEF Enter, TypeOK, EngineTypeOK, engineVars, c0
  <1>5. UNCHANGED <<deal, dropped>>
    BY <1>1 DEF CallCreateDeal, CallMoveDeal, CallStage, CallDeleteDeal, dealVars
  <1>6. op = "stage" => deal[d].exists
    BY <1>2 DEF DealInv
  <1>7. DealRead(p)'
    BY <1>2, <1>3, <1>4, <1>5, <1>6 DEF DealRead, At, OwnDeal
  <1>8. \A e \in DealIds : ~Announcing(p, e) /\ ~Announcing(p, e)'
    BY <1>4 DEF Announcing, At
  <1>9. \A q \in Procs : CreatesAlone(q)'
    <2>1. CreatesAlone(p)'
      BY <1>2, <1>3, <1>4 DEF CreatesAlone, At, On
    <2>2. ASSUME NEW q \in Procs, q # p, At(q, "write", "createDeal")
          PROVE  call[q].deal # d
      BY <1>2, <2>2 DEF DealInv, DealRead, At, OwnDeal, On
    <2> QED  BY <1>3, <1>4, <2>1, <2>2 DEF CreatesAlone, DealInv, At
  <1> QED  BY <1>4, <1>5, <1>7, <1>8, <1>9, DealKept

\* The write of a call about a deal.
LEMMA DealWritten ==
  ASSUME StagesApart, TypeOK, DealInv, NEW p \in Procs, NEW r,
         pc[p] = "write", call[p].deal \in DealIds,
         deal' = [deal EXCEPT ![call[p].deal] = r],
         UNCHANGED <<dropped, log>>,
         \A q \in Procs : q # p => pc'[q] = pc[q] /\ call'[q] = call[q],
         r.exists \/ (~r.live /\ r.stage = "new"),
         OwnDeal(p).exists => r.exists,
         r.exists # OwnDeal(p).exists => call[p].op = "createDeal",
         \/ pc'[p] = "idle" /\ r.stage = OwnDeal(p).stage
         \/ /\ pc'[p] = "publish" /\ call'[p] = call[p]
            /\ call[p].op = "stage" /\ r.stage = call[p].to
  PROVE  DealInv'
  <1> DEFINE d == call[p].deal
  <1>1. /\ deal'[d] = r
        /\ \A e \in DealIds : e # d => deal'[e] = deal[e]
    BY DEF TypeOK, DealTypeOK
  <1>2. \A q \in Procs, e \in DealIds :
            q # p => (Announcing(q, e)' <=> Announcing(q, e))
    BY DEF Announcing, At
  <1>3. \A e \in DealIds : ~Announcing(p, e)
    BY DEF Announcing, At
  <1>4. \A q \in Procs : q # p /\ pc[q] # "idle" /\ call[q].deal = d =>
            ~At(q, "write", "createDeal") /\ ~At(p, "write", "createDeal")
    BY DEF DealInv, CreatesAlone, At
  <1>5. call[p].op = "stage" =>
            \A q \in Procs : q # p => ~Staging(q, d)
    BY DEF StagesApart, Staging
  <1>6. \A q \in Procs : DealRead(q)'
    <2>1. ASSUME NEW q \in Procs, q # p
          PROVE  DealRead(q)'
      <3>1. CASE pc[q] = "idle" \/ call[q].deal \notin DealIds
        BY <2>1, <3>1 DEF DealInv, DealRead, At, DealOps
      <3>2. CASE pc[q] # "idle" /\ call[q].deal \in DealIds /\ call[q].deal # d
        BY <1>1, <2>1, <3>2 DEF DealInv, DealRead, At, OwnDeal
      <3>3. CASE pc[q] # "idle" /\ call[q].deal = d
        <4>1. /\ pc'[q] = pc[q] /\ call'[q] = call[q] /\ deal'[call[q].deal] = r
              /\ OwnDeal(q) = OwnDeal(p) /\ DealRead(q)
          BY <1>1, <2>1, <3>3 DEF OwnDeal, DealInv
        <4>2. call[q].op = "stage" => r.stage = OwnDeal(q).stage
          BY <1>5, <2>1, <3>3, <4>1 DEF Staging
        <4> QED
          BY <1>4, <2>1, <3>3, <4>1, <4>2 DEF DealRead, At, OwnDeal
      <3> QED  BY <3>1, <3>2, <3>3
    <2>2. ASSUME pc'[p] = "idle"
          PROVE  DealRead(p)'
      BY <2>2 DEF DealRead
    <2>3. ASSUME pc'[p] = "publish", call'[p] = call[p],
                 call[p].op = "stage", r.stage = call[p].to
          PROVE  DealRead(p)'
      BY <1>1, <2>3 DEF DealInv, DealRead, At, OwnDeal
    <2> QED  BY <2>1, <2>2, <2>3
  <1>7. ASSUME NEW e \in DealIds, ~dropped'[e]
        PROVE  DealTold(e)'
    <2>1. DealTold(e) /\ ~dropped[e]
      BY <1>7 DEF DealInv
    <2>2. CASE e # d \/ (pc'[p] = "idle" /\ r.stage = OwnDeal(p).stage)
      <3>1. ~Announcing(p, e)' /\ deal'[e].stage = deal[e].stage
        BY <1>1, <2>2 DEF Announcing, At, OwnDeal
      <3> QED  BY <1>2, <1>3, <2>1, <3>1 DEF DealTold
    <2>3. CASE e = d /\ pc'[p] = "publish" /\ call'[p] = call[p]
               /\ call[p].op = "stage"
      <3>1. Announcing(p, e)'
        BY <2>3 DEF Announcing, At
      <3>2. call[p].from = deal[d].stage
        BY <2>3 DEF DealInv, DealRead, At, OwnDeal
      <3>3. \A q \in Procs : ~Announcing(q, d)
        BY <1>3, <1>5, <2>3 DEF Announcing, Staging, At
      <3>4. Replay(log, d, deal[d].stage)
        BY <2>1, <2>3, <3>3 DEF DealTold
      <3> QED  BY <1>2, <2>3, <3>1, <3>2, <3>3, <3>4 DEF DealTold
    <2> QED  BY <2>2, <2>3
  <1>8. \A e \in DealIds : DealTold(e)'
    BY <1>7 DEF DealTold
  <1>9. \A q \in Procs : CreatesAlone(q)'
    BY AloneKept
  <1>10. \A e \in DealIds : ~deal'[e].exists => ~deal'[e].live /\ deal'[e].stage = "new"
    BY <1>1 DEF DealInv
  <1> QED  BY <1>6, <1>8, <1>9, <1>10 DEF DealInv

LEMMA DealWritesKept ==
  ASSUME StagesApart, TypeOK, DealInv, NEW p \in Procs,
         \/ InsertsDeal(p) \/ MovesDeal(p) \/ WritesStage(p) \/ DeletesDeal(p)
  PROVE  DealInv'
  <1>1. /\ pc[p] = "write" /\ call[p].op \in DealOps
        /\ UNCHANGED <<dropped, log>>
        /\ \A q \in Procs : q # p => pc'[q] = pc[q] /\ call'[q] = call[q]
    BY DEF InsertsDeal, MovesDeal, WritesStage, DeletesDeal, WritesDeal, At,
           DealOps, Returns, GoesToPublish, engineVars, TypeOK, EngineTypeOK
  <1>2. call[p] \in Call /\ call[p].deal \in DealIds
    BY <1>1, UnderWay DEF DealInv, DealRead, TypeOK
  <1>3. OwnDeal(p) \in Deal
    BY <1>2 DEF OwnDeal, TypeOK, DealTypeOK
  <1>4. ~OwnDeal(p).exists => ~OwnDeal(p).live /\ OwnDeal(p).stage = "new"
    BY <1>2 DEF OwnDeal, DealInv
  <1>5. CASE InsertsDeal(p)
    <2> DEFINE r == [exists |-> TRUE, live |-> TRUE, stage |-> "new",
                     customer |-> call[p].customer]
    <2>1. /\ deal' = [deal EXCEPT ![call[p].deal] = r]
          /\ At(p, "write", "createDeal")
      BY <1>5 DEF InsertsDeal, WritesDeal
    <2>2. OwnDeal(p).stage = "new"
      BY <1>1, <1>4, <2>1 DEF DealInv, DealRead
    <2>3. r.exists /\ r.stage = "new" /\ call[p].op = "createDeal"
      BY <2>1 DEF At
    <2>4. pc'[p] = "idle"
      BY <1>5 DEF InsertsDeal, Returns, TypeOK, EngineTypeOK
    <2> HIDE DEF r
    <2> QED  BY <1>1, <1>2, <2>1, <2>2, <2>3, <2>4, DealWritten
  <1>6. CASE MovesDeal(p)
    <2> DEFINE r == [OwnDeal(p) EXCEPT !.customer = call[p].customer]
    <2>1. deal' = [deal EXCEPT ![call[p].deal] = r]
      BY <1>6 DEF MovesDeal, WritesDeal
    <2>2. /\ r.stage = OwnDeal(p).stage /\ r.exists = OwnDeal(p).exists
          /\ r.live = OwnDeal(p).live
      BY <1>3 DEF Deal
    <2>3. pc'[p] = "idle"
      BY <1>6 DEF MovesDeal, Returns, TypeOK, EngineTypeOK
    <2> HIDE DEF r
    <2> QED  BY <1>1, <1>2, <1>4, <2>1, <2>2, <2>3, DealWritten
  <1>7. CASE WritesStage(p)
    <2> DEFINE r == [OwnDeal(p) EXCEPT !.stage = call[p].to]
    <2>1. /\ deal' = [deal EXCEPT ![call[p].deal] = r]
          /\ At(p, "write", "stage")
      BY <1>7 DEF WritesStage, WritesDeal
    <2>2. r.stage = call[p].to /\ r.exists = OwnDeal(p).exists
      BY <1>3 DEF Deal
    <2>3. OwnDeal(p).exists /\ call[p].op = "stage"
      BY <1>1, <2>1 DEF DealInv, DealRead, At
    <2>4. pc'[p] = "publish" /\ call'[p] = call[p]
      BY <1>7 DEF WritesStage, GoesToPublish, TypeOK, EngineTypeOK
    <2> HIDE DEF r
    <2> QED  BY <1>1, <1>2, <2>1, <2>2, <2>3, <2>4, DealWritten
  <1>8. CASE DeletesDeal(p)
    <2> DEFINE r == [OwnDeal(p) EXCEPT !.live = FALSE]
    <2>1. deal' = [deal EXCEPT ![call[p].deal] = r]
      BY <1>8 DEF DeletesDeal, WritesDeal
    <2>2. /\ r.stage = OwnDeal(p).stage /\ r.exists = OwnDeal(p).exists
          /\ ~r.live
      BY <1>3 DEF Deal
    <2>3. pc'[p] = "idle"
      BY <1>8 DEF DeletesDeal, Returns, TypeOK, EngineTypeOK
    <2> HIDE DEF r
    <2> QED  BY <1>1, <1>2, <1>4, <2>1, <2>2, <2>3, DealWritten
  <1> QED  BY <1>5, <1>6, <1>7, <1>8

\* The event of a change, and an event that is about no deal.
LEMMA DealPublished ==
  ASSUME StagesApart, TypeOK, DealInv, NEW p \in Procs, NEW e \in Event,
         Publishes(p, e), pc[p] = "publish", UNCHANGED dealVars,
         \/ e.deal = NoDeal /\ call[p].op # "stage"
         \/ /\ call[p].op = "stage" /\ e.deal = call[p].deal
            /\ e.from = call[p].from /\ e.to = call[p].to
  PROVE  DealInv'
  <1>1. /\ log' = Append(log, e) /\ log \in Seq(Event)
        /\ pc'[p] = "rules" /\ call' = call
        /\ \A q \in Procs : q # p => pc'[q] = pc[q]
        /\ UNCHANGED <<deal, dropped>>
    BY DEF Publishes, TypeOK, EngineTypeOK, dealVars
  <1>2. \A q \in Procs : DealRead(q)' /\ CreatesAlone(q)'
    <2>1. \A q \in Procs : DealRead(q)'
      BY <1>1 DEF DealInv, DealRead, At, OwnDeal
    <2> QED  BY <1>1, <2>1, AloneKept
  <1>3. ASSUME NEW d \in DealIds, ~dropped[d]
        PROVE  DealTold(d)'
    <2>1. /\ ~Announcing(p, d)'
          /\ \A q \in Procs : q # p => (Announcing(q, d)' <=> Announcing(q, d))
      BY <1>1 DEF Announcing, At
    <2>2. CASE e.deal # d
      <3>1. ~Announcing(p, d)
        BY <2>2 DEF Announcing, At
      <3>2. \A s : Replay(log, d, s) => Replay(log', d, s)
        BY <1>1, <2>2, ReplayOther
      <3> QED  BY <1>1, <1>3, <2>1, <3>1, <3>2 DEF DealInv, DealTold
    <2>3. CASE e.deal = d
      <3>1. /\ call[p].op = "stage" /\ call[p].deal = d
            /\ e.from = call[p].from /\ e.to = call[p].to
        BY <2>3
      <3>2. Announcing(p, d)
        BY <3>1 DEF Announcing, At
      <3>3. /\ Replay(log, d, e.from) /\ e.from # e.to
            /\ deal[d].stage = e.to
        BY <1>3, <3>1, <3>2 DEF DealInv, DealTold, DealRead, At, OwnDeal
      <3>4. Replay(log', d, deal[d].stage)
        BY <1>1, <2>3, <3>3, ReplayOwn
      <3>5. \A q \in Procs : ~Announcing(q, d)'
        <4>1. \A q \in Procs : q # p => ~Announcing(q, d)
          BY <3>1 DEF StagesApart, Staging, Announcing, At
        <4> QED  BY <2>1, <4>1
      <3> QED  BY <1>1, <3>4, <3>5 DEF DealTold
    <2> QED  BY <2>2, <2>3
  <1>4. \A d \in DealIds : DealTold(d)'
    BY <1>1, <1>3 DEF DealTold
  <1> QED  BY <1>1, <1>2, <1>4 DEF DealInv

LEMMA CustomerKeepsDeals ==
  ASSUME StagesApart, TypeOK, DealInv, NEW p \in Procs, CustomerStep(p),
         UNCHANGED dealVars
  PROVE  DealInv'
  <1>1. CASE CustomerCalls(p)
    <2>1. PICK op \in {"createCustomer", "updateCustomer", "deleteCustomer"},
               c \in CustomerIds, e \in Emails \cup {NoEmail} :
                  Enter(p, CustomerCall(op, c, e))
      BY <1>1 DEF CustomerCalls, CallCreateCustomer, CallUpdateCustomer,
                  CallDeleteCustomer, EnterGiving
    <2> DEFINE c0 == CustomerCall(op, c, e)
    <2>2. c0.op = op /\ c0.deal = NoDeal
      BY DEF CustomerCall
    <2> HIDE DEF c0
    <2>3. /\ pc[p] = "idle" /\ c0.op \in Serves[p]
          /\ pc'[p] = "write" /\ call'[p] = c0
          /\ \A q \in Procs : q # p => pc'[q] = pc[q] /\ call'[q] = call[q]
          /\ log' = log
      BY <2>1 DEF Enter, TypeOK, EngineTypeOK, engineVars, c0
    <2>4. DealRead(p)'
      BY <2>2, <2>3 DEF DealRead, At, DealOps
    <2>5. \A d \in DealIds : ~Announcing(p, d) /\ ~Announcing(p, d)'
      BY <2>3 DEF Announcing, At
    <2>6. \A q \in Procs : CreatesAlone(q)'
      BY <2>2, <2>3, AloneKept, EngineAssumption DEF DealOps
    <2> QED  BY <2>3, <2>4, <2>5, <2>6, DealKept DEF dealVars
  <1>2. CASE InsertsCustomer(p) \/ UpdatesCustomer(p) \/ DeletesCustomer(p)
    <2>1. /\ pc[p] = "write" /\ log' = log
          /\ call[p].op \in {"createCustomer", "updateCustomer", "deleteCustomer"}
          /\ \A q \in Procs : q # p => pc'[q] = pc[q] /\ call'[q] = call[q]
          /\ pc'[p] = "idle" \/ (pc'[p] = "publish" /\ call'[p] = call[p])
      BY <1>2 DEF InsertsCustomer, UpdatesCustomer, DeletesCustomer,
           WritesCustomer, At, Returns, GoesToPublish, engineVars, TypeOK,
           EngineTypeOK
    <2>2. DealRead(p)'
      BY <2>1 DEF DealInv, DealRead, At
    <2>3. \A d \in DealIds : ~Announcing(p, d) /\ ~Announcing(p, d)'
      BY <2>1 DEF Announcing, At
    <2>4. \A q \in Procs : CreatesAlone(q)'
      BY <2>1, AloneKept
    <2> QED  BY <2>1, <2>2, <2>3, <2>4, DealKept DEF dealVars
  <1>3. CASE PublishesCreated(p)
    <2> DEFINE e == [key |-> "customer_created", customer |-> call[p].customer,
                     deal |-> NoDeal, from |-> "new", to |-> "new"]
    <2>1. /\ pc[p] = "publish" /\ call[p].op = "createCustomer"
          /\ Publishes(p, e)
      BY <1>3 DEF PublishesCreated, At
    <2>2. call[p] \in Call
      BY <2>1, UnderWay DEF TypeOK
    <2>3. e \in Event /\ e.deal = NoDeal
      BY <2>2 DEF Call, Event
    <2> HIDE DEF e
    <2> QED  BY <2>1, <2>3, DealPublished
  <1> QED  BY <1>1, <1>2, <1>3 DEF CustomerStep

LEMMA DealStepKept ==
  ASSUME StagesApart, TypeOK, DealInv, NEW p \in Procs, DealStep(p)
  PROVE  DealInv'
  <1>1. CASE PublishesStage(p)
    <2> DEFINE e == [key |-> "deal_stage_changed",
                     customer |-> call[p].customer, deal |-> call[p].deal,
                     from |-> call[p].from, to |-> call[p].to]
    <2>1. /\ pc[p] = "publish" /\ call[p].op = "stage"
          /\ Publishes(p, e) /\ UNCHANGED dealVars
      BY <1>1 DEF PublishesStage, At
    <2>2. call[p] \in Call
      BY <2>1, UnderWay DEF TypeOK
    <2>3. /\ e \in Event /\ e.deal = call[p].deal
          /\ e.from = call[p].from /\ e.to = call[p].to
      BY <2>2 DEF Call, Event
    <2> HIDE DEF e
    <2> QED  BY <2>1, <2>3, DealPublished
  <1> QED  BY <1>1, DealCallsKept, DealWritesKept DEF DealStep

LEMMA EngineKeepsDeals ==
  ASSUME TypeOK, DealInv, NEW p \in Procs, EngineStep(p), UNCHANGED dealVars
  PROVE  DealInv'
  <1>1. /\ pc[p] = "rules" /\ log' = log
        /\ \A q \in Procs : q # p => pc'[q] = pc[q] /\ call'[q] = call[q]
        /\ pc'[p] = "idle" \/ (pc'[p] = "rules" /\ call'[p] = call[p])
    BY DEF EngineStep, RuleSkipped, RuleSends, RuleThrows, Audits, AtRule,
           Leave, Returns, TypeOK, EngineTypeOK
  <1>2. DealRead(p)'
    BY <1>1 DEF DealInv, DealRead, At
  <1>3. \A d \in DealIds : ~Announcing(p, d) /\ ~Announcing(p, d)'
    BY <1>1 DEF Announcing, At
  <1>4. \A q \in Procs : CreatesAlone(q)'
    BY <1>1, AloneKept
  <1> QED  BY <1>1, <1>2, <1>3, <1>4, DealKept DEF dealVars

\* A call that is cut off before its event marks the deal.
LEMMA FailsKeepsDeals ==
  ASSUME TypeOK, DealInv, NEW p \in Procs, DealFails(p)
  PROVE  DealInv'
  <1>1. /\ UNCHANGED <<log, deal>>
        /\ pc'[p] = "idle"
        /\ \A q \in Procs : q # p => pc'[q] = pc[q] /\ call'[q] = call[q]
        /\ \A d \in DealIds : dropped'[d] <=> dropped[d] \/ Announcing(p, d)
    BY DEF DealFails, Fails, Leave, Returns, TypeOK, EngineTypeOK, Announcing
  <1>2. \A q \in Procs : DealRead(q)'
    <2>1. ASSUME NEW q \in Procs, q # p
          PROVE  DealRead(q)'
      BY <1>1, <2>1 DEF DealInv, DealRead, At, OwnDeal
    <2>2. DealRead(p)'
      BY <1>1 DEF DealRead
    <2> QED  BY <2>1, <2>2
  <1>3. \A q \in Procs, d \in DealIds :
            /\ q # p => (Announcing(q, d)' <=> Announcing(q, d))
            /\ ~Announcing(p, d)'
    BY <1>1 DEF Announcing, At
  <1>4. \A d \in DealIds : DealTold(d)'
    BY <1>1, <1>3 DEF DealInv, DealTold
  <1>5. \A q \in Procs : CreatesAlone(q)'
    BY <1>1, AloneKept
  <1> QED  BY <1>1, <1>2, <1>4, <1>5 DEF DealInv

\* As long as no two calls change the stage of one deal at once, whatever is
\* created, moved or deleted meanwhile and whichever rules run next to it, the
\* events of a deal replay its history.
THEOREM EventsReplayHistory == Spec /\ []StagesApart => []EventsReplay
  <1>1. StagesApart /\ TypeOK /\ DealInv /\ [Next]_vars => DealInv'
    <2> SUFFICES ASSUME StagesApart, TypeOK, DealInv, [Next]_vars
                 PROVE  DealInv'
      OBVIOUS
    <2>1. CASE UNCHANGED vars
      <3>1. UNCHANGED <<deal, dropped, log, pc, call>>
        BY <2>1 DEF vars
      <3> QED
        BY <3>1 DEF DealInv, DealTold, DealRead, CreatesAlone, Announcing, At,
                    OwnDeal
    <2> QED
      BY <2>1, CustomerKeepsDeals, DealStepKept, EngineKeepsDeals,
         FailsKeepsDeals DEF Next
  <1>2. DealInv => EventsReplay
    BY DEF DealInv, DealTold, EventsReplay, Announcing, At, On
  <1> QED  BY <1>1, <1>2, DealInvInit, TypeCorrect, PTL DEF Spec
=============================================================================
