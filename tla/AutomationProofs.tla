-------------------------- MODULE AutomationProofs --------------------------
(***************************************************************************)
(* Proofs about Automation, for any rules, templates, conditions, events,  *)
(* environments and administrators, and any number of requests.            *)
(***************************************************************************)
EXTENDS Automation, WellFoundedInduction, TLAPS

----------------------------------------------------------------------------
(* Types.  What is being sent is what its record says, and what is known   *)
(* of it comes from the provider.                                          *)

UnderWay ==
    \A n \in Requests :
        /\ pc[n] \in {"send", "update"} =>
              /\ record[RecordOf(n)] # None
              /\ record[RecordOf(n)].channel = msg[n].channel
              /\ record[RecordOf(n)].to = msg[n].to
              /\ record[RecordOf(n)].status = "queued"
        /\ pc[n] = "update" => \E a \in Answers :
              msg[n].result = Send(env, msg[n].channel, msg[n].to, a)

LEMMA ContentIs ==
  ASSUME NEW c \in Contents, NEW d \in Content, NEW F \in SUBSET RuleFields
  PROVE  [f \in RuleFields |-> IF f \in F THEN c[f] ELSE d[f]] \in Content
  <1> DEFINE g == [f \in RuleFields |-> IF f \in F THEN c[f] ELSE d[f]]
  <1>1. c \in Content
    BY AutomationAssumption
  <1>2. /\ g.key \in {x.key : x \in Contents} /\ g.enabled \in BOOLEAN
        /\ g.conditions \in {x.conditions : x \in Contents} /\ g.action \in Actions
    BY <1>1 DEF Content, RuleFields
  <1>3. g = [key |-> g.key, enabled |-> g.enabled, conditions |-> g.conditions,
             action |-> g.action]
    BY DEF RuleFields
  <1> QED  BY <1>2, <1>3 DEF Content

LEMMA InitType == Init => TypeOK
  <1> SUFFICES ASSUME Init
               PROVE  TypeOK
    OBVIOUS
  <1>1. (CHOOSE c \in Contents : TRUE) \in Content
    BY AutomationAssumption
  <1>2. rules \in [RuleIds -> Rule]
    BY <1>1, AutomationAssumption DEF Init, Rule, RuleIds
  <1>3. templates \in [TemplateIds -> Template]
    BY AutomationAssumption DEF Init, Template
  <1>4. \A T : IsPartial(<<>>, T)
    BY DEF IsPartial
  <1> QED  BY <1>2, <1>3, <1>4, AutomationAssumption DEF Init, TypeOK, Sending

LEMMA AdministratorsType ==
  ASSUME TypeOK,
         \/ CustomerChanges \/ RuleCreated \/ TemplateCreated
         \/ \E a \in Admins : AdminChecks(a) \/ AdminWrites(a)
  PROVE  TypeOK'
  <1>1. CASE CustomerChanges
    <2>1. customer' \in Customer
      BY <1>1, AutomationAssumption DEF CustomerChanges, TypeOK, Customer
    <2> QED  BY <1>1, <2>1, AutomationAssumption
             DEF CustomerChanges, MayChange, TypeOK, tables, requests, Sending
  <1>2. CASE RuleCreated
    <2>1. rules' \in [RuleIds -> Rule]
      BY <1>2, AutomationAssumption DEF RuleCreated, TypeOK, Rule
    <2> QED  BY <1>2, <2>1, AutomationAssumption
             DEF RuleCreated, MayChange, TypeOK, requests, Sending
  <1>3. CASE TemplateCreated
    <2>1. templates' \in [TemplateIds -> Template]
      BY <1>3 DEF TemplateCreated, TypeOK, Template
    <2> QED  BY <1>3, <2>1, AutomationAssumption
             DEF TemplateCreated, MayChange, TypeOK, requests, Sending
  <1>4. ASSUME NEW a \in Admins, AdminChecks(a)
        PROVE  TypeOK'
    <2>1. /\ call' \in [Admins -> Call \cup {None}]
          /\ MayChange
          /\ UNCHANGED <<env, customer, tables, requests>>
      BY <1>4, SMTT(30) DEF AdminChecks, Checks, TypeOK, Call
    <2> QED  BY <2>1, AutomationAssumption DEF MayChange, TypeOK, tables, requests, Sending
  <1>5. ASSUME NEW a \in Admins, AdminWrites(a)
        PROVE  TypeOK'
    <2>1. call[a] \in Call
      BY <1>5 DEF AdminWrites, RuleUpdates, RuleRemoved, TemplateUpdates, TemplateDeleted,
                  Writes, TypeOK
    <2>2. /\ call' \in [Admins -> Call \cup {None}]
          /\ UNCHANGED <<env, customer, requests, changes>>
      BY <1>5 DEF AdminWrites, RuleUpdates, RuleRemoved, TemplateUpdates, TemplateDeleted,
                  Writes, TypeOK
    <2>3. /\ rules' \in [RuleIds -> Rule] /\ templates' \in [TemplateIds -> Template]
          /\ removed' \subseteq ({"rule"} \X RuleIds) \cup ({"template"} \X TemplateIds)
      <3>1. ASSUME RuleUpdates(a)
            PROVE  rules' \in [RuleIds -> Rule] /\ UNCHANGED <<templates, removed>>
        <4>1. call[a].id \in RuleIds
          BY <3>1, <2>1 DEF RuleUpdates, Writes, Call
        <4> DEFINE id == call[a].id
                   new(c, F) == [f \in RuleFields |-> IF f \in F THEN c[f]
                                                     ELSE rules[id].content[f]]
        <4>2. PICK c \in Contents, F \in Patches :
                 rules' = [rules EXCEPT ![id].content = new(c, F)]
          BY <3>1 DEF RuleUpdates
        <4>3. new(c, F) \in Content
          <5>1. rules[id].content \in Content
            BY <4>1 DEF TypeOK, Rule
          <5>2. F \in SUBSET RuleFields
            BY AutomationAssumption
          <5> HIDE DEF id
          <5> QED  BY <5>1, <5>2, ContentIs
        <4> HIDE DEF new
        <4> QED  BY <3>1, <4>1, <4>2, <4>3 DEF RuleUpdates, TypeOK, Rule
      <3>2. ASSUME RuleRemoved(a)
            PROVE  /\ rules' \in [RuleIds -> Rule] /\ UNCHANGED templates
                   /\ removed' \subseteq ({"rule"} \X RuleIds)
                                        \cup ({"template"} \X TemplateIds)
        <4>1. call[a].id \in RuleIds
          BY <3>2, <2>1 DEF RuleRemoved, Writes, Call
        <4>2. rules' \in [RuleIds -> Rule]
          <5> DEFINE r == rules[call[a].id]
          <5>1. /\ rules \in [RuleIds -> Rule]
                /\ rules' = [rules EXCEPT ![call[a].id] = [r EXCEPT !.live = FALSE]]
            BY <3>2 DEF RuleRemoved, TypeOK
          <5>2. r \in Rule
            BY <4>1, <5>1
          <5>3. [r EXCEPT !.live = FALSE] \in Rule
            <6> HIDE DEF r
            <6> QED  BY <5>2 DEF Rule
          <5> QED  BY <4>1, <5>1, <5>3
        <4>3. <<"rule", call[a].id>> \in {"rule"} \X RuleIds
          BY <4>1
        <4> QED  BY <3>2, <4>2, <4>3 DEF RuleRemoved, TypeOK
      <3>3. ASSUME TemplateUpdates(a)
            PROVE  templates' \in [TemplateIds -> Template] /\ UNCHANGED <<rules, removed>>
        <4>1. call[a].id \in TemplateIds
          BY <3>3, <2>1 DEF TemplateUpdates, Writes, Call
        <4>2. PICK k \in Keys, active \in BOOLEAN :
                 \/ templates' = templates
                 \/ templates' = [templates EXCEPT ![call[a].id].key = k,
                                                  ![call[a].id].active = active]
          BY <3>3 DEF TemplateUpdates
        <4>3. templates \in [TemplateIds -> Template]
          BY DEF TypeOK
        <4>4. templates' \in [TemplateIds -> Template]
          <5> DEFINE t == templates[call[a].id]
                     u == [[t EXCEPT !.key = k] EXCEPT !.active = active]
          <5>1. t \in Template
            BY <4>1, <4>3
          <5>2. u \in Template
            <6> HIDE DEF t
            <6> QED  BY <5>1 DEF Template
          <5>3. templates' = templates
                  \/ templates' = [templates EXCEPT ![call[a].id] = u]
            BY <4>1, <4>2, <4>3
          <5> HIDE DEF u
          <5> QED  BY <4>1, <4>3, <5>2, <5>3
        <4> QED  BY <3>3, <4>4 DEF TemplateUpdates
      <3>4. ASSUME TemplateDeleted(a)
            PROVE  /\ templates' \in [TemplateIds -> Template] /\ UNCHANGED rules
                   /\ removed' \subseteq ({"rule"} \X RuleIds)
                                        \cup ({"template"} \X TemplateIds)
        <4>1. call[a].id \in TemplateIds
          BY <3>4, <2>1 DEF TemplateDeleted, Writes, Call
        <4>2. templates' \in [TemplateIds -> Template]
          <5> DEFINE t == templates[call[a].id]
          <5>1. t \in Template
            BY <4>1 DEF TypeOK
          <5>2. [t EXCEPT !.live = FALSE, !.active = FALSE] \in Template
            BY <5>1 DEF Template
          <5>3. templates' = [templates EXCEPT ![call[a].id] =
                                [t EXCEPT !.live = FALSE, !.active = FALSE]]
            BY <3>4, <4>1 DEF TemplateDeleted, TypeOK
          <5> HIDE DEF t
          <5> QED  BY <5>2, <5>3 DEF TypeOK
        <4>3. <<"template", call[a].id>> \in {"template"} \X TemplateIds
          BY <4>1
        <4> QED  BY <3>4, <4>2, <4>3 DEF TemplateDeleted, TypeOK
      <3> QED  BY <1>5, <3>1, <3>2, <3>3, <3>4 DEF AdminWrites, TypeOK
    <2> QED  BY <2>2, <2>3 DEF TypeOK, requests, Sending
  <1> QED  BY <1>1, <1>2, <1>3, <1>4, <1>5

\* What a provider answers.
LEMMA SendType ==
  ASSUME NEW e \in Env, NEW channel \in Channels, NEW to, NEW a
  PROVE  /\ Send(e, channel, to, a) \in [provider : ProviderNames \cup {"none"},
                                       error : {"none", "config", "temporary", "plain"}]
         /\ Send(e, channel, to, a).error = "none" =>
               /\ Send(e, channel, to, a).provider \in ProviderNames
               /\ e.mode # "live" => Send(e, channel, to, a) = FakeSend(channel)
               /\ e.mode = "live" =>
                     Send(e, channel, to, a) = RealSend(e, channel, to, a)
  <1> DEFINE real == RealSend(e, channel, to, a)
             fake == FakeSend(channel)
             result == [provider : ProviderNames \cup {"none"},
                        error : {"none", "config", "temporary", "plain"}]
  <1>1. /\ real \in result /\ real.error # "config"
        /\ real.error = "none" => real.provider \in ProviderNames
    BY DEF RealSend, EmailSend, SmsSend, PushSend, Returned, Thrown, ProviderNames, Channels
  <1>2. fake \in result /\ fake.provider \in ProviderNames
    BY DEF FakeSend, Returned, ProviderNames, Channels
  <1>3. FallbackSend(real, fake) = real
    BY <1>1 DEF FallbackSend
  <1>4. Send(e, channel, to, a) = IF e.mode = "live" THEN real ELSE fake
    BY <1>3 DEF Send, Chosen, Env
  <1> QED  BY <1>1, <1>2, <1>4

\* What Composes does when a recipient that is found is an address.
Begins(n, channel, to, r) ==
    \/ /\ pc' = [pc EXCEPT ![n] = "create"]
       /\ to \in Address
       /\ msg' = [msg EXCEPT ![n] = [channel |-> channel, to |-> to, rule |-> r,
                                    result |-> Returned("pending")]]
    \/ /\ pc' = [pc EXCEPT ![n] = "threw"]
       /\ UNCHANGED msg

LEMMA Composed ==
  ASSUME TypeOK, NEW n \in Requests, NEW channel \in ChannelNames, NEW to, NEW r \in 0 .. NRules,
         ~Sending(n), Begins(n, channel, to, r)
  PROVE  /\ pc' \in [Requests -> {"none", "rules", "create", "send", "update", "done", "threw"}]
         /\ msg' \in [Requests -> Message \cup {None}]
         /\ pc'[n] # "none"
         /\ Sending(n)' <=> msg'[n] # None
         /\ \A m \in Requests \ {n} : pc'[m] = pc[m] /\ msg'[m] = msg[m]
  <1>1. to \in Address =>
           [channel |-> channel, to |-> to, rule |-> r, result |-> Returned("pending")]
           \in Message
    BY DEF Message, Returned, ProviderNames
  <1> QED  BY <1>1, AutomationAssumption DEF TypeOK, Begins, Sending

LEMMA RecipientType ==
  ASSUME TypeOK, NEW x \in Actions, x.type = "sendMessage", NEW e, ResolveTo(x, e) # None
  PROVE  ResolveTo(x, e) \in Address
  BY AutomationAssumption DEF TypeOK, ResolveTo, Customer

LEMMA RulesType ==
  ASSUME TypeOK, NEW n \in Requests,
         \/ Publishes(n) \/ RunEnds(n)
         \/ \E r \in RuleIds : SkipsRule(n, r) \/ ExecutesAction(n, r)
  PROVE  TypeOK'
  <1>1. CASE Publishes(n)
    <2> DEFINE found(e) == [r \in {r \in RuleIds : InForce(r, e.key)} |-> rules[r].content]
               owed(e) == [r \in {r \in DOMAIN found(e) :
                                      /\ Matches(found(e)[r].conditions, e.data)
                                      /\ found(e)[r].action.type = "sendMessage"} |->
                               found(e)[r].action]
    <2>1. PICK e \in Events : /\ job' = [job EXCEPT ![n] = e]
                              /\ read' = [read EXCEPT ![n] = found(e)]
                              /\ due' = [due EXCEPT ![n] = owed(e)]
      BY <1>1 DEF Publishes
    <2>2. IsPartial(found(e), Content)
      BY DEF TypeOK, Rule, IsPartial
    <2>3. IsPartial(owed(e), Actions)
      <3>1. \A r \in DOMAIN found(e) : r \in RuleIds /\ found(e)[r].action \in Actions
        BY DEF TypeOK, Rule, Content
      <3> HIDE DEF found
      <3> QED  BY <3>1 DEF IsPartial
    <2> HIDE DEF found, owed
    <2> QED  BY <1>1, <2>1, <2>2, <2>3, AutomationAssumption, ZenonT(30)
             DEF Publishes, TypeOK, tables, Sending
  <1>2. CASE RunEnds(n)
    BY <1>2 DEF RunEnds, TypeOK, tables, Sending
  <1>3. ASSUME NEW r \in RuleIds, Taken(n, r)
        PROVE  DOMAIN read' = Requests /\ \A m \in Requests : IsPartial(read'[m], Content)
    <2> DEFINE rest == [q \in DOMAIN read[n] \ {r} |-> read[n][q]]
    <2>3. IsPartial(rest, Content)
      BY DEF TypeOK, IsPartial
    <2>4. read' = [read EXCEPT ![n] = rest]
      BY <1>3 DEF Taken
    <2> HIDE DEF rest
    <2> QED  BY <2>3, <2>4 DEF TypeOK
  <1>4. ASSUME NEW r \in RuleIds, SkipsRule(n, r)
        PROVE  TypeOK'
    BY <1>4, <1>3 DEF SkipsRule, TypeOK, tables, Sending
  <1>5. ASSUME NEW r \in RuleIds, ExecutesAction(n, r)
        PROVE  TypeOK'
    <2> DEFINE rule == NextRule(n, r)
               to == ResolveTo(rule.action, job[n])
    <2>1. rule \in Content
      BY <1>5 DEF ExecutesAction, AtRule, NextRule, TypeOK, IsPartial
    <2>2. rule.action \in Actions /\ rule.action.channel \in ChannelNames
      BY <1>5, <2>1 DEF ExecutesAction, Content, ChannelNames
    <2>3. to # None => to \in Address
      BY <1>5, <2>2, RecipientType DEF ExecutesAction
    <2>4. Begins(n, rule.action.channel, to, r)
      BY <1>5, <2>3 DEF ExecutesAction, Composes, Begins
    <2>5. r \in 0 .. NRules /\ ~Sending(n) /\ pc[n] # "none"
      BY <1>5, AutomationAssumption DEF RuleIds, ExecutesAction, AtRule, Sending
    <2> HIDE DEF rule, to
    <2>6. /\ pc' \in [Requests -> {"none", "rules", "create", "send", "update", "done", "threw"}]
          /\ msg' \in [Requests -> Message \cup {None}]
          /\ pc'[n] # "none"
          /\ Sending(n)' <=> msg'[n] # None
          /\ \A m \in Requests \ {n} : pc'[m] = pc[m] /\ msg'[m] = msg[m]
      BY <2>2, <2>3, <2>4, <2>5, Composed
    <2> QED  BY <1>5, <1>3, <2>5, <2>6 DEF ExecutesAction, TypeOK, tables, Sending
  <1> QED  BY <1>1, <1>2, <1>4, <1>5

LEMMA TestType ==
  ASSUME TypeOK, NEW n \in Requests, TestSendBegins(n)
  PROVE  TypeOK'
  <1> DEFINE to(dto) == IF ~dto.customer \/ dto.channel = "push" THEN dto.to
                        ELSE IF dto.channel = "email" THEN customer.email
                        ELSE customer.phone
  <1>1. PICK dto \in TestSends :
           /\ job' = [job EXCEPT ![n] = dto]
           /\ Composes(n, dto.channel, to(dto), 0,
                 /\ dto.customer => customer.live
                 /\ to(dto) # None
                 /\ ValidateRecipient(dto.channel, to(dto)))
    BY DEF TestSendBegins
  <1>2. dto.channel \in ChannelNames /\ (to(dto) # None => to(dto) \in Address)
    <2>1. dto \in TestSendDto
      BY AutomationAssumption
    <2>2. dto.channel \in ChannelNames
      BY <2>1 DEF TestSendDto, ChannelNames
    <2>3. /\ dto.to \in Address \cup {None}
          /\ customer.email \in Address \cup {None} /\ customer.phone \in Address \cup {None}
      BY <2>1 DEF TypeOK, TestSendDto, Customer
    <2> QED  BY <2>2, <2>3
  <1>5. Begins(n, dto.channel, to(dto), 0)
    BY <1>1, <1>2 DEF Composes, Begins
  <1>3. 0 \in 0 .. NRules /\ ~Sending(n)
    BY AutomationAssumption DEF TestSendBegins, Sending
  <1> HIDE DEF to
  <1>4. /\ pc' \in [Requests -> {"none", "rules", "create", "send", "update", "done", "threw"}]
        /\ msg' \in [Requests -> Message \cup {None}]
        /\ pc'[n] # "none"
        /\ Sending(n)' <=> msg'[n] # None
        /\ \A m \in Requests \ {n} : pc'[m] = pc[m] /\ msg'[m] = msg[m]
    BY <1>2, <1>3, <1>5, Composed
  <1>6. pc[n] = "none" /\ UNCHANGED <<env, customer, tables, call, read, record, due, changes>>
    BY DEF TestSendBegins
  <1>7. dto # None /\ dto \in Events \cup TestSends
    BY AutomationAssumption
  <1> QED  BY <1>1, <1>4, <1>6, <1>7 DEF TypeOK, tables, Sending

LEMMA UnderWayIs ==
  ASSUME TypeOK, UnderWay, NEW n \in Requests, Sending(n)
  PROVE  /\ msg[n] \in Message /\ RecordOf(n) \in Requests \X (0 .. NRules)
         /\ RecordOf(n) = <<n, msg[n].rule>>
         /\ pc[n] \in {"send", "update"} =>
               /\ record[RecordOf(n)] \in Record
               /\ msg[n].channel \in Channels
         /\ pc[n] = "update" /\ msg[n].result.error = "none" =>
               msg[n].result.provider \in ProviderNames
  <1>1. msg[n] \in Message
    BY DEF TypeOK
  <1>2. RecordOf(n) \in Requests \X (0 .. NRules)
    BY <1>1 DEF RecordOf, Message
  <1>3. pc[n] \in {"send", "update"} =>
           record[RecordOf(n)] \in Record /\ msg[n].channel \in Channels
    <2>1. record[RecordOf(n)] \in Record \cup {None}
      BY <1>2 DEF TypeOK
    <2> QED  BY <2>1 DEF UnderWay, Record
  <1>4. ASSUME pc[n] = "update", msg[n].result.error = "none"
        PROVE  msg[n].result.provider \in ProviderNames
    <2>1. PICK a \in Answers : msg[n].result = Send(env, msg[n].channel, msg[n].to, a)
      BY <1>4 DEF UnderWay
    <2>2. env \in Env
      BY AutomationAssumption DEF TypeOK
    <2> QED  BY <1>3, <1>4, <2>1, <2>2, SendType
  <1> QED  BY <1>1, <1>2, <1>3, <1>4 DEF RecordOf

LEMMA RecordType ==
  ASSUME TypeOK, UnderWay, NEW n \in Requests,
         \/ CreatesRecord(n) \/ ProviderAnswers(n)
         \/ RecordsSent(n) \/ RecordsFailed(n) \/ Fails(n)
  PROVE  TypeOK'
  <1> USE DEF Sending
  <1>1. CASE CreatesRecord(n)
    <2>1. msg[n] \in Message /\ RecordOf(n) \in Requests \X (0 .. NRules)
      BY <1>1, UnderWayIs DEF CreatesRecord
    <2>2. record' \in [Requests \X (0 .. NRules) -> Record \cup {None}]
      <3> DEFINE new == [channel |-> msg[n].channel, to |-> msg[n].to,
                         status |-> "queued", provider |-> "pending"]
      <3>1. msg[n].channel \in Channels => new \in Record
        BY <2>1 DEF Message, Record, Statuses, ProviderNames
      <3>2. \/ msg[n].channel \in Channels /\ record' = [record EXCEPT ![RecordOf(n)] = new]
            \/ UNCHANGED record
        BY <1>1 DEF CreatesRecord
      <3> HIDE DEF new
      <3> QED  BY <2>1, <3>1, <3>2 DEF TypeOK
    <2>3. /\ pc[n] = "create"
          /\ \/ pc' = [pc EXCEPT ![n] = "send"] /\ UNCHANGED msg
             \/ pc' = [pc EXCEPT ![n] = "threw"] /\ msg' = [msg EXCEPT ![n] = None]
          /\ UNCHANGED <<env, customer, tables, call, job, read, due, changes>>
      BY <1>1 DEF CreatesRecord
    <2> QED  BY <2>2, <2>3 DEF TypeOK, tables
  <1>2. CASE ProviderAnswers(n)
    <2>1. msg[n] \in Message /\ msg[n].channel \in Channels /\ env \in Env
      BY <1>2, UnderWayIs, AutomationAssumption DEF ProviderAnswers, TypeOK
    <2>2. PICK a \in Answers : msg' = [msg EXCEPT ![n].result =
                                         Send(env, msg[n].channel, msg[n].to, a)]
      BY <1>2 DEF ProviderAnswers
    <2> DEFINE s == Send(env, msg[n].channel, msg[n].to, a)
    <2>3. s \in [provider : ProviderNames \cup {"none"},
                error : {"none", "config", "temporary", "plain"}]
      BY <2>1, SendType
    <2> HIDE DEF s
    <2>4. [msg[n] EXCEPT !.result = s] \in Message
      BY <2>1, <2>3 DEF Message
    <2>5. msg' = [msg EXCEPT ![n] = [msg[n] EXCEPT !.result = s]]
      BY <2>2 DEF s, TypeOK
    <2>6. msg' \in [Requests -> Message \cup {None}] /\ msg'[n] # None
          /\ \A m \in Requests \ {n} : msg'[m] = msg[m]
      BY <2>4, <2>5, AutomationAssumption DEF TypeOK
    <2> QED  BY <1>2, <2>6 DEF ProviderAnswers, TypeOK, tables
  <1>3. CASE RecordsSent(n) \/ RecordsFailed(n)
    <2>1. record[RecordOf(n)] \in Record /\ RecordOf(n) \in Requests \X (0 .. NRules)
          /\ (RecordsSent(n) => msg[n].result.provider \in ProviderNames)
      BY <1>3, UnderWayIs DEF RecordsSent, RecordsFailed
    <2> DEFINE old == record[RecordOf(n)]
    <2>2. PICK new \in Record : record' = [record EXCEPT ![RecordOf(n)] = new]
      <3>1. CASE RecordsSent(n)
        <4> DEFINE new == [old EXCEPT !.status = "sent",
                                      !.provider = msg[n].result.provider]
        <4>1. record' = [record EXCEPT ![RecordOf(n)] = new]
          BY <3>1, <2>1 DEF RecordsSent, TypeOK
        <4>2. new \in Record
          BY <2>1, <3>1 DEF Record, Statuses
        <4> QED  BY <4>1, <4>2
      <3>2. CASE RecordsFailed(n)
        <4> DEFINE new == [old EXCEPT !.status = "failed"]
        <4>1. record' = [record EXCEPT ![RecordOf(n)] = new]
          BY <3>2, <2>1 DEF RecordsFailed, TypeOK
        <4>2. new \in Record
          BY <2>1, <3>2 DEF Record, Statuses
        <4> QED  BY <4>1, <4>2
      <3> QED  BY <1>3, <3>1, <3>2
    <2>3. record' \in [Requests \X (0 .. NRules) -> Record \cup {None}]
      BY <2>1, <2>2 DEF TypeOK
    <2> QED  BY <1>3, <2>3 DEF RecordsSent, RecordsFailed, TypeOK, tables
  <1>5. CASE Fails(n)
    BY <1>5, AutomationAssumption DEF Fails, TypeOK, tables
  <1> QED  BY <1>1, <1>2, <1>3, <1>5

LEMMA NextType == TypeOK /\ UnderWay /\ [Next]_vars => TypeOK'
  <1>1. TypeOK /\ UNCHANGED vars => TypeOK'
    BY DEF vars, TypeOK, tables, requests, Sending
  <1> QED  BY <1>1, AdministratorsType, RulesType, TestType, RecordType DEF Next

\* What a step may do: nothing to the requests, or an action of one of them,
\* which leaves the others alone.
Acts(n) ==
    \/ Publishes(n) \/ RunEnds(n)
    \/ \E r \in RuleIds : SkipsRule(n, r) \/ ExecutesAction(n, r)
    \/ TestSendBegins(n)
    \/ CreatesRecord(n) \/ ProviderAnswers(n)
    \/ RecordsSent(n) \/ RecordsFailed(n) \/ Fails(n)

Alone(m) ==
    /\ pc'[m] = pc[m] /\ job'[m] = job[m] /\ read'[m] = read[m]
    /\ msg'[m] = msg[m] /\ due'[m] = due[m]
    /\ \A r \in 0 .. NRules : record'[<<m, r>>] = record[<<m, r>>]

LEMMA StepIs ==
  ASSUME TypeOK, UnderWay, [Next]_vars
  PROVE  /\ UNCHANGED env
         /\ \/ UNCHANGED requests
            \/ \E n \in Requests : Acts(n) /\ \A m \in Requests \ {n} : Alone(m)
  <1>1. CASE UNCHANGED vars
    BY <1>1 DEF vars, requests
  <1>2. CASE \/ CustomerChanges \/ RuleCreated \/ TemplateCreated
             \/ \E a \in Admins : AdminChecks(a) \/ AdminWrites(a)
    BY <1>2
    DEF CustomerChanges, RuleCreated, TemplateCreated, AdminChecks, Checks, AdminWrites,
        RuleUpdates, RuleRemoved, TemplateUpdates, TemplateDeleted, Writes, requests
  <1>3. ASSUME NEW n \in Requests, Acts(n), NEW m \in Requests \ {n}
        PROVE  UNCHANGED env /\ Alone(m)
    <2> USE DEF TypeOK, Alone
    <2>1. CASE Publishes(n)
      BY <1>3, <2>1 DEF Publishes
    <2>2. CASE RunEnds(n)
      BY <1>3, <2>2 DEF RunEnds
    <2>3. ASSUME NEW r \in RuleIds, SkipsRule(n, r)
          PROVE  UNCHANGED env /\ Alone(m)
      BY <1>3, <2>3 DEF SkipsRule, Taken
    <2>4. ASSUME NEW r \in RuleIds, ExecutesAction(n, r)
          PROVE  UNCHANGED env /\ Alone(m)
      BY <1>3, <2>4 DEF ExecutesAction, Taken, Composes
    <2>5. CASE TestSendBegins(n)
      BY <1>3, <2>5 DEF TestSendBegins, Composes
    <2>6. CASE CreatesRecord(n) \/ RecordsSent(n) \/ RecordsFailed(n)
      <3>1. RecordOf(n) = <<n, msg[n].rule>> /\ \A r : <<m, r>> # RecordOf(n)
        BY <1>3 DEF RecordOf
      <3>2. \A r \in 0 .. NRules : record'[<<m, r>>] = record[<<m, r>>]
        BY <2>6, <3>1 DEF CreatesRecord, RecordsSent, RecordsFailed
      <3> QED  BY <1>3, <2>6, <3>2 DEF CreatesRecord, RecordsSent, RecordsFailed
    <2>7. CASE ProviderAnswers(n)
      BY <1>3, <2>7 DEF ProviderAnswers
    <2>8. CASE Fails(n)
      BY <1>3, <2>8 DEF Fails
    <2> QED  BY <1>3, <2>1, <2>2, <2>3, <2>4, <2>5, <2>6, <2>7, <2>8 DEF Acts
  <1>4. ASSUME NEW n \in Requests, Acts(n)
        PROVE  UNCHANGED env
    BY <1>4 DEF Acts, Publishes, RunEnds, SkipsRule, ExecutesAction, TestSendBegins,
                CreatesRecord, ProviderAnswers, RecordsSent, RecordsFailed, Fails
  <1> QED  BY <1>1, <1>2, <1>3, <1>4 DEF Next, Acts

LEMMA NextUnderWay == TypeOK /\ UnderWay /\ [Next]_vars => UnderWay'
  <1> SUFFICES ASSUME TypeOK, UnderWay, [Next]_vars
               PROVE  UnderWay'
    OBVIOUS
  <1>0. UNCHANGED env
    BY StepIs
  <1> DEFINE Held(n) ==
        /\ pc[n] \in {"send", "update"} =>
              /\ record[RecordOf(n)] # None
              /\ record[RecordOf(n)].channel = msg[n].channel
              /\ record[RecordOf(n)].to = msg[n].to
              /\ record[RecordOf(n)].status = "queued"
        /\ pc[n] = "update" => \E a \in Answers :
              msg[n].result = Send(env, msg[n].channel, msg[n].to, a)
  \* A request that another one does not touch.
  <1>1. ASSUME NEW n \in Requests, Alone(n)
        PROVE  Held(n)'
    <2>1. CASE pc[n] \in {"send", "update"}
      <3>1. msg[n].rule \in 0 .. NRules /\ RecordOf(n) = <<n, msg[n].rule>>
            /\ RecordOf(n)' = <<n, msg[n].rule>>
        BY <1>1, <2>1, UnderWayIs DEF Message, Sending, RecordOf, Alone
      <3> QED  BY <1>0, <1>1, <2>1, <3>1 DEF UnderWay, Alone
    <2>2. CASE pc[n] \notin {"send", "update"}
      BY <1>1, <2>2 DEF Alone
    <2> QED  BY <2>1, <2>2
  <1>2. ASSUME NEW n \in Requests, Acts(n)
        PROVE  Held(n)'
    <2>1. CASE CreatesRecord(n)
      <3>1. msg[n] \in Message /\ RecordOf(n) \in Requests \X (0 .. NRules)
        BY <2>1, UnderWayIs DEF CreatesRecord, Sending
      <3> DEFINE new == [channel |-> msg[n].channel, to |-> msg[n].to,
                         status |-> "queued", provider |-> "pending"]
      <3>2. CASE msg[n].channel \in Channels
        <4>1. new # None
          <5>1. new \in Record
            BY <3>1, <3>2 DEF Message, Record, Statuses, ProviderNames
          <5> QED  BY <5>1, AutomationAssumption
        <4>2. /\ record' = [record EXCEPT ![RecordOf(n)] = new]
              /\ pc'[n] = "send" /\ UNCHANGED msg /\ RecordOf(n)' = RecordOf(n)
          BY <2>1, <3>2 DEF CreatesRecord, RecordOf, TypeOK
        <4>3. record'[RecordOf(n)] = new
          BY <3>1, <4>2 DEF TypeOK
        <4> QED  BY <4>1, <4>2, <4>3
      <3>3. CASE msg[n].channel \notin Channels
        BY <2>1, <3>3 DEF CreatesRecord, TypeOK
      <3> QED  BY <3>2, <3>3
    <2>2. CASE ProviderAnswers(n)
      <3>1. msg[n] \in Message /\ pc[n] = "send" /\ UNCHANGED record
        BY <2>2, UnderWayIs DEF ProviderAnswers, Sending
      <3>2. PICK a \in Answers : msg' = [msg EXCEPT ![n].result =
                                           Send(env, msg[n].channel, msg[n].to, a)]
        BY <2>2 DEF ProviderAnswers
      <3>3. /\ msg'[n].channel = msg[n].channel /\ msg'[n].to = msg[n].to
            /\ msg'[n].rule = msg[n].rule
            /\ msg'[n].result = Send(env, msg[n].channel, msg[n].to, a)
        BY <3>1, <3>2 DEF TypeOK, Message
      <3>4. RecordOf(n)' = RecordOf(n)
        BY <3>3 DEF RecordOf
      <3>5. /\ record[RecordOf(n)] # None
            /\ record[RecordOf(n)].channel = msg[n].channel
            /\ record[RecordOf(n)].to = msg[n].to
            /\ record[RecordOf(n)].status = "queued"
        BY <3>1 DEF UnderWay
      <3> QED  BY <1>0, <3>1, <3>3, <3>4, <3>5
    <2>3. CASE ~CreatesRecord(n) /\ ~ProviderAnswers(n)
      <3>1. pc'[n] \notin {"send", "update"}
        BY <1>2, <2>3 DEF Acts, Publishes, RunEnds, SkipsRule, ExecutesAction,
           TestSendBegins, Composes, RecordsSent, RecordsFailed, Fails, AtRule, TypeOK
      <3> QED  BY <3>1
    <2> QED  BY <2>1, <2>2, <2>3
  <1>3. CASE UNCHANGED requests
    BY <1>1, <1>3 DEF UnderWay, requests, Alone
  <1> QED  BY <1>1, <1>2, <1>3, StepIs DEF UnderWay

LEMMA Typed == Spec => [](TypeOK /\ UnderWay)
  <1>1. Init => UnderWay
    BY DEF Init, UnderWay
  <1> QED  BY <1>1, InitType, NextType, NextUnderWay, PTL DEF Spec

\* Rows, calls, requests and records keep their types, an update of some of a
\* rule's fields included; a request has a message exactly while it sends one.
THEOREM AutomationTypeCorrect == Spec => []TypeOK
  BY Typed, PTL

----------------------------------------------------------------------------
(* What was removed.  A call that waits has found its row, and a row that  *)
(* exists is never created again: without these two, RemovedStaysOff is    *)
(* not inductive.                                                          *)

RowsFound ==
    \A a \in Admins : call[a] # None =>
        /\ call[a].op \in {"updateRule", "removeRule"} => rules[call[a].id].exists
        /\ call[a].op \in {"updateTemplate", "deleteTemplate"} =>
              templates[call[a].id].exists

RemovedDead ==
    /\ \A r \in RuleIds : <<"rule", r>> \in removed =>
          rules[r].exists /\ ~rules[r].live
    /\ \A t \in TemplateIds : <<"template", t>> \in removed =>
          templates[t].exists /\ ~templates[t].live

\* Rows that exist go on existing, and dead ones stay dead.
RowsLast ==
    /\ \A r \in RuleIds : rules[r].exists =>
          /\ rules'[r].exists
          /\ ~rules[r].live => ~rules'[r].live
    /\ \A t \in TemplateIds : templates[t].exists =>
          /\ templates'[t].exists
          /\ ~templates[t].live => ~templates'[t].live

LEMMA WritesLast ==
  ASSUME TypeOK, RowsFound, NEW a \in Admins, AdminWrites(a)
  PROVE  /\ RowsLast
         /\ \A b \in Admins : call'[b] # None => call'[b] = call[b]
         /\ \/ UNCHANGED removed
            \/ \E r \in RuleIds : /\ removed' = removed \cup {<<"rule", r>>}
                                  /\ rules'[r].exists /\ ~rules'[r].live
            \/ \E t \in TemplateIds : /\ removed' = removed \cup {<<"template", t>>}
                                      /\ templates'[t].exists /\ ~templates'[t].live
  <1>1. /\ call[a] \in Call
        /\ \A b \in Admins : call'[b] # None => call'[b] = call[b]
    BY DEF AdminWrites, RuleUpdates, RuleRemoved, TemplateUpdates, TemplateDeleted, Writes,
           TypeOK
  <1>2. CASE RuleUpdates(a)
    <2>1. call[a].id \in RuleIds
      BY <1>1, <1>2 DEF RuleUpdates, Writes, Call
    <2>2. PICK x : rules' = [rules EXCEPT ![call[a].id].content = x]
      BY <1>2 DEF RuleUpdates
    <2>3. RowsLast /\ UNCHANGED removed
      BY <1>2, <2>1, <2>2 DEF RuleUpdates, TypeOK, Rule, RowsLast
    <2> QED  BY <1>1, <2>3
  <1>3. CASE RuleRemoved(a)
    <2>1. call[a].id \in RuleIds /\ rules[call[a].id].exists
      BY <1>1, <1>3 DEF RuleRemoved, Writes, Call, RowsFound
    <2>2. RowsLast /\ rules'[call[a].id].exists /\ ~rules'[call[a].id].live
      BY <1>3, <2>1 DEF RuleRemoved, TypeOK, Rule, RowsLast
    <2> QED  BY <1>1, <1>3, <2>1, <2>2 DEF RuleRemoved
  <1>4. CASE TemplateUpdates(a)
    <2>1. call[a].id \in TemplateIds
      BY <1>1, <1>4 DEF TemplateUpdates, Writes, Call
    <2>2. PICK k \in Keys, active \in BOOLEAN :
             \/ templates' = templates
             \/ templates' = [templates EXCEPT ![call[a].id].key = k,
                                              ![call[a].id].active = active]
      BY <1>4 DEF TemplateUpdates
    <2>3. RowsLast /\ UNCHANGED removed
      BY <1>4, <2>1, <2>2, SMTT(30) DEF TemplateUpdates, TypeOK, Template, RowsLast
    <2> QED  BY <1>1, <2>3
  <1>5. CASE TemplateDeleted(a)
    <2>1. call[a].id \in TemplateIds /\ templates[call[a].id].exists
      BY <1>1, <1>5 DEF TemplateDeleted, Writes, Call, RowsFound
    <2>2. RowsLast /\ templates'[call[a].id].exists /\ ~templates'[call[a].id].live
      BY <1>5, <2>1 DEF TemplateDeleted, TypeOK, Template, RowsLast
    <2> QED  BY <1>1, <1>5, <2>1, <2>2 DEF TemplateDeleted
  <1> QED  BY <1>2, <1>3, <1>4, <1>5 DEF AdminWrites

LEMMA NextRemoved ==
  ASSUME TypeOK, RowsFound, RemovedDead, [Next]_vars
  PROVE  RowsFound' /\ RemovedDead'
  <1>1. ASSUME NEW a \in Admins, AdminWrites(a)
        PROVE  RowsFound' /\ RemovedDead'
    <2>1. \A b \in Admins : call[b] # None => call[b] \in Call
      BY DEF TypeOK
    <2>2. RowsFound'
      BY <1>1, <2>1, WritesLast DEF RowsFound, RowsLast, Call
    <2>3. RemovedDead'
      BY <1>1, WritesLast DEF RemovedDead, RowsLast
    <2> QED  BY <2>2, <2>3
  <1>2. ASSUME NEW a \in Admins, AdminChecks(a)
        PROVE  RowsFound' /\ RemovedDead'
    <2>1. UNCHANGED tables
      BY <1>2 DEF AdminChecks, Checks
    <2>2. RowsFound'
      BY <1>2, <2>1 DEF AdminChecks, Checks, RowsFound, TypeOK, tables
    <2> QED  BY <2>1, <2>2 DEF RemovedDead, tables
  <1>3. CASE RuleCreated
    <2>1. RowsLast /\ UNCHANGED <<call, removed>>
      BY <1>3 DEF RuleCreated, RowsLast, TypeOK, Rule
    <2>2. \A b \in Admins : call[b] # None => call[b] \in Call
      BY DEF TypeOK
    <2> QED  BY <2>1, <2>2 DEF RowsFound, RemovedDead, RowsLast, Call
  <1>4. CASE TemplateCreated
    <2>1. RowsLast /\ UNCHANGED <<call, removed>>
      BY <1>4 DEF TemplateCreated, RowsLast, TypeOK, Template
    <2>2. \A b \in Admins : call[b] # None => call[b] \in Call
      BY DEF TypeOK
    <2> QED  BY <2>1, <2>2 DEF RowsFound, RemovedDead, RowsLast, Call
  <1>5. ASSUME NEW n \in Requests, Acts(n)
        PROVE  UNCHANGED <<tables, call>>
    BY <1>5 DEF Acts, Publishes, RunEnds, SkipsRule, ExecutesAction, TestSendBegins,
                CreatesRecord, ProviderAnswers, RecordsSent, RecordsFailed, Fails
  <1>6. CASE UNCHANGED <<tables, call>>
    BY <1>6 DEF RowsFound, RemovedDead, tables
  <1> QED  BY <1>1, <1>2, <1>3, <1>4, <1>5, <1>6 DEF Next, Acts, vars, CustomerChanges

\* A rule or a template whose removal was written is not read again, although
\* an update that found it before the removal may write after it.
THEOREM AutomationRemoved == Spec => []RemovedStaysOff
  <1>1. Init => RowsFound /\ RemovedDead
    BY DEF Init, RowsFound, RemovedDead
  <1>2. RemovedDead => RemovedStaysOff
    BY DEF RemovedDead, RemovedStaysOff, InForce, Found
  <1> QED  BY <1>1, <1>2, NextRemoved, AutomationTypeCorrect, PTL DEF Spec

----------------------------------------------------------------------------
(* What is sent *)

\* The provider that may say a message of a channel is sent.
ProviderOf(channel) ==
    CASE channel = "email" -> IF env.mode = "live" THEN "resend" ELSE "fake-email"
      [] channel = "sms" -> IF env.mode = "live" THEN "twilio" ELSE "fake-sms"
      [] channel = "push" -> IF env.mode = "live" THEN "fcm" ELSE "fake-push"

\* Without an error, it was that provider, with its settings, and a text
\* message begins with a +.
LEMMA SendMeans ==
  ASSUME TypeOK, UnderWay, NEW n \in Requests, pc[n] = "update",
         msg[n].result.error = "none"
  PROVE  LET channel == msg[n].channel
         IN  /\ msg[n].result.provider = ProviderOf(channel)
             /\ env.mode = "live" =>
                   /\ channel \notin env.unset
                   /\ channel = "sms" => msg[n].to.form \in {"e164", "plus"}
  <1> DEFINE channel == msg[n].channel
             to == msg[n].to
  <1>1. channel \in Channels /\ env \in Env
    BY UnderWayIs, AutomationAssumption DEF TypeOK, Sending
  <1>2. PICK a \in Answers : msg[n].result = Send(env, channel, to, a)
    BY DEF UnderWay
  <1> HIDE DEF channel, to
  <1>3. CASE env.mode # "live"
    <2>1. msg[n].result = FakeSend(channel)
      BY <1>1, <1>2, <1>3, SendType
    <2> QED  BY <1>1, <1>3, <2>1 DEF FakeSend, Returned, ProviderOf, Channels, channel
  <1>4. CASE env.mode = "live"
    <2>1. msg[n].result = RealSend(env, channel, to, a)
      BY <1>1, <1>2, <1>4, SendType
    <2>2. /\ msg[n].result.provider = ProviderOf(channel)
          /\ channel \notin env.unset
          /\ channel = "sms" => to.form \in {"e164", "plus"}
      <3>1. RealSend(env, channel, to, a).error = "none"
        BY <2>1
      <3>2. env.unset \subseteq {"email", "sms"}
        BY <1>1 DEF Env
      <3> QED  BY <1>1, <1>4, <2>1, <3>1, <3>2
               DEF RealSend, EmailSend, SmsSend, PushSend, AssertE164, Returned, Thrown,
                   ProviderOf, Channels
    <2> QED  BY <1>4, <2>2 DEF channel, to
  <1> QED  BY <1>3, <1>4

\* What became of a record in a step: nothing, or its request made it, or saw
\* it sent or failed.
LEMMA RecordStep ==
  ASSUME TypeOK, UnderWay, [Next]_vars, NEW n \in Requests, NEW r \in 0 .. NRules
  PROVE  \/ UNCHANGED record[<<n, r>>]
         \/ /\ pc[n] = "create" /\ r = msg[n].rule
            /\ record'[<<n, r>>] = [channel |-> msg[n].channel, to |-> msg[n].to,
                                   status |-> "queued", provider |-> "pending"]
         \/ /\ pc[n] = "update" /\ r = msg[n].rule
            /\ record[<<n, r>>] # None /\ record'[<<n, r>>] # None
            /\ record'[<<n, r>>].channel = msg[n].channel
            /\ record'[<<n, r>>].to = msg[n].to
            /\ \/ RecordsFailed(n) /\ record'[<<n, r>>].status = "failed"
               \/ /\ RecordsSent(n) /\ record'[<<n, r>>].status = "sent"
                  /\ record'[<<n, r>>].provider = msg[n].result.provider
  <1>1. CASE UNCHANGED requests \/ Alone(n)
    BY <1>1 DEF requests, Alone
  <1>2. CASE Acts(n)
    <2>1. CASE CreatesRecord(n)
      <3>1. RecordOf(n) = <<n, msg[n].rule>> /\ pc[n] = "create"
        BY <2>1 DEF RecordOf, CreatesRecord
      <3> DEFINE new == [channel |-> msg[n].channel, to |-> msg[n].to,
                         status |-> "queued", provider |-> "pending"]
      <3>2. \/ UNCHANGED record
            \/ record' = [record EXCEPT ![<<n, msg[n].rule>>] = new]
        BY <2>1, <3>1 DEF CreatesRecord
      <3>3. <<n, r>> \in DOMAIN record /\ (<<n, r>> = <<n, msg[n].rule>> <=> r = msg[n].rule)
        BY DEF TypeOK
      <3> HIDE DEF new
      <3>4. UNCHANGED record[<<n, r>>] \/ (r = msg[n].rule /\ record'[<<n, r>>] = new)
        BY <3>2, <3>3
      <3> QED  BY <3>1, <3>4 DEF new
    <2>2. CASE RecordsSent(n) \/ RecordsFailed(n)
      <3>1. /\ pc[n] = "update" /\ RecordOf(n) = <<n, msg[n].rule>>
            /\ record[RecordOf(n)] \in Record /\ record[RecordOf(n)] # None
            /\ record[RecordOf(n)].channel = msg[n].channel
            /\ record[RecordOf(n)].to = msg[n].to
        BY <2>2, UnderWayIs DEF RecordsSent, RecordsFailed, Sending, UnderWay
      <3>2. CASE r # msg[n].rule
        BY <2>2, <3>1, <3>2 DEF RecordsSent, RecordsFailed, TypeOK
      <3>3. CASE r = msg[n].rule /\ RecordsFailed(n)
        <4>1. record'[<<n, r>>] = [record[<<n, r>>] EXCEPT !.status = "failed"]
          BY <3>1, <3>3 DEF RecordsFailed, TypeOK
        <4>2. record'[<<n, r>>] \in Record
          BY <3>1, <3>3, <4>1 DEF Record, Statuses
        <4> QED  BY <3>1, <3>3, <4>1, <4>2, AutomationAssumption DEF Record
      <3>4. CASE r = msg[n].rule /\ RecordsSent(n)
        <4>1. record'[<<n, r>>] = [record[<<n, r>>] EXCEPT !.status = "sent",
                                       !.provider = msg[n].result.provider]
          BY <3>1, <3>4 DEF RecordsSent, TypeOK
        <4>2. msg[n].result.provider \in ProviderNames
          BY <3>4, UnderWayIs DEF RecordsSent, Sending
        <4>3. record'[<<n, r>>] \in Record
          BY <3>1, <3>4, <4>1, <4>2, ZenonT(30) DEF Record, Statuses
        <4> QED  BY <3>1, <3>4, <4>1, <4>3, AutomationAssumption, ZenonT(30) DEF Record
      <3> QED  BY <2>2, <3>2, <3>3, <3>4
    <2>3. CASE ~CreatesRecord(n) /\ ~RecordsSent(n) /\ ~RecordsFailed(n)
      BY <1>2, <2>3 DEF Acts, Publishes, RunEnds, SkipsRule, ExecutesAction,
         TestSendBegins, ProviderAnswers, Fails
    <2> QED  BY <2>1, <2>2, <2>3
  <1> QED  BY <1>1, <1>2, StepIs

SentFor(n, r) ==
    LET x == record[<<n, r>>]
    IN  x # None /\ x.status = "sent" =>
           /\ x.provider = ProviderOf(x.channel)
           /\ env.mode = "live" => x.channel \notin env.unset
           /\ env.mode = "live" /\ x.channel = "sms" => x.to.form \in {"e164", "plus"}

SentWell == \A n \in Requests, r \in 0 .. NRules : SentFor(n, r)

LEMMA NextSent ==
  ASSUME TypeOK, UnderWay, SentWell, [Next]_vars
  PROVE  SentWell'
  <1> SUFFICES ASSUME NEW n \in Requests, NEW r \in 0 .. NRules
               PROVE  SentFor(n, r)'
    BY DEF SentWell
  <1>1. UNCHANGED env /\ \A c : ProviderOf(c)' = ProviderOf(c)
    BY StepIs DEF ProviderOf
  <1>2. CASE UNCHANGED record[<<n, r>>]
    BY <1>1, <1>2 DEF SentWell, SentFor
  <1>3. CASE record'[<<n, r>>].status = "failed"
    BY <1>3 DEF SentFor
  <1>4. ASSUME pc[n] = "update", RecordsSent(n),
               record'[<<n, r>>].channel = msg[n].channel,
               record'[<<n, r>>].to = msg[n].to,
               record'[<<n, r>>].provider = msg[n].result.provider
        PROVE  SentFor(n, r)'
    <2>1. msg[n].result.error = "none"
      BY <1>4 DEF RecordsSent
    <2> QED  BY <1>1, <1>4, <2>1, SendMeans DEF SentFor
  <1>5. ASSUME record'[<<n, r>>] = [channel |-> msg[n].channel, to |-> msg[n].to,
                                   status |-> "queued", provider |-> "pending"]
        PROVE  SentFor(n, r)'
    BY <1>5 DEF SentFor
  <1> QED  BY <1>2, <1>3, <1>4, <1>5, RecordStep

\* A message that counts as sent went to nobody outside live mode, and in live
\* mode to the real provider of its channel, with its settings, or, where that
\* is allowed, to the fallback.  The proof shows more: never to the fallback.
THEOREM AutomationSentByMode == Spec => []SentByMode
  <1>1. Init => SentWell
    BY DEF Init, SentWell, SentFor
  <1>2. TypeOK /\ SentWell => SentByMode
    <2> SUFFICES ASSUME TypeOK, SentWell, NEW n \in Requests, NEW r \in 0 .. NRules,
                        record[<<n, r>>] # None, record[<<n, r>>].status = "sent"
                 PROVE  LET x == record[<<n, r>>]
                            live == env.mode = "live"
                        IN  /\ x.provider =
                                CASE x.channel = "email" ->
                                        IF live THEN "resend" ELSE "fake-email"
                                  [] x.channel = "sms" ->
                                        IF live THEN "twilio" ELSE "fake-sms"
                                  [] x.channel = "push" ->
                                        IF live THEN "fcm" ELSE "fake-push"
                            /\ live => x.channel \notin env.unset
      <3>1. TypeOK => DOMAIN record = Requests \X (0 .. NRules)
        BY DEF TypeOK
      <3>2. TypeOK => \A nr \in DOMAIN record :
               \E n \in Requests, r \in 0 .. NRules : nr = <<n, r>>
        BY <3>1
      <3> QED  BY <3>2 DEF SentByMode
    <2> QED  BY DEF SentWell, SentFor, ProviderOf
  <1>3. SentWell /\ TypeOK /\ UnderWay /\ [Next]_vars => SentWell'
    BY NextSent
  <1> QED  BY <1>1, <1>2, <1>3, Typed, PTL DEF Spec

\* The checks a message has passed by the time there is one: those of the
\* engine, or the ones of a test.
Fits(channel, to, r) ==
    /\ channel = "email" => HasAt(to)
    /\ channel = "sms" => ~HasAt(to)
    /\ r = 0 => ValidateRecipient(channel, to)

Checked ==
    \A n \in Requests :
        /\ Sending(n) => Fits(msg[n].channel, msg[n].to, msg[n].rule)
        /\ \A r \in 0 .. NRules : record[<<n, r>>] # None =>
              Fits(record[<<n, r>>].channel, record[<<n, r>>].to, r)

LEMMA NextChecked ==
  ASSUME TypeOK, UnderWay, Checked, [Next]_vars
  PROVE  Checked'
  <1> SUFFICES ASSUME NEW n \in Requests
               PROVE  /\ Sending(n)' => Fits(msg'[n].channel, msg'[n].to, msg'[n].rule)
                      /\ \A r \in 0 .. NRules : record'[<<n, r>>] # None =>
                            Fits(record'[<<n, r>>].channel, record'[<<n, r>>].to, r)
    BY DEF Checked, Fits
  <1>1. ASSUME NEW r \in 0 .. NRules, record'[<<n, r>>] # None
        PROVE  Fits(record'[<<n, r>>].channel, record'[<<n, r>>].to, r)
    <2>1. CASE UNCHANGED record[<<n, r>>]
      BY <1>1, <2>1 DEF Checked
    <2>2. ASSUME Sending(n), r = msg[n].rule,
                 record'[<<n, r>>].channel = msg[n].channel,
                 record'[<<n, r>>].to = msg[n].to
          PROVE  Fits(record'[<<n, r>>].channel, record'[<<n, r>>].to, r)
      BY <2>2 DEF Checked
    <2>3. ASSUME record'[<<n, r>>] = [channel |-> msg[n].channel, to |-> msg[n].to,
                                     status |-> "queued", provider |-> "pending"]
          PROVE  /\ record'[<<n, r>>].channel = msg[n].channel
                 /\ record'[<<n, r>>].to = msg[n].to
      BY <2>3
    <2> QED  BY <2>1, <2>2, <2>3, RecordStep DEF Sending
  <1>2. ASSUME Sending(n)'
        PROVE  Fits(msg'[n].channel, msg'[n].to, msg'[n].rule)
    <2>1. CASE UNCHANGED requests \/ Alone(n)
      BY <1>2, <2>1 DEF requests, Alone, Checked, Sending
    <2>2. ASSUME NEW r \in RuleIds, ExecutesAction(n, r)
          PROVE  Fits(msg'[n].channel, msg'[n].to, msg'[n].rule)
      <3> DEFINE channel == NextRule(n, r).action.channel
                 to == ResolveTo(NextRule(n, r).action, job[n])
      <3>1. \/ /\ AssertToMatchesChannel(channel, to)
               /\ msg' = [msg EXCEPT ![n] = [channel |-> channel, to |-> to, rule |-> r,
                                            result |-> Returned("pending")]]
            \/ pc' = [pc EXCEPT ![n] = "threw"]
        BY <2>2 DEF ExecutesAction, Composes
      <3>2. r # 0
        BY DEF RuleIds
      <3> HIDE DEF channel, to
      <3> QED  BY <1>2, <3>1, <3>2 DEF TypeOK, Sending, AssertToMatchesChannel, Fits
    <2>3. CASE TestSendBegins(n)
      <3> DEFINE address(dto) == IF ~dto.customer \/ dto.channel = "push" THEN dto.to
                                 ELSE IF dto.channel = "email" THEN customer.email
                                 ELSE customer.phone
      <3>1. PICK dto \in TestSends :
               \/ /\ ValidateRecipient(dto.channel, address(dto))
                  /\ msg' = [msg EXCEPT ![n] = [channel |-> dto.channel, to |-> address(dto),
                                               rule |-> 0,
                                               result |-> Returned("pending")]]
               \/ pc' = [pc EXCEPT ![n] = "threw"]
        BY <2>3 DEF TestSendBegins, Composes
      <3> HIDE DEF address
      <3> QED  BY <1>2, <3>1 DEF TypeOK, Sending, ValidateRecipient, IsValidEmail,
                  IsValidPhone, HasAt, Fits
    <2>4. CASE CreatesRecord(n) \/ ProviderAnswers(n)
      <3>1. Sending(n) /\ msg[n] \in Message
        BY <2>4, UnderWayIs DEF CreatesRecord, ProviderAnswers, Sending
      <3>2. /\ msg'[n].channel = msg[n].channel /\ msg'[n].to = msg[n].to
            /\ msg'[n].rule = msg[n].rule
        <4>1. CASE CreatesRecord(n)
          BY <1>2, <4>1 DEF CreatesRecord, Sending, TypeOK
        <4>2. CASE ProviderAnswers(n)
          <5>1. PICK x : msg' = [msg EXCEPT ![n].result = x]
            BY <4>2 DEF ProviderAnswers
          <5> QED  BY <3>1, <5>1 DEF TypeOK, Message
        <4> QED  BY <2>4, <4>1, <4>2
      <3> QED  BY <3>1, <3>2 DEF Checked
    <2>5. CASE \/ Publishes(n) \/ RunEnds(n) \/ (\E r \in RuleIds : SkipsRule(n, r))
               \/ RecordsSent(n) \/ RecordsFailed(n) \/ Fails(n)
      <3>1. ~Sending(n)'
        BY <2>5 DEF Publishes, RunEnds, SkipsRule, AtRule, RecordsSent, RecordsFailed, Fails,
                    Sending, TypeOK
      <3> QED  BY <1>2, <3>1
    <2> QED  BY <2>1, <2>2, <2>3, <2>4, <2>5, StepIs DEF Acts
  <1> QED  BY <1>1, <1>2

\* Whatever the customer's row says when it is read, a record's recipient can
\* be reached on its channel as far as the checks go.
THEOREM AutomationAddresses == Spec => []AddressFitsChannel
  <1>1. Init => SentWell /\ Checked
    BY DEF Init, SentWell, SentFor, Checked, Sending
  <1>2. TypeOK /\ SentWell /\ Checked => AddressFitsChannel
    <2> SUFFICES ASSUME TypeOK, SentWell, Checked,
                        NEW n \in Requests, NEW r \in 0 .. NRules, record[<<n, r>>] # None
                 PROVE  LET x == record[<<n, r>>]
                        IN  /\ x.channel = "email" => HasAt(x.to)
                            /\ x.channel = "sms" => ~HasAt(x.to)
                            /\ r = 0 => ValidateRecipient(x.channel, x.to)
                            /\ x.channel = "sms" /\ x.status = "sent" /\ env.mode = "live" =>
                                  x.to.form \in {"e164", "plus"}
      BY DEF AddressFitsChannel, TypeOK
    <2> QED  BY DEF SentWell, SentFor, Checked, Fits
  <1>3. SentWell /\ Checked /\ TypeOK /\ UnderWay /\ [Next]_vars => SentWell' /\ Checked'
    BY NextSent, NextChecked
  <1> QED  BY <1>1, <1>2, <1>3, Typed, PTL DEF Spec

----------------------------------------------------------------------------
(* What follows from an event.  RecordsFollowRules speaks of the records   *)
(* and of the rules that were due; what keeps the two together is the      *)
(* place of the loop: what it has yet to take has left no trace, and what  *)
(* it has taken lies before.                                               *)

Delivered(n, r) == record[<<n, r>>] # None /\ record[<<n, r>>].status = "sent"

\* The rules n has taken that were due.
TakenDue(n) == DOMAIN due[n] \ DOMAIN read[n]

\* A rule that is yet to be taken has no record, and was due just if its
\* conditions hold of the event.
UnreadInv(n) ==
    \A r \in DOMAIN read[n] :
        /\ record[<<n, r>>] = None
        /\ r \in DOMAIN due[n] <=> /\ Matches(read[n][r].conditions, job[n].data)
                                   /\ read[n][r].action.type = "sendMessage"
        /\ r \in DOMAIN due[n] => due[n][r] = read[n][r].action
        /\ \A q \in TakenDue(n) : q < r

\* A rule that has a record was due and taken, and those before it were sent.
RecordedInv(n) ==
    \A r \in RuleIds : record[<<n, r>>] # None =>
        /\ r \in TakenDue(n)
        /\ record[<<n, r>>].channel = due[n][r].channel
        /\ \A q \in DOMAIN due[n] : q < r => Delivered(n, q)

\* Between two rules every due one that was taken is sent; while one is being
\* sent it is the last of them.
ProgressInv(n) ==
    /\ pc[n] \in {"rules", "done"} => \A q \in TakenDue(n) : Delivered(n, q)
    /\ Sending(n) => /\ msg[n].rule \in TakenDue(n)
                     /\ msg[n].channel = due[n][msg[n].rule].channel
                     /\ \A q \in TakenDue(n) : q # msg[n].rule =>
                           q < msg[n].rule /\ Delivered(n, q)
    /\ pc[n] = "done" => DOMAIN read[n] = {}

RunInv(n) ==
    /\ pc[n] = "none" => \A r \in 0 .. NRules : record[<<n, r>>] = None
    /\ pc[n] = "rules" => IsEvent(n)
    /\ Sending(n) /\ ~IsEvent(n) => msg[n].rule = 0
    /\ IsEvent(n) => UnreadInv(n) /\ RecordedInv(n) /\ ProgressInv(n)

LEMMA ReadIs ==
  ASSUME TypeOK, NEW n \in Requests
  PROVE  DOMAIN read[n] \subseteq RuleIds /\ DOMAIN due[n] \subseteq RuleIds
  BY DEF TypeOK, IsPartial

LEMMA AloneRun ==
  ASSUME TypeOK, NEW n \in Requests, Alone(n), RunInv(n)
  PROVE  RunInv(n)'
  <1>1. /\ IsEvent(n)' <=> IsEvent(n)
        /\ TakenDue(n)' = TakenDue(n)
        /\ Sending(n)' <=> Sending(n)
    BY DEF Alone, IsEvent, TakenDue, Sending
  <1>2. \A r \in RuleIds : r \in 0 .. NRules
    BY AutomationAssumption DEF RuleIds
  <1>3. \A r \in RuleIds : /\ record'[<<n, r>>] = record[<<n, r>>]
                           /\ Delivered(n, r)' <=> Delivered(n, r)
    BY <1>2 DEF Alone, Delivered
  <1>4. DOMAIN read[n] \subseteq RuleIds /\ DOMAIN due[n] \subseteq RuleIds
    BY ReadIs
  <1>5. UnreadInv(n) => UnreadInv(n)'
    BY <1>1, <1>3, <1>4 DEF UnreadInv, Alone
  <1>6. RecordedInv(n) => RecordedInv(n)'
    BY <1>1, <1>3, <1>4 DEF RecordedInv, Alone
  <1>7. ProgressInv(n) => ProgressInv(n)'
    BY <1>1, <1>3, <1>4 DEF ProgressInv, TakenDue, Alone
  <1> QED  BY <1>1, <1>5, <1>6, <1>7 DEF RunInv, Alone

\* An event begins a run in which nothing is taken yet.
LEMMA PublishesRun ==
  ASSUME TypeOK, NEW n \in Requests, Publishes(n), RunInv(n)
  PROVE  RunInv(n)'
  <1> DEFINE found(e) == [r \in {r \in RuleIds : InForce(r, e.key)} |-> rules[r].content]
             owed(e) == {r \in DOMAIN found(e) :
                            /\ Matches(found(e)[r].conditions, e.data)
                            /\ found(e)[r].action.type = "sendMessage"}
  <1>1. PICK e \in Events : /\ job' = [job EXCEPT ![n] = e]
                            /\ read' = [read EXCEPT ![n] = found(e)]
                            /\ due' = [due EXCEPT ![n] =
                                  [r \in owed(e) |-> found(e)[r].action]]
    BY DEF Publishes
  <1>2. DOMAIN found(e) \subseteq RuleIds /\ owed(e) \subseteq DOMAIN found(e)
    OBVIOUS
  <1>3. /\ job'[n] = e /\ read'[n] = found(e) /\ pc'[n] = "rules"
        /\ due'[n] = [r \in owed(e) |-> found(e)[r].action]
        /\ UNCHANGED record
    BY <1>1 DEF Publishes, TypeOK
  <1>4. TakenDue(n)' = {}
    BY <1>2, <1>3 DEF TakenDue
  <1>5. \A r \in RuleIds : record'[<<n, r>>] = None
    BY <1>3, AutomationAssumption, SMTT(30) DEF Publishes, RunInv, RuleIds
  <1>6. UnreadInv(n)'
    <2> SUFFICES ASSUME NEW r \in DOMAIN found(e)
                 PROVE  /\ r \in owed(e) <=>
                              /\ Matches(found(e)[r].conditions, e.data)
                              /\ found(e)[r].action.type = "sendMessage"
                        /\ r \in owed(e) => due'[n][r] = found(e)[r].action
      <3> HIDE DEF found, owed
      <3> QED  BY <1>2, <1>3, <1>4, <1>5 DEF UnreadInv
    <2> HIDE DEF found
    <2> QED  BY <1>3
  <1> HIDE DEF found, owed
  <1>7. RecordedInv(n)' /\ ProgressInv(n)'
    BY <1>3, <1>4, <1>5 DEF RecordedInv, ProgressInv, Sending
  <1>8. IsEvent(n)'
    BY <1>3, AutomationAssumption DEF IsEvent
  <1> QED  BY <1>3, <1>6, <1>7, <1>8 DEF RunInv, Sending

\* Taking a rule leaves the others as they were.
LEMMA TakenIs ==
  ASSUME TypeOK, NEW n \in Requests, NEW r \in RuleIds, AtRule(n, r), Taken(n, r),
         UNCHANGED <<job, record, due>>, RunInv(n)
  PROVE  /\ UnreadInv(n) /\ RecordedInv(n) /\ ProgressInv(n)
         /\ DOMAIN read'[n] = DOMAIN read[n] \ {r}
         /\ UnreadInv(n)' /\ RecordedInv(n)'
         /\ TakenDue(n)' = TakenDue(n) \cup ({r} \cap DOMAIN due[n])
         /\ \A q \in TakenDue(n) : q < r /\ Delivered(n, q)
         /\ \A q : Delivered(n, q)' <=> Delivered(n, q)
  <1>1. UnreadInv(n) /\ RecordedInv(n) /\ ProgressInv(n)
    BY DEF RunInv, AtRule
  <1>2. read'[n] = [q \in DOMAIN read[n] \ {r} |-> read[n][q]]
    BY DEF Taken, TypeOK
  <1>3. DOMAIN read'[n] = DOMAIN read[n] \ {r}
    BY <1>2
  <1>4. \A q \in DOMAIN read'[n] : read'[n][q] = read[n][q] /\ q \in DOMAIN read[n] /\ r < q
    BY <1>2, ReadIs DEF AtRule, RuleIds
  <1>5. r \in DOMAIN read[n] /\ TakenDue(n)' = TakenDue(n) \cup ({r} \cap DOMAIN due[n])
    BY <1>3 DEF TakenDue, AtRule
  <1>6. \A q \in TakenDue(n) : q < r /\ Delivered(n, q)
    BY <1>1, <1>5 DEF UnreadInv, ProgressInv, AtRule
  <1>7. \A q : Delivered(n, q)' <=> Delivered(n, q)
    BY DEF Delivered
  <1>8. UnreadInv(n)'
    BY <1>1, <1>4, <1>5, <1>6 DEF UnreadInv
  <1>9. RecordedInv(n)'
    BY <1>1, <1>5, <1>7 DEF RecordedInv
  <1> QED  BY <1>1, <1>3, <1>5, <1>6, <1>7, <1>8, <1>9

LEMMA SkipsRun ==
  ASSUME TypeOK, NEW n \in Requests, NEW r \in RuleIds, SkipsRule(n, r), RunInv(n)
  PROVE  RunInv(n)'
  <1>1. AtRule(n, r) /\ Taken(n, r) /\ UNCHANGED <<pc, job, msg, record, due>>
    BY DEF SkipsRule
  <1>2. r \notin DOMAIN due[n]
    BY <1>1, TakenIs DEF SkipsRule, NextRule, UnreadInv, AtRule
  <1>3. TakenDue(n)' = TakenDue(n)
    BY <1>1, <1>2, TakenIs
  <1>4. pc'[n] = "rules" /\ ~Sending(n)' /\ IsEvent(n)'
    BY <1>1 DEF AtRule, Sending, IsEvent, RunInv
  <1>5. ProgressInv(n)'
    BY <1>1, <1>3, <1>4, TakenIs DEF ProgressInv
  <1> QED  BY <1>1, <1>4, <1>5, TakenIs DEF RunInv

LEMMA ExecutesRun ==
  ASSUME TypeOK, NEW n \in Requests, NEW r \in RuleIds, ExecutesAction(n, r), RunInv(n)
  PROVE  RunInv(n)'
  <1>1. AtRule(n, r) /\ Taken(n, r) /\ UNCHANGED <<job, record, due>>
    BY DEF ExecutesAction
  <1>2. r \in DOMAIN due[n] /\ due[n][r] = read[n][r].action
    BY <1>1, TakenIs DEF ExecutesAction, NextRule, UnreadInv, AtRule
  <1>3. TakenDue(n)' = TakenDue(n) \cup {r}
    BY <1>1, <1>2, TakenIs
  <1>4. \/ pc'[n] = "threw"
        \/ pc'[n] = "create" /\ msg'[n].rule = r /\ msg'[n].channel = due[n][r].channel
    BY <1>2 DEF ExecutesAction, Composes, NextRule, TypeOK
  <1>5. IsEvent(n)'
    BY <1>1, <1>4 DEF AtRule, IsEvent, RunInv
  <1>6. ProgressInv(n)'
    <2>1. due'[n] = due[n]
      BY <1>1
    <2>2. \A q \in TakenDue(n) : q < r /\ Delivered(n, q)'
      BY <1>1, TakenIs
    <2> QED  BY <1>3, <1>4, <2>1, <2>2 DEF ProgressInv, Sending
  <1> QED  BY <1>1, <1>4, <1>5, <1>6, TakenIs DEF RunInv

LEMMA RunEndsRun ==
  ASSUME TypeOK, NEW n \in Requests, RunEnds(n), RunInv(n)
  PROVE  RunInv(n)'
  <1>1. /\ pc[n] = "rules" /\ pc'[n] = "done" /\ DOMAIN read[n] = {}
        /\ UNCHANGED <<job, read, msg, record, due>>
    BY DEF RunEnds, TypeOK
  <1>2. IsEvent(n) /\ IsEvent(n)' /\ ~Sending(n)'
    BY <1>1 DEF RunInv, IsEvent, Sending
  <1>3. TakenDue(n)' = TakenDue(n) /\ \A q : Delivered(n, q)' <=> Delivered(n, q)
    BY <1>1 DEF TakenDue, Delivered
  <1>4. UnreadInv(n)' /\ RecordedInv(n)'
    BY <1>1, <1>2, <1>3 DEF RunInv, UnreadInv, RecordedInv
  <1>5. ProgressInv(n)'
    BY <1>1, <1>2, <1>3 DEF RunInv, ProgressInv
  <1> QED  BY <1>1, <1>2, <1>4, <1>5 DEF RunInv

LEMMA TestRun ==
  ASSUME TypeOK, NEW n \in Requests, TestSendBegins(n), RunInv(n)
  PROVE  RunInv(n)'
  <1>1. PICK dto \in TestSends : \E to, ok :
           /\ job' = [job EXCEPT ![n] = dto]
           /\ Composes(n, dto.channel, to, 0, ok)
    BY DEF TestSendBegins
  <1>2. job'[n] = dto /\ (pc'[n] = "threw" \/ (pc'[n] = "create" /\ msg'[n].rule = 0))
    BY <1>1 DEF Composes, TypeOK
  <1>3. ~IsEvent(n)'
    BY <1>2, AutomationAssumption DEF IsEvent, TestSendDto
  <1> QED  BY <1>2, <1>3 DEF RunInv, Sending

\* A step of a request that is sending, or that fails, and that writes no
\* record but that of its message.
LEMMA WritesRun ==
  ASSUME TypeOK, NEW n \in Requests, RunInv(n), pc[n] # "none",
         UNCHANGED <<job, read, due>>,
         \/ UNCHANGED record
         \/ /\ Sending(n) /\ msg[n].rule \in 0 .. NRules
            /\ \A r \in 0 .. NRules : r # msg[n].rule => UNCHANGED record[<<n, r>>]
            /\ record'[<<n, msg[n].rule>>] # None
            /\ record'[<<n, msg[n].rule>>].channel = msg[n].channel
  PROVE  /\ TakenDue(n)' = TakenDue(n)
         /\ IsEvent(n) /\ pc'[n] # "none" => UnreadInv(n)' /\ RecordedInv(n)'
  <1>1. TakenDue(n)' = TakenDue(n)
    BY DEF TakenDue
  <1>2. ASSUME IsEvent(n), UNCHANGED record
        PROVE  UnreadInv(n)' /\ RecordedInv(n)'
    <2>1. \A q : Delivered(n, q)' <=> Delivered(n, q)
      BY <1>2 DEF Delivered
    <2> QED  BY <1>1, <1>2, <2>1 DEF RunInv, UnreadInv, RecordedInv
  <1>3. ASSUME IsEvent(n), Sending(n),
               msg[n].rule \in 0 .. NRules,
               \A r \in 0 .. NRules : r # msg[n].rule => UNCHANGED record[<<n, r>>],
               record'[<<n, msg[n].rule>>] # None,
               record'[<<n, msg[n].rule>>].channel = msg[n].channel
        PROVE  UnreadInv(n)' /\ RecordedInv(n)'
    <2> DEFINE k == msg[n].rule
    <2>1. /\ UnreadInv(n) /\ RecordedInv(n) /\ ProgressInv(n)
          /\ k \in TakenDue(n) /\ msg[n].channel = due[n][k].channel
          /\ \A q \in TakenDue(n) : q # k => q < k /\ Delivered(n, q)
      BY <1>3 DEF RunInv, ProgressInv
    <2>2. DOMAIN read[n] \subseteq RuleIds /\ DOMAIN due[n] \subseteq RuleIds
          /\ RuleIds \subseteq 0 .. NRules /\ RuleIds \subseteq Nat
      BY ReadIs, AutomationAssumption DEF RuleIds
    <2>3. k \in RuleIds /\ k \notin DOMAIN read[n]
      BY <2>1, <2>2 DEF TakenDue
    <2> HIDE DEF k
    <2>4. \A r \in RuleIds \ {k} : record'[<<n, r>>] = record[<<n, r>>]
      BY <1>3, <2>2 DEF k
    <2>5. \A r \in RuleIds \ {k} : Delivered(n, r) => Delivered(n, r)'
      BY <2>4 DEF Delivered
    <2>6. UnreadInv(n)'
      <3>1. \A r \in DOMAIN read[n] : record'[<<n, r>>] = None
        <4>1. \A r \in DOMAIN read[n] : record[<<n, r>>] = None
          BY <2>1 DEF UnreadInv
        <4> QED  BY <2>2, <2>3, <2>4, <4>1
      <3>2. read'[n] = read[n] /\ job'[n] = job[n] /\ due'[n] = due[n]
        OBVIOUS
      <3> QED  BY <1>1, <2>1, <3>1, <3>2 DEF UnreadInv
    \* No rule after the one that is being sent has a record.
    <2>7. \A r \in RuleIds : record'[<<n, r>>] # None =>
              r \in TakenDue(n) /\ record'[<<n, r>>].channel = due[n][r].channel
      <3>1. record'[<<n, k>>].channel = due[n][k].channel
        BY <1>3, <2>1 DEF k
      <3>2. k \in TakenDue(n)
        BY <2>1
      <3>3. ASSUME NEW r \in RuleIds, r # k, record'[<<n, r>>] # None
            PROVE  r \in TakenDue(n) /\ record'[<<n, r>>].channel = due[n][r].channel
        <4>1. record'[<<n, r>>] = record[<<n, r>>]
          BY <2>4, <3>3
        <4>2. RecordedInv(n)
          BY <2>1
        <4> QED  BY <3>3, <4>1, <4>2 DEF RecordedInv
      <3> QED  BY <3>1, <3>2, <3>3
    <2>8. ASSUME NEW r \in RuleIds, record'[<<n, r>>] # None, NEW q \in DOMAIN due[n], q < r
          PROVE  Delivered(n, q)'
      <3>1. r = k \/ r < k
        BY <2>1, <2>7, <2>8
      <3>2. q # k /\ q < k /\ q \in RuleIds
        <4>1. q \in RuleIds
          BY <2>2, <2>8
        <4>2. q \in Nat /\ r \in Nat /\ k \in Nat
          BY <2>2, <2>3, <2>8, <4>1
        <4> QED  BY <2>8, <3>1, <4>1, <4>2
      <3>3. q \in TakenDue(n)
        <4>1. q \in DOMAIN read[n] => k < q
          BY <2>1 DEF UnreadInv
        <4> QED  BY <2>2, <2>3, <2>8, <3>2, <4>1 DEF TakenDue
      <3> QED  BY <2>1, <2>5, <3>2, <3>3
    <2>9. RecordedInv(n)'
      BY <1>1, <2>7, <2>8 DEF RecordedInv
    <2> QED  BY <2>6, <2>9
  <1> QED  BY <1>1, <1>2, <1>3

\* While a message is on its way, or when the request ends by an exception.
LEMMA SendingRun ==
  ASSUME TypeOK, UnderWay, [Next]_vars, NEW n \in Requests, RunInv(n),
         CreatesRecord(n) \/ ProviderAnswers(n) \/ RecordsFailed(n) \/ Fails(n)
  PROVE  RunInv(n)'
  <1>1. /\ pc[n] # "none" /\ UNCHANGED <<job, read, due>>
        /\ pc'[n] = "threw" \/ (Sending(n) /\ Sending(n)')
    BY DEF CreatesRecord, ProviderAnswers, RecordsFailed, Fails, Sending, TypeOK
  <1>2. Sending(n) => msg[n] \in Message /\ msg[n].rule \in 0 .. NRules
    BY UnderWayIs DEF Message
  <1>3. \/ UNCHANGED record
        \/ /\ Sending(n)
           /\ \A r \in 0 .. NRules : r # msg[n].rule => UNCHANGED record[<<n, r>>]
           /\ record'[<<n, msg[n].rule>>] # None
           /\ record'[<<n, msg[n].rule>>].channel = msg[n].channel
    <2>1. CASE ProviderAnswers(n) \/ Fails(n)
      BY <2>1 DEF ProviderAnswers, Fails
    <2>2. CASE CreatesRecord(n) \/ RecordsFailed(n)
      <3>1. Sending(n) /\ RecordOf(n) = <<n, msg[n].rule>>
        BY <2>2 DEF CreatesRecord, RecordsFailed, Sending, RecordOf
      <3>2. CASE UNCHANGED record
        BY <3>2
      <3>3. CASE record' # record
        <4>1. /\ record'[<<n, msg[n].rule>>] # None
              /\ record'[<<n, msg[n].rule>>].channel = msg[n].channel
          <5>1. CASE RecordsFailed(n)
            <6>1. record[RecordOf(n)] \in Record /\ record[RecordOf(n)].channel = msg[n].channel
              BY <5>1, UnderWayIs DEF UnderWay, RecordsFailed, Sending
            <6>2. record'[RecordOf(n)] = [record[RecordOf(n)] EXCEPT !.status = "failed"]
              BY <1>2, <3>1, <5>1 DEF RecordsFailed, TypeOK
            <6>3. record'[RecordOf(n)] \in Record
              BY <6>1, <6>2 DEF Record, Statuses
            <6> QED  BY <3>1, <6>1, <6>2, <6>3, AutomationAssumption DEF Record
          <5>2. CASE CreatesRecord(n)
            <6> DEFINE new == [channel |-> msg[n].channel, to |-> msg[n].to,
                               status |-> "queued", provider |-> "pending"]
            <6>1. new \in Record /\ record'[<<n, msg[n].rule>>] = new
              BY <1>2, <3>1, <3>3, <5>2 DEF CreatesRecord, Record, Message, Statuses,
                 ProviderNames, TypeOK
            <6> QED  BY <6>1, AutomationAssumption
          <5> QED  BY <2>2, <5>1, <5>2
        <4>2. \A r \in 0 .. NRules : r # msg[n].rule => UNCHANGED record[<<n, r>>]
          BY <2>2, <3>1 DEF CreatesRecord, RecordsFailed, TypeOK
        <4> QED  BY <3>1, <4>1, <4>2
      <3> QED  BY <3>2, <3>3
    <2> QED  BY <2>1, <2>2
  <1>4. IsEvent(n)' <=> IsEvent(n)
    BY <1>1, <1>2 DEF IsEvent, Sending
  <1>5. Sending(n)' => msg'[n].rule = msg[n].rule /\ msg'[n].channel = msg[n].channel
    <2>1. CASE CreatesRecord(n)
      BY <2>1 DEF CreatesRecord, Sending, TypeOK
    <2>2. CASE ProviderAnswers(n)
      <3>1. PICK x : msg' = [msg EXCEPT ![n].result = x]
        BY <2>2 DEF ProviderAnswers
      <3>2. msg[n] \in Message
        BY <1>2, <2>2 DEF ProviderAnswers, Sending
      <3> QED  BY <3>1, <3>2 DEF TypeOK, Message
    <2>3. CASE RecordsFailed(n) \/ Fails(n)
      BY <2>3 DEF RecordsFailed, Fails, Sending, TypeOK
    <2> QED  BY <2>1, <2>2, <2>3
  <1>6. TakenDue(n)' = TakenDue(n) /\ (IsEvent(n) => UnreadInv(n)' /\ RecordedInv(n)')
    BY <1>1, <1>2, <1>3, WritesRun DEF Sending
  \* The records of the others are what they were.
  <1>7. IsEvent(n) => ProgressInv(n)'
    <2>1. CASE pc'[n] = "threw"
      BY <2>1 DEF ProgressInv, Sending
    <2>2. ASSUME Sending(n), Sending(n)', IsEvent(n)
          PROVE  ProgressInv(n)'
      <3> DEFINE k == msg[n].rule
      <3>1. /\ k \in TakenDue(n) /\ msg[n].channel = due[n][k].channel
            /\ \A q \in TakenDue(n) : q # k => q < k /\ Delivered(n, q)
        BY <2>2 DEF RunInv, ProgressInv
      <3>2. msg'[n].rule = k /\ msg'[n].channel = msg[n].channel /\ due'[n] = due[n]
            /\ pc'[n] \notin {"rules", "done"}
        BY <1>1, <1>5, <2>2 DEF Sending
      <3>3. \A q \in TakenDue(n) : q \in 0 .. NRules
        BY ReadIs, AutomationAssumption DEF TakenDue, RuleIds
      <3>4. \A q \in TakenDue(n) \ {k} : record'[<<n, q>>] = record[<<n, q>>]
        BY <1>3, <3>3
      <3> HIDE DEF k
      <3>5. \A q \in TakenDue(n) \ {k} : q < k /\ Delivered(n, q)'
        BY <3>1, <3>4 DEF Delivered
      <3> QED  BY <1>6, <3>1, <3>2, <3>5 DEF ProgressInv
    <2> QED  BY <1>1, <2>1, <2>2
  <1> QED  BY <1>1, <1>4, <1>5, <1>6, <1>7 DEF RunInv, Sending

\* Sent: the loop goes on, after all that is due so far.
LEMMA SentRun ==
  ASSUME TypeOK, UnderWay, [Next]_vars, NEW n \in Requests, RunInv(n), RecordsSent(n)
  PROVE  RunInv(n)'
  <1> DEFINE k == msg[n].rule
  <1>1. /\ pc[n] = "update" /\ Sending(n) /\ UNCHANGED <<job, read, due>>
        /\ pc'[n] = IF k = 0 THEN "done" ELSE "rules"
        /\ RecordOf(n) = <<n, k>>
    BY DEF RecordsSent, Sending, TypeOK, RecordOf
  <1>2. /\ k \in 0 .. NRules /\ record[<<n, k>>] \in Record
        /\ record[<<n, k>>].channel = msg[n].channel
        /\ msg[n].result.provider \in ProviderNames
    BY <1>1, UnderWayIs DEF Message, UnderWay, RecordsSent
  <1>3. record' = [record EXCEPT ![<<n, k>>].status = "sent",
                                 ![<<n, k>>].provider = msg[n].result.provider]
    BY <1>1 DEF RecordsSent
  <1>4. /\ record'[<<n, k>>] # None /\ record'[<<n, k>>].channel = msg[n].channel
        /\ record'[<<n, k>>].status = "sent"
    <2>1. record'[<<n, k>>] = [record[<<n, k>>] EXCEPT !.status = "sent",
                                               !.provider = msg[n].result.provider]
      BY <1>2, <1>3 DEF TypeOK
    <2>2. record'[<<n, k>>] \in Record
      BY <1>2, <2>1 DEF Record, Statuses
    <2> QED  BY <1>2, <2>1, <2>2, AutomationAssumption DEF Record
  <1>5. \A r \in 0 .. NRules : r # k => record'[<<n, r>>] = record[<<n, r>>]
    BY <1>3 DEF TypeOK
  <1>6. TakenDue(n)' = TakenDue(n) /\ (IsEvent(n) => UnreadInv(n)' /\ RecordedInv(n)')
    BY <1>1, <1>2, <1>4, <1>5, WritesRun
  <1>7. (IsEvent(n)' <=> IsEvent(n)) /\ ~Sending(n)'
    BY <1>1 DEF IsEvent, Sending
  <1>8. IsEvent(n) => k \in TakenDue(n) /\ k # 0
                      /\ \A q \in TakenDue(n) : q # k => Delivered(n, q)
    <2>1. IsEvent(n) => k \in TakenDue(n)
                        /\ \A q \in TakenDue(n) : q # k => Delivered(n, q)
      BY <1>1 DEF RunInv, ProgressInv
    <2>2. \A q \in TakenDue(n) : q # 0
      BY ReadIs, AutomationAssumption DEF TakenDue, RuleIds
    <2> QED  BY <2>1, <2>2
  <1>9. IsEvent(n) => ProgressInv(n)'
    <2> SUFFICES ASSUME IsEvent(n)
                 PROVE  ProgressInv(n)'
      OBVIOUS
    <2>1. \A q \in TakenDue(n) : q \in 0 .. NRules
      BY ReadIs, AutomationAssumption DEF TakenDue, RuleIds
    <2> HIDE DEF k
    <2>2. \A q \in TakenDue(n) : Delivered(n, q)'
      BY <1>4, <1>5, <1>8, <2>1 DEF Delivered
    <2> QED  BY <1>1, <1>6, <1>7, <1>8, <2>2 DEF ProgressInv
  <1>10. ~IsEvent(n) => pc'[n] = "done"
    BY <1>1 DEF RunInv
  <1> QED  BY <1>1, <1>6, <1>7, <1>9, <1>10 DEF RunInv

LEMMA NextRun ==
  ASSUME TypeOK, UnderWay, \A n \in Requests : RunInv(n), [Next]_vars
  PROVE  \A n \in Requests : RunInv(n)'
  <1> SUFFICES ASSUME NEW n \in Requests
               PROVE  RunInv(n)'
    OBVIOUS
  <1>1. CASE UNCHANGED requests \/ Alone(n)
    BY <1>1, AloneRun DEF requests, Alone
  <1>2. CASE Acts(n)
    BY <1>2, PublishesRun, SkipsRun, ExecutesRun, RunEndsRun, TestRun, SendingRun, SentRun
    DEF Acts
  <1> QED  BY <1>1, <1>2, StepIs

\* An event is answered by the rules that were in force when it was published
\* and no others, in order, whatever becomes of the rules meanwhile: a record
\* is for one whose conditions hold, once those before it were sent, and a run
\* that ends without an error has sent a message for them all.
THEOREM AutomationFollowsRules == Spec => []RecordsFollowRules
  <1> DEFINE Runs == \A n \in Requests : RunInv(n)
  <1>1. Init => Runs
    BY DEF Init, RunInv, IsEvent, Sending
  <1>2. TypeOK /\ UnderWay /\ Runs /\ [Next]_vars => Runs'
    BY NextRun
  <1>3. TypeOK /\ Runs => RecordsFollowRules
    <2> SUFFICES ASSUME TypeOK, Runs, NEW n \in Requests, IsEvent(n)
                 PROVE  /\ \A r \in RuleIds : record[<<n, r>>] # None =>
                              /\ r \in DOMAIN due[n]
                              /\ record[<<n, r>>].channel = due[n][r].channel
                              /\ \A q \in DOMAIN due[n] : q < r => Delivered(n, q)
                        /\ pc[n] = "done" => \A r \in DOMAIN due[n] : Delivered(n, r)
      BY DEF RecordsFollowRules, Delivered
    <2>1. RecordedInv(n) /\ ProgressInv(n)
      BY DEF RunInv
    <2> QED  BY <2>1 DEF RecordedInv, ProgressInv, TakenDue
  <1> HIDE DEF Runs
  <1> QED  BY <1>1, <1>2, <1>3, Typed, PTL DEF Spec

----------------------------------------------------------------------------
(* The evaluator.  getByPath is a reduce, which FoldLeft defines by a       *)
(* recursive function on the sets of indices, or a loop.  That there are    *)
(* such functions, and where they lead, is by induction on the keys.        *)

\* f is what following the first m keys of path gives, one key after the other.
Steps(f, obj, path, m) ==
    f = [i \in 0 .. m |-> IF i = 0 THEN obj ELSE Field(f[i - 1], path[i])]

\* f folds the keys of path in each set of indices, the last one first.
FoldsKeys(f, obj, path, m) ==
    f = [s \in SUBSET (1 .. m) |->
            IF s = {} THEN obj ELSE Field(f[s \ {Max(s)}], path[Max(s)])]

\* Induction, for a set: the theorems of NaturalsInduction take an operator.
LEMMA AllNumbers ==
  ASSUME NEW S \in SUBSET Nat, 0 \in S, \A n \in S : n + 1 \in S
  PROVE  S = Nat
  <1> SUFFICES ASSUME Nat \ S # {}
               PROVE  FALSE
    OBVIOUS
  <1> DEFINE R == OpToRel(<, Nat)
  <1>1. IsWellFoundedOn(R, Nat)
    BY NatLessThanWellFounded
  <1>2. \A x, y \in Nat : x < y => <<x, y>> \in R
    BY DEF OpToRel
  <1> HIDE DEF R
  <1>3. PICK m \in Nat \ S : \A n \in Nat \ S : ~(<<n, m>> \in R)
    BY <1>1, WFMin
  <1>4. m # 0 /\ m - 1 \in Nat /\ m - 1 < m
    BY <1>3
  <1>5. m - 1 \in S
    BY <1>2, <1>3, <1>4
  <1> QED  BY <1>3, <1>5

\* A path can be followed however long it is.
LEMMA StepsExist ==
  ASSUME NEW obj, NEW path, NEW m \in Nat
  PROVE  \E f : Steps(f, obj, path, m)
  <1> DEFINE S == {n \in Nat : \E f : Steps(f, obj, path, n)}
  <1>1. 0 \in S
    <2>1. Steps([i \in 0 .. 0 |-> obj], obj, path, 0)
      BY DEF Steps
    <2> QED  BY <2>1
  <1>2. ASSUME NEW n \in S
        PROVE  n + 1 \in S
    <2>1. PICK g : Steps(g, obj, path, n)
      OBVIOUS
    <2> DEFINE f == [i \in 0 .. n + 1 |->
                        IF i = n + 1 THEN Field(g[n], path[n + 1]) ELSE g[i]]
    <2>2. ASSUME NEW i \in 0 .. n + 1
          PROVE  f[i] = IF i = 0 THEN obj ELSE Field(f[i - 1], path[i])
      <3>1. CASE i = n + 1
        <4>1. f[n] = g[n] /\ f[i] = Field(g[n], path[i]) /\ i - 1 = n /\ i # 0
          BY <3>1
        <4> QED  BY <4>1
      <3>2. CASE i \in 0 .. n
        <4>1. f[i] = g[i] /\ (i # 0 => f[i - 1] = g[i - 1] /\ i - 1 \in 0 .. n)
          BY <3>2
        <4>2. g[i] = IF i = 0 THEN obj ELSE Field(g[i - 1], path[i])
          BY <2>1, <3>2 DEF Steps
        <4> QED  BY <4>1, <4>2
      <3> QED  BY <3>1, <3>2
    <2>3. Steps(f, obj, path, n + 1)
      BY <2>2 DEF Steps
    <2> QED  BY <2>3
  <1>3. S = Nat
    <2> HIDE DEF S
    <2> QED  BY <1>1, <1>2, AllNumbers DEF S
  <1> QED  BY <1>3

LEMMA MaxOfInterval ==
  ASSUME NEW n \in Nat, NEW s \in SUBSET (1 .. n), n \in s
  PROVE  Max(s) = n
  <1>1. \A y \in s : y \in 1 .. n /\ n >= y
    OBVIOUS
  <1>2. \A x \in s : x \in 1 .. n /\ (x >= n => x = n)
    OBVIOUS
  <1>3. \E x \in s : \A y \in s : x >= y
    BY <1>1
  <1>4. Max(s) \in s /\ Max(s) >= n
    BY <1>3 DEF Max
  <1> QED  BY <1>2, <1>4

\* The function that MapThenFoldSet chooses exists: the last index of a set is
\* taken first, and what is left has been folded.
LEMMA FoldsExist ==
  ASSUME NEW obj, NEW path, NEW m \in Nat
  PROVE  \E f : FoldsKeys(f, obj, path, m)
  <1> DEFINE S == {n \in Nat : \E f : FoldsKeys(f, obj, path, n)}
  <1>1. 0 \in S
    <2>1. SUBSET (1 .. 0) = {{}}
      OBVIOUS
    <2>2. FoldsKeys([s \in SUBSET (1 .. 0) |-> obj], obj, path, 0)
      BY <2>1 DEF FoldsKeys
    <2> QED  BY <2>2
  <1>2. ASSUME NEW n \in S
        PROVE  n + 1 \in S
    <2>1. PICK g : FoldsKeys(g, obj, path, n)
      OBVIOUS
    <2> DEFINE f == [s \in SUBSET (1 .. n + 1) |->
                        IF n + 1 \in s
                        THEN Field(g[s \ {n + 1}], path[n + 1]) ELSE g[s]]
    <2>2. ASSUME NEW s \in SUBSET (1 .. n + 1)
          PROVE  f[s] = IF s = {} THEN obj ELSE Field(f[s \ {Max(s)}], path[Max(s)])
      <3>1. CASE n + 1 \in s
        <4>1. Max(s) = n + 1
          BY <3>1, MaxOfInterval
        <4>2. s \ {n + 1} \in SUBSET (1 .. n + 1) /\ n + 1 \notin s \ {n + 1}
          OBVIOUS
        <4>3. f[s \ {n + 1}] = g[s \ {n + 1}]
          BY <4>2
        <4>4. f[s] = Field(g[s \ {n + 1}], path[n + 1]) /\ s # {}
          BY <3>1
        <4> HIDE DEF f
        <4> QED  BY <4>1, <4>3, <4>4
      <3>2. CASE n + 1 \notin s
        <4>1. s \in SUBSET (1 .. n)
          BY <3>2
        <4>2. g[s] = IF s = {} THEN obj ELSE Field(g[s \ {Max(s)}], path[Max(s)])
          BY <2>1, <4>1 DEF FoldsKeys
        <4>3. s \ {Max(s)} \in SUBSET (1 .. n + 1) /\ n + 1 \notin s \ {Max(s)}
          BY <3>2
        <4>4. f[s \ {Max(s)}] = g[s \ {Max(s)}]
          BY <4>3
        <4>5. f[s] = g[s]
          BY <3>2
        <4> HIDE DEF f
        <4> QED  BY <4>2, <4>4, <4>5
      <3> QED  BY <3>1, <3>2
    <2>3. FoldsKeys(f, obj, path, n + 1)
      <3>1. f = [s \in SUBSET (1 .. n + 1) |-> f[s]]
        OBVIOUS
      <3> HIDE DEF f
      <3> QED  BY <2>2, <3>1 DEF FoldsKeys
    <2> QED  BY <2>3
  <1>3. S = Nat
    <2> HIDE DEF S
    <2> QED  BY <1>1, <1>2, AllNumbers DEF S
  <1> QED  BY <1>3

\* getByPath of path.util.ts follows the keys one after the other.
LEMMA LoopIs ==
  ASSUME NEW obj, NEW path, Len(path) \in Nat
  PROVE  \E f : /\ Steps(f, obj, path, Len(path))
                /\ GetByPathLoop(obj, path) =
                     IF \E i \in 0 .. Len(path) - 1 : f[i] \in {Undefined, Null}
                     THEN Undefined ELSE f[Len(path)]
  <1> DEFINE cur == CHOOSE f : Steps(f, obj, path, Len(path))
  <1>1. Steps(cur, obj, path, Len(path))
    BY StepsExist
  <1>2. GetByPathLoop(obj, path) =
           IF {i \in 0 .. Len(path) - 1 : cur[i] \in {Undefined, Null}} # {}
           THEN Undefined ELSE cur[Len(path)]
    BY DEF GetByPathLoop, Steps
  <1> HIDE DEF cur
  <1> QED  BY <1>1, <1>2

\* getByPath of the evaluator folds them.
LEMMA FoldIs ==
  ASSUME NEW obj, NEW path, Len(path) \in Nat, DOMAIN path = 1 .. Len(path)
  PROVE  \E f : /\ FoldsKeys(f, obj, path, Len(path))
                /\ GetByPath(obj, path) = f[1 .. Len(path)]
  <1> DEFINE iter == CHOOSE f : FoldsKeys(f, obj, path, Len(path))
  <1>1. FoldsKeys(iter, obj, path, Len(path))
    BY FoldsExist
  <1>2. GetByPath(obj, path) = iter[1 .. Len(path)]
    BY DEF GetByPath, FoldLeft, MapThenFoldSet, FoldsKeys
  <1> HIDE DEF iter
  <1> QED  BY <1>1, <1>2

\* The two getByPath of the repository, a reduce that goes on when there is
\* nothing left to look into and a loop that returns, lead to the same value,
\* for any object and a path of any length.
THEOREM PathsAgree ==
  ASSUME NEW obj, NEW Names, NEW path \in Seq(Names)
  PROVE  GetByPath(obj, path) = GetByPathLoop(obj, path)
  <1> DEFINE N == Len(path)
  <1>1. PICK f : /\ Steps(f, obj, path, N)
                 /\ GetByPathLoop(obj, path) =
                       IF \E i \in 0 .. N - 1 : f[i] \in {Undefined, Null}
                       THEN Undefined ELSE f[N]
    BY LoopIs
  <1>2. PICK g : FoldsKeys(g, obj, path, N) /\ GetByPath(obj, path) = g[1 .. N]
    BY FoldIs
  <1>3. g[1 .. N] = f[N]
    <2> DEFINE S == {k \in Nat : k <= N => g[1 .. k] = f[k]}
    <2>1. 0 \in S
      <3>1. 1 .. 0 = {} /\ {} \in SUBSET (1 .. N)
        OBVIOUS
      <3>2. g[{}] = obj
        BY <1>2, <3>1 DEF FoldsKeys
      <3>3. f[0] = obj
        BY <1>1 DEF Steps
      <3> QED  BY <3>1, <3>2, <3>3
    <2>2. ASSUME NEW k \in S
          PROVE  k + 1 \in S
      <3>1. SUFFICES ASSUME k + 1 <= N
                     PROVE  g[1 .. k + 1] = f[k + 1]
        OBVIOUS
      <3>2. g[1 .. k] = f[k]
        BY <3>1
      <3>3. Max(1 .. k + 1) = k + 1
        BY MaxOfInterval
      <3>4. (1 .. k + 1) \ {k + 1} = 1 .. k /\ 1 .. k + 1 # {}
            /\ 1 .. k + 1 \in SUBSET (1 .. N)
        <4>1. (1 .. k + 1) \ {k + 1} = 1 .. k
          OBVIOUS
        <4>2. k + 1 \in 1 .. k + 1
          OBVIOUS
        <4>3. \A x \in 1 .. k + 1 : x \in 1 .. N
          BY <3>1
        <4> QED  BY <4>1, <4>2, <4>3
      <3>5. g[1 .. k + 1] = Field(g[1 .. k], path[k + 1])
        BY <1>2, <3>3, <3>4 DEF FoldsKeys
      <3>6. f[k + 1] = Field(f[k], path[k + 1])
        BY <1>1, <3>1 DEF Steps
      <3> QED  BY <3>2, <3>5, <3>6
    <2>3. S = Nat
      <3> HIDE DEF S
      <3> QED  BY <2>1, <2>2, AllNumbers DEF S
    <2> QED  BY <2>3
  <1>4. ASSUME NEW i \in 0 .. N - 1, f[i] \in {Undefined, Null}
        PROVE  f[N] = Undefined
    <2> DEFINE S == {d \in Nat : i + 1 + d <= N => f[i + 1 + d] = Undefined}
    <2>1. 0 \in S
      BY <1>1, <1>4 DEF Steps, Field
    <2>2. ASSUME NEW d \in S
          PROVE  d + 1 \in S
      <3>1. SUFFICES ASSUME i + 1 + (d + 1) <= N
                     PROVE  f[i + 1 + (d + 1)] = Undefined
        OBVIOUS
      <3>2. f[i + 1 + d] = Undefined
        BY <3>1
      <3>3. f[i + 1 + (d + 1)] = Field(f[i + 1 + d], path[i + 1 + (d + 1)])
        BY <1>1, <3>1 DEF Steps
      <3> QED  BY <3>2, <3>3 DEF Field
    <2>3. S = Nat
      <3> HIDE DEF S
      <3> QED  BY <2>1, <2>2, AllNumbers DEF S
    <2>4. N - 1 - i \in Nat /\ i + 1 + (N - 1 - i) = N
      OBVIOUS
    <2>5. N - 1 - i \in S
      BY <2>3, <2>4
    <2>6. i + 1 + (N - 1 - i) <= N => f[i + 1 + (N - 1 - i)] = Undefined
      BY <2>5
    <2> QED  BY <2>4, <2>6
  <1> QED  BY <1>1, <1>2, <1>3, <1>4

\* What a key leads to is a value, and so is what a path leads to.
LEMMA FieldType ==
  ASSUME NEW v \in Values, NEW key
  PROVE  Field(v, key) \in Values
BY ValuesAssumption DEF Field

LEMMA PathType ==
  ASSUME NEW obj \in Values, NEW path, Len(path) \in Nat
  PROVE  GetByPathLoop(obj, path) \in Values
  <1>1. PICK f : /\ Steps(f, obj, path, Len(path))
                 /\ GetByPathLoop(obj, path) =
                       IF \E i \in 0 .. Len(path) - 1 : f[i] \in {Undefined, Null}
                       THEN Undefined ELSE f[Len(path)]
    BY LoopIs
  <1> DEFINE S == {k \in Nat : k <= Len(path) => f[k] \in Values}
  <1>2. 0 \in S
    BY <1>1 DEF Steps
  <1>3. ASSUME NEW k \in S
        PROVE  k + 1 \in S
    <2>1. SUFFICES ASSUME k + 1 <= Len(path)
                   PROVE  f[k + 1] \in Values
      OBVIOUS
    <2>2. f[k] \in Values
      BY <2>1
    <2>3. f[k + 1] = Field(f[k], path[k + 1])
      BY <1>1, <2>1 DEF Steps
    <2> QED  BY <2>2, <2>3, FieldType
  <1>4. S = Nat
    <2> HIDE DEF S
    <2> QED  BY <1>2, <1>3, AllNumbers DEF S
  <1>5. f[Len(path)] \in Values
    BY <1>4
  <1> QED  BY <1>1, <1>5, ValuesAssumption

LEMMA NumberType ==
  ASSUME NEW v \in Values
  PROVE  ToNumber(v) \in Int \cup {NaN}
BY ValuesAssumption DEF ToNumber

\* Each comparison is one of numbers, or of something that is none.
LEMMA Sound ==
  ASSUME NEW e \in Values, NEW c \in Condition
  PROVE  SoundOn(e, c)
  <1> DEFINE left == GetByPath(e, c.left)
             with(op) == [c EXCEPT !.op = op]
  <1>1. c.left \in Seq(STRING) /\ c.right \in Values
    BY DEF Condition
  <1>2. left = GetByPathLoop(e, c.left)
    BY <1>1, PathsAgree
  <1>3. left \in Values
    BY <1>1, <1>2, PathType
  <1>4. PICK m : m = ToNumber(left)
    OBVIOUS
  <1>5. PICK n : n = ToNumber(c.right)
    OBVIOUS
  <1>6. m \in Int \cup {NaN} /\ n \in Int \cup {NaN}
    BY <1>1, <1>3, <1>4, <1>5, NumberType
  <1>7. \A op \in {"gt", "gte", "lt", "lte", "eq"} :
           with(op).left = c.left /\ with(op).op = op /\ with(op).right = c.right
    BY DEF Condition
  <1>8. \A op \in {"gt", "gte", "lt", "lte"} : c.left # <<>> =>
           EvalOne(with(op), e) = Compares(op, left, c.right)
    <2> HIDE DEF with
    <2> QED  BY <1>7 DEF EvalOne
  <1>9. c.left # <<>> => EvalOne(with("eq"), e) = Same(left, c.right)
    <2> HIDE DEF with
    <2> QED  BY <1>7 DEF EvalOne
  <1>10. Same(left, c.right) => m = n
    BY <1>4, <1>5 DEF Same
  <1>11. m = NaN \/ n = NaN =>
            \A op \in {"gt", "gte", "lt", "lte"} : ~Compares(op, left, c.right)
    BY <1>4, <1>5 DEF Compares
  <1>12. ASSUME m # NaN, n # NaN
         PROVE  /\ Compares("gt", left, c.right) = (m > n)
                /\ Compares("gte", left, c.right) = (m >= n)
                /\ Compares("lt", left, c.right) = (m < n)
                /\ Compares("lte", left, c.right) = (m <= n)
    <2>1. /\ Compares("gt", left, c.right) <=> m > n
          /\ Compares("gte", left, c.right) <=> m >= n
          /\ Compares("lt", left, c.right) <=> m < n
          /\ Compares("lte", left, c.right) <=> m <= n
      BY <1>4, <1>5, <1>12 DEF Compares, Test
    <2>2. \A op : Compares(op, left, c.right) \in BOOLEAN
      BY DEF Compares
    <2> QED  BY <2>1, <2>2
  <1>13. ASSUME m # NaN, n # NaN
         PROVE  /\ (m > n) # (m <= n) /\ (m < n) # (m >= n)
                /\ m = n => m >= n /\ m <= n
    BY <1>6, <1>13
  <1> HIDE DEF left, with
  <1>14. ASSUME m # NaN, n # NaN, c.left # <<>>
         PROVE  /\ EvalOne(with("gt"), e) # EvalOne(with("lte"), e)
                /\ EvalOne(with("lt"), e) # EvalOne(with("gte"), e)
                /\ EvalOne(with("eq"), e) =>
                      EvalOne(with("gte"), e) /\ EvalOne(with("lte"), e)
    BY <1>8, <1>9, <1>10, <1>12, <1>13, <1>14
  <1>15. ASSUME m = NaN \/ n = NaN, c.left # <<>>
         PROVE  \A op \in {"gt", "gte", "lt", "lte"} : ~EvalOne(with(op), e)
    BY <1>8, <1>11, <1>15
  <1> QED  BY <1>2, <1>4, <1>5, <1>14, <1>15 DEF SoundOn, left, with

\* Whatever the paths, operators and values of the conditions that were read,
\* each has one meaning for the event: the reduce and the loop of getByPath
\* agree, a threshold splits the events in two, and an event that is not a
\* number where the condition looks is on neither side.
THEOREM AutomationEvaluatorSound == Spec => []EvaluatorSound
  <1>1. ASSUME TypeOK
        PROVE  EvaluatorSound
    <2> SUFFICES ASSUME NEW n \in Requests, IsEvent(n),
                        NEW r \in DOMAIN read[n], read[n][r].conditions # Null,
                        NEW f \in DOMAIN read[n][r].conditions,
                        NEW c \in read[n][r].conditions[f]
                 PROVE  SoundOn(job[n].data, c)
      BY DEF EvaluatorSound
    <2>1. job[n].data \in Values
      <3>1. job[n] \in Events \cup TestSends /\ "key" \in DOMAIN job[n]
        BY <1>1 DEF TypeOK, IsEvent
      <3>2. ASSUME NEW d \in TestSends
            PROVE  "key" \notin DOMAIN d
        BY AutomationAssumption DEF TestSendDto
      <3> QED  BY <3>1, <3>2, ConditionsAssumption
    <2>2. read[n][r].conditions \in {x.conditions : x \in Contents}
      BY <1>1 DEF TypeOK, IsPartial, Content
    <2>3. c \in Condition
      BY <2>2, ConditionsAssumption
    <2> QED  BY <2>1, <2>3, Sound
  <1> QED  BY <1>1, Typed, PTL
=============================================================================
