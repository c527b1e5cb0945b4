----------------------------- MODULE Automation -----------------------------
(***************************************************************************)
(* WorkflowRulesService, TemplatesService, the rule engine and             *)
(* CommunicationsService.testSend at the level of what they send, while    *)
(* administrators change the rules and someone changes the customer.       *)
(* EventEngine and OverdueWorkflow show when an event is published and     *)
(* what becomes of its publisher; here the rules, their conditions, the    *)
(* recipients and the providers are those of the code.                     *)
(***************************************************************************)
EXTENDS ConditionEvaluator, Providers

CONSTANTS
    Envs,        \* environments the server may be started in
    Customers,   \* states of the customer the events are about
    Contents,    \* what a rule may be made of
    Events,      \* events, [key, data]
    TestSends,   \* TestSendDtos, [channel, to, customer]
    Patches,     \* the sets of fields an update of a rule may have
    Admins,      \* administrators
    NRules, NTemplates, NRequests,
    Keys,        \* keys of templates
    None,        \* no call, no job, no message, no record
    MaxChanges   \* bound on the writes of administrators and of the customer

RuleIds == 1 .. NRules
TemplateIds == 1 .. NTemplates
Requests == 1 .. NRequests
RuleFields == {"key", "enabled", "conditions", "action"}

\* What the columns of a rule, the customer and a request may hold.
Actions == {c.action : c \in Contents}
Content == [key : {c.key : c \in Contents}, enabled : BOOLEAN,
            conditions : {c.conditions : c \in Contents}, action : Actions]
Customer == [live : BOOLEAN, email : Address \cup {None}, phone : Address \cup {None}]
TestSendDto == [channel : Channels, to : Address, customer : BOOLEAN]

Statuses == {"queued", "sent", "failed"}
ProviderNames == {"pending", "fake-email", "fake-sms", "fake-push",
              "resend", "twilio", "fcm", "fallback"}

Rule == [exists : BOOLEAN, live : BOOLEAN, content : Content]
Template == [exists : BOOLEAN, live : BOOLEAN, active : BOOLEAN, key : Keys]
Call == [op : {"updateRule", "removeRule"}, id : RuleIds] \cup
        [op : {"updateTemplate", "deleteTemplate"}, id : TemplateIds]
\* A rule may name a channel that does not exist.
ChannelNames ==
    Channels \cup {x.channel : x \in {x \in Actions : x.type = "sendMessage"}}
Message == [channel : ChannelNames, to : Address, rule : 0 .. NRules,
            result : [provider : ProviderNames \cup {"none"},
                      error : {"none", "config", "temporary", "plain"}]]
Record == [channel : Channels, to : Address, status : Statuses,
           provider : ProviderNames]

ASSUME AutomationAssumption ==
    /\ Envs \subseteq Env
    /\ Customers \subseteq Customer
    /\ Contents # {} /\ Contents \subseteq Content
    /\ \A x \in Actions :
          x.type = "sendMessage" /\ x.source = "text" => x.to \in Address
    /\ \A e \in Events : "key" \in DOMAIN e
    /\ TestSends \subseteq TestSendDto
    /\ Patches \subseteq SUBSET RuleFields
    /\ NRules \in Nat /\ NTemplates \in Nat /\ NRequests \in Nat
    /\ Keys # {}
    /\ None \notin Events \cup TestSends
    /\ None \notin Address /\ None \notin Call
    /\ None \notin Message /\ None \notin Record
    /\ MaxChanges \in Nat

\* What the evaluator is given: an event, and conditions that are null or have
\* lists of conditions under some keys.
ASSUME ConditionsAssumption ==
    /\ \A e \in Events : e.data \in Values
    /\ \A c \in Contents : c.conditions # Null =>
          \A f \in DOMAIN c.conditions : c.conditions[f] \subseteq Condition

VARIABLES
    env,        \* process.env
    customer,   \* the customer row: live, email, phone
    rules,      \* rules[r]: a WorkflowRule row, r by createdAt
    templates,  \* templates[t]: a CommunicationTemplate row
    call,       \* call[a]: the update or removal a has checked, not written
    pc,         \* pc[n]: where request n is
    job,        \* job[n]: the event it publishes or the TestSendDto
    read,       \* read[n]: the rules it has read and not yet taken
    msg,        \* msg[n]: the message it is sending
    record,     \* record[<<n, r>>]: the CommunicationRecord for rule r, r = 0
                \* for a test
    due,        \* history: the actions due when n read the rules
    removed,    \* history: rules and templates whose removal was written
    changes     \* writes so far

tables == <<rules, templates, removed>>
requests == <<pc, job, read, msg, record, due>>
vars == <<env, customer, tables, call, requests, changes>>

----------------------------------------------------------------------------
\* f gives some of the rules a value in T.
IsPartial(f, T) == DOMAIN f \subseteq RuleIds /\ f \in [DOMAIN f -> T]

Sending(n) == pc[n] \in {"create", "send", "update"}

TypeOK ==
    /\ env \in Envs
    /\ customer \in Customer
    /\ rules \in [RuleIds -> Rule]
    /\ templates \in [TemplateIds -> Template]
    /\ call \in [Admins -> Call \cup {None}]
    /\ pc \in [Requests -> {"none", "rules", "create", "send", "update",
                            "done", "threw"}]
    /\ job \in [Requests -> Events \cup TestSends \cup {None}]
    /\ msg \in [Requests -> Message \cup {None}]
    /\ record \in [Requests \X (0 .. NRules) -> Record \cup {None}]
    /\ DOMAIN read = Requests /\ DOMAIN due = Requests
    /\ \A n \in Requests :
          /\ IsPartial(read[n], Content) /\ IsPartial(due[n], Actions)
          /\ pc[n] = "none" <=> job[n] = None
          /\ Sending(n) <=> msg[n] # None
    /\ removed \subseteq ({"rule"} \X RuleIds) \cup ({"template"} \X TemplateIds)
    /\ changes \in 0 .. MaxChanges

\* The rules and templates of a company that has begun to use them.
Init ==
    /\ env \in Envs
    /\ customer \in Customers
    /\ \E k \in 0 .. NRules : \E f \in [1 .. k -> Contents] :
          rules = [r \in RuleIds |->
                      IF r <= k
                      THEN [exists |-> TRUE, live |-> TRUE, content |-> f[r]]
                      ELSE [exists |-> FALSE, live |-> FALSE,
                            content |-> CHOOSE c \in Contents : TRUE]]
    /\ templates = [t \in TemplateIds |->
                       [exists |-> FALSE, live |-> FALSE, active |-> FALSE,
                        key |-> CHOOSE k \in Keys : TRUE]]
    /\ call = [a \in Admins |-> None]
    /\ pc = [n \in Requests |-> "none"]
    /\ job = [n \in Requests |-> None]
    /\ read = [n \in Requests |-> <<>>]
    /\ msg = [n \in Requests |-> None]
    /\ record = [nr \in Requests \X (0 .. NRules) |-> None]
    /\ due = [n \in Requests |-> <<>>]
    /\ removed = {}
    /\ changes = 0

----------------------------------------------------------------------------
(* The customer, and the writes of administrators                          *)

MayChange == changes < MaxChanges /\ changes' = changes + 1

CustomerChanges ==
    /\ MayChange
    /\ customer.live
    /\ customer' \in Customers \cup {[customer EXCEPT !.live = FALSE]}
    /\ UNCHANGED <<env, tables, call, requests>>

\* getById finds a row that is not deleted; the write comes later, by id.
Checks(a, op, row, id) ==
    /\ call[a] = None
    /\ row.exists /\ row.live
    /\ MayChange
    /\ call' = [call EXCEPT ![a] = [op |-> op, id |-> id]]
    /\ UNCHANGED <<env, customer, tables, requests>>

AdminChecks(a) ==
    \/ \E r \in RuleIds, op \in {"updateRule", "removeRule"} :
          Checks(a, op, rules[r], r)
    \/ \E t \in TemplateIds, op \in {"updateTemplate", "deleteTemplate"} :
          Checks(a, op, templates[t], t)

Writes(a, op) ==
    /\ call[a] # None
    /\ call[a].op = op
    /\ call' = [call EXCEPT ![a] = None]
    /\ UNCHANGED <<env, customer, requests, changes>>

\* Mutant: the fields the dto leaves out are cleared.
RuleUpdatesOnly(a) ==
    /\ Writes(a, "updateRule")
    /\ \E c \in Contents, F \in Patches :
          rules' = [rules EXCEPT ![call[a].id].content = [f \in F |-> c[f]]]
    /\ UNCHANGED <<templates, removed>>

\* The fields the dto has; the conditions can be changed but not taken away.
RuleUpdates(a) ==
    /\ Writes(a, "updateRule")
    /\ \E c \in Contents, F \in Patches :
          /\ "conditions" \in F => c.conditions # Null
          /\ rules' = [rules EXCEPT ![call[a].id].content =
                [f \in RuleFields |-> IF f \in F THEN c[f] ELSE @[f]]]
    /\ UNCHANGED <<templates, removed>>

\* Mutant: a removed rule is one that is not enabled.
RuleDisabled(a) ==
    /\ Writes(a, "removeRule")
    /\ rules' = [rules EXCEPT ![call[a].id].content.enabled = FALSE]
    /\ removed' = removed \cup {<<"rule", call[a].id>>}
    /\ UNCHANGED templates

RuleRemoved(a) ==
    /\ Writes(a, "removeRule")
    /\ rules' = [rules EXCEPT ![call[a].id].live = FALSE]
    /\ removed' = removed \cup {<<"rule", call[a].id>>}
    /\ UNCHANGED templates

\* The key of a company and a channel is unique, deleted templates included.
KeyTaken(k, t) ==
    \E u \in TemplateIds \ {t} : templates[u].exists /\ templates[u].key = k

TemplateCreated ==
    /\ MayChange
    /\ \E t \in TemplateIds, k \in Keys, active \in BOOLEAN :
          /\ ~templates[t].exists
          /\ \A q \in 1 .. t - 1 : templates[q].exists
          /\ ~KeyTaken(k, t)
          /\ templates' = [templates EXCEPT ![t] =
                [exists |-> TRUE, live |-> TRUE, active |-> active, key |-> k]]
    /\ UNCHANGED <<env, customer, call, requests, rules, removed>>

TemplateUpdates(a) ==
    /\ Writes(a, "updateTemplate")
    /\ \E k \in Keys, active \in BOOLEAN :
          templates' = IF KeyTaken(k, call[a].id) THEN templates
                       ELSE [templates EXCEPT ![call[a].id].key = k,
                                              ![call[a].id].active = active]
    /\ UNCHANGED <<rules, removed>>

TemplateDeleted(a) ==
    /\ Writes(a, "deleteTemplate")
    /\ templates' = [templates EXCEPT ![call[a].id].live = FALSE,
                                      ![call[a].id].active = FALSE]
    /\ removed' = removed \cup {<<"template", call[a].id>>}
    /\ UNCHANGED rules

RuleCreated ==
    /\ MayChange
    /\ \E r \in RuleIds, c \in Contents :
          /\ ~rules[r].exists
          /\ \A q \in 1 .. r - 1 : rules[q].exists
          /\ rules' = [rules EXCEPT ![r] =
                [exists |-> TRUE, live |-> TRUE, content |-> c]]
    /\ UNCHANGED <<env, customer, call, requests, templates, removed>>

AdminWrites(a) ==
    \/ RuleUpdates(a) \/ RuleRemoved(a)
    \/ TemplateUpdates(a) \/ TemplateDeleted(a)

\* getByKey: the template a message would be made from.
Found(k) ==
    {t \in TemplateIds : /\ templates[t].exists /\ templates[t].live
                         /\ templates[t].active /\ templates[t].key = k}

----------------------------------------------------------------------------
(* Events and the rule engine                                              *)

InForce(r, key) ==
    /\ rules[r].exists /\ rules[r].live
    /\ rules[r].content.enabled /\ rules[r].content.key = key

\* runRules reads the rules of the event's key, once.
Publishes(n) ==
    /\ pc[n] = "none"
    /\ \E e \in Events :
          LET found == [r \in {r \in RuleIds : InForce(r, e.key)} |->
                           rules[r].content]
          IN  /\ job' = [job EXCEPT ![n] = e]
              /\ read' = [read EXCEPT ![n] = found]
              /\ due' = [due EXCEPT ![n] =
                    [r \in {r \in DOMAIN found :
                               /\ Matches(found[r].conditions, e.data)
                               /\ found[r].action.type = "sendMessage"} |->
                        found[r].action]]
    /\ pc' = [pc EXCEPT ![n] = "rules"]
    /\ UNCHANGED <<env, customer, tables, call, msg, record, changes>>

\* Mutant: the rule is read again when it is its turn.
NextRuleAgain(n, r) == rules[r].content

\* The rule the loop is at: the next of those that were read.
NextRule(n, r) == read[n][r]

AtRule(n, r) ==
    /\ pc[n] = "rules"
    /\ r \in DOMAIN read[n]
    /\ \A q \in DOMAIN read[n] : r <= q

\* The loop goes on after rule r.
Taken(n, r) ==
    read' = [read EXCEPT ![n] = [q \in DOMAIN read[n] \ {r} |-> read[n][q]]]

SkipsRule(n, r) ==
    /\ AtRule(n, r)
    /\ \/ ~Matches(NextRule(n, r).conditions, job[n].data)
       \/ NextRule(n, r).action.type # "sendMessage"
    /\ Taken(n, r)
    /\ UNCHANGED <<env, customer, tables, call, pc, job, msg, record, due,
                   changes>>

HasCustomer(e) == GetByPath(e.data, <<"customerId">>) \notin {Undefined, Null}

\* resolveTo: the recipient of an action, None when it throws.
ResolveTo(action, e) ==
    CASE action.source = "text" -> action.to
      [] action.source = "customer.email" /\ HasCustomer(e) /\ customer.live ->
            customer.email
      [] action.source = "customer.phone" /\ HasCustomer(e) /\ customer.live ->
            customer.phone
      [] OTHER -> None

\* The request goes on with a message, or an exception ends it.
Composes(n, channel, to, r, ok) ==
    IF ok
    THEN /\ pc' = [pc EXCEPT ![n] = "create"]
         /\ msg' = [msg EXCEPT ![n] =
               [channel |-> channel, to |-> to, rule |-> r,
                result |-> Returned("pending")]]
    ELSE /\ pc' = [pc EXCEPT ![n] = "threw"]
         /\ UNCHANGED msg

ExecutesAction(n, r) ==
    /\ AtRule(n, r)
    /\ Taken(n, r)
    /\ LET rule == NextRule(n, r)
           to == ResolveTo(rule.action, job[n])
       IN  /\ Matches(rule.conditions, job[n].data)
           /\ rule.action.type = "sendMessage"
           /\ Composes(n, rule.action.channel, to, r,
                 /\ to # None
                 /\ AssertToMatchesChannel(rule.action.channel, to))
    /\ UNCHANGED <<env, customer, tables, call, job, record, due, changes>>

\* Every rule was taken: publish returns.
RunEnds(n) ==
    /\ pc[n] = "rules" /\ DOMAIN read[n] = {}
    /\ pc' = [pc EXCEPT ![n] = "done"]
    /\ UNCHANGED <<env, customer, tables, call, job, read, msg, record, due,
                   changes>>

----------------------------------------------------------------------------
(* CommunicationsService.testSend *)

\* Mutant: what the client gave is checked, not what it resolves to.
TestSendsUnresolved(n) ==
    /\ pc[n] = "none"
    /\ \E dto \in TestSends :
          LET to == IF ~dto.customer \/ dto.channel = "push" THEN dto.to
                    ELSE IF dto.channel = "email" THEN customer.email
                    ELSE customer.phone
          IN  /\ job' = [job EXCEPT ![n] = dto]
              /\ Composes(n, dto.channel, to, 0,
                    /\ dto.customer => customer.live
                    /\ to # None
                    /\ ValidateRecipient(dto.channel, dto.to))
    /\ UNCHANGED <<env, customer, tables, call, read, record, due, changes>>

TestSendBegins(n) ==
    /\ pc[n] = "none"
    /\ \E dto \in TestSends :
          LET to == IF ~dto.customer \/ dto.channel = "push" THEN dto.to
                    ELSE IF dto.channel = "email" THEN customer.email
                    ELSE customer.phone
          IN  /\ job' = [job EXCEPT ![n] = dto]
              /\ Composes(n, dto.channel, to, 0,
                    /\ dto.customer => customer.live
                    /\ to # None
                    /\ ValidateRecipient(dto.channel, to))
    /\ UNCHANGED <<env, customer, tables, call, read, record, due, changes>>

----------------------------------------------------------------------------
(* The record and the provider, for both *)

RecordOf(n) == <<n, msg[n].rule>>

\* A channel that is none of the enum is refused by the database.
CreatesRecord(n) ==
    /\ pc[n] = "create"
    /\ IF msg[n].channel \in Channels
       THEN /\ record' = [record EXCEPT ![RecordOf(n)] =
                  [channel |-> msg[n].channel, to |-> msg[n].to,
                   status |-> "queued", provider |-> "pending"]]
            /\ pc' = [pc EXCEPT ![n] = "send"]
            /\ UNCHANGED msg
       ELSE /\ pc' = [pc EXCEPT ![n] = "threw"]
            /\ msg' = [msg EXCEPT ![n] = None]
            /\ UNCHANGED record
    /\ UNCHANGED <<env, customer, tables, call, job, read, due, changes>>

ProviderAnswers(n) ==
    /\ pc[n] = "send"
    /\ \E answer \in Answers :
          msg' = [msg EXCEPT ![n].result =
                     Send(env, msg[n].channel, msg[n].to, answer)]
    /\ pc' = [pc EXCEPT ![n] = "update"]
    /\ UNCHANGED <<env, customer, tables, call, job, read, record, due, changes>>

\* Sent: the engine takes its next rule, the test returns.
RecordsSent(n) ==
    /\ pc[n] = "update" /\ msg[n].result.error = "none"
    /\ record' = [record EXCEPT ![RecordOf(n)].status = "sent",
                                ![RecordOf(n)].provider = msg[n].result.provider]
    /\ pc' = [pc EXCEPT ![n] = IF msg[n].rule = 0 THEN "done" ELSE "rules"]
    /\ msg' = [msg EXCEPT ![n] = None]
    /\ UNCHANGED <<env, customer, tables, call, job, read, due, changes>>

\* The provider threw, or the update to sent did: the record is failed and the
\* error thrown on, out of the loop over the rules.
RecordsFailed(n) ==
    /\ pc[n] = "update"
    /\ record' = [record EXCEPT ![RecordOf(n)].status = "failed"]
    /\ pc' = [pc EXCEPT ![n] = "threw"]
    /\ msg' = [msg EXCEPT ![n] = None]
    /\ UNCHANGED <<env, customer, tables, call, job, read, due, changes>>

\* A statement throws, or the process stops.
Fails(n) ==
    /\ pc[n] \notin {"none", "done", "threw"}
    /\ pc' = [pc EXCEPT ![n] = "threw"]
    /\ msg' = [msg EXCEPT ![n] = None]
    /\ UNCHANGED <<env, customer, tables, call, job, read, record, due, changes>>

Next ==
    \/ CustomerChanges \/ RuleCreated \/ TemplateCreated
    \/ \E a \in Admins : AdminChecks(a) \/ AdminWrites(a)
    \/ \E n \in Requests :
          \/ Publishes(n) \/ RunEnds(n)
          \/ \E r \in RuleIds : SkipsRule(n, r) \/ ExecutesAction(n, r)
          \/ TestSendBegins(n)
          \/ CreatesRecord(n) \/ ProviderAnswers(n)
          \/ RecordsSent(n) \/ RecordsFailed(n) \/ Fails(n)

Spec == Init /\ [][Next]_vars

----------------------------------------------------------------------------
(* Properties *)

IsEvent(n) == pc[n] # "none" /\ "key" \in DOMAIN job[n]

\* An event is answered by the rules that were in force when it was published
\* and no others: each record is for one of them whose conditions hold, on
\* its channel, once those before it were sent; and a run that ends without
\* an error has sent a message for them all.
RecordsFollowRules ==
    \A n \in Requests : IsEvent(n) =>
        /\ \A r \in RuleIds : record[<<n, r>>] # None =>
              /\ r \in DOMAIN due[n]
              /\ record[<<n, r>>].channel = due[n][r].channel
              /\ \A q \in DOMAIN due[n] : q < r =>
                    record[<<n, q>>] # None /\ record[<<n, q>>].status = "sent"
        /\ pc[n] = "done" => \A r \in DOMAIN due[n] :
              record[<<n, r>>] # None /\ record[<<n, r>>].status = "sent"

\* Which provider a message went to is decided in two places, by the factory
\* of its channel and by the fallback while it sends, from NODE_ENV, the mode,
\* the leave to fall back and the settings.  A message that counts as sent in
\* test or demo mode was not sent to anybody; in live mode it was sent by the
\* real provider of its channel, which has its settings, unless the fallback
\* may answer and did.  (It never does: see the README.)
SentByMode ==
    \A nr \in DOMAIN record :
        record[nr] # None /\ record[nr].status = "sent" =>
            LET r == record[nr]
                isLive == env.mode = "live"
            IN  \/ /\ isLive => r.channel \notin env.unset
                   /\ r.provider =
                        CASE r.channel = "email" ->
                                IF isLive THEN "resend" ELSE "fake-email"
                          [] r.channel = "sms" ->
                                IF isLive THEN "twilio" ELSE "fake-sms"
                          [] r.channel = "push" ->
                                IF isLive THEN "fcm" ELSE "fake-push"
                \/ isLive /\ env.allowFallback /\ r.provider = "fallback"

\* Whatever the customer's row says when it is read, a record's recipient can
\* be reached on its channel as far as the checks go: a test is addressed to
\* a valid recipient, and a text message that is sent begins with a +.
AddressFitsChannel ==
    \A nr \in DOMAIN record : record[nr] # None =>
        LET r == record[nr]
        IN  /\ r.channel = "email" => HasAt(r.to)
            /\ r.channel = "sms" => ~HasAt(r.to)
            /\ nr[2] = 0 => ValidateRecipient(r.channel, r.to)
            /\ r.channel = "sms" /\ r.status = "sent" /\ env.mode = "live" =>
                  r.to.form \in {"e164", "plus"}

\* A rule or a template whose removal was written is not read again, although
\* an update that found it before the removal writes after it.
RemovedStaysOff ==
    /\ \A r \in RuleIds : <<"rule", r>> \in removed =>
          ~InForce(r, rules[r].content.key)
    /\ \A t \in TemplateIds : <<"template", t>> \in removed =>
          t \notin Found(templates[t].key)

\* Each condition of each rule read has one meaning for the event, whatever is
\* missing from it or is of another kind: see SoundOn.
EvaluatorSound ==
    \A n \in Requests : IsEvent(n) =>
        \A r \in DOMAIN read[n] : read[n][r].conditions # Null =>
            \A f \in DOMAIN read[n][r].conditions :
                \A c \in read[n][r].conditions[f] : SoundOn(job[n].data, c)
=============================================================================
