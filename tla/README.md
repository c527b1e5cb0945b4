# Verification of the omni-channel CRM API

TLA+ specifications of the NestJS back end under `src/`, the TLC runs that
check them on small instances, and TLAPS proofs of the results that hold for
every instance. `PROJECT.json` maps each definition to the lines it models and
lists the runs, the mutants of the code that each property catches, the
hazards, the findings and the theorems.

    tlc -workers 2 -config <run>.cfg <MC module>
    tlapm <module>Proofs.tla

## The system

A CRM API over PostgreSQL (Prisma): requests arrive over HTTP, pass guards that
set up a request context (company, user, request id), and call a service. Three
cron jobs work beside the requests. Nothing but the database is durable; the
event bus is a list of callbacks in memory.

| component | state it keeps | operations | talks to |
|---|---|---|---|
| Message delivery (`communications/`) | `CommunicationRecord`: status, retryCount, nextRetryAt, time stamps | sendManual; retry job (every 30 s) with attemptSend; simulation job (every 20 s, demo mode) | provider over HTTP |
| Overdue job (`workflows/jobs/`) | `Task.overdueEventSentAt` | each minute a page of overdue tasks, a transaction per task | event bus, inside its transaction |
| Event bus (`common/events/`) | the handlers per event key | subscribe at start, publish | calls the handlers in line |
| Workflow engine (`workflows/`) | none of its own | runRules, executeAction, resolveTo | reads rules and customers, calls sendManual |
| Customers | `Customer`: email, deletedAt | create, update, softDelete | publishes `customer_created`; audit |
| Deals | `Deal`: stage, customerId, deletedAt | create, update, updateStage, softDelete | reads customers, publishes `deal_stage_changed`; audit |
| Contacts | `Contact`: isPrimary, deletedAt | create, update, softDelete, each a transaction | audit inside the transaction |
| Tasks | `Task`: status, completedAt, dueDate, deletedAt | create, update, updateStatus, softDelete | audit |
| Audit log | `AuditLog` rows | log, which swallows its errors | |
| Condition evaluator | none | matches(conditions, event) | pure |
| Workflow rules | `WorkflowRule`: eventKey, enabled, conditions, action, deletedAt | create, update, remove | read by the engine |
| Providers | none | send per channel; fallback to the fake one | HTTP |
| Recipients and templates | `CommunicationTemplate` rows | string checks; create, update, softDelete, getByKey | |
| Authentication | `User`, `Company`, `UserCompany` | register, login | signs tokens |
| Tenant and permissions | the request context | guards that read memberships and roles one after the other | |
| Lists and search | none | list of four services, searchAll: page, items and total | reads the tables the services write |
| Health, logging, request context | none | wiring | |

What is hard to get right, and what each component should keep:

- **Message delivery.** A cron callback starts on schedule even if the one
  before it still awaits a provider; a status is read, a provider called, and a
  count written back that was read before the call; a process that stops
  between the provider's answer and the update has sent a message it does not
  know of. Correct if the record never claims what did not happen, if the
  copies and calls a message costs are bounded by the limit and the faults, if
  the backoff is kept, and if every record reaches an outcome.
- **Overdue job, bus, engine.** The event is published, and messages are sent,
  inside a transaction that may still be rolled back, expire after five seconds
  or lose the race for the row. Correct if a flagged task was really announced,
  if repetitions are explained by aborted transactions, and if rules run in
  order.
- **Contacts.** "At most one primary" is kept by code alone, in statements of
  transactions that do not see each other's rows and may deadlock.
- **Tasks.** A transition is checked against a status read earlier; status and
  completedAt must agree; the audit trail must explain the row.
- **Customers and deals.** Unique addresses and chained stage events rest on
  check-then-write without a transaction; a rule that throws fails a request
  whose row is already written.
- **Rules and recipients.** The engine reads the rules once and runs them for as
  long as their providers take, while administrators change, disable and remove
  them; conditions are JSON compared as JavaScript compares; a recipient is
  checked in three places by three different rules. Correct if an event is
  answered by the rules in force when it was published and by no others, if a
  message counts as sent by the provider of its mode only, and if a removed rule
  stays off.
- **Pages.** A page is cut out by a count of rows, from a table that changes
  between two pages and between the items and the total of one. Correct if a
  client misses and repeats no more rows than were moved under it.
- **Registration and guards.** A registration writes in three statements, two of
  them in a transaction; a request is let through on two reads made at different
  times. Correct if no half of an account is left, and if a request past the
  guards is entitled to what it does unless something was taken away meanwhile.

## The modules

| module | models | state to code |
|---|---|---|
| `Outbox` | what message delivery promises about one message | abstract |
| `MessageDelivery` | message.service.ts, retry.job.ts, delivery-sim.job.ts | `row` = CommunicationRecord, `req` = the place in sendManual, `tickPc`, `batch`, `current`, `seen` = the locals of a retry execution, `simBatch` = those of a simulation execution |
| `OverdueWorkflow` | task-overdue.job.ts with the bus and the engine it calls | `task` and `lock` = the rows, `tickPc`, `page`, `current`, `pos`, `alive` = the execution and its transaction |
| `Contacts` | contacts.service.ts | `row` = committed columns, `draft` and `holder` = uncommitted ones and the transaction that wrote them, `pc` = the statement |
| `TaskLifecycle` | what TasksService promises about a task | abstract |
| `Tasks` | tasks.service.ts with its audit rows | `row`, `trail` = the audit rows, `call` = what the call has read |
| `EventEngine` | event-bus.service.ts and workflow-engine.service.ts as services use them | `pc`, `call`, `event`, `pos` = the call and its place in the rules |
| `Customers`, `Deals` | customers.service.ts, deals.service.ts; both extend `EventEngine` | `customer`, `deal` = the rows |
| `Crm` | `Customers` and `Deals` composed | they share the customers, the bus and the engine |
| `ConditionEvaluator` | condition-evaluator.service.ts, path.util.ts | pure operators over JSON values |
| `Providers` | recipient.util.ts, assertToMatchesChannel, the providers, registry.ts and the factories of communications.module.ts | pure operators over addresses and environments |
| `Automation` | workflow-rules.service.ts, templates.service.ts, workflow-engine.service.ts and testSend of communications.service.ts; extends the two above | `rules`, `templates`, `customer`, `record` = the rows, `call` = what an administrator has checked, `read`, `msg`, `pc` = the locals of an event or a test |
| `Listing` | list of customers, deals, contacts and tasks; search.service.ts | `table` = the rows, `page`, `todo`, `section` = the request under way, `more` = what totalPages says, `got` = what the client has been shown |
| `Access` | auth.service.ts (register), tenant-context.guard.ts, tenant-resolver.service.ts, permissions.guard.ts | `users`, `enrolled`, `active`, `holds` = the tables, `pc` and `call` = the registration or request |
| `MC*` | the instances TLC runs | |
| `*Proofs` | the theorems | |

One step is the code between two `await`s, or one statement of a transaction
where rows are locked. Each request and each execution of a cron callback is a
process of its own, and the set of processes bounds what may overlap.

Abstractions common to the modules:

- Time: a time stamp is set or not; `nextRetryAt` is null, ahead or due; a due
  date is ahead or past. Time passing is an action.
- The order within a page is free: the queries sort, but `createdAt` says
  nothing about which id comes first.
- A statement of the database that throws has not taken effect: a commit whose
  acknowledgement is lost is not a fault of the models. (A provider's answer may
  be lost.)
- A crash and the restart after it are one step that forgets the processes and
  keeps the rows.
- PostgreSQL is taken at its default level, READ COMMITTED: a written row is
  locked until the end of the transaction, a statement that waited looks at the
  row again. Of two transactions that wait for each other one is rolled back.
  Prisma ends an interactive transaction after five seconds.
- A request that fails its checks changes nothing and is not a step. The reads
  of one request's checks are one step in `Tasks`, `Customers` and `Deals`.
- `sendManual` is one step inside `OverdueWorkflow` and `EventEngine`, where
  what matters is that a record was made and whether it threw; its inside is
  `MessageDelivery`. In `Automation` its checks, its record and the provider's
  answer are steps of their own. testSend, which no controller calls, makes the
  same steps as sendManual and is modelled there.
- Which rules match an event is a constant in `OverdueWorkflow` and `EventEngine`;
  in `Automation` the rules are rows and their conditions are evaluated.
- A text is what is asked of it: an address is its form and length, a key of
  templates stands for a channel and a key. Number(), includes() and the length
  of a text are parameters of `ConditionEvaluator`; a Date is a number that
  equals nothing of JSON. Of the built-in properties a path may end in, only the
  length of a text is kept. A path that is not a text makes the evaluator
  throw; that is one of the ways in which `Fails` ends a request.
- Tenants do not interact: one company, except in `Access`. There an administrator
  who works on the database is external: no code changes memberships or roles.

Every counter has a named bound: `MaxFaults` (injected faults), `MaxEvents`
(events), `MaxContacts` (inserts), `MaxEntries` (audit
rows), `MaxChanges` (writes of administrators and customers; changes of a table
during a walk), `NRows`, `MaxRank`, `NRules`, `NTemplates`, `NRequests`.

## The runs

| run | distinct states | question and answer |
|---|---|---|
| `delivery_live` | 114 000 | Live mode, two messages, one retry execution at a time, up to three faults. Stamps agree with the status, calls and copies stay within their budgets, which grow only with the faults that hit the message itself, the backoff is kept, only a fault of its own sendManual call orphans a queued record, `Outbox` is implemented, and every record settles or is orphaned. |
| `delivery_overlap` | 120 000 | Demo mode, two overlapping retry executions beside the simulation, up to four faults. Sent records are still honest, the count passes its limit by one at most, only an attempt that was under way revises an outcome, and every sent record is stamped delivered or taken back by such an attempt. |
| `overdue_single` | 61 000 | One execution at a time, two tasks, two rules, two faults. A second event or record needs an aborted transaction, a flagged task is done with, every overdue task is flagged or stops being overdue. |
| `overdue_overlap` | 540 000 | Two overlapping executions, one rule without a recipient, one that matches a single task. Handling is at least once and in order, the rule without a recipient blocks its task and the rules after it. |
| `contacts_alone` | 60 000 | Two calls from an empty customer, up to four contacts, failures at every statement; updates overlap, each create and softDelete is alone (constraint `Alone`). One primary at most, inherited by the oldest contact left. |
| `contacts_overlap` | 150 000 | Two overlapping creates or updates on two existing contacts. Updates alone leave one primary; creates leave as many as overlap; the last primary is lost on request only; every call ends. |
| `tasks_apart` | 1 100 000 | Two tasks and two calls, which overlap unless they are about the same task (constraint `Apart`), up to four audit rows, one of which may be lost. `TaskLifecycle` is implemented, the audit rows tell the history. |
| `tasks_transitions` | violation | Two overlapping calls break the transition table: see Findings. |
| `crm` | 1 440 000 | Two overlapping calls on two customers and a deal with three rules, failures at every statement; one call at a time changes a stage, another may move the deal meanwhile. Addresses are shared only by a race, no rule makes two records for an event or runs after one that threw, the events of a deal replay its stages. |
| `listing` | 2 300 000 | Pages of one or two rows of any list or search, up to four rows in one or two tables, up to three changes to them during the walk. As long as the sort columns do not tie, a client misses no more rows than left their place and repeats no more than came to one. |
| `automation` | 1 070 000 | An event or a test message, two rules of any of four contents, two templates, two administrators, a customer who is edited; a demo environment, and two live ones that lack the settings of a provider. What is sent follows the rules in force at the event, in order and up to the first error; it is sent by the provider of the mode, or the fallback where it may, to an address of the channel; what was removed stays off; thresholds split the events they apply to. |
| `access` | 320 000 | Two registrations or requests at a time, two companies with a role each, an administrator who gives and takes memberships and roles. Accounts are whole; a request past the guards is entitled unless what they saw was taken away. |

Why the bounds are enough: in delivery, a message of its own sees every
interleaving with the jobs, a second one fills the page and makes a process hold
one row while it works on another, and three faults allow one in each of
sendManual, attemptSend and the update after it. Each fault is charged to the
messages it caught under way (`hits`): a lost answer or a failed update to one, a
crash to all that sendManual or an attempt is at work on, and one that ends a
simulation or falls between two attempts to none. RETRY_LIMIT is the code's 3 in
`delivery_live`, and 1 in `delivery_overlap`, where four faults are what takes a count past it; the proofs do
not depend on it. In the overdue job two tasks make a page whose rest an
exception drops, and two rules have a first and a later one. Two contacts give
an updateMany two locks to take in different orders, which is what deadlocks.
Four contacts at once leave three to inherit from. Two customers and one address
are what a clash takes; `MaxEvents` 2 allows an event of each kind or two stage
changes of a deal, the least that has to chain. Two tasks let calls overlap that are about different ones, whose
audit rows and writes mix. Two companies are what a header
and a role of the wrong company take. Four rows in pages of one or two give three
boundaries for a row to cross; the changes may all fall between two pages. Two rules have
a first and a later one, the second of which may be created, changed or removed
while the first one sends; two administrators are what a removal between the
check and the write of an update takes. That race takes two changes for a rule,
which is there from the start, and three for a template, which has to be created:
of templates `RemovedStaysOff` rests on its theorem. Overlap is two processes: what a
third adds is said where it matters (below) or proved for any number.

`contacts_alone` and `tasks_apart` do not go on from states in which calls overlap
that their theorems keep apart (CONSTRAINT `Alone`, `Apart`); `crm` says through
`Serves` who may change a stage.

Deadlock checking is off in every run, because the clients of a model stop when
their bound is reached (messages, contacts, audit rows, events, changes) and a walk ends
with its last page.

The cases that the hypotheses on overlap below leave out were looked at as well. Two executions of the retry job take a record that is in both pages
past its last retry, to RETRY_LIMIT + 1 and no further; three
exceed the limit by more: a late write of a low count makes an exhausted record
retryable again. An attempt that finishes late writes sent over delivered, or
failed over either; `OutcomeRevisedLate` says that nothing else does. Overlapping
softDelete calls of contacts break `PrimariesBounded`: each promotes another
contact, and two calls can leave three. Overlapping stage changes
of a deal announce chains that do not join (`EventsReplay` fails).

### Fairness

- `MessageDelivery`, `OverdueWorkflow`: weak fairness of every step of a process
  under way (an await returns or throws: the database and the clients of the
  providers answer or give up)
  and of the cron schedule (`*TickFires`: node-cron fires again as long as the
  process runs). Faults are bounded by `MaxFaults` and carry no fairness: a
  provider that always refuses uses the retries up, which is an outcome.
  Backoff ends because time passes. Clients are not fair: they need not send.
- `Contacts`: strong fairness of the steps of a request. A statement waiting for
  a row is disabled while another transaction holds it, and enabled again each
  time one ends; PostgreSQL queues the waiters of a row, so a request does not
  wait while others are served for ever. Deadlocks are detected and a victim is
  rolled back.
- The other runs check safety and assume nothing: clients need not ask for the
  next page, and administrators need not write what they have checked.

## What is proved

TLAPS checks these for every value of the constants, under the named assumption
of each module: the types of the constants, distinct "none" values, and that the
sets of processes are finite (`Ticks`, `RetryTicks`, `Procs`), which the proofs
that count processes use. Some theorems have a hypothesis on the processes or
the calls, which the instance of the run named with it satisfies:

- `NonOverlap`, `OneAtATime`: at most one execution of a job at a time
  (`delivery_live`, `overdue_single`);
- `OnlyUpdates`, `NoDeletes`: clients of contacts do not call create or
  softDelete, or do not call softDelete (`contacts_overlap`);
- `Alone`: a create or softDelete of contacts overlaps with no other call,
  updates may overlap (`contacts_alone`);
- `Apart`: calls about one task do not overlap, those about others may
  (`tasks_apart`);
- `StagesApart`: no two calls change the stage of one deal at once; calls that
  create, move or delete the deal, or are about another, may overlap (`crm`).

The last three are about states: a theorem with `Spec /\ []Apart` speaks of every
behaviour that keeps `Apart`, and `tasks_transitions` shows that it is needed.

| theorem | says | along which argument |
|---|---|---|
| `MessageDeliveryProofs!TypeCorrect` | types and the coherence of a retry execution's locals | inductive as it stands |
| `...!Honest` | a sent record has a copy the provider took, any overlap | `HonestInv`: whoever is about to write "sent" holds the provider's answer |
| `...!RetriesBounded` | the retry limit is kept by one execution, exceeded by one at most by two | `LimitInv`: an attempt that starts from the limit has the row to itself, and `OwnInv`: what a retry or simulation execution holds has an outcome |
| `...!RevisedOnlyLate` | only an attempt that was under way revises an outcome, any overlap | `OwnInv` |
| `...!SingleTickSafety` and its corollaries `...Budgets`, `...Stamps`, `...Copies`, `...Orphans` | `DeliveryInv` without overlap of the retry job | one writer per row: sendManual while it is queued, the retry execution that holds it while it is failed, the simulation afterwards (`RequestOwnsRow`, `TickOwnsRows`, `SimOwnsRows`); with it calls and copies can be counted (`CallsAccounted`, `CopiesAccounted`) |
| `...!SingleTickBackoff` | no attempt during the backoff or past the limit | `TickOwnsRows`: a row of the page is still as the query found it |
| `...!SingleTickImplementsOutbox` | each step is a step of `Outbox` or a stutter | case analysis under `DeliveryInv` |
| `OverdueWorkflowProofs!OverdueTypeCorrect` | types; a transaction is alive exactly while it holds its row | `StateInv`: with the executions in their loops, the locks and the counters each in a part of its own |
| `...!OverdueAtLeastOnce` | a flagged task has a record for every matching rule, any overlap | `Progress`: the rules an execution has passed have their records, and it commits after the last one |
| `...!OverdueBlocked` | a rule without a recipient keeps its task unflagged | no execution gets past that rule |
| `...!OverdueInOrder` | a later rule never has more records than an earlier one, any overlap | `OrderInv`: the records of the earlier rule exceed those of the later one by the executions that are between the two |
| `...!OverdueOnce`, `OverdueFlagFinal` | without overlap, a second event or record needs an aborted transaction, and a flagged task is done with | `OnceInv`: the events and records of a task beyond the aborted ones are those of the one execution under way or of the one that set the flag |
| `ContactsProofs!TypeCorrect` | types, rows without a holder have no draft | inductive as it stands |
| `...!UpdatesKeepOnePrimary`, `BeforeCreatesOnePrimary` | overlapping updates leave one primary contact, and so do creates until the first is inserted | `BeforeInv`: an update to primary that is past its updateMany holds every live row, so there is one at a time |
| `...!PrimaryIsLostOnRequest` | without softDelete the last primary is lost only when an update of it with isPrimary = false commits | `HoldInv`: what a call that demotes has locked, and that it writes a primary row of its own in the same transaction |
| `...!PrimariesAreBounded` | without softDelete, no more primary contacts than calls that overlap | `Owned`: an injection from the primary contacts to the requests, each of which has demoted or locked the contact it answers for before it makes another |
| `...!AloneKeepsOnePrimary`, `AlonePromotesOldest` | as long as each create and softDelete is alone: one primary at most, inherited by the oldest contact left | `AloneInv`: while updates only are under way, `BeforeInv`; while a create or a softDelete is, the drafts of its transaction say how far it is (`SingleAt`), and a call that comes in finds the others at rest; the oldest row exists because a set of numbers has a least one |
| `TasksProofs!TypeCorrect`, `CompletedAgrees` | completedAt is set exactly while done, any overlap | each write sets both columns |
| `...!ImplementsLifecycle` | as long as calls about one task do not overlap, they implement `TaskLifecycle` | `ReadsCurrent`: what a call has read still holds when it writes |
| `...!LegalUnlessOverlap` | as long as calls about one task do not overlap, `LegalTransitions` holds | `ReadsCurrent`: the status a transition was checked against is the one it leaves |
| `...!AuditsTellTheTruth` | as long as calls about one task do not overlap, its audit rows, none of them lost, tell its status, existence and deletion | `TrailInv`: the rows lead to the present status, or to the one the call under way has read |
| `CrmProofs!TypeCorrect`, `Announced` | no rule makes two records for an event, an audited call had all its rules run, a rule that threw stopped the later ones, any overlap | `RulesInProgress`: each call has an event of its own, with a record for the matching rules passed and for no other |
| `...!SharedByRaceOnly` | an address is shared only if two calls were giving it at once | `OneClaim`: what calls under way are about to give counts as given, and a write adds no claim |
| `...!EventsReplayHistory` | as long as no two calls change the stage of one deal at once, its events form a chain that ends with its stage | `DealInv`: they end with the stage, or with the one the call that has written another is about to announce |
| `AutomationProofs!AutomationTypeCorrect` | types, a request has a message exactly while it sends one | with what a record that is being sent has in common with its message |
| `...!AutomationRemoved` | a removed rule or template is not read again, any number of administrators | a call that waits has found its row, and no update writes deletedAt |
| `...!AutomationSentByMode`, `AutomationAddresses` | a message counts as sent by the provider of its mode only, or by the fallback where that is allowed, to an address of its channel | what is known of a record comes from the provider, which is chosen by the mode |
| `...!AutomationFollowsRules` | the records of an event follow the rules in force when it was published, in order | `RunInv`: the rules not yet read have no record, those taken before the one being sent are delivered |
| `...!PathsAgree` | the reduce of the evaluator and the loop of path.util find the same value, for a path of any length | `Steps`: both are what following the keys one by one gives; by induction on the number of keys, with `AllNumbers`, which states it of a set of numbers |
| `...!AutomationEvaluatorSound` | the conditions of a rule mean one thing for any event, customer and condition | every value read is one of `Values` (`PathType`), of which Number() makes a number or NaN (`NumberType`) |
| `ListingProofs!ListTypeCorrect` | types, no page beyond the last one there may be | a row is returned once a page at most (`WalkInv`) |
| `...!MissedOnlyWhatLeft`, `RepeatedOnlyWhatCame` | a client misses no more rows than left their place, and is shown again no more than came | the place of a row is the number of rows ahead of it; a step that changes one row moves the others by one place, so that of rows that do not tie one at most crosses the boundary of what was read (`MissInv`, `RepeatInv`; a page without ties returns rows by their places, `ListByPlace`) |
| `AccessProofs!TypeCorrect`, `Accounts` | no user without its membership, no membership without its user | a registration under way is for the company it has upserted, and both rows appear at once |
| `...!Entitled` | a request past the guards is entitled unless something was taken away | `MemberUnlessWithdrawn`: what the first guard saw still holds at the second, unless withdrawn |

Each inductive invariant was checked with TLC before it was proved. Some
properties are stated so that they can be proved: `AuditExplains` and
`EventsReplay` say of each row from where the rows before it lead, where a
filtered sequence would say the same, and `RepeatsBounded` counts the showings
of a row that were not its last, where a sum would.

Only model-checked: liveness (`EventuallySettled`, `EventuallyDelivered`,
`EventuallyFlagged`, `CallsEnd`), which is out of the prover's reach.
`EvaluatorSound` follows a path of any length by a fold and by a loop. The
induction theorems of the library take an operator, which the provers cannot
instantiate; the proof goes through a set of numbers without a least one
instead (`AllNumbers`). It assumes of `Values`, the values of JSON and of
events, that the fields of an object are values again (`ValuesAssumption`), and
of the rules that their conditions compare with such values
(`ConditionsAssumption`). `LegalTransitions` is violated without `Apart` (see
Findings).

## Findings

- `tasks_transitions`: two overlapping updateStatus calls move a task from
  canceled to in_progress, which assertTransition refuses
  (tasks.service.ts:227 and 250).

Met while modelling, and visible in the runs, but contradicting nothing the
repository says:

- The fallback provider never answers. It waits for a ProviderConfigError, and
  the code that would throw one is a method named `catch` of each real provider,
  which nothing calls (fallback.provider.ts:23, resend-email.provider.ts:48). Where it
  is allowed, `SentByMode` lets it answer, so the code as it may have been meant
  would satisfy the property too.
- A text message to a number of ten to fifteen digits passes `validateRecipient`
  and is refused by `assertE164` in live mode (recipient.util.ts:9,
  twilio-sms.provider.ts:12).
- A threshold on a date, such as dueDate gte "2024-01-01", is never true:
  Number() of that text is not a number.
- The third delay of calcNextRetryAt, ten minutes, is computed for a record that is no
  longer retryable, and so never waited for (communication.constants.ts:5).
- The real providers for e-mail and push are made in every mode: without
  RESEND_API_KEY and Firebase credentials the server does not start, in demo
  mode either (resend-email.provider.ts:19, communications.module.ts:31).
- A message with a templateKey and no body is sent empty: no code renders a
  template, and getByKey has no caller.
- Lists sorted by a column with equal values (customers by name, tasks by
  dueDate) have no order to page through: `MissedBounded` and `RepeatsBounded`
  exclude them. With the two ranks of `listing` every such list of three rows has
  ties, so that the run says little of them; the theorems hold for any ranks.

## Not modelled, and what is left

Not modelled: getById and the lists without pages (they read one row, or the
newest fifty), HTTP, DTO validation, the exception filter, logging, wiring,
migrations, seed data and tests; they change no state or have no behaviour of
their own. template-renderer.ts is a string substitution nothing calls.

Every invariant and action property of the passing runs is proved. What could
still be added is about the cases that overlap: by how much three executions of the retry job may exceed the limit,
and how many primary contacts overlapping softDelete calls may leave; for neither
does the code give a bound that is worth stating.
