-------------------------- MODULE OverdueWorkflow --------------------------
(***************************************************************************)
(* The overdue-task cron job, the event bus it publishes on and the        *)
(* workflow engine subscribed to it.                                       *)
(*                                                                         *)
(* For each task of its page the job opens a transaction, sets             *)
(* overdueEventSentAt and publishes task_overdue before it commits.  The   *)
(* bus calls the engine in line, and the engine runs the matching rules    *)
(* one after the other through MessageService.sendManual, which works      *)
(* outside the transaction: what it wrote stays when the transaction is    *)
(* rolled back.  The database runs at READ COMMITTED: a transaction does   *)
(* not see the flag another one has not committed, and its update of the   *)
(* same row waits until the other one has ended.                           *)
(***************************************************************************)
EXTENDS Integers, FiniteSets

CONSTANTS
    Tasks,        \* tasks with a due date
    NoTask,       \* "no task under way"
    Ticks,        \* executions of the job that may overlap
    NoTick,       \* "row not locked"
    NRules,       \* enabled task_overdue rules, 1 .. NRules by createdAt
    Matching,     \* <<k, r>>: the conditions of rule r hold for task k
    NoRecipient,  \* <<k, r>>: resolveTo finds no recipient for rule r
    TaskTake,     \* rows one tick takes (50)
    MaxEvents,    \* bound on events published per task
    MaxFaults     \* bound on provider errors, expired transactions, crashes

ASSUME OverdueAssumption ==
    /\ NoTask \notin Tasks
    /\ NoTick \notin Ticks
    /\ IsFiniteSet(Ticks)
    /\ NRules \in Nat
    /\ Matching \subseteq Tasks \X (1 .. NRules)
    /\ NoRecipient \subseteq Tasks \X (1 .. NRules)
    /\ TaskTake \in Nat \ {0}
    /\ MaxEvents \in Nat
    /\ MaxFaults \in Nat

Rules == 1 .. NRules

VARIABLES
    task,       \* task[k]: the columns of the row the job looks at
    lock,       \* lock[k]: the tick whose transaction holds the row
    tickPc,     \* tickPc[t]: where the execution stands
    page,       \* page[t]: tasks found and not processed yet
    current,    \* current[t]: the task under way
    pos,        \* pos[t]: the next rule the engine looks at
    alive,      \* alive[t]: the transaction has not expired
    records,    \* history: CommunicationRecords made for <<task, rule>>
    published,  \* history: task_overdue events published for the task
    aborts,     \* history: those whose transaction did not commit
    faults      \* history: faults injected so far

tickVars == <<tickPc, page, current, pos, alive>>
history  == <<records, published, aborts>>
vars == <<task, lock, tickPc, page, current, pos, alive, records, published,
          aborts, faults>>

----------------------------------------------------------------------------
(* State *)

Task == [done : BOOLEAN, deleted : BOOLEAN, due : {"ahead", "past"},
         flagged : BOOLEAN]

\* "checked": the fresh read is done; "publishing": the row is marked.
TickPc == {"idle", "loop", "checked", "publishing"}

TypeOK ==
    /\ task \in [Tasks -> Task]
    /\ lock \in [Tasks -> Ticks \cup {NoTick}]
    /\ tickPc \in [Ticks -> TickPc]
    /\ page \in [Ticks -> SUBSET Tasks]
    /\ current \in [Ticks -> Tasks \cup {NoTask}]
    /\ pos \in [Ticks -> 1 .. NRules + 1]
    /\ alive \in [Ticks -> BOOLEAN]
    /\ \A t \in Ticks :
          /\ tickPc[t] \in {"idle", "loop"} <=> current[t] = NoTask
          /\ tickPc[t] = "idle" => page[t] = {}
          /\ alive[t] <=> (tickPc[t] = "publishing" /\ lock[current[t]] = t)
    /\ \A k \in Tasks : lock[k] # NoTick => current[lock[k]] = k
    /\ records \in [Tasks \X Rules -> Nat]
    /\ published \in [Tasks -> 0 .. MaxEvents]
    /\ aborts \in [Tasks -> Nat]
    /\ faults \in 0 .. MaxFaults

NewTask == [done |-> FALSE, deleted |-> FALSE, due |-> "ahead",
            flagged |-> FALSE]

Init ==
    /\ task = [k \in Tasks |-> NewTask]
    /\ lock = [k \in Tasks |-> NoTick]
    /\ tickPc = [t \in Ticks |-> "idle"]
    /\ page = [t \in Ticks |-> {}]
    /\ current = [t \in Ticks |-> NoTask]
    /\ pos = [t \in Ticks |-> 1]
    /\ alive = [t \in Ticks |-> FALSE]
    /\ records = [kr \in Tasks \X Rules |-> 0]
    /\ published = [k \in Tasks |-> 0]
    /\ aborts = [k \in Tasks |-> 0]
    /\ faults = 0

Fault == faults < MaxFaults /\ faults' = faults + 1

----------------------------------------------------------------------------
(* What users do to the row meanwhile (TasksService); each is one update by *)
(* id and waits for a transaction that holds the row.                      *)

EditTask(k, new) ==
    /\ lock[k] = NoTick
    /\ task' = [task EXCEPT ![k] = new]
    /\ UNCHANGED <<lock, tickVars, history, faults>>

\* updateStatus: to done, and from done back to in_progress.
ToggleDone(k) ==
    ~task[k].deleted /\ EditTask(k, [task[k] EXCEPT !.done = ~@])

\* update with a new dueDate: overdueEventSentAt is left as it is.
Reschedule(k) ==
    /\ ~task[k].deleted
    /\ task[k].due = "past"
    /\ EditTask(k, [task[k] EXCEPT !.due = "ahead"])

DeleteTask(k) ==
    ~task[k].deleted /\ EditTask(k, [task[k] EXCEPT !.deleted = TRUE])

\* The clock passes dueDate.
DueDatePasses(k) ==
    /\ task[k].due = "ahead"
    /\ task' = [task EXCEPT ![k].due = "past"]
    /\ UNCHANGED <<lock, tickVars, history, faults>>

----------------------------------------------------------------------------
(* The job *)

\* The query of the job.
Eligible(k) ==
    /\ ~task[k].deleted
    /\ task[k].due = "past"
    /\ ~task[k].flagged
    /\ ~task[k].done

\* A page of the query, whose order is not fixed.
TickFires(t) ==
    /\ tickPc[t] = "idle"
    /\ \E p \in SUBSET {k \in Tasks : Eligible(k)} :
          /\ p # {}
          /\ Cardinality(p) <= TaskTake
          /\ Cardinality(p) < TaskTake => p = {k \in Tasks : Eligible(k)}
          /\ page' = [page EXCEPT ![t] = p]
    /\ tickPc' = [tickPc EXCEPT ![t] = "loop"]
    /\ UNCHANGED <<task, lock, current, pos, alive, history, faults>>

\* Mutant: the task stays the current one.
NextIterationKeeps(t, rest) ==
    /\ page' = [page EXCEPT ![t] = rest]
    /\ tickPc' = [tickPc EXCEPT ![t] = IF rest = {} THEN "idle" ELSE "loop"]
    /\ alive' = [alive EXCEPT ![t] = FALSE]
    /\ UNCHANGED <<current, pos>>

\* The loop goes on with the rest of the page, or the callback returns.
NextIteration(t, rest) ==
    /\ page' = [page EXCEPT ![t] = rest]
    /\ current' = [current EXCEPT ![t] = NoTask]
    /\ tickPc' = [tickPc EXCEPT ![t] = IF rest = {} THEN "idle" ELSE "loop"]
    /\ alive' = [alive EXCEPT ![t] = FALSE]
    /\ pos' = [pos EXCEPT ![t] = 1]

\* The fresh read: only the flag is looked at again, and only as committed.
TxChecks(t, k) ==
    /\ tickPc[t] = "loop"
    /\ k \in page[t]
    /\ ~task[k].flagged
    /\ tickPc' = [tickPc EXCEPT ![t] = "checked"]
    /\ page' = [page EXCEPT ![t] = @ \ {k}]
    /\ current' = [current EXCEPT ![t] = k]
    /\ UNCHANGED <<task, lock, pos, alive, history, faults>>

TxSkips(t, k) ==
    /\ tickPc[t] = "loop"
    /\ k \in page[t]
    /\ task[k].flagged
    /\ NextIteration(t, page[t] \ {k})
    /\ UNCHANGED <<task, lock, history, faults>>

\* Mutant: the flag is written outside the transaction, for all to see.
TxMarksAtOnce(t) ==
    /\ tickPc[t] = "checked"
    /\ lock[current[t]] = NoTick
    /\ published[current[t]] < MaxEvents
    /\ task' = [task EXCEPT ![current[t]].flagged = TRUE]
    /\ lock' = [lock EXCEPT ![current[t]] = t]
    /\ alive' = [alive EXCEPT ![t] = TRUE]
    /\ tickPc' = [tickPc EXCEPT ![t] = "publishing"]
    /\ pos' = [pos EXCEPT ![t] = 1]
    /\ published' = [published EXCEPT ![current[t]] = @ + 1]
    /\ UNCHANGED <<page, current, records, aborts, faults>>

\* The update gets the row and the event is published; the new value of the
\* flag shows to others at commit only.
TxMarks(t) ==
    /\ tickPc[t] = "checked"
    /\ lock[current[t]] = NoTick
    /\ published[current[t]] < MaxEvents
    /\ lock' = [lock EXCEPT ![current[t]] = t]
    /\ alive' = [alive EXCEPT ![t] = TRUE]
    /\ tickPc' = [tickPc EXCEPT ![t] = "publishing"]
    /\ pos' = [pos EXCEPT ![t] = 1]
    /\ published' = [published EXCEPT ![current[t]] = @ + 1]
    /\ UNCHANGED <<task, page, current, records, aborts, faults>>

\* The transaction ends: its lock goes.
Release(t) ==
    lock' = [k \in Tasks |-> IF lock[k] = t THEN NoTick ELSE lock[k]]

\* Mutant: the rollback does not free the row.
AbortKeepsLock(t) ==
    /\ NextIteration(t, {})
    /\ aborts' = [aborts EXCEPT ![current[t]] = @ + 1]
    /\ UNCHANGED <<task, lock>>

\* An exception leaves the callback of the transaction: it is rolled back and
\* the rest of the page is dropped.
Abort(t) ==
    /\ Release(t)
    /\ NextIteration(t, {})
    /\ aborts' = [aborts EXCEPT ![current[t]] = @ + 1]
    /\ UNCHANGED task

----------------------------------------------------------------------------
(* The engine: runRules, executeAction, resolveTo, sendManual *)

Pair(t) == <<current[t], pos[t]>>

Recorded(t) == records' = [records EXCEPT ![Pair(t)] = @ + 1]

\* Mutant: the engine passes over the rules that match.
RuleSkippedMatching(t) ==
    /\ tickPc[t] = "publishing"
    /\ pos[t] <= NRules
    /\ Pair(t) \in Matching
    /\ pos' = [pos EXCEPT ![t] = @ + 1]
    /\ UNCHANGED <<task, lock, tickPc, page, current, alive, history, faults>>

\* The conditions of the rule do not hold.
RuleSkipped(t) ==
    /\ tickPc[t] = "publishing"
    /\ pos[t] <= NRules
    /\ Pair(t) \notin Matching
    /\ pos' = [pos EXCEPT ![t] = @ + 1]
    /\ UNCHANGED <<task, lock, tickPc, page, current, alive, history, faults>>

\* Mutant: a rule whose recipient is missing is passed over.
RuleSendsOrSkips(t) ==
    /\ tickPc[t] = "publishing"
    /\ pos[t] <= NRules
    /\ Pair(t) \in Matching
    /\ IF Pair(t) \in NoRecipient THEN UNCHANGED records ELSE Recorded(t)
    /\ pos' = [pos EXCEPT ![t] = @ + 1]
    /\ UNCHANGED <<task, lock, tickPc, page, current, alive, published,
                   aborts, faults>>

\* sendManual makes a record and the provider takes the message.
RuleSends(t) ==
    /\ tickPc[t] = "publishing"
    /\ pos[t] <= NRules
    /\ Pair(t) \in Matching \ NoRecipient
    /\ Recorded(t)
    /\ pos' = [pos EXCEPT ![t] = @ + 1]
    /\ UNCHANGED <<task, lock, tickPc, page, current, alive, published,
                   aborts, faults>>

\* resolveTo finds no recipient, sendManual throws after it made a record, or
\* something throws before there is one, recipient or not: the read of the
\* rules or of the customer, a check of sendManual, its create.  Whichever it
\* is, this rule and those after it are not run.
RuleThrows(t) ==
    /\ tickPc[t] = "publishing"
    /\ pos[t] <= NRules
    /\ \/ Pair(t) \in Matching \cap NoRecipient /\ UNCHANGED <<records, faults>>
       \/ Pair(t) \in Matching \ NoRecipient /\ Recorded(t) /\ Fault
       \/ Fault /\ UNCHANGED records
    /\ Abort(t)
    /\ UNCHANGED published

----------------------------------------------------------------------------
(* The end of the transaction *)

\* Mutant: the transaction ends without the flag.
TxCommitsNothing(t) ==
    /\ tickPc[t] = "publishing"
    /\ pos[t] = NRules + 1
    /\ alive[t]
    /\ Release(t)
    /\ NextIteration(t, page[t])
    /\ UNCHANGED <<task, history, faults>>

\* The callback of the transaction returns: the flag is committed.
TxCommits(t) ==
    /\ tickPc[t] = "publishing"
    /\ pos[t] = NRules + 1
    /\ alive[t]
    /\ task' = [task EXCEPT ![current[t]].flagged = TRUE]
    /\ Release(t)
    /\ NextIteration(t, page[t])
    /\ UNCHANGED <<history, faults>>

\* Prisma closes an interactive transaction after five seconds; the callback
\* runs on without it.
TxExpires(t) ==
    /\ tickPc[t] = "publishing"
    /\ alive[t]
    /\ Release(t)
    /\ alive' = [alive EXCEPT ![t] = FALSE]
    /\ Fault
    /\ UNCHANGED <<task, tickPc, page, current, pos, history>>

\* ... and the commit at its end throws.
CommitThrows(t) ==
    /\ tickPc[t] = "publishing"
    /\ pos[t] = NRules + 1
    /\ ~alive[t]
    /\ Abort(t)
    /\ UNCHANGED <<records, published, faults>>

\* The transaction expires, or the database fails, before the row is marked.
TickDies(t) ==
    /\ tickPc[t] \in {"loop", "checked"}
    /\ NextIteration(t, {})
    /\ Fault
    /\ UNCHANGED <<task, lock, history>>

\* The process stops and starts again; open transactions are rolled back.
Crash ==
    /\ Fault
    /\ lock' = [k \in Tasks |-> NoTick]
    /\ tickPc' = [t \in Ticks |-> "idle"]
    /\ page' = [t \in Ticks |-> {}]
    /\ current' = [t \in Ticks |-> NoTask]
    /\ pos' = [t \in Ticks |-> 1]
    /\ alive' = [t \in Ticks |-> FALSE]
    /\ aborts' = [k \in Tasks |->
                    aborts[k] + Cardinality({t \in Ticks :
                        tickPc[t] = "publishing" /\ current[t] = k})]
    /\ UNCHANGED <<task, records, published>>

----------------------------------------------------------------------------
TickStep(t) ==
    \/ \E k \in Tasks : TxChecks(t, k) \/ TxSkips(t, k)
    \/ TxMarks(t)
    \/ RuleSkipped(t) \/ RuleSends(t) \/ RuleThrows(t)
    \/ TxCommits(t) \/ CommitThrows(t)

UserStep(k) == ToggleDone(k) \/ Reschedule(k) \/ DeleteTask(k)

Next ==
    \/ \E k \in Tasks : UserStep(k) \/ DueDatePasses(k)
    \/ \E t \in Ticks : TickFires(t) \/ TickStep(t) \/ TxExpires(t) \/ TickDies(t)
    \/ Crash

Spec == Init /\ [][Next]_vars

\* Awaited calls return, cron fires again, a lock that is waited for is got.
Fairness ==
    \A t \in Ticks : WF_vars(TickFires(t)) /\ WF_vars(TickStep(t))

FairSpec == Spec /\ Fairness

----------------------------------------------------------------------------
(* Properties *)

\* At least once: a task that carries overdueEventSentAt has had every one of
\* its matching rules turned into a CommunicationRecord, whatever executions
\* overlapped, expired, threw or crashed on the way.
FlagMeansHandled ==
    \A k \in Tasks : task[k].flagged =>
        \A r \in Rules : <<k, r>> \in Matching => records[<<k, r>>] > 0

\* Rules run in order and a failing one stops those after it: a later rule
\* never has more records than an earlier rule that matches as well.
RulesInOrder ==
    \A k \in Tasks : \A r, q \in Rules :
        /\ r < q
        /\ <<k, r>> \in Matching
        /\ <<k, q>> \in Matching
        => records[<<k, q>>] <= records[<<k, r>>]

\* A rule whose recipient cannot be resolved keeps its task unflagged for
\* good, and the rules after it never run.
UnresolvedBlocks ==
    \A k \in Tasks : \A r \in Rules :
        <<k, r>> \in Matching \cap NoRecipient =>
            /\ ~task[k].flagged
            /\ \A q \in Rules : q >= r => records[<<k, q>>] = 0

\* With one execution at a time, a second event, and a second record for the
\* same rule, need an aborted transaction.
OnceUnlessAborted ==
    \A k \in Tasks :
        /\ published[k] <= aborts[k] + 1
        /\ \A r \in Rules : records[<<k, r>>] <= aborts[k] + 1

\* Once set, overdueEventSentAt stays, even if the task gets a new due date:
\* with one execution at a time a flagged task makes no further record.
FlagIsFinal ==
    [][\A k \in Tasks :
          task[k].flagged =>
              /\ task'[k].flagged
              /\ \A r \in Rules : records'[<<k, r>>] = records[<<k, r>>]]_vars

\* An overdue task is flagged, or stops being overdue, in spite of faults; this
\* needs every recipient to resolve.
EventuallyFlagged ==
    \A k \in Tasks : Eligible(k) ~> ~Eligible(k)
=============================================================================
