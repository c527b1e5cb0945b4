-------------------------- MODULE MessageDelivery --------------------------
(***************************************************************************)
(* The communications component: MessageService.sendManual, the retry cron *)
(* job with MessageService.attemptSend, the delivery-simulation cron job   *)
(* of demo mode, the delivery provider they talk to and the                *)
(* CommunicationRecord rows they share in PostgreSQL.                      *)
(*                                                                         *)
(* Everything between two awaits of the code is one step here.  Each       *)
(* execution of a cron callback is a process: node-cron starts a callback  *)
(* on schedule whether or not the previous execution has returned, so      *)
(* RetryTicks and SimTicks are the executions that may be under way at the *)
(* same time.                                                              *)
(***************************************************************************)
EXTENDS Integers, FiniteSets

CONSTANTS
    Messages,     \* the messages clients may ask to send
    NoMsg,        \* "no message under attempt"
    RetryTicks,   \* executions of the retry callback that may overlap
    SimTicks,     \* executions of the simulation callback that may overlap
    Mode,         \* COMMUNICATIONS_MODE: "live" or "demo"
    RETRY_LIMIT,  \* attempts of the retry job per message (3)
    RetryTake,    \* rows one retry tick takes (20)
    SimTake,      \* rows one simulation tick takes (50)
    MaxFaults     \* bound on injected faults

ASSUME ConstantsAssumption ==
    /\ NoMsg \notin Messages
    /\ IsFiniteSet(RetryTicks)
    /\ Mode \in {"live", "demo"}
    /\ RETRY_LIMIT \in Nat
    /\ RetryTake \in Nat \ {0}
    /\ SimTake \in Nat \ {0}
    /\ MaxFaults \in Nat

VARIABLES
    row,       \* row[m]: the CommunicationRecord of m, "absent" before create
    req,       \* req[m]: where the sendManual call for m stands
    tickPc,    \* tickPc[t]: where retry tick t stands in its for loop
    batch,     \* batch[t]: ids tick t found and has not attempted yet
    current,   \* current[t]: the id tick t is attempting
    seen,      \* seen[t]: record.retryCount as attemptSend read it
    simBatch,  \* simBatch[s]: ids simulation tick s has still to mark
    calls,     \* history: calls[m] provider.send calls made for m
    accepted,  \* history: accepted[m] copies of m the provider took
    hits,      \* history: hits[m] faults that hit a call under way for m
    faults     \* faults injected so far, for m, for another or for nobody

reqVars  == <<req>>
tickVars == <<tickPc, batch, current, seen>>
history  == <<calls, accepted>>
faultVars == <<hits, faults>>
vars == <<row, req, tickPc, batch, current, seen, simBatch, calls, accepted,
          hits, faults>>

----------------------------------------------------------------------------
(* State *)

Status  == {"absent", "queued", "sent", "delivered", "failed"}
RetryAt == {"null", "ahead", "due"}   \* nextRetryAt: unset, in the future, past
ReqPc   == {"idle", "calling", "accepted", "errored", "ended"}
TickPc  == {"idle", "loop", "read", "accepted", "errored"}

\* The columns of CommunicationRecord that the control flow reads or that
\* report the outcome; a time stamp is modelled by whether it is set.
Row == [status : Status, retryCount : Nat, nextRetryAt : RetryAt,
        sentAt : BOOLEAN, deliveredAt : BOOLEAN, failedAt : BOOLEAN]

NoRow == [status |-> "absent", retryCount |-> 0, nextRetryAt |-> "null",
          sentAt |-> FALSE, deliveredAt |-> FALSE, failedAt |-> FALSE]

TypeOK ==
    /\ row \in [Messages -> Row]
    /\ req \in [Messages -> ReqPc]
    /\ tickPc \in [RetryTicks -> TickPc]
    /\ batch \in [RetryTicks -> SUBSET Messages]
    /\ current \in [RetryTicks -> Messages \cup {NoMsg}]
    /\ seen \in [RetryTicks -> Nat]
    /\ \A t \in RetryTicks :
          /\ tickPc[t] \in {"idle", "loop"} <=> current[t] = NoMsg
          /\ tickPc[t] = "idle" => batch[t] = {}
          /\ tickPc[t] = "loop" => batch[t] # {}
          /\ current[t] \notin batch[t]
    /\ simBatch \in [SimTicks -> SUBSET Messages]
    /\ calls \in [Messages -> Nat]
    /\ accepted \in [Messages -> Nat]
    /\ hits \in [Messages -> Nat]
    /\ faults \in 0 .. MaxFaults

Init ==
    /\ row = [m \in Messages |-> NoRow]
    /\ req = [m \in Messages |-> "idle"]
    /\ tickPc = [t \in RetryTicks |-> "idle"]
    /\ batch = [t \in RetryTicks |-> {}]
    /\ current = [t \in RetryTicks |-> NoMsg]
    /\ seen = [t \in RetryTicks |-> 0]
    /\ simBatch = [s \in SimTicks |-> {}]
    /\ calls = [m \in Messages |-> 0]
    /\ accepted = [m \in Messages |-> 0]
    /\ hits = [m \in Messages |-> 0]
    /\ faults = 0

\* A database error, a provider answer lost on the way back, or a crash; it
\* is charged to the messages in S, the ones it caught under way.
Fault(S) ==
    /\ faults < MaxFaults
    /\ faults' = faults + 1
    /\ hits' = [m \in Messages |-> IF m \in S THEN hits[m] + 1 ELSE hits[m]]

NoFault == UNCHANGED faultVars

\* The messages sendManual or an attempt is at work on.
Requested == {m \in Messages : req[m] \in {"calling", "accepted", "errored"}}
Attempted == {current[t] : t \in RetryTicks}

----------------------------------------------------------------------------
(* The provider.  In demo mode the registry holds the fake providers, which *)
(* always accept; the real ones may refuse.                                *)

ProviderMayRefuse == Mode = "live"

Called(m) == calls' = [calls EXCEPT ![m] = @ + 1]

ProviderTakes(m)   == Called(m) /\ accepted' = [accepted EXCEPT ![m] = @ + 1]
ProviderRefuses(m) == ProviderMayRefuse /\ Called(m) /\ UNCHANGED accepted

----------------------------------------------------------------------------
(* MessageService.sendManual.  A request that fails validation creates no  *)
(* row and is not represented.                                             *)

\* The row is created; the provider is called next.
CreateRecord(m) ==
    /\ req[m] = "idle"
    /\ row' = [row EXCEPT ![m].status = "queued"]
    /\ req' = [req EXCEPT ![m] = "calling"]
    /\ UNCHANGED <<tickVars, simBatch, history, faultVars>>

\* provider.send returns, throws, or takes the message and its answer is lost.
RequestCalls(m) ==
    /\ req[m] = "calling"
    /\ \/ /\ ProviderTakes(m)
          /\ req' = [req EXCEPT ![m] = "accepted"]
          /\ NoFault
       \/ /\ ProviderRefuses(m)
          /\ req' = [req EXCEPT ![m] = "errored"]
          /\ NoFault
       \/ /\ ProviderMayRefuse
          /\ ProviderTakes(m)
          /\ req' = [req EXCEPT ![m] = "errored"]
          /\ Fault({m})
    /\ UNCHANGED <<row, tickVars, simBatch>>

\* The success update; if it throws, the catch block is entered.
RequestRecordsSent(m) ==
    /\ req[m] = "accepted"
    /\ \/ /\ row' = [row EXCEPT ![m] = [@ EXCEPT !.status = "sent", !.sentAt = TRUE]]
          /\ req' = [req EXCEPT ![m] = "ended"]
          /\ NoFault
       \/ /\ req' = [req EXCEPT ![m] = "errored"]
          /\ Fault({m})
          /\ UNCHANGED row
    /\ UNCHANGED <<tickVars, simBatch, history>>

\* Mutant: the error is passed on without an update.
RequestOnlyRethrows(m) ==
    /\ req[m] = "errored"
    /\ req' = [req EXCEPT ![m] = "ended"]
    /\ UNCHANGED <<row, tickVars, simBatch, history, faultVars>>

\* The catch block: retryCount and nextRetryAt keep their values.  If this
\* update throws too, the row stays as it is.
RequestRecordsFailed(m) ==
    /\ req[m] = "errored"
    /\ req' = [req EXCEPT ![m] = "ended"]
    /\ \/ /\ row' = [row EXCEPT
                        ![m] = [@ EXCEPT !.status = "failed", !.failedAt = TRUE]]
          /\ NoFault
       \/ /\ Fault({m})
          /\ UNCHANGED row
    /\ UNCHANGED <<tickVars, simBatch, history>>

----------------------------------------------------------------------------
(* The retry job and MessageService.attemptSend.                           *)

\* The rows a findMany with "take" may return, its order abstracted.
Page(S, take) ==
    {b \in SUBSET S : /\ b # {}
                      /\ Cardinality(b) <= take
                      /\ Cardinality(b) < take => b = S}

Due(m) == row[m].nextRetryAt \in {"null", "due"}

Retryable(m) ==
    /\ row[m].status = "failed"
    /\ row[m].retryCount < RETRY_LIMIT
    /\ Due(m)

\* Mutants of the query: an off-by-one in the limit, queued rows taken too,
\* the backoff not looked at, records without a nextRetryAt left out.
RetryablesOneMore ==
    {m \in Messages :
        row[m].status = "failed" /\ row[m].retryCount <= RETRY_LIMIT /\ Due(m)}
RetryablesQueuedToo ==
    {m \in Messages : /\ row[m].status \in {"queued", "failed"}
                      /\ row[m].retryCount < RETRY_LIMIT
                      /\ Due(m)}
RetryablesAtOnce ==
    {m \in Messages :
        row[m].status = "failed" /\ row[m].retryCount < RETRY_LIMIT}
RetryablesDated ==
    {m \in Messages : Retryable(m) /\ row[m].nextRetryAt = "due"}

\* The query of the retry job.
Retryables == {m \in Messages : Retryable(m)}

\* The callback starts and finds a page of retryable rows (a tick that finds
\* none returns at once and changes nothing).
RetryTickFires(t) ==
    /\ tickPc[t] = "idle"
    /\ \E b \in Page(Retryables, RetryTake) :
          batch' = [batch EXCEPT ![t] = b]
    /\ tickPc' = [tickPc EXCEPT ![t] = "loop"]
    /\ UNCHANGED <<row, req, current, seen, simBatch, history, faultVars>>

\* The loop goes on with the rest of the page, or the callback returns.
NextIteration(t, rest) ==
    /\ batch' = [batch EXCEPT ![t] = rest]
    /\ current' = [current EXCEPT ![t] = NoMsg]
    /\ tickPc' = [tickPc EXCEPT ![t] = IF rest = {} THEN "idle" ELSE "loop"]

\* attemptSend reads the row and goes on only if it is queued or failed; the
\* retry count and the backoff are not looked at again.
AttemptReads(t, m) ==
    /\ tickPc[t] = "loop"
    /\ m \in batch[t]
    /\ row[m].status \in {"queued", "failed"}
    /\ tickPc' = [tickPc EXCEPT ![t] = "read"]
    /\ batch' = [batch EXCEPT ![t] = @ \ {m}]
    /\ current' = [current EXCEPT ![t] = m]
    /\ seen' = [seen EXCEPT ![t] = row[m].retryCount]
    /\ UNCHANGED <<row, req, simBatch, history, faultVars>>

\* attemptSend finds the row sent or delivered and returns.
AttemptSkips(t, m) ==
    /\ tickPc[t] = "loop"
    /\ m \in batch[t]
    /\ row[m].status \notin {"queued", "failed"}
    /\ NextIteration(t, batch[t] \ {m})
    /\ UNCHANGED <<row, req, seen, simBatch, history, faultVars>>

AttemptCalls(t) ==
    /\ tickPc[t] = "read"
    /\ \/ /\ ProviderTakes(current[t])
          /\ tickPc' = [tickPc EXCEPT ![t] = "accepted"]
          /\ NoFault
       \/ /\ ProviderRefuses(current[t])
          /\ tickPc' = [tickPc EXCEPT ![t] = "errored"]
          /\ NoFault
       \/ /\ ProviderMayRefuse
          /\ ProviderTakes(current[t])
          /\ tickPc' = [tickPc EXCEPT ![t] = "errored"]
          /\ Fault({current[t]})
    /\ UNCHANGED <<row, req, batch, current, seen, simBatch>>

\* Mutant: the failure stamp survives the success.
AttemptRecordsSentOnly(t) ==
    /\ tickPc[t] = "accepted"
    /\ row' = [row EXCEPT ![current[t]] =
                 [@ EXCEPT !.status = "sent", !.sentAt = TRUE,
                           !.nextRetryAt = "null"]]
    /\ NextIteration(t, batch[t])
    /\ UNCHANGED <<req, seen, simBatch, history, faultVars>>

\* The success update clears the traces of the failures before it.
AttemptRecordsSent(t) ==
    /\ tickPc[t] = "accepted"
    /\ row' = [row EXCEPT ![current[t]] =
                 [@ EXCEPT !.status = "sent", !.sentAt = TRUE,
                           !.failedAt = FALSE, !.nextRetryAt = "null"]]
    /\ NextIteration(t, batch[t])
    /\ UNCHANGED <<req, seen, simBatch, history, faultVars>>

\* The success update throws: the catch block is entered.
AttemptUpdateThrows(t) ==
    /\ tickPc[t] = "accepted"
    /\ tickPc' = [tickPc EXCEPT ![t] = "errored"]
    /\ Fault({current[t]})
    /\ UNCHANGED <<row, req, batch, current, seen, simBatch, history>>

\* Mutant: the failed attempt is not counted.
AttemptRecordsFailedUncounted(t) ==
    /\ tickPc[t] = "errored"
    /\ row' = [row EXCEPT ![current[t]] =
                 [@ EXCEPT !.status = "failed", !.failedAt = TRUE,
                           !.nextRetryAt = "ahead"]]
    /\ NextIteration(t, batch[t])
    /\ UNCHANGED <<req, seen, simBatch, history, faultVars>>

\* The catch block writes the count read at the start plus one, and a
\* nextRetryAt in the future.
AttemptRecordsFailed(t) ==
    /\ tickPc[t] = "errored"
    /\ row' = [row EXCEPT ![current[t]] =
                 [@ EXCEPT !.status = "failed", !.failedAt = TRUE,
                           !.retryCount = seen[t] + 1,
                           !.nextRetryAt = "ahead"]]
    /\ NextIteration(t, batch[t])
    /\ UNCHANGED <<req, seen, simBatch, history, faultVars>>

\* A database call outside the try block, or the one inside the catch block,
\* throws out of the callback: the rest of the page is dropped.
RetryTickDies(t) ==
    /\ tickPc[t] \in {"loop", "read", "errored"}
    /\ NextIteration(t, {})
    /\ Fault({current[t]})
    /\ UNCHANGED <<row, req, seen, simBatch, history>>

\* The clock passes nextRetryAt.
BackoffElapses(m) ==
    /\ row[m].nextRetryAt = "ahead"
    /\ row' = [row EXCEPT ![m].nextRetryAt = "due"]
    /\ UNCHANGED <<req, tickVars, simBatch, history, faultVars>>

----------------------------------------------------------------------------
(* The delivery-simulation job, scheduled in demo mode only.               *)

\* Mutant: the status is not part of the query.
UndeliveredAny(m) == ~row[m].deliveredAt

\* The query of the simulation job.
Undelivered(m) == row[m].status = "sent" /\ ~row[m].deliveredAt

SimTickFires(s) ==
    /\ Mode = "demo"
    /\ simBatch[s] = {}
    /\ \E b \in Page({m \in Messages : Undelivered(m)}, SimTake) :
          simBatch' = [simBatch EXCEPT ![s] = b]
    /\ UNCHANGED <<row, req, tickVars, history, faultVars>>

\* Mutant: only the status is written.
SimSetsStatus(s, m) ==
    /\ m \in simBatch[s]
    /\ row' = [row EXCEPT ![m].status = "delivered"]
    /\ simBatch' = [simBatch EXCEPT ![s] = @ \ {m}]
    /\ UNCHANGED <<req, tickVars, history, faultVars>>

\* The update is by id: it does not look at the status again.
SimRecordsDelivered(s, m) ==
    /\ m \in simBatch[s]
    /\ row' = [row EXCEPT
                  ![m] = [@ EXCEPT !.status = "delivered", !.deliveredAt = TRUE]]
    /\ simBatch' = [simBatch EXCEPT ![s] = @ \ {m}]
    /\ UNCHANGED <<req, tickVars, history, faultVars>>

SimTickDies(s) ==
    /\ simBatch[s] # {}
    /\ simBatch' = [simBatch EXCEPT ![s] = {}]
    /\ Fault({})
    /\ UNCHANGED <<row, req, tickVars, history>>

----------------------------------------------------------------------------
(* The process crashes and is started again: rows stay, everything under   *)
(* way is lost.                                                            *)
Crash ==
    /\ Fault(Requested \cup Attempted)
    /\ req' = [m \in Messages |-> IF req[m] = "idle" THEN "idle" ELSE "ended"]
    /\ tickPc' = [t \in RetryTicks |-> "idle"]
    /\ batch' = [t \in RetryTicks |-> {}]
    /\ current' = [t \in RetryTicks |-> NoMsg]
    /\ simBatch' = [s \in SimTicks |-> {}]
    /\ UNCHANGED <<row, seen, history>>

----------------------------------------------------------------------------
RequestStep(m) ==
    RequestCalls(m) \/ RequestRecordsSent(m) \/ RequestRecordsFailed(m)

AttemptStep(t) ==
    \/ \E m \in Messages : AttemptReads(t, m) \/ AttemptSkips(t, m)
    \/ AttemptCalls(t)
    \/ AttemptRecordsSent(t)
    \/ AttemptUpdateThrows(t)
    \/ AttemptRecordsFailed(t)

SimStep(s) == \E m \in Messages : SimRecordsDelivered(s, m)

Next ==
    \/ \E m \in Messages : CreateRecord(m) \/ RequestStep(m) \/ BackoffElapses(m)
    \/ \E t \in RetryTicks : RetryTickFires(t) \/ AttemptStep(t) \/ RetryTickDies(t)
    \/ \E s \in SimTicks : SimTickFires(s) \/ SimStep(s) \/ SimTickDies(s)
    \/ Crash

Spec == Init /\ [][Next]_vars

\* What the scheduling guarantees: an awaited call returns, a cron job fires
\* again, time passes.  Nothing obliges a client to send or a fault to occur.
Fairness ==
    /\ \A m \in Messages : WF_vars(RequestStep(m)) /\ WF_vars(BackoffElapses(m))
    /\ \A t \in RetryTicks : WF_vars(RetryTickFires(t)) /\ WF_vars(AttemptStep(t))
    /\ \A s \in SimTicks : WF_vars(SimTickFires(s)) /\ WF_vars(SimStep(s))

FairSpec == Spec /\ Fairness

----------------------------------------------------------------------------
(* Properties, whatever overlaps *)

Recorded(m) == row[m].status \in {"sent", "delivered"}

\* A record that says "sent" or "delivered" is never a lie: the provider took
\* at least one copy, whichever of sendManual, attemptSend or the simulation
\* wrote the status, and in whatever order their writes landed.
SentMeansAccepted == \A m \in Messages : Recorded(m) => accepted[m] > 0

\* attemptSend does not compare retryCount with RETRY_LIMIT again and writes
\* back the count it read.  One execution of the retry job at a time keeps the
\* count within the limit; two that overlap may push it one past the limit,
\* never further.  (Three or more can do worse: a late write of a low count
\* makes an exhausted record retryable again.)
RetryCountBound ==
    \A m \in Messages :
        Cardinality(RetryTicks) \in 1 .. 2
            => row[m].retryCount <= RETRY_LIMIT + Cardinality(RetryTicks) - 1

\* RETRY_LIMIT as retry.job.ts uses it: the retry count of a record stays
\* within the limit.  One execution at a time keeps it, two do not.
RetryLimitHolds == \A m \in Messages : row[m].retryCount <= RETRY_LIMIT

\* A record is left "queued" with nobody working on it (the retry job looks
\* for "failed" ones only) only if a fault hit its own call of sendManual: no
\* fault of another message, of a tick or of the simulation strands it.  (A
\* queued row is in no page, so whatever hit it hit sendManual.)
Orphan(m) == row[m].status = "queued" /\ req[m] = "ended"
OrphanOnlyByFault == \A m \in Messages : Orphan(m) => hits[m] > 0

----------------------------------------------------------------------------
(* Properties, when executions of the retry job do not overlap *)

NonOverlap == \A t, u \in RetryTicks : t = u

\* The time stamps tell the same story as the status, through every path of
\* sendManual, attemptSend and the simulation: sentAt is set exactly on sent
\* and delivered records, deliveredAt exactly on delivered ones, failedAt
\* exactly on failed ones, and only a failed record has a next retry.
StampsMatchStatus ==
    \A m \in Messages :
        /\ row[m].sentAt <=> Recorded(m)
        /\ row[m].deliveredAt <=> row[m].status = "delivered"
        /\ row[m].failedAt <=> row[m].status = "failed"
        /\ row[m].nextRetryAt # "null" => row[m].status = "failed"

\* A message costs at most one call by sendManual and RETRY_LIMIT calls by
\* the retry job; each fault that hit a call for this very message may cost one
\* call more, because the call it hit is not counted in retryCount.
CallBudget == \A m \in Messages : calls[m] <= 1 + RETRY_LIMIT + hits[m]

\* The recipient gets a second copy only because of a fault that hit this
\* message: a lost answer, an update that failed after the provider accepted,
\* or a crash there.  Faults elsewhere never cause one.
CopyBudget == \A m \in Messages : accepted[m] <= 1 + hits[m]

\* The retry job never calls the provider for a record whose backoff is still
\* running, nor for one that has used up its retries, although neither is
\* looked at again between the query of the page and the attempt.
BackoffRespected ==
    [][\A t \in RetryTicks :
          tickPc[t] = "read" /\ calls'[current[t]] > calls[current[t]]
            => Retryable(current[t])]_vars

\* An outcome is revised only by an attempt of the retry job that had read the
\* record before it was there, which takes two overlapping executions: with
\* one, "sent" never goes back and "delivered" is final.
OutcomeRevisedLate ==
    [][\A m \in Messages :
          /\ Recorded(m)
          /\ row'[m].status \notin {row[m].status, "delivered"}
          => /\ ~NonOverlap
             /\ \E t \in RetryTicks :
                   /\ current[t] = m /\ current'[t] = NoMsg
                   /\ tickPc[t] \in {"accepted", "errored"}]_vars

\* The refinement mapping to the abstract outbox.
OutcomeOf(m) ==
    CASE row[m].status = "absent" -> "none"
      [] Recorded(m) -> "accepted"
      [] row[m].status = "failed" /\ row[m].retryCount >= RETRY_LIMIT
            -> "abandoned"
      [] OTHER -> "open"

outcomeBar == [m \in Messages |-> OutcomeOf(m)]

O == INSTANCE Outbox WITH outcome <- outcomeBar, copies <- accepted

\* The rows and the provider together implement the outbox.
ImplementsOutbox == O!OutboxSpec

----------------------------------------------------------------------------
(* The invariants behind the properties *)

\* A process about to write "sent" or "delivered" holds the provider's answer.
WritersHoldCopy ==
    /\ \A m \in Messages : req[m] = "accepted" => accepted[m] > 0
    /\ \A t \in RetryTicks : tickPc[t] = "accepted" => accepted[current[t]] > 0
    /\ \A s \in SimTicks : \A m \in simBatch[s] : accepted[m] > 0

\* While sendManual is at work on m, the row is as it was created.
RequestOwnsRow ==
    \A m \in Messages :
        /\ req[m] = "idle" <=> row[m].status = "absent"
        /\ req[m] \in {"calling", "accepted", "errored"}
              => row[m].status = "queued"
        /\ row[m].status \in {"absent", "queued"} => row[m].retryCount = 0

\* While a retry tick holds m, in its page or under attempt, m stays as the
\* query found it: nobody else writes a failed row.
TickOwnsRows ==
    \A t \in RetryTicks :
        /\ \A m \in batch[t] : Retryable(m)
        /\ current[t] # NoMsg => /\ Retryable(current[t])
                                /\ seen[t] = row[current[t]].retryCount

SimOwnsRows == \A s \in SimTicks : \A m \in simBatch[s] : Recorded(m)

\* m has been sent by an attempt that has not been recorded yet.
AttemptCalled(m) ==
    \E t \in RetryTicks :
        current[t] = m /\ tickPc[t] \in {"accepted", "errored"}

AttemptAccepted(m) ==
    \E t \in RetryTicks : current[t] = m /\ tickPc[t] = "accepted"

\* Each provider call is in the retry count, under way, or due to a fault.
CallsAccounted ==
    \A m \in Messages :
        /\ req[m] \in {"idle", "calling"} => calls[m] = 0
        /\ row[m].status = "queued" => calls[m] <= 1
        /\ row[m].status = "failed"
              => /\ calls[m] <= 2 + row[m].retryCount + hits[m]
                 /\ AttemptCalled(m)
                      \/ calls[m] <= 1 + row[m].retryCount + hits[m]

\* Each copy the provider took is recorded, about to be, or due to a fault.
CopiesAccounted ==
    \A m \in Messages :
        /\ req[m] \in {"idle", "calling"} => accepted[m] = 0
        /\ \/ accepted[m] <= hits[m]
           \/ Recorded(m) \/ AttemptAccepted(m) \/ req[m] = "accepted"

\* The inductive invariant when executions of the retry job do not overlap.
DeliveryInv ==
    /\ WritersHoldCopy
    /\ SentMeansAccepted
    /\ RequestOwnsRow
    /\ TickOwnsRows
    /\ SimOwnsRows
    /\ StampsMatchStatus
    /\ RetryLimitHolds
    /\ CallsAccounted
    /\ CallBudget
    /\ CopiesAccounted
    /\ CopyBudget
    /\ OrphanOnlyByFault

----------------------------------------------------------------------------
(* Liveness *)

Settled(m) ==
    \/ Recorded(m)
    \/ row[m].status = "failed" /\ row[m].retryCount >= RETRY_LIMIT

\* Every record that is created reaches an outcome or is orphaned, in spite
\* of faults, through sendManual and as many retry ticks as it takes.
EventuallySettled ==
    \A m \in Messages :
        row[m].status # "absent" ~> (Settled(m) \/ Orphan(m))

\* In demo mode every sent record is eventually stamped delivered, although
\* the simulation takes a page at a time and may fail half way; unless a late
\* attempt takes the outcome back.  (Or writes "sent" over "delivered": the
\* stamp stays, and the record is not marked a second time.)
EventuallyDelivered ==
    \A m \in Messages :
        row[m].status = "sent" ~> row[m].deliveredAt \/ row[m].status = "failed"
=============================================================================
