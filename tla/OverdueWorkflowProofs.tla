----------------------- MODULE OverdueWorkflowProofs -----------------------
(***************************************************************************)
(* Proofs about OverdueWorkflow, for every set of tasks, rules and         *)
(* executions, overlapping or not.                                         *)
(***************************************************************************)
EXTENDS OverdueWorkflow, FiniteSetTheorems, TLAPS

----------------------------------------------------------------------------
(* The part of type correctness the other proofs rest on *)

\* Where an execution stands, and what it is working on.
TickInv ==
    /\ task \in [Tasks -> Task]
    /\ tickPc \in [Ticks -> TickPc]
    /\ page \in [Ticks -> SUBSET Tasks]
    /\ current \in [Ticks -> Tasks \cup {NoTask}]
    /\ pos \in [Ticks -> 1 .. NRules + 1]
    /\ alive \in [Ticks -> BOOLEAN]
    /\ \A t \in Ticks : tickPc[t] \in {"checked", "publishing"} => current[t] \in Tasks
    /\ records \in [Tasks \X Rules -> Nat]

LEMMA TickInit == Init => TickInv
BY OverdueAssumption DEF Init, TickInv, Task, NewTask, TickPc

LEMMA IterationTicks ==
    ASSUME TickInv, NEW t \in Ticks, NEW rest \in SUBSET Tasks,
           NextIteration(t, rest)
    PROVE  /\ tickPc' \in [Ticks -> TickPc]
           /\ page' \in [Ticks -> SUBSET Tasks]
           /\ current' \in [Ticks -> Tasks \cup {NoTask}]
           /\ pos' \in [Ticks -> 1 .. NRules + 1]
           /\ alive' \in [Ticks -> BOOLEAN]
           /\ \A u \in Ticks :
                tickPc'[u] \in {"checked", "publishing"} => current'[u] \in Tasks
BY OverdueAssumption DEF NextIteration, TickInv, TickPc

LEMMA TaskInv ==
    ASSUME TickInv, NEW k \in Tasks, UserStep(k) \/ DueDatePasses(k)
    PROVE  TickInv'
<1>1. task[k] \in Task
  BY DEF TickInv
<1>2. task' \in [Tasks -> Task] /\ UNCHANGED <<tickVars, history>>
  <2>1. CASE ToggleDone(k)
    BY <1>1, <2>1 DEF ToggleDone, EditTask, TickInv, Task
  <2>2. CASE Reschedule(k)
    BY <1>1, <2>2 DEF Reschedule, EditTask, TickInv, Task
  <2>3. CASE DeleteTask(k)
    BY <1>1, <2>3 DEF DeleteTask, EditTask, TickInv, Task
  <2>4. CASE DueDatePasses(k)
    BY <1>1, <2>4 DEF DueDatePasses, TickInv, Task
  <2> QED BY <2>1, <2>2, <2>3, <2>4 DEF UserStep
<1> QED BY <1>2 DEF TickInv, tickVars, history

LEMMA TickStepInv ==
    ASSUME TickInv, NEW t \in Ticks,
           TickFires(t) \/ TickStep(t) \/ TxExpires(t) \/ TickDies(t)
    PROVE  TickInv'
<1>0. {} \in SUBSET Tasks /\ page[t] \in SUBSET Tasks
  BY DEF TickInv
<1>1. CASE TickFires(t)
  <2>1. PICK p \in SUBSET {k \in Tasks : Eligible(k)} : page' = [page EXCEPT ![t] = p]
    BY <1>1 DEF TickFires
  <2> QED
    BY <1>1, <2>1 DEF TickFires, TickInv, TickPc, history
<1>2. ASSUME NEW k \in Tasks, TxChecks(t, k)
      PROVE  TickInv'
  BY <1>2 DEF TxChecks, TickInv, TickPc, history
<1>3. ASSUME NEW k \in Tasks, TxSkips(t, k)
      PROVE  TickInv'
  <2>1. page[t] \ {k} \in SUBSET Tasks
    BY <1>0
  <2> QED
    BY <1>3, <2>1, IterationTicks DEF TxSkips, TickInv, history
<1>4. CASE TxMarks(t)
  <2>1. 1 \in 1 .. NRules + 1
    BY OverdueAssumption
  <2> QED
    BY <1>4, <2>1 DEF TxMarks, TickInv, TickPc
<1>5. CASE RuleSkipped(t)
  BY <1>5, OverdueAssumption DEF RuleSkipped, TickInv, history
<1>6. CASE RuleSends(t)
  <2>1. records' \in [Tasks \X Rules -> Nat]
    <3>1. Recorded(t)  BY <1>6 DEF RuleSends
    <3>2. records \in [Tasks \X Rules -> Nat]  BY DEF TickInv
    <3>3. \A kr \in Tasks \X Rules : records[kr] + 1 \in Nat
      BY <3>2
    <3> QED BY <3>1, <3>2, <3>3 DEF Recorded
  <2>2. pos' \in [Ticks -> 1 .. NRules + 1]
    BY <1>6, OverdueAssumption DEF RuleSends, TickInv
  <2> QED
    BY <1>6, <2>1, <2>2 DEF RuleSends, TickInv
<1>7. CASE RuleThrows(t)
  <2>1. records' \in [Tasks \X Rules -> Nat]
    BY <1>7 DEF RuleThrows, Recorded, TickInv
  <2> QED
    BY <1>0, <1>7, <2>1, IterationTicks DEF RuleThrows, Abort, TickInv
<1>8. CASE TxCommits(t)
  <2>1. task' \in [Tasks -> Task]
    BY <1>8, ZenonT(30) DEF TxCommits, TickInv, Task
  <2> QED
    BY <1>0, <1>8, <2>1, IterationTicks DEF TxCommits, TickInv, history
<1>9. CASE CommitThrows(t)
  BY <1>0, <1>9, IterationTicks DEF CommitThrows, Abort, TickInv
<1>10. CASE TxExpires(t)
  BY <1>10 DEF TxExpires, TickInv, history
<1>11. CASE TickDies(t)
  BY <1>0, <1>11, IterationTicks DEF TickDies, TickInv, history
<1> QED
  BY <1>1, <1>2, <1>3, <1>4, <1>5, <1>6, <1>7, <1>8, <1>9, <1>10, <1>11
     DEF TickStep

LEMMA TickNext == TickInv /\ [Next]_vars => TickInv'
<1> SUFFICES ASSUME TickInv, [Next]_vars
             PROVE  TickInv'
  OBVIOUS
<1>1. CASE Crash
  BY <1>1, OverdueAssumption DEF Crash, TickInv, TickPc
<1>2. CASE UNCHANGED vars
  BY <1>2 DEF vars, TickInv
<1> QED BY <1>1, <1>2, TaskInv, TickStepInv DEF Next

----------------------------------------------------------------------------
(* At least once *)

\* The rules an execution has left behind have their records.
Progress ==
    \A t \in Ticks : tickPc[t] = "publishing" =>
        \A r \in Rules :
            r < pos[t] /\ <<current[t], r>> \in Matching
                => records[<<current[t], r>>] > 0

HandledInv == FlagMeansHandled /\ Progress

LEMMA RecordsGrow ==
    ASSUME TickInv, [Next]_vars, NEW kr \in Tasks \X Rules
    PROVE  records'[kr] >= records[kr]
<1>1. records[kr] \in Nat
  BY DEF TickInv
<1>2. ASSUME NEW t \in Ticks, Recorded(t)
      PROVE  records'[kr] >= records[kr]
  BY <1>1, <1>2 DEF Recorded, TickInv
<1>3. CASE records' = records
  BY <1>1, <1>3
<1> QED
  BY <1>2, <1>3 DEF Next, vars, UserStep, ToggleDone, Reschedule, DeleteTask,
     EditTask, DueDatePasses, TickFires, TickStep, TxChecks, TxSkips, TxMarks,
     RuleSkipped, RuleSends, RuleThrows, TxCommits, CommitThrows, TxExpires,
     TickDies, Crash, history

LEMMA HandledStep == TickInv /\ HandledInv /\ [Next]_vars => HandledInv'
<1> SUFFICES ASSUME TickInv, HandledInv, [Next]_vars
             PROVE  HandledInv'
  OBVIOUS
<1> USE DEF HandledInv
<1>0. /\ TickInv'
      /\ \A k \in Tasks : \A r \in Rules :
            records[<<k, r>>] > 0 => records'[<<k, r>>] > 0
  <2>1. \A kr \in Tasks \X Rules :
            records'[kr] >= records[kr] /\ records[kr] \in Nat
                /\ records'[kr] \in Nat
    BY TickNext, RecordsGrow DEF TickInv
  <2>2. TickInv'
    BY TickNext
  <2>3. ASSUME NEW k \in Tasks, NEW r \in Rules, records[<<k, r>>] > 0
        PROVE  records'[<<k, r>>] > 0
    <3>1. <<k, r>> \in Tasks \X Rules
      OBVIOUS
    <3> QED BY <2>1, <2>3, <3>1
  <2> QED BY <2>2, <2>3
<1>1. ASSUME \A k \in Tasks : task'[k].flagged => task[k].flagged,
             \A t \in Ticks : tickPc'[t] = "publishing" =>
                /\ tickPc[t] = "publishing"
                /\ current'[t] = current[t]
                /\ pos'[t] = pos[t]
      PROVE  HandledInv'
  BY <1>0, <1>1 DEF FlagMeansHandled, Progress, TickInv
<1>2. ASSUME NEW k \in Tasks, UserStep(k) \/ DueDatePasses(k)
      PROVE  HandledInv'
  <2>1. \A n \in Tasks : task'[n].flagged => task[n].flagged
    <3>1. task[k] \in Task /\ task \in [Tasks -> Task]
      BY DEF TickInv
    <3>2. CASE ToggleDone(k)
      BY <3>1, <3>2 DEF ToggleDone, EditTask, Task
    <3>3. CASE Reschedule(k)
      BY <3>1, <3>3 DEF Reschedule, EditTask, Task
    <3>4. CASE DeleteTask(k)
      BY <3>1, <3>4 DEF DeleteTask, EditTask, Task
    <3>5. CASE DueDatePasses(k)
      BY <3>1, <3>5 DEF DueDatePasses, Task
    <3> QED BY <1>2, <3>2, <3>3, <3>4, <3>5 DEF UserStep
  <2> QED
    BY <1>1, <1>2, <2>1 DEF UserStep, ToggleDone, Reschedule, DeleteTask,
       EditTask, DueDatePasses, tickVars
<1>3. ASSUME NEW t \in Ticks, TxMarks(t)
      PROVE  HandledInv'
  <2>1. pos'[t] = 1 /\ \A r \in Rules : ~(r < 1)
    BY <1>3 DEF TxMarks, TickInv, Rules
  <2> QED
    BY <1>3, <2>1 DEF TxMarks, FlagMeansHandled, Progress, TickInv
<1>4. ASSUME NEW t \in Ticks, RuleSkipped(t)
      PROVE  HandledInv'
  <2>1. \A r \in Rules : r < pos'[t] /\ <<current[t], r>> \in Matching => r < pos[t]
    BY <1>4 DEF RuleSkipped, Pair, TickInv, Rules
  <2> QED
    BY <1>4, <2>1 DEF RuleSkipped, FlagMeansHandled, Progress, TickInv, history
<1>5. ASSUME NEW t \in Ticks, RuleSends(t)
      PROVE  HandledInv'
  <2>1. current[t] \in Tasks /\ pos[t] \in Rules
    BY <1>5, OverdueAssumption DEF RuleSends, TickInv, Rules
  <2>2. records'[<<current[t], pos[t]>>] > 0
    BY <1>5, <2>1 DEF RuleSends, Recorded, Pair, TickInv
  <2>3. \A r \in Rules : r < pos'[t] => r < pos[t] \/ r = pos[t]
    BY <1>5 DEF RuleSends, TickInv, Rules
  <2>4. \A r \in Rules : r < pos'[t] /\ <<current[t], r>> \in Matching
            => records'[<<current[t], r>>] > 0
    BY <1>0, <1>5, <2>1, <2>2, <2>3 DEF RuleSends, Progress
  <2> QED
    BY <1>0, <1>5, <2>1, <2>4
       DEF RuleSends, FlagMeansHandled, Progress, TickInv
<1>6. ASSUME NEW t \in Ticks, TxCommits(t)
      PROVE  HandledInv'
  <2>1. current[t] \in Tasks
    BY <1>6 DEF TxCommits, TickInv
  <2>2. \A r \in Rules : <<current[t], r>> \in Matching
            => records[<<current[t], r>>] > 0
    BY <1>6, OverdueAssumption DEF TxCommits, Progress, Rules
  <2>3. \A k \in Tasks : k # current[t] => task'[k] = task[k]
    BY <1>6 DEF TxCommits, TickInv
  <2> QED
    BY <1>6, <2>1, <2>2, <2>3
       DEF TxCommits, NextIteration, FlagMeansHandled, Progress, TickInv, history
<1>7. ASSUME NEW t \in Ticks,
             TickFires(t) \/ TxExpires(t) \/ TickDies(t)
                \/ RuleThrows(t) \/ CommitThrows(t)
      PROVE  HandledInv'
  <2>1. task' = task
    BY <1>7 DEF TickFires, TxExpires, TickDies, RuleThrows, CommitThrows, Abort
  <2>2. \A u \in Ticks : tickPc'[u] = "publishing" =>
            /\ tickPc[u] = "publishing"
            /\ current'[u] = current[u]
            /\ pos'[u] = pos[u]
    BY <1>7 DEF TickFires, TxExpires, TickDies, RuleThrows, CommitThrows,
       Abort, NextIteration, TickInv
  <2> QED BY <1>1, <2>1, <2>2
<1>8. ASSUME NEW t \in Ticks, NEW k \in Tasks, TxChecks(t, k) \/ TxSkips(t, k)
      PROVE  HandledInv'
  <2>1. \A u \in Ticks : tickPc'[u] = "publishing" =>
            /\ tickPc[u] = "publishing"
            /\ current'[u] = current[u]
            /\ pos'[u] = pos[u]
    BY <1>8 DEF TxChecks, TxSkips, NextIteration, TickInv
  <2> QED BY <1>1, <1>8, <2>1 DEF TxChecks, TxSkips
<1>9. CASE Crash
  BY <1>1, <1>9 DEF Crash
<1>10. CASE UNCHANGED vars
  BY <1>10 DEF vars, FlagMeansHandled, Progress
<1> QED
  BY <1>2, <1>3, <1>4, <1>5, <1>6, <1>7, <1>8, <1>9, <1>10
     DEF Next, TickStep

\* The flag is never committed before every matching rule has its record: the
\* announcement of an overdue task is at least once, through any overlap,
\* expired transaction, exception or crash.
THEOREM OverdueAtLeastOnce == Spec => []FlagMeansHandled
<1>1. Init => TickInv /\ HandledInv
  BY TickInit DEF Init, HandledInv, FlagMeansHandled, Progress, NewTask
<1>2. TickInv /\ HandledInv /\ [Next]_vars => TickInv' /\ HandledInv'
  BY TickNext, HandledStep
<1>3. HandledInv => FlagMeansHandled
  BY DEF HandledInv
<1> QED BY <1>1, <1>2, <1>3, PTL DEF Spec

----------------------------------------------------------------------------
(* A recipient that never resolves *)

\* No execution gets past the rule.
Stuck ==
    \A t \in Ticks : \A k \in Tasks : \A r \in Rules :
        /\ tickPc[t] = "publishing"
        /\ current[t] = k
        /\ <<k, r>> \in Matching \cap NoRecipient
        => pos[t] <= r

BlockedInv == UnresolvedBlocks /\ Stuck

LEMMA BlockedStep == TickInv /\ BlockedInv /\ [Next]_vars => BlockedInv'
<1> SUFFICES ASSUME TickInv, BlockedInv, [Next]_vars
             PROVE  BlockedInv'
  OBVIOUS
<1> USE DEF BlockedInv
<1>1. ASSUME \A k \in Tasks : task'[k].flagged => task[k].flagged,
             records' = records,
             \A t \in Ticks : tickPc'[t] = "publishing" =>
                /\ tickPc[t] = "publishing"
                /\ current'[t] = current[t]
                /\ pos'[t] = pos[t]
      PROVE  BlockedInv'
  BY <1>1 DEF UnresolvedBlocks, Stuck, TickInv
<1>2. ASSUME NEW k \in Tasks, UserStep(k) \/ DueDatePasses(k)
      PROVE  BlockedInv'
  <2>1. \A n \in Tasks : task'[n].flagged => task[n].flagged
    <3>1. task[k] \in Task /\ task \in [Tasks -> Task]
      BY DEF TickInv
    <3>2. CASE ToggleDone(k)
      BY <3>1, <3>2 DEF ToggleDone, EditTask, Task
    <3>3. CASE Reschedule(k)
      BY <3>1, <3>3 DEF Reschedule, EditTask, Task
    <3>4. CASE DeleteTask(k)
      BY <3>1, <3>4 DEF DeleteTask, EditTask, Task
    <3>5. CASE DueDatePasses(k)
      BY <3>1, <3>5 DEF DueDatePasses, Task
    <3> QED BY <1>2, <3>2, <3>3, <3>4, <3>5 DEF UserStep
  <2> QED
    BY <1>1, <1>2, <2>1 DEF UserStep, ToggleDone, Reschedule, DeleteTask,
       EditTask, DueDatePasses, tickVars, history
<1>3. ASSUME NEW t \in Ticks, TxMarks(t)
      PROVE  BlockedInv'
  <2>1. pos'[t] = 1 /\ \A r \in Rules : 1 <= r
    BY <1>3 DEF TxMarks, TickInv, Rules
  <2> QED
    BY <1>3, <2>1 DEF TxMarks, UnresolvedBlocks, Stuck, TickInv
<1>4. ASSUME NEW t \in Ticks, RuleSkipped(t) \/ RuleSends(t)
      PROVE  Stuck' /\ UNCHANGED task
  <2>1. current[t] \in Tasks /\ pos[t] \in Rules
    BY <1>4, OverdueAssumption DEF RuleSkipped, RuleSends, TickInv, Rules
  <2>2. Pair(t) \notin Matching \cap NoRecipient
    BY <1>4 DEF RuleSkipped, RuleSends
  <2>3. \A r \in Rules : <<current[t], r>> \in Matching \cap NoRecipient
            => pos[t] + 1 <= r
    <3>1. ASSUME NEW r \in Rules, <<current[t], r>> \in Matching \cap NoRecipient
          PROVE  pos[t] <= r /\ pos[t] # r
      BY <1>4, <2>1, <2>2, <3>1 DEF Stuck, RuleSkipped, RuleSends, Pair
    <3> QED BY <2>1, <3>1 DEF Rules
  <2> QED
    BY <1>4, <2>3 DEF RuleSkipped, RuleSends, Stuck, TickInv
<1>5. ASSUME NEW t \in Ticks, RuleSkipped(t)
      PROVE  BlockedInv'
  BY <1>4, <1>5 DEF RuleSkipped, UnresolvedBlocks, history
<1>6. ASSUME NEW t \in Ticks, Recorded(t), current[t] \in Tasks,
             tickPc[t] = "publishing", pos[t] \in Rules,
             Pair(t) \in Matching \ NoRecipient, task' = task
      PROVE  UnresolvedBlocks'
  <2>1. ASSUME NEW k \in Tasks, NEW r \in Rules, NEW q \in Rules,
               <<k, r>> \in Matching \cap NoRecipient, q >= r
        PROVE  records'[<<k, q>>] = 0
    <3>1. records[<<k, q>>] = 0
      BY <2>1 DEF UnresolvedBlocks
    <3>2. <<k, q>> # Pair(t)
      <4>1. SUFFICES ASSUME k = current[t], q = pos[t]
                     PROVE  FALSE
        BY DEF Pair
      <4>2. pos[t] <= r
        BY <1>6, <2>1, <4>1 DEF Stuck
      <4>3. pos[t] = r
        BY <2>1, <4>1, <4>2 DEF Rules
      <4> QED BY <1>6, <2>1, <4>1, <4>3 DEF Pair
    <3> QED BY <1>6, <3>1, <3>2 DEF Recorded, TickInv
  <2> QED BY <1>6, <2>1 DEF UnresolvedBlocks
<1>7. ASSUME NEW t \in Ticks, RuleSends(t)
      PROVE  BlockedInv'
  <2>1. current[t] \in Tasks /\ pos[t] \in Rules
    BY <1>7, OverdueAssumption DEF RuleSends, TickInv, Rules
  <2> QED BY <1>4, <1>6, <1>7, <2>1 DEF RuleSends
<1>8. ASSUME NEW t \in Ticks, RuleThrows(t)
      PROVE  BlockedInv'
  <2>1. current[t] \in Tasks /\ pos[t] \in Rules
    BY <1>8, OverdueAssumption DEF RuleThrows, TickInv, Rules
  <2>2. UnresolvedBlocks'
    <3>1. CASE Pair(t) \in NoRecipient
      BY <1>8, <3>1 DEF RuleThrows, Abort, UnresolvedBlocks
    <3>2. CASE Pair(t) \in Matching \ NoRecipient /\ Recorded(t)
      BY <1>6, <1>8, <2>1, <3>2 DEF RuleThrows, Abort
    <3>3. CASE UNCHANGED records
      BY <1>8, <3>3 DEF RuleThrows, Abort, UnresolvedBlocks
    <3> QED BY <1>8, <3>1, <3>2, <3>3 DEF RuleThrows
  <2>3. Stuck'
    BY <1>8 DEF RuleThrows, Abort, NextIteration, Stuck, TickInv
  <2> QED BY <2>2, <2>3
<1>9. ASSUME NEW t \in Ticks, TxCommits(t)
      PROVE  BlockedInv'
  <2>1. current[t] \in Tasks
    BY <1>9 DEF TxCommits, TickInv
  <2>2. \A r \in Rules : <<current[t], r>> \notin Matching \cap NoRecipient
    BY <1>9, <2>1, OverdueAssumption DEF TxCommits, Stuck, Rules
  <2>3. \A k \in Tasks : k # current[t] => task'[k] = task[k]
    BY <1>9 DEF TxCommits, TickInv
  <2> QED
    BY <1>9, <2>1, <2>2, <2>3
       DEF TxCommits, NextIteration, UnresolvedBlocks, Stuck, TickInv, history
<1>10. ASSUME NEW t \in Ticks,
              TickFires(t) \/ TxExpires(t) \/ TickDies(t) \/ CommitThrows(t)
       PROVE  BlockedInv'
  <2>1. task' = task /\ records' = records
    BY <1>10 DEF TickFires, TxExpires, TickDies, CommitThrows, Abort, history
  <2>2. \A u \in Ticks : tickPc'[u] = "publishing" =>
            /\ tickPc[u] = "publishing"
            /\ current'[u] = current[u]
            /\ pos'[u] = pos[u]
    BY <1>10 DEF TickFires, TxExpires, TickDies, CommitThrows,
       Abort, NextIteration, TickInv
  <2> QED BY <1>1, <2>1, <2>2
<1>11. ASSUME NEW t \in Ticks, NEW k \in Tasks, TxChecks(t, k) \/ TxSkips(t, k)
       PROVE  BlockedInv'
  <2>1. \A u \in Ticks : tickPc'[u] = "publishing" =>
            /\ tickPc[u] = "publishing"
            /\ current'[u] = current[u]
            /\ pos'[u] = pos[u]
    BY <1>11 DEF TxChecks, TxSkips, NextIteration, TickInv
  <2> QED BY <1>1, <1>11, <2>1 DEF TxChecks, TxSkips, history
<1>12. CASE Crash
  BY <1>1, <1>12 DEF Crash
<1>13. CASE UNCHANGED vars
  BY <1>1, <1>13 DEF vars
<1> QED
  BY <1>2, <1>3, <1>5, <1>7, <1>8, <1>9, <1>10, <1>11, <1>12, <1>13
     DEF Next, TickStep

\* A matching rule without a recipient keeps its task unflagged for good and
\* the rules from it on without a record: the job retries without end.
THEOREM OverdueBlocked == Spec => []UnresolvedBlocks
<1>1. Init => TickInv /\ BlockedInv
  BY TickInit DEF Init, BlockedInv, UnresolvedBlocks, Stuck, NewTask
<1>2. TickInv /\ BlockedInv /\ [Next]_vars => TickInv' /\ BlockedInv'
  BY TickNext, BlockedStep
<1>3. BlockedInv => UnresolvedBlocks
  BY DEF BlockedInv
<1> QED BY <1>1, <1>2, <1>3, PTL DEF Spec
----------------------------------------------------------------------------
(* Type correctness, and who holds which row *)

\* An execution that has marked a row holds it until its transaction ends.
LockInv ==
    /\ lock \in [Tasks -> Ticks \cup {NoTick}]
    /\ \A t \in Ticks :
          /\ tickPc[t] \in {"idle", "loop"} <=> current[t] = NoTask
          /\ tickPc[t] = "idle" => page[t] = {}
          /\ alive[t] <=> (tickPc[t] = "publishing" /\ lock[current[t]] = t)
    /\ \A k \in Tasks : lock[k] # NoTick =>
          current[lock[k]] = k /\ tickPc[lock[k]] = "publishing"

CountersInv ==
    /\ published \in [Tasks -> 0 .. MaxEvents]
    /\ aborts \in [Tasks -> Nat]
    /\ faults \in 0 .. MaxFaults

\* The executions that publish an event of task k.
Publishing(k) == {t \in Ticks : tickPc[t] = "publishing" /\ current[t] = k}

LEMMA PublishingFinite ==
    ASSUME NEW k
    PROVE  /\ Cardinality(Publishing(k)) \in Nat
           /\ Publishing(k) # {} => Cardinality(Publishing(k)) >= 1
<1>1. IsFiniteSet(Publishing(k))
  BY FS_Subset, OverdueAssumption DEF Publishing
<1>2. Cardinality(Publishing(k)) \in Nat
  BY <1>1, FS_CardinalityType
<1>3. Publishing(k) # {} => Cardinality(Publishing(k)) # 0
  BY <1>1, FS_EmptySet
<1> QED BY <1>2, <1>3

LEMMA CrashAborts ==
    Crash => aborts' = [k \in Tasks |-> aborts[k] + Cardinality(Publishing(k))]
BY DEF Crash, Publishing

\* What ends an iteration, with the transaction or before there is one.
LEMMA IterationLocks ==
    ASSUME TickInv, LockInv, NEW t \in Ticks, NEW rest,
           NextIteration(t, rest),
           Release(t) \/ (lock' = lock /\ tickPc[t] # "publishing")
    PROVE  LockInv'
<1>1. /\ current'[t] = NoTask /\ ~alive'[t]
      /\ tickPc'[t] \in {"idle", "loop"}
      /\ tickPc'[t] = "idle" => page'[t] = {}
  BY DEF NextIteration, TickInv
<1>2. \A u \in Ticks : u # t =>
        /\ tickPc'[u] = tickPc[u] /\ current'[u] = current[u]
        /\ page'[u] = page[u] /\ alive'[u] = alive[u]
  BY DEF NextIteration, TickInv
<1>3. \A k \in Tasks : lock'[k] = IF lock[k] = t THEN NoTick ELSE lock[k]
  BY DEF Release, LockInv
<1>4. lock' \in [Tasks -> Ticks \cup {NoTick}]
  BY DEF Release, LockInv
<1>5. ASSUME NEW u \in Ticks, u # t
      PROVE  alive'[u] <=> (tickPc'[u] = "publishing" /\ lock'[current'[u]] = u)
  BY <1>2, <1>3, <1>5, OverdueAssumption DEF LockInv, TickInv
<1>6. ASSUME NEW k \in Tasks, lock'[k] # NoTick
      PROVE  current'[lock'[k]] = k /\ tickPc'[lock'[k]] = "publishing"
  <2>1. lock'[k] = lock[k] /\ lock[k] \in Ticks /\ lock[k] # t
    BY <1>3, <1>6 DEF LockInv
  <2> QED BY <1>2, <2>1, OverdueAssumption DEF LockInv
<1> QED
  BY <1>1, <1>2, <1>4, <1>5, <1>6 DEF LockInv

LEMMA LockStep == TickInv /\ LockInv /\ [Next]_vars => LockInv'
<1> SUFFICES ASSUME TickInv, LockInv, [Next]_vars
             PROVE  LockInv'
  OBVIOUS
<1>1. ASSUME lock' = lock, tickPc' = tickPc, current' = current,
             page' = page, alive' = alive
      PROVE  LockInv'
  BY <1>1 DEF LockInv
<1>2. ASSUME NEW k \in Tasks, UserStep(k) \/ DueDatePasses(k)
      PROVE  LockInv'
  BY <1>1, <1>2 DEF UserStep, ToggleDone, Reschedule, DeleteTask, EditTask,
     DueDatePasses, tickVars
<1>3. ASSUME NEW t \in Ticks, TickFires(t)
      PROVE  LockInv'
  BY <1>3 DEF TickFires, LockInv, TickInv
<1>4. ASSUME NEW t \in Ticks, NEW k \in Tasks, TxChecks(t, k)
      PROVE  LockInv'
  <2>1. lock[k] # t
    BY <1>4, OverdueAssumption DEF TxChecks, LockInv
  <2> QED
    BY <1>4, <2>1, OverdueAssumption DEF TxChecks, LockInv, TickInv
<1>5. ASSUME NEW t \in Ticks, NEW k \in Tasks, TxSkips(t, k)
      PROVE  LockInv'
  BY <1>5, IterationLocks DEF TxSkips
<1>6. ASSUME NEW t \in Ticks, TxMarks(t)
      PROVE  LockInv'
  <2>1. current[t] \in Tasks
    BY <1>6 DEF TxMarks, TickInv
  <2>2. /\ lock' = [lock EXCEPT ![current[t]] = t]
        /\ alive' = [alive EXCEPT ![t] = TRUE]
        /\ tickPc' = [tickPc EXCEPT ![t] = "publishing"]
        /\ UNCHANGED <<page, current>>
        /\ lock[current[t]] = NoTick
    BY <1>6 DEF TxMarks
  <2> QED
    BY <2>1, <2>2, <1>6, OverdueAssumption DEF LockInv, TickInv, TxMarks
<1>7. ASSUME NEW t \in Ticks, RuleSkipped(t) \/ RuleSends(t)
      PROVE  LockInv'
  BY <1>1, <1>7 DEF RuleSkipped, RuleSends
<1>8. ASSUME NEW t \in Ticks, RuleThrows(t) \/ CommitThrows(t)
      PROVE  LockInv'
  BY <1>8, IterationLocks DEF RuleThrows, CommitThrows, Abort
<1>9. ASSUME NEW t \in Ticks, TxCommits(t)
      PROVE  LockInv'
  BY <1>9, IterationLocks DEF TxCommits
<1>10. ASSUME NEW t \in Ticks, TxExpires(t)
       PROVE  LockInv'
  <2>1. \A k \in Tasks : lock'[k] = IF lock[k] = t THEN NoTick ELSE lock[k]
    BY <1>10 DEF TxExpires, Release
  <2> QED
    BY <1>10, <2>1, OverdueAssumption
       DEF TxExpires, Release, LockInv, TickInv
<1>11. ASSUME NEW t \in Ticks, TickDies(t)
       PROVE  LockInv'
  BY <1>11, IterationLocks DEF TickDies
<1>12. CASE Crash
  BY <1>12, OverdueAssumption DEF Crash, LockInv
<1>13. CASE UNCHANGED vars
  BY <1>1, <1>13 DEF vars
<1> QED
  BY <1>2, <1>3, <1>4, <1>5, <1>6, <1>7, <1>8, <1>9, <1>10, <1>11, <1>12,
     <1>13 DEF Next, TickStep

LEMMA CountersStep == TickInv /\ CountersInv /\ [Next]_vars => CountersInv'
<1> SUFFICES ASSUME TickInv, CountersInv, [Next]_vars
             PROVE  CountersInv'
  OBVIOUS
<1>1. Fault => faults' \in 0 .. MaxFaults
  BY OverdueAssumption DEF Fault, CountersInv
<1>2. ASSUME NEW t \in Ticks, Abort(t)
      PROVE  aborts' \in [Tasks -> Nat]
  <2>1. aborts' = [aborts EXCEPT ![current[t]] = aborts[current[t]] + 1]
    BY <1>2 DEF Abort
  <2>2. current[t] \in Tasks => aborts[current[t]] + 1 \in Nat
    BY DEF CountersInv
  <2> QED BY <2>1, <2>2 DEF CountersInv
<1>3. ASSUME NEW t \in Ticks, TxMarks(t)
      PROVE  CountersInv'
  <2>1. current[t] \in Tasks /\ published[current[t]] + 1 \in 0 .. MaxEvents
    BY <1>3, OverdueAssumption DEF TxMarks, TickInv, CountersInv
  <2> QED
    BY <1>3, <2>1 DEF TxMarks, CountersInv
<1>4. ASSUME NEW t \in Ticks, RuleThrows(t)
      PROVE  CountersInv'
  BY <1>1, <1>2, <1>4 DEF RuleThrows, CountersInv
<1>5. ASSUME NEW t \in Ticks, CommitThrows(t)
      PROVE  CountersInv'
  BY <1>2, <1>5 DEF CommitThrows, CountersInv
<1>6. CASE Crash
  <2>1. \A k \in Tasks : aborts'[k] \in Nat
    BY <1>6, CrashAborts, PublishingFinite DEF CountersInv
  <2> QED
    BY <1>1, <1>6, <2>1 DEF Crash, CountersInv
<1>7. ASSUME NEW t \in Ticks, TxExpires(t) \/ TickDies(t)
      PROVE  CountersInv'
  BY <1>1, <1>7 DEF TxExpires, TickDies, CountersInv, history
<1>8. CASE UNCHANGED <<published, aborts, faults>>
  BY <1>8 DEF CountersInv
<1> QED
  BY <1>3, <1>4, <1>5, <1>6, <1>7, <1>8
     DEF Next, TickStep, UserStep, ToggleDone, Reschedule, DeleteTask,
         EditTask, DueDatePasses, TickFires, TxChecks, TxSkips, RuleSkipped,
         RuleSends, TxCommits, history, vars

StateInv == TickInv /\ LockInv /\ CountersInv

LEMMA StateInit == Init => StateInv
<1>1. Init => LockInv
  BY DEF Init, LockInv
<1>2. Init => CountersInv
  BY OverdueAssumption DEF Init, CountersInv
<1> QED BY <1>1, <1>2, TickInit DEF StateInv

LEMMA StateStep == StateInv /\ [Next]_vars => StateInv'
BY TickNext, LockStep, CountersStep DEF StateInv

\* Every variable keeps its type, a transaction is alive exactly as long as it
\* holds its row, and a row is held by nobody else.
THEOREM OverdueTypeCorrect == Spec => []TypeOK
<1>1. StateInv => TypeOK
  BY DEF StateInv, TickInv, LockInv, CountersInv, TypeOK
<1> QED BY <1>1, StateInit, StateStep, PTL DEF Spec

----------------------------------------------------------------------------
(* The order of the rules *)

\* The executions that have gone past rule r for task k, not past rule q.
Between(k, r, q) ==
    {t \in Publishing(k) : r < pos[t] /\ pos[t] <= q}

\* A record of a later rule has one of the earlier rule behind it, and so has
\* each execution on its way from the one to the other.
OrderInv ==
    \A k \in Tasks : \A r, q \in Rules :
        /\ r < q
        /\ <<k, r>> \in Matching
        /\ <<k, q>> \in Matching
        => records[<<k, q>>] + Cardinality(Between(k, r, q))
              <= records[<<k, r>>]

LEMMA BetweenFinite ==
    ASSUME NEW k, NEW r, NEW q
    PROVE  /\ IsFiniteSet(Between(k, r, q))
           /\ Cardinality(Between(k, r, q)) \in Nat
<1>1. Between(k, r, q) \in SUBSET Ticks
  BY DEF Between, Publishing
<1>2. IsFiniteSet(Between(k, r, q))
  BY <1>1, FS_Subset, OverdueAssumption
<1> QED BY <1>2, FS_CardinalityType

\* Sets that grow and shrink by an element.
LEMMA Counting ==
    ASSUME NEW S, NEW T, NEW x, IsFiniteSet(S)
    PROVE  /\ T \subseteq S => Cardinality(T) <= Cardinality(S)
           /\ T \subseteq S \cup {x} => Cardinality(T) <= Cardinality(S) + 1
           /\ x \in S /\ T \subseteq S \ {x}
                => Cardinality(T) + 1 <= Cardinality(S)
<1>1. Cardinality(S) \in Nat
  BY FS_CardinalityType
<1>2. T \subseteq S => Cardinality(T) <= Cardinality(S)
  BY FS_Subset
<1>3. ASSUME T \subseteq S \cup {x}
      PROVE  Cardinality(T) <= Cardinality(S) + 1
  <2>1. IsFiniteSet(S \cup {x}) /\ Cardinality(S \cup {x}) <= Cardinality(S) + 1
    BY <1>1, FS_AddElement
  <2>2. T \in SUBSET (S \cup {x})
    BY <1>3
  <2>3. /\ Cardinality(S \cup {x}) \in Nat
        /\ Cardinality(T) \in Nat
        /\ Cardinality(T) <= Cardinality(S \cup {x})
    BY <2>1, <2>2, FS_Subset, FS_CardinalityType
  <2> QED BY <1>1, <2>1, <2>3
<1>4. ASSUME x \in S, T \subseteq S \ {x}
      PROVE  Cardinality(T) + 1 <= Cardinality(S)
  <2>1. IsFiniteSet(S \ {x}) /\ Cardinality(S \ {x}) = Cardinality(S) - 1
    BY <1>4, FS_RemoveElement
  <2>2. T \in SUBSET (S \ {x})
    BY <1>4
  <2>3. /\ Cardinality(T) \in Nat
        /\ Cardinality(T) <= Cardinality(S \ {x})
    BY <2>1, <2>2, FS_Subset, FS_CardinalityType
  <2> QED BY <1>1, <2>1, <2>3
<1> QED BY <1>2, <1>3, <1>4

\* What an execution does to the count of one pair of rules.
LEMMA OrderHolds ==
    ASSUME TickInv, TickInv', OrderInv,
           NEW k \in Tasks, NEW r \in Rules, NEW q \in Rules, NEW t, r < q,
           <<k, r>> \in Matching, <<k, q>> \in Matching,
           \/ /\ Between(k, r, q)' \subseteq Between(k, r, q)
              /\ records'[<<k, q>>] = records[<<k, q>>]
              /\ records'[<<k, r>>] >= records[<<k, r>>]
           \/ /\ Between(k, r, q)' \subseteq Between(k, r, q) \cup {t}
              /\ records'[<<k, q>>] = records[<<k, q>>]
              /\ records'[<<k, r>>] = records[<<k, r>>] + 1
           \/ /\ t \in Between(k, r, q)
              /\ Between(k, r, q)' \subseteq Between(k, r, q) \ {t}
              /\ records'[<<k, q>>] = records[<<k, q>>] + 1
              /\ records'[<<k, r>>] = records[<<k, r>>]
    PROVE  records'[<<k, q>>] + Cardinality(Between(k, r, q)')
              <= records'[<<k, r>>]
<1> DEFINE S == Between(k, r, q)
           T == Between(k, r, q)'
<1>1. /\ T \subseteq S => Cardinality(T) <= Cardinality(S)
      /\ T \subseteq S \cup {t} => Cardinality(T) <= Cardinality(S) + 1
      /\ t \in S /\ T \subseteq S \ {t}
            => Cardinality(T) + 1 <= Cardinality(S)
  BY BetweenFinite, Counting
<1>2. T \subseteq S \cup {t} => IsFiniteSet(T)
  <2>1. ASSUME T \subseteq S \cup {t}
        PROVE  IsFiniteSet(T)
    <3>1. IsFiniteSet(S \cup {t})
      BY BetweenFinite, FS_AddElement
    <3>2. T \in SUBSET (S \cup {t})
      BY <2>1
    <3> QED BY <3>1, <3>2, FS_Subset
  <2> QED BY <2>1
<1>3. Cardinality(S) \in Nat /\ Cardinality(T) \in Nat
  BY <1>2, BetweenFinite, FS_CardinalityType
<1>4. /\ records[<<k, q>>] \in Nat /\ records'[<<k, q>>] \in Nat
      /\ records[<<k, r>>] \in Nat /\ records'[<<k, r>>] \in Nat
  BY DEF TickInv
<1>5. records[<<k, q>>] + Cardinality(S) <= records[<<k, r>>]
  BY DEF OrderInv
<1> HIDE DEF S, T
<1> QED BY <1>1, <1>3, <1>4, <1>5 DEF S, T

LEMMA OrderStep == TickInv /\ OrderInv /\ [Next]_vars => OrderInv'
<1> SUFFICES ASSUME TickInv, OrderInv, [Next]_vars
             PROVE  OrderInv'
  OBVIOUS
<1>0. TickInv'
  BY TickNext
<1>1. ASSUME NEW k \in Tasks, NEW r \in Rules, NEW q \in Rules, r < q,
             <<k, r>> \in Matching, <<k, q>> \in Matching
      PROVE  records'[<<k, q>>] + Cardinality(Between(k, r, q)')
                <= records'[<<k, r>>]
  <2>0. /\ records \in [Tasks \X Rules -> Nat]
        /\ <<k, r>> \in Tasks \X Rules /\ <<k, q>> \in Tasks \X Rules
        /\ r \in Nat /\ q \in Nat
        /\ \A t \in Ticks : pos[t] \in Nat
    BY OverdueAssumption DEF TickInv, Rules
  <2>1. ASSUME records' = records,
               \A t \in Ticks : tickPc'[t] = "publishing" /\ pos'[t] > 1 =>
                  /\ tickPc[t] = "publishing"
                  /\ current'[t] = current[t]
                  /\ pos'[t] = pos[t]
        PROVE  records'[<<k, q>>] + Cardinality(Between(k, r, q)')
                  <= records'[<<k, r>>]
    <3>1. Between(k, r, q)' \subseteq Between(k, r, q)
      <4>1. \A t \in Ticks : pos'[t] \in Nat /\ r >= 1
        BY <1>0, OverdueAssumption DEF TickInv, Rules
      <4> QED BY <2>0, <2>1, <4>1 DEF Between, Publishing
    <3> QED BY <1>0, <1>1, <2>0, <2>1, <3>1, OrderHolds
  <2>2. ASSUME NEW t \in Ticks, RuleSkipped(t)
        PROVE  records'[<<k, q>>] + Cardinality(Between(k, r, q)')
                  <= records'[<<k, r>>]
    <3>1. Between(k, r, q)' \subseteq Between(k, r, q)
      <4>1. current[t] = k => pos[t] # r
        BY <1>1, <2>2 DEF RuleSkipped, Pair
      <4>2. /\ UNCHANGED <<tickPc, current>>
            /\ pos'[t] = pos[t] + 1
            /\ \A u \in Ticks : u # t => pos'[u] = pos[u]
        BY <2>2 DEF RuleSkipped, TickInv
      <4> QED BY <2>0, <4>1, <4>2 DEF Between, Publishing
    <3>2. records' = records
      BY <2>2 DEF RuleSkipped, history
    <3> QED BY <1>0, <1>1, <2>0, <3>1, <3>2, OrderHolds
  <2>3. ASSUME NEW t \in Ticks, RuleSends(t)
        PROVE  records'[<<k, q>>] + Cardinality(Between(k, r, q)')
                  <= records'[<<k, r>>]
    <3>1. /\ UNCHANGED <<tickPc, current>>
          /\ tickPc[t] = "publishing"
          /\ pos'[t] = pos[t] + 1
          /\ \A u \in Ticks : u # t => pos'[u] = pos[u]
          /\ records' = [records EXCEPT ![Pair(t)] = records[Pair(t)] + 1]
      BY <2>3 DEF RuleSends, Recorded, TickInv
    <3>2. CASE current[t] = k /\ pos[t] = r
      <4>1. Between(k, r, q)' \subseteq Between(k, r, q) \cup {t}
        BY <2>0, <3>1, <3>2 DEF Between, Publishing
      <4>2. /\ records'[<<k, q>>] = records[<<k, q>>]
            /\ records'[<<k, r>>] = records[<<k, r>>] + 1
        BY <1>1, <2>0, <3>1, <3>2 DEF Pair
      <4> QED BY <1>0, <1>1, <4>1, <4>2, OrderHolds
    <3>3. CASE current[t] = k /\ pos[t] = q
      <4>1. /\ t \in Between(k, r, q)
            /\ Between(k, r, q)' \subseteq Between(k, r, q) \ {t}
        BY <1>1, <2>0, <3>1, <3>3 DEF Between, Publishing
      <4>2. /\ records'[<<k, q>>] = records[<<k, q>>] + 1
            /\ records'[<<k, r>>] = records[<<k, r>>]
        BY <1>1, <2>0, <3>1, <3>3 DEF Pair
      <4> QED BY <1>0, <1>1, <4>1, <4>2, OrderHolds
    <3>4. CASE ~(current[t] = k /\ pos[t] \in {r, q})
      <4>1. Between(k, r, q)' \subseteq Between(k, r, q)
        BY <2>0, <3>1, <3>4 DEF Between, Publishing
      <4>2. /\ records'[<<k, q>>] = records[<<k, q>>]
            /\ records'[<<k, r>>] = records[<<k, r>>]
        BY <2>0, <3>1, <3>4 DEF Pair
      <4> QED BY <1>0, <1>1, <2>0, <4>1, <4>2, OrderHolds
    <3> QED BY <3>2, <3>3, <3>4
  <2>4. ASSUME NEW t \in Ticks, RuleThrows(t)
        PROVE  records'[<<k, q>>] + Cardinality(Between(k, r, q)')
                  <= records'[<<k, r>>]
    <3>1. /\ tickPc[t] = "publishing"
          /\ tickPc'[t] # "publishing"
          /\ \A u \in Ticks : u # t =>
                /\ tickPc'[u] = tickPc[u]
                /\ current'[u] = current[u]
                /\ pos'[u] = pos[u]
      BY <2>4 DEF RuleThrows, Abort, NextIteration, TickInv
    <3>2. Between(k, r, q)' \subseteq Between(k, r, q) \ {t}
      BY <3>1 DEF Between, Publishing
    <3>3. CASE records' = records
      BY <1>0, <1>1, <2>0, <3>2, <3>3, OrderHolds
    <3>4. CASE records' = [records EXCEPT ![Pair(t)] = records[Pair(t)] + 1]
      <4>1. CASE current[t] = k /\ pos[t] = q
        <5>1. t \in Between(k, r, q)
          BY <1>1, <2>0, <3>1, <4>1 DEF Between, Publishing
        <5>2. /\ records'[<<k, q>>] = records[<<k, q>>] + 1
              /\ records'[<<k, r>>] = records[<<k, r>>]
          BY <1>1, <2>0, <3>4, <4>1 DEF Pair
        <5> QED BY <1>0, <1>1, <3>2, <5>1, <5>2, OrderHolds
      <4>2. CASE ~(current[t] = k /\ pos[t] = q)
        <5>1. /\ records'[<<k, q>>] = records[<<k, q>>]
              /\ records'[<<k, r>>] >= records[<<k, r>>]
          BY <1>1, <2>0, <3>4, <4>2 DEF Pair
        <5> QED BY <1>0, <1>1, <3>2, <5>1, OrderHolds
      <4> QED BY <4>1, <4>2
    <3> QED BY <2>4, <3>3, <3>4 DEF RuleThrows, Recorded
  <2>5. ASSUME NEW n \in Tasks, UserStep(n) \/ DueDatePasses(n)
        PROVE  records'[<<k, q>>] + Cardinality(Between(k, r, q)')
                  <= records'[<<k, r>>]
    BY <2>1, <2>5 DEF UserStep, ToggleDone, Reschedule, DeleteTask, EditTask,
       DueDatePasses, tickVars, history
  <2>6. ASSUME NEW t \in Ticks,
               \/ TickFires(t) \/ TxMarks(t) \/ TxCommits(t) \/ CommitThrows(t)
               \/ TxExpires(t) \/ TickDies(t)
               \/ \E n \in Tasks : TxChecks(t, n) \/ TxSkips(t, n)
        PROVE  records'[<<k, q>>] + Cardinality(Between(k, r, q)')
                  <= records'[<<k, r>>]
    <3>1. records' = records
      BY <2>6 DEF TickFires, TxMarks, TxCommits, CommitThrows, Abort,
         TxExpires, TickDies, TxChecks, TxSkips, history
    <3>2. \A u \in Ticks : tickPc'[u] = "publishing" /\ pos'[u] > 1 =>
              /\ tickPc[u] = "publishing"
              /\ current'[u] = current[u]
              /\ pos'[u] = pos[u]
      BY <2>0, <2>6 DEF TickFires, TxMarks, TxCommits, CommitThrows, Abort,
         TxExpires, TickDies, TxChecks, TxSkips, NextIteration, TickInv
    <3> QED BY <2>1, <3>1, <3>2
  <2>7. CASE Crash
    BY <2>1, <2>7 DEF Crash
  <2>8. CASE UNCHANGED vars
    BY <2>1, <2>8 DEF vars
  <2> QED
    BY <2>2, <2>3, <2>4, <2>5, <2>6, <2>7, <2>8 DEF Next, TickStep
<1> QED BY <1>1 DEF OrderInv

\* However executions overlap, expire, throw or crash: a later rule of a task
\* has never sent more often than an earlier one that matches.
THEOREM OverdueInOrder == Spec => []RulesInOrder
<1>1. Init => OrderInv
  <2> SUFFICES ASSUME Init, NEW k \in Tasks, NEW r \in Rules, NEW q \in Rules
               PROVE  records[<<k, q>>] + Cardinality(Between(k, r, q))
                         <= records[<<k, r>>]
    BY DEF OrderInv
  <2>1. Between(k, r, q) = {}
    BY DEF Init, Between, Publishing
  <2>2. Cardinality(Between(k, r, q)) = 0
    BY <2>1, FS_EmptySet
  <2>3. records[<<k, q>>] = 0 /\ records[<<k, r>>] = 0
    BY DEF Init
  <2> QED BY <2>2, <2>3
<1>2. TickInv /\ OrderInv => RulesInOrder
  <2> SUFFICES ASSUME TickInv, OrderInv, NEW k \in Tasks, NEW r \in Rules,
                      NEW q \in Rules, r < q,
                      <<k, r>> \in Matching, <<k, q>> \in Matching
               PROVE  records[<<k, q>>] <= records[<<k, r>>]
    BY DEF RulesInOrder
  <2>1. records[<<k, q>>] + Cardinality(Between(k, r, q)) <= records[<<k, r>>]
    BY DEF OrderInv
  <2>2. records[<<k, q>>] \in Nat /\ records[<<k, r>>] \in Nat
    BY DEF TickInv
  <2> QED BY <2>1, <2>2, BetweenFinite
<1> QED BY <1>1, <1>2, TickInit, TickNext, OrderStep, PTL DEF Spec

----------------------------------------------------------------------------
(* One execution at a time *)

OneAtATime == \A t, u \in Ticks : t = u

\* An execution publishes an event of task k and has gone past rule r.
Past(k, r) ==
    \E t \in Ticks : tickPc[t] = "publishing" /\ current[t] = k /\ r < pos[t]

\* Only its own commit sets the flag of the task an execution is working on.
WorksOnUnflagged ==
    \A t \in Ticks :
        tickPc[t] \in {"checked", "publishing"} => ~task[current[t]].flagged

\* How often the event of task k was published, or its rule r recorded.
Tally(k, r) == IF r = 0 THEN published[k] ELSE records[<<k, r>>]

\* Events and records beyond the aborted ones are those of the execution under
\* way, or of the one that set the flag; never of both.
OnceInv ==
    /\ WorksOnUnflagged
    /\ \A k \in Tasks : \A r \in 0 .. NRules :
          /\ Tally(k, r) <= aborts[k] + 1
          /\ Tally(k, r) <= aborts[k] \/ task[k].flagged \/ Past(k, r)

LEMMA FlagStays ==
    ASSUME TickInv, [Next]_vars, NEW k \in Tasks
    PROVE  task[k].flagged => task'[k].flagged
<1>1. task \in [Tasks -> Task] /\ task[k] \in Task
  BY DEF TickInv
<1>2. ASSUME NEW n \in Tasks, UserStep(n) \/ DueDatePasses(n)
      PROVE  task'[k].flagged = task[k].flagged
  BY <1>1, <1>2 DEF UserStep, ToggleDone, Reschedule, DeleteTask, EditTask,
     DueDatePasses, Task
<1>3. ASSUME NEW t \in Ticks, TxCommits(t)
      PROVE  task[k].flagged => task'[k].flagged
  BY <1>1, <1>3 DEF TxCommits, Task
<1>4. CASE task' = task
  BY <1>4
<1> QED
  BY <1>2, <1>3, <1>4 DEF Next, vars, TickFires, TickStep, TxChecks, TxSkips,
     TxMarks, RuleSkipped, RuleSends, RuleThrows, CommitThrows, Abort,
     TxExpires, TickDies, Crash

\* Nothing but the commit of its transaction sets a flag.
LEMMA FlagSetByCommit ==
    ASSUME TickInv, [Next]_vars, NEW k \in Tasks,
           task'[k].flagged, ~task[k].flagged
    PROVE  \E t \in Ticks : TxCommits(t) /\ current[t] = k
<1>1. task \in [Tasks -> Task] /\ task[k] \in Task
  BY DEF TickInv
<1>2. ASSUME NEW n \in Tasks, UserStep(n) \/ DueDatePasses(n)
      PROVE  FALSE
  BY <1>1, <1>2 DEF UserStep, ToggleDone, Reschedule, DeleteTask, EditTask,
     DueDatePasses, Task
<1>3. ASSUME NEW t \in Ticks, TxCommits(t)
      PROVE  current[t] = k
  BY <1>1, <1>3 DEF TxCommits, Task
<1>4. task' # task
  OBVIOUS
<1> QED
  BY <1>2, <1>3, <1>4 DEF Next, vars, TickFires, TickStep, TxChecks, TxSkips,
     TxMarks, RuleSkipped, RuleSends, RuleThrows, CommitThrows, Abort,
     TxExpires, TickDies, Crash

LEMMA UnflaggedStep ==
    ASSUME OneAtATime, TickInv, WorksOnUnflagged, [Next]_vars
    PROVE  WorksOnUnflagged'
<1> SUFFICES ASSUME NEW t \in Ticks,
                    tickPc'[t] \in {"checked", "publishing"},
                    task'[current'[t]].flagged
             PROVE  FALSE
  BY DEF WorksOnUnflagged
<1>1. \/ /\ tickPc[t] \in {"checked", "publishing"}
         /\ current'[t] = current[t]
      \/ TxChecks(t, current'[t]) /\ current'[t] \in Tasks
  <2>0. tickPc \in [Ticks -> TickPc] /\ current \in [Ticks -> Tasks \cup {NoTask}]
    BY DEF TickInv
  <2>1. ASSUME NEW u \in Ticks, NEW rest, NextIteration(u, rest)
        PROVE  FALSE
    BY <2>0, <2>1 DEF OneAtATime, NextIteration
  <2>2. ~Crash
    BY DEF Crash
  <2>3. ASSUME NEW u \in Ticks, TickFires(u)
        PROVE  FALSE
    BY <2>0, <2>3 DEF OneAtATime, TickFires
  <2>4. ASSUME NEW u \in Ticks, NEW k \in Tasks, TxChecks(u, k)
        PROVE  TxChecks(t, current'[t]) /\ current'[t] \in Tasks
    <3>1. u = t
      BY DEF OneAtATime
    <3> QED BY <2>0, <2>4, <3>1 DEF TxChecks
  <2>5. ASSUME NEW u \in Ticks, TxMarks(u)
        PROVE  tickPc[t] \in {"checked", "publishing"} /\ current'[t] = current[t]
    BY <2>5 DEF OneAtATime, TxMarks
  <2>6. CASE UNCHANGED <<tickPc, current>>
    BY <2>6
  <2> QED
    BY <2>1, <2>2, <2>3, <2>4, <2>5, <2>6
       DEF Next, vars, tickVars, UserStep, ToggleDone, Reschedule, DeleteTask,
           EditTask, DueDatePasses, TickStep, TxSkips, RuleSkipped, RuleSends,
           RuleThrows, TxCommits, CommitThrows, Abort, TxExpires, TickDies
<1>2. current'[t] \in Tasks /\ ~task[current'[t]].flagged
  BY <1>1 DEF WorksOnUnflagged, TxChecks, TickInv
<1>3. PICK u \in Ticks : TxCommits(u)
  BY <1>2, FlagSetByCommit
<1>4. u = t
  BY DEF OneAtATime
<1> QED BY <1>3, <1>4 DEF TxCommits, NextIteration, TickInv

LEMMA TallyStep ==
    ASSUME OneAtATime, StateInv, OnceInv, [Next]_vars,
           NEW k \in Tasks, NEW r \in 0 .. NRules
    PROVE  /\ Tally(k, r)' <= aborts'[k] + 1
           /\ Tally(k, r)' <= aborts'[k] \/ task'[k].flagged \/ Past(k, r)'
<1> DEFINE Goal == /\ Tally(k, r)' <= aborts'[k] + 1
                   /\ \/ Tally(k, r)' <= aborts'[k]
                      \/ task'[k].flagged
                      \/ Past(k, r)'
<1>0. /\ StateInv' /\ (task[k].flagged => task'[k].flagged)
      /\ r \in Nat /\ (r # 0 => r \in Rules)
  BY StateStep, FlagStays, OverdueAssumption DEF StateInv, Rules
<1>1. /\ Tally(k, r) \in Nat /\ Tally(k, r)' \in Nat
      /\ aborts[k] \in Nat /\ aborts'[k] \in Nat
  BY <1>0, OverdueAssumption
     DEF Tally, StateInv, TickInv, CountersInv, Rules
<1>2. /\ Tally(k, r) <= aborts[k] + 1
      /\ Tally(k, r) <= aborts[k] \/ task[k].flagged \/ Past(k, r)
  BY DEF OnceInv
<1>3. /\ tickPc \in [Ticks -> TickPc] /\ current \in [Ticks -> Tasks \cup {NoTask}]
      /\ pos \in [Ticks -> 1 .. NRules + 1]
      /\ \A t \in Ticks : pos[t] \in Nat
  BY OverdueAssumption DEF StateInv, TickInv
<1>4. ASSUME NEW t \in Ticks, tickPc[t] # "publishing" \/ current[t] # k
      PROVE  ~Past(k, r)
  BY <1>4 DEF OneAtATime, Past
<1>5. ASSUME Tally(k, r)' = Tally(k, r), aborts'[k] = aborts[k],
             Past(k, r) => Past(k, r)' \/ task'[k].flagged
      PROVE  Goal
  BY <1>0, <1>1, <1>2, <1>5
<1>6. ASSUME UNCHANGED <<published, records, aborts>>
      PROVE  Tally(k, r)' = Tally(k, r) /\ aborts'[k] = aborts[k]
  BY <1>6 DEF Tally
<1>7. ASSUME NEW n \in Tasks, UserStep(n) \/ DueDatePasses(n)
      PROVE  Goal
  <2>1. UNCHANGED <<published, records, aborts, tickPc, current, pos>>
    BY <1>7 DEF UserStep, ToggleDone, Reschedule, DeleteTask, EditTask,
       DueDatePasses, tickVars, history
  <2> QED BY <1>5, <1>6, <2>1 DEF Past
<1>8. ASSUME NEW t \in Ticks,
             \/ TickFires(t) \/ TickDies(t)
             \/ \E n \in Tasks : TxChecks(t, n) \/ TxSkips(t, n)
      PROVE  Goal
  <2>1. tickPc[t] # "publishing" /\ UNCHANGED history
    BY <1>8 DEF TickFires, TickDies, TxChecks, TxSkips
  <2> QED BY <1>4, <1>5, <1>6, <2>1 DEF history
<1>9. ASSUME NEW t \in Ticks, TxExpires(t) \/ RuleSkipped(t)
      PROVE  Goal
  <2>1. UNCHANGED <<tickPc, current>> /\ UNCHANGED history
    BY <1>9 DEF TxExpires, RuleSkipped
  <2>2. \A u \in Ticks : pos'[u] >= pos[u] /\ pos'[u] \in Nat
    BY <1>3, <1>9 DEF TxExpires, RuleSkipped
  <2>3. Past(k, r) => Past(k, r)'
    BY <1>0, <1>3, <2>1, <2>2 DEF Past
  <2> QED BY <1>5, <1>6, <2>1, <2>3 DEF history
<1>10. ASSUME NEW t \in Ticks, TxMarks(t)
       PROVE  Goal
  <2>1. /\ tickPc[t] = "checked" /\ tickPc'[t] = "publishing"
        /\ current' = current /\ pos'[t] = 1
        /\ records' = records /\ aborts' = aborts
        /\ published' = [published EXCEPT ![current[t]] = @ + 1]
    BY <1>3, <1>10 DEF TxMarks
  <2>2. ~Past(k, r)
    BY <1>4, <2>1
  <2>3. CASE current[t] = k /\ r = 0
    <3>1. Tally(k, r) <= aborts[k]
      BY <1>2, <2>1, <2>2, <2>3 DEF OnceInv, WorksOnUnflagged
    <3>2. Tally(k, r)' = Tally(k, r) + 1
      BY <2>1, <2>3 DEF Tally, StateInv, CountersInv
    <3>3. Past(k, r)'
      BY <2>1, <2>3 DEF Past
    <3> QED BY <1>1, <2>1, <3>1, <3>2, <3>3
  <2>4. CASE ~(current[t] = k /\ r = 0)
    <3>1. Tally(k, r)' = Tally(k, r)
      BY <2>1, <2>4 DEF Tally, StateInv, CountersInv
    <3> QED BY <1>5, <2>1, <2>2, <3>1
  <2> QED BY <2>3, <2>4
<1>11. ASSUME NEW t \in Ticks, tickPc[t] = "publishing", Recorded(t),
              published' = published
       PROVE  Tally(k, r)' = IF Pair(t) = <<k, r>> THEN Tally(k, r) + 1
                             ELSE Tally(k, r)
  <2>1. Pair(t) = <<k, r>> => r # 0
    BY <1>3 DEF Pair
  <2> QED
    BY <1>0, <1>11, <2>1 DEF Recorded, Tally, StateInv, TickInv
<1>12. ASSUME NEW t \in Ticks, tickPc[t] = "publishing", Pair(t) = <<k, r>>
       PROVE  Tally(k, r) <= aborts[k]
  <2>1. ~task[k].flagged
    BY <1>12 DEF OnceInv, WorksOnUnflagged, Pair
  <2>2. ~Past(k, r)
    BY <1>3, <1>12 DEF OneAtATime, Past, Pair
  <2> QED BY <1>2, <2>1, <2>2
<1>13. ASSUME NEW t \in Ticks, RuleSends(t)
       PROVE  Goal
  <2>1. /\ tickPc[t] = "publishing" /\ Recorded(t)
        /\ UNCHANGED <<tickPc, current, published, aborts>>
        /\ pos'[t] = pos[t] + 1
    BY <1>3, <1>13 DEF RuleSends
  <2>2. CASE Pair(t) = <<k, r>>
    <3>1. Past(k, r)'
      BY <1>3, <2>1, <2>2 DEF Past, Pair
    <3> QED BY <1>1, <1>11, <1>12, <2>1, <2>2, <3>1
  <2>3. CASE Pair(t) # <<k, r>>
    <3>1. Past(k, r) => Past(k, r)'
      BY <1>0, <1>3, <2>1 DEF OneAtATime, Past
    <3> QED BY <1>5, <1>11, <2>1, <2>3, <3>1
  <2> QED BY <2>2, <2>3
<1>14. ASSUME NEW t \in Ticks, tickPc[t] = "publishing", Abort(t),
              published' = published, records' = records \/ Recorded(t)
       PROVE  Goal
  <2>1. aborts' = [aborts EXCEPT ![current[t]] = @ + 1]
    BY <1>14 DEF Abort
  <2>2. CASE current[t] # k
    <3>1. Tally(k, r)' = Tally(k, r)
      BY <1>11, <1>14, <2>2 DEF Tally, Pair
    <3>2. aborts'[k] = aborts[k]
      BY <2>1, <2>2 DEF StateInv, CountersInv
    <3> QED BY <1>4, <1>5, <2>2, <3>1, <3>2
  <2>3. CASE current[t] = k
    <3>1. aborts'[k] = aborts[k] + 1
      BY <2>1, <2>3 DEF StateInv, CountersInv
    <3>2. Tally(k, r)' <= aborts[k] + 1
      <4>1. CASE Recorded(t) /\ Pair(t) = <<k, r>>
        BY <1>1, <1>11, <1>12, <1>14, <4>1
      <4>2. CASE ~(Recorded(t) /\ Pair(t) = <<k, r>>)
        <5>1. Tally(k, r)' = Tally(k, r)
          BY <1>11, <1>14, <4>2 DEF Tally
        <5> QED BY <1>2, <5>1
      <4> QED BY <4>1, <4>2
    <3> QED BY <1>1, <3>1, <3>2
  <2> QED BY <2>2, <2>3
<1>15. ASSUME NEW t \in Ticks, RuleThrows(t) \/ CommitThrows(t)
       PROVE  Goal
  BY <1>14, <1>15 DEF RuleThrows, CommitThrows
<1>16. ASSUME NEW t \in Ticks, TxCommits(t)
       PROVE  Goal
  <2>1. UNCHANGED history
    BY <1>16 DEF TxCommits
  <2>2. Past(k, r) => task'[k].flagged
    <3>1. SUFFICES ASSUME Past(k, r)
                   PROVE  task'[k].flagged
      OBVIOUS
    <3>2. current[t] = k
      BY <1>4, <3>1
    <3>3. task \in [Tasks -> Task]
      BY DEF StateInv, TickInv
    <3> QED BY <1>16, <3>2, <3>3 DEF TxCommits, Task
  <2> QED BY <1>5, <1>6, <2>1, <2>2 DEF history
<1>17. CASE Crash
  <2>1. /\ aborts'[k] = aborts[k] + Cardinality(Publishing(k))
        /\ Cardinality(Publishing(k)) \in Nat
        /\ Publishing(k) # {} => Cardinality(Publishing(k)) >= 1
    BY <1>17, CrashAborts, PublishingFinite
  <2>2. Tally(k, r)' = Tally(k, r)
    BY <1>17 DEF Crash, Tally
  <2>3. Past(k, r) => Publishing(k) # {}
    BY DEF Past, Publishing
  <2> QED BY <1>0, <1>1, <1>2, <2>1, <2>2, <2>3
<1>18. CASE UNCHANGED vars
  BY <1>5, <1>6, <1>18 DEF vars, Past
<1> QED
  BY <1>7, <1>8, <1>9, <1>10, <1>13, <1>15, <1>16, <1>17, <1>18
     DEF Next, TickStep

LEMMA OnceHolds ==
    ASSUME OneAtATime
    PROVE  Spec => [](StateInv /\ OnceInv)
<1>1. Init => OnceInv
  BY OverdueAssumption
     DEF Init, OnceInv, WorksOnUnflagged, Tally, Rules, NewTask
<1>2. StateInv /\ OnceInv /\ [Next]_vars => OnceInv'
  BY TallyStep, UnflaggedStep DEF OnceInv, StateInv
<1> QED BY <1>1, <1>2, StateInit, StateStep, PTL DEF Spec

\* One execution at a time: a task is announced twice, and a rule sends twice
\* for it, only when a transaction in between did not commit.
THEOREM OverdueOnce ==
    ASSUME OneAtATime
    PROVE  Spec => []OnceUnlessAborted
<1>1. OnceInv => OnceUnlessAborted
  <2> SUFFICES ASSUME OnceInv, NEW k \in Tasks
               PROVE  /\ published[k] <= aborts[k] + 1
                      /\ \A r \in Rules : records[<<k, r>>] <= aborts[k] + 1
    BY DEF OnceUnlessAborted
  <2>0. 0 \in 0 .. NRules
    BY OverdueAssumption
  <2>1. published[k] <= aborts[k] + 1
    BY <2>0 DEF OnceInv, Tally
  <2>2. \A r \in Rules : r \in 0 .. NRules /\ r # 0
    BY OverdueAssumption DEF Rules
  <2> QED BY <2>1, <2>2 DEF OnceInv, Tally
<1> QED BY <1>1, OnceHolds, PTL

\* One execution at a time: overdueEventSentAt is final, whatever the users do
\* to the task, and nothing more is sent for a task that carries it.
THEOREM OverdueFlagFinal ==
    ASSUME OneAtATime
    PROVE  Spec => FlagIsFinal
<1>1. ASSUME StateInv, OnceInv, [Next]_vars
      PROVE  \A k \in Tasks :
                task[k].flagged =>
                    /\ task'[k].flagged
                    /\ \A r \in Rules : records'[<<k, r>>] = records[<<k, r>>]
  <2> SUFFICES ASSUME NEW k \in Tasks, task[k].flagged, NEW r \in Rules
               PROVE  task'[k].flagged /\ records'[<<k, r>>] = records[<<k, r>>]
    BY <1>1, FlagStays DEF StateInv
  <2>1. task'[k].flagged
    BY <1>1, FlagStays DEF StateInv
  <2>2. ASSUME NEW t \in Ticks, tickPc[t] = "publishing", Recorded(t)
        PROVE  records'[<<k, r>>] = records[<<k, r>>]
    <3>1. Pair(t) # <<k, r>>
      BY <1>1, <2>2 DEF OnceInv, WorksOnUnflagged, Pair
    <3> QED BY <1>1, <2>2, <3>1 DEF Recorded, StateInv, TickInv
  <2>3. CASE records' = records
    BY <2>1, <2>3
  <2> QED
    BY <1>1, <2>1, <2>2, <2>3
       DEF Next, vars, UserStep, ToggleDone, Reschedule, DeleteTask, EditTask,
           DueDatePasses, TickFires, TickStep, TxChecks, TxSkips, TxMarks,
           RuleSkipped, RuleSends, RuleThrows, TxCommits, CommitThrows,
           TxExpires, TickDies, Crash, history
<1> QED BY <1>1, OnceHolds, PTL DEF FlagIsFinal, Spec
=============================================================================
