----------------------- MODULE MessageDeliveryProofs -----------------------
(***************************************************************************)
(* Proofs about MessageDelivery, for every set of messages and cron        *)
(* executions and every value of the limits.                               *)
(***************************************************************************)
EXTENDS MessageDelivery, FiniteSetTheorems, TLAPS

\* The updates that set several columns yield rows again.
LEMMA UpdatedRow ==
    ASSUME NEW r \in Row
    PROVE  /\ [r EXCEPT !.status = "sent", !.sentAt = TRUE] \in Row
           /\ [r EXCEPT !.status = "failed", !.failedAt = TRUE] \in Row
           /\ [r EXCEPT !.status = "sent", !.sentAt = TRUE,
                        !.failedAt = FALSE, !.nextRetryAt = "null"] \in Row
           /\ \A n \in Nat :
                [r EXCEPT !.status = "failed", !.failedAt = TRUE,
                          !.retryCount = n, !.nextRetryAt = "ahead"] \in Row
BY DEF Row, Status, RetryAt

----------------------------------------------------------------------------
(* Type correctness *)

LEMMA InitTypeOK == Init => TypeOK
BY ConstantsAssumption
   DEF Init, TypeOK, Row, NoRow, Status, RetryAt, ReqPc, TickPc

\* The page a tick takes is a non-empty set of messages that the query found.
LEMMA PageSubset ==
    ASSUME NEW S, NEW take, NEW b \in Page(S, take)
    PROVE  b \subseteq S /\ b # {}
BY DEF Page

LEMMA RequestTypeOK ==
    ASSUME TypeOK, NEW m \in Messages, CreateRecord(m) \/ RequestStep(m)
    PROVE  TypeOK'
<1>1. CASE CreateRecord(m)
  BY <1>1, SMTT(30) DEF CreateRecord, TypeOK, Row, Status, ReqPc, tickVars, history, faultVars
<1>2. CASE RequestCalls(m)
  BY <1>2, ConstantsAssumption
     DEF RequestCalls, ProviderTakes, ProviderRefuses, Called, Fault, NoFault,
         faultVars, TypeOK, ReqPc, tickVars
<1>3. CASE RequestRecordsSent(m)
  <2> DEFINE r == [row[m] EXCEPT !.status = "sent", !.sentAt = TRUE]
  <2>1. row' = row \/ row' = [row EXCEPT ![m] = r]
    BY <1>3 DEF RequestRecordsSent
  <2>2. r \in Row
    BY UpdatedRow DEF TypeOK
  <2>3. row' \in [Messages -> Row]
    BY <2>1, <2>2 DEF TypeOK
  <2>4. req' \in [Messages -> ReqPc] /\ hits' \in [Messages -> Nat]
       /\ faults' \in 0 .. MaxFaults
    BY <1>3, ConstantsAssumption
       DEF RequestRecordsSent, Fault, NoFault, faultVars, TypeOK, ReqPc
  <2> QED
    BY <1>3, <2>3, <2>4 DEF RequestRecordsSent, TypeOK, tickVars, history, faultVars
<1>4. CASE RequestRecordsFailed(m)
  <2> DEFINE r == [row[m] EXCEPT !.status = "failed", !.failedAt = TRUE]
  <2>1. row' = row \/ row' = [row EXCEPT ![m] = r]
    BY <1>4 DEF RequestRecordsFailed
  <2>2. r \in Row
    BY UpdatedRow DEF TypeOK
  <2>3. row' \in [Messages -> Row]
    BY <2>1, <2>2 DEF TypeOK
  <2>4. req' \in [Messages -> ReqPc] /\ hits' \in [Messages -> Nat]
       /\ faults' \in 0 .. MaxFaults
    BY <1>4, ConstantsAssumption
       DEF RequestRecordsFailed, Fault, NoFault, faultVars, TypeOK, ReqPc
  <2> QED
    BY <1>4, <2>3, <2>4 DEF RequestRecordsFailed, TypeOK, tickVars, history, faultVars
<1> QED BY <1>1, <1>2, <1>3, <1>4 DEF RequestStep

LEMMA TickTypeOK ==
    ASSUME TypeOK, NEW t \in RetryTicks,
           RetryTickFires(t) \/ AttemptStep(t) \/ RetryTickDies(t)
    PROVE  TypeOK'
<1>1. CASE RetryTickFires(t)
  <2>1. PICK b \in Page(Retryables, RetryTake) :
            batch' = [batch EXCEPT ![t] = b]
    BY <1>1 DEF RetryTickFires
  <2>2. b \subseteq Messages /\ b # {}
    BY <2>1, PageSubset DEF Retryables
  <2> QED
    BY <1>1, <2>1, <2>2, ConstantsAssumption
       DEF RetryTickFires, TypeOK, TickPc, history, faultVars
<1>2. ASSUME NEW m \in Messages, AttemptReads(t, m)
      PROVE  TypeOK'
  BY <1>2, ConstantsAssumption
     DEF AttemptReads, TypeOK, TickPc, Row, history, faultVars
<1>3. ASSUME NEW m \in Messages, AttemptSkips(t, m)
      PROVE  TypeOK'
  BY <1>3, ConstantsAssumption
     DEF AttemptSkips, NextIteration, TypeOK, TickPc, history, faultVars
<1>4. CASE AttemptCalls(t)
  BY <1>4, ConstantsAssumption
     DEF AttemptCalls, ProviderTakes, ProviderRefuses, Called, Fault,
         NoFault, faultVars, TypeOK, TickPc
<1>5. CASE AttemptRecordsSent(t)
  <2>1. row' \in [Messages -> Row]
    BY <1>5, UpdatedRow DEF AttemptRecordsSent, TypeOK
  <2> QED
    BY <1>5, <2>1, ConstantsAssumption
       DEF AttemptRecordsSent, NextIteration, TypeOK, TickPc, history, faultVars
<1>6. CASE AttemptUpdateThrows(t)
  BY <1>6, ConstantsAssumption
     DEF AttemptUpdateThrows, Fault, TypeOK, TickPc, history, faultVars
<1>7. CASE AttemptRecordsFailed(t)
  <2>1. seen[t] + 1 \in Nat
    BY DEF TypeOK
  <2>2. row' \in [Messages -> Row]
    BY <1>7, <2>1, UpdatedRow DEF AttemptRecordsFailed, TypeOK
  <2> QED
    BY <1>7, <2>2, ConstantsAssumption
       DEF AttemptRecordsFailed, NextIteration, TypeOK, TickPc, history, faultVars
<1>8. CASE RetryTickDies(t)
  BY <1>8, ConstantsAssumption
     DEF RetryTickDies, NextIteration, Fault, TypeOK, TickPc, history, faultVars
<1> QED
  BY <1>1, <1>2, <1>3, <1>4, <1>5, <1>6, <1>7, <1>8 DEF AttemptStep

LEMMA SimTypeOK ==
    ASSUME TypeOK, NEW s \in SimTicks,
           SimTickFires(s) \/ SimStep(s) \/ SimTickDies(s)
    PROVE  TypeOK'
<1>1. CASE SimTickFires(s)
  <2>1. PICK b \in Page({m \in Messages : Undelivered(m)}, SimTake) :
            simBatch' = [simBatch EXCEPT ![s] = b]
    BY <1>1 DEF SimTickFires
  <2>2. b \subseteq Messages
    BY <2>1, PageSubset
  <2> QED
    BY <1>1, <2>1, <2>2 DEF SimTickFires, TypeOK, tickVars, history, faultVars
<1>2. ASSUME NEW m \in Messages, SimRecordsDelivered(s, m)
      PROVE  TypeOK'
  BY <1>2, ZenonT(30) DEF SimRecordsDelivered, TypeOK, Row, Status, tickVars, history, faultVars
<1>3. CASE SimTickDies(s)
  BY <1>3, ConstantsAssumption
     DEF SimTickDies, Fault, TypeOK, tickVars, history, faultVars
<1> QED BY <1>1, <1>2, <1>3 DEF SimStep

LEMMA NextTypeOK == TypeOK /\ [Next]_vars => TypeOK'
<1> SUFFICES ASSUME TypeOK, [Next]_vars
             PROVE  TypeOK'
  OBVIOUS
<1>1. ASSUME NEW m \in Messages, BackoffElapses(m)
      PROVE  TypeOK'
  BY <1>1, SMTT(30) DEF BackoffElapses, TypeOK, Row, RetryAt, tickVars, history, faultVars
<1>2. CASE Crash
  BY <1>2, ConstantsAssumption DEF Crash, Fault, TypeOK, ReqPc, TickPc, history, faultVars
<1>3. CASE UNCHANGED vars
  BY <1>3 DEF vars, TypeOK
<1> QED
  BY <1>1, <1>2, <1>3, RequestTypeOK, TickTypeOK, SimTypeOK DEF Next

\* Every variable keeps its type, and the bookkeeping of a retry tick (its
\* place in the loop, its page, the record under attempt) stays coherent.
THEOREM TypeCorrect == Spec => []TypeOK
<1>1. Init => TypeOK  BY InitTypeOK
<1>2. TypeOK /\ [Next]_vars => TypeOK'  BY NextTypeOK
<1> QED BY <1>1, <1>2, PTL DEF Spec

----------------------------------------------------------------------------
(* A recorded message was accepted, whatever overlaps *)

HonestInv == WritersHoldCopy /\ SentMeansAccepted

LEMMA HonestInit == Init => HonestInv
BY DEF Init, HonestInv, WritersHoldCopy, SentMeansAccepted, Recorded, NoRow

\* Copies are never taken back.
LEMMA CopiesGrow ==
    ASSUME TypeOK, [Next]_vars, NEW m \in Messages
    PROVE  accepted'[m] >= accepted[m]
<1>1. accepted[m] \in Nat
  BY DEF TypeOK
<1>2. ASSUME NEW n \in Messages \cup {NoMsg}, ProviderTakes(n)
      PROVE  accepted'[m] >= accepted[m]
  BY <1>1, <1>2 DEF ProviderTakes, TypeOK
<1>3. ASSUME NEW t \in RetryTicks
      PROVE  current[t] \in Messages \cup {NoMsg}
  BY DEF TypeOK
<1>4. ASSUME NEW n \in Messages, RequestStep(n)
      PROVE  accepted'[m] >= accepted[m]
  BY <1>1, <1>2, <1>4 DEF RequestStep, RequestCalls, RequestRecordsSent,
     RequestRecordsFailed, ProviderRefuses, history
<1>5. ASSUME NEW t \in RetryTicks, AttemptStep(t)
      PROVE  accepted'[m] >= accepted[m]
  <2>1. CASE AttemptCalls(t)
    BY <1>1, <1>2, <1>3, <2>1 DEF AttemptCalls, ProviderRefuses
  <2>2. CASE accepted' = accepted
    BY <1>1, <2>2
  <2> QED
    BY <1>5, <2>1, <2>2 DEF AttemptStep, AttemptReads, AttemptSkips,
       AttemptRecordsSent, AttemptUpdateThrows, AttemptRecordsFailed, history
<1>6. CASE accepted' = accepted
  BY <1>1, <1>6
<1> QED
  BY <1>4, <1>5, <1>6 DEF Next, vars, CreateRecord, BackoffElapses,
     RetryTickFires, RetryTickDies, SimTickFires, SimStep,
     SimRecordsDelivered, SimTickDies, Crash, history

LEMMA HonestStep == TypeOK /\ HonestInv /\ [Next]_vars => HonestInv'
<1> SUFFICES ASSUME TypeOK, HonestInv, [Next]_vars
             PROVE  HonestInv'
  OBVIOUS
<1> USE DEF HonestInv
<1>0. /\ accepted \in [Messages -> Nat]
      /\ TypeOK'
      /\ \A m \in Messages : accepted[m] > 0 => accepted'[m] > 0
  <2>1. \A m \in Messages : accepted'[m] >= accepted[m]
    BY CopiesGrow
  <2>2. TypeOK'
    BY NextTypeOK
  <2> QED BY <2>1, <2>2 DEF TypeOK
<1>1. ASSUME NEW m \in Messages, CreateRecord(m)
      PROVE  HonestInv'
  BY <1>1 DEF CreateRecord, WritersHoldCopy, SentMeansAccepted, Recorded,
     TypeOK, Row, tickVars, history
<1>2. ASSUME NEW m \in Messages, RequestCalls(m)
      PROVE  HonestInv'
  <2>1. req'[m] = "accepted" => accepted'[m] > 0
    BY <1>0, <1>2 DEF RequestCalls, ProviderTakes, ProviderRefuses, TypeOK
  <2> QED
    BY <1>0, <1>2, <2>1 DEF RequestCalls, WritersHoldCopy, SentMeansAccepted,
       Recorded, TypeOK, tickVars
<1>3. ASSUME NEW m \in Messages, RequestRecordsSent(m)
      PROVE  HonestInv'
  BY <1>0, <1>3, SMTT(30) DEF RequestRecordsSent, WritersHoldCopy, SentMeansAccepted,
     Recorded, TypeOK, Row, tickVars, history
<1>4. ASSUME NEW m \in Messages, RequestRecordsFailed(m)
      PROVE  HonestInv'
  <2> DEFINE r == [row[m] EXCEPT !.status = "failed", !.failedAt = TRUE]
  <2>0. row' = row \/ row' = [row EXCEPT ![m] = r]
    BY <1>4 DEF RequestRecordsFailed
  <2>1. \A n \in Messages : Recorded(n)' => Recorded(n)
    <3>1. r.status = "failed"
      BY DEF TypeOK, Row
    <3> HIDE DEF r
    <3> QED
      BY <2>0, <3>1 DEF Recorded, TypeOK
  <2> QED
    BY <1>0, <1>4, <2>1 DEF RequestRecordsFailed, WritersHoldCopy,
       SentMeansAccepted, TypeOK, tickVars, history
<1>5. ASSUME NEW m \in Messages, BackoffElapses(m)
      PROVE  HonestInv'
  BY <1>0, <1>5 DEF BackoffElapses, WritersHoldCopy, SentMeansAccepted,
     Recorded, TypeOK, Row, tickVars, history
<1>6. ASSUME NEW t \in RetryTicks, RetryTickFires(t)
      PROVE  HonestInv'
  BY <1>0, <1>6 DEF RetryTickFires, WritersHoldCopy, SentMeansAccepted,
     Recorded, TypeOK, history
<1>7. ASSUME NEW t \in RetryTicks, NEW m \in Messages, AttemptReads(t, m)
      PROVE  HonestInv'
  BY <1>0, <1>7 DEF AttemptReads, WritersHoldCopy, SentMeansAccepted,
     Recorded, TypeOK, history
<1>8. ASSUME NEW t \in RetryTicks, NEW m \in Messages, AttemptSkips(t, m)
      PROVE  HonestInv'
  BY <1>0, <1>8 DEF AttemptSkips, NextIteration, WritersHoldCopy,
     SentMeansAccepted, Recorded, TypeOK, history
<1>9. ASSUME NEW t \in RetryTicks, AttemptCalls(t)
      PROVE  HonestInv'
  <2>1. current[t] \in Messages
    BY <1>9 DEF AttemptCalls, TypeOK
  <2>2. tickPc'[t] = "accepted" => accepted'[current[t]] > 0
    BY <1>0, <1>9, <2>1 DEF AttemptCalls, ProviderTakes, ProviderRefuses, TypeOK
  <2>3. \A u \in RetryTicks : tickPc[u] = "accepted" => current[u] \in Messages
    BY DEF TypeOK
  <2> QED
    BY <1>0, <1>9, <2>2, <2>3 DEF AttemptCalls, WritersHoldCopy,
       SentMeansAccepted, Recorded, TypeOK
<1>10. ASSUME NEW t \in RetryTicks, AttemptRecordsSent(t)
       PROVE  HonestInv'
  <2>1. current[t] \in Messages
    BY <1>10 DEF AttemptRecordsSent, TypeOK
  <2> QED
    BY <1>0, <1>10, <2>1 DEF AttemptRecordsSent, NextIteration,
       WritersHoldCopy, SentMeansAccepted, Recorded, TypeOK, Row, history
<1>11. ASSUME NEW t \in RetryTicks, AttemptUpdateThrows(t)
       PROVE  HonestInv'
  BY <1>0, <1>11 DEF AttemptUpdateThrows, WritersHoldCopy, SentMeansAccepted,
     Recorded, TypeOK, history
<1>12. ASSUME NEW t \in RetryTicks, AttemptRecordsFailed(t)
       PROVE  HonestInv'
  <2>1. current[t] \in Messages
    BY <1>12 DEF AttemptRecordsFailed, TypeOK
  <2> QED
    BY <1>0, <1>12, <2>1 DEF AttemptRecordsFailed, NextIteration,
       WritersHoldCopy, SentMeansAccepted, Recorded, TypeOK, Row, history
<1>13. ASSUME NEW t \in RetryTicks, RetryTickDies(t)
       PROVE  HonestInv'
  BY <1>0, <1>13 DEF RetryTickDies, NextIteration, WritersHoldCopy,
     SentMeansAccepted, Recorded, TypeOK, history
<1>14. ASSUME NEW s \in SimTicks, SimTickFires(s)
       PROVE  HonestInv'
  <2>1. PICK b \in Page({m \in Messages : Undelivered(m)}, SimTake) :
            simBatch' = [simBatch EXCEPT ![s] = b]
    BY <1>14 DEF SimTickFires
  <2>2. \A m \in b : m \in Messages /\ row[m].status = "sent"
    BY <2>1, PageSubset DEF Undelivered
  <2> QED
    BY <1>0, <1>14, <2>1, <2>2 DEF SimTickFires, WritersHoldCopy,
       SentMeansAccepted, Recorded, TypeOK, tickVars, history
<1>15. ASSUME NEW s \in SimTicks, NEW m \in Messages, SimRecordsDelivered(s, m)
       PROVE  HonestInv'
  BY <1>0, <1>15 DEF SimRecordsDelivered, WritersHoldCopy, SentMeansAccepted,
     Recorded, TypeOK, Row, tickVars, history
<1>16. ASSUME NEW s \in SimTicks, SimTickDies(s)
       PROVE  HonestInv'
  BY <1>0, <1>16 DEF SimTickDies, WritersHoldCopy, SentMeansAccepted,
     Recorded, TypeOK, tickVars, history
<1>17. CASE Crash
  BY <1>0, <1>17 DEF Crash, WritersHoldCopy, SentMeansAccepted, Recorded,
     TypeOK, history
<1>18. CASE UNCHANGED vars
  BY <1>18 DEF vars, WritersHoldCopy, SentMeansAccepted, Recorded
<1> QED
  BY <1>1, <1>2, <1>3, <1>4, <1>5, <1>6, <1>7, <1>8, <1>9, <1>10, <1>11,
     <1>12, <1>13, <1>14, <1>15, <1>16, <1>17, <1>18
     DEF Next, RequestStep, AttemptStep, SimStep

\* A record that says "sent" or "delivered" stands for a copy the provider
\* took, however many executions of the cron jobs overlap and whatever fails.
THEOREM Honest == Spec => []SentMeansAccepted
<1>1. Init => HonestInv  BY HonestInit
<1>2. TypeOK /\ HonestInv /\ [Next]_vars => HonestInv'  BY HonestStep
<1>3. HonestInv => SentMeansAccepted  BY DEF HonestInv
<1> QED BY <1>1, <1>2, <1>3, TypeCorrect, PTL DEF Spec

----------------------------------------------------------------------------
(* Which rows a job may hold, whatever overlaps *)

\* Tick t has message m in its page or under attempt.
Holds(t, m) == m \in batch[t] \/ current[t] = m

Past == {"failed", "sent", "delivered"}

\* sendManual has a row to itself until it is past "queued"; the jobs hold
\* only rows that are.
OwnInv ==
    /\ \A m \in Messages :
          /\ req[m] = "idle" <=> row[m].status = "absent"
          /\ req[m] \in {"calling", "accepted", "errored"}
                => row[m].status = "queued"
    /\ \A t \in RetryTicks : \A m \in Messages :
          Holds(t, m) => row[m].status \in Past
    /\ \A s \in SimTicks : \A m \in simBatch[s] : row[m].status \in Past

\* What an update by id does to the columns of the other rows and its own.
LEMMA RowUpdate ==
    ASSUME TypeOK, NEW m \in Messages, NEW r, row' = [row EXCEPT ![m] = r]
    PROVE  row'[m] = r /\ \A n \in Messages : n # m => row'[n] = row[n]
BY DEF TypeOK

\* A step of the retry job takes no message that it did not hold, but for the
\* page of its query.
LEMMA HoldsLess ==
    ASSUME TypeOK, NEW t \in RetryTicks,
           AttemptStep(t) \/ RetryTickDies(t)
    PROVE  \A u \in RetryTicks : \A m \in Messages :
              Holds(u, m)' => Holds(u, m)
<1>1. ASSUME NEW rest \in SUBSET batch[t], NextIteration(t, rest)
      PROVE  \A u \in RetryTicks : \A m \in Messages :
                Holds(u, m)' => Holds(u, m)
  BY <1>1, ConstantsAssumption DEF NextIteration, Holds, TypeOK
<1>2. ASSUME NEW n \in Messages, AttemptReads(t, n)
      PROVE  \A u \in RetryTicks : \A m \in Messages :
                Holds(u, m)' => Holds(u, m)
  BY <1>2 DEF AttemptReads, Holds, TypeOK
<1>3. ASSUME NEW n \in Messages, AttemptSkips(t, n)
      PROVE  \A u \in RetryTicks : \A m \in Messages :
                Holds(u, m)' => Holds(u, m)
  <2>1. batch[t] \ {n} \in SUBSET batch[t]
    OBVIOUS
  <2> QED BY <1>1, <1>3, <2>1 DEF AttemptSkips
<1>4. CASE UNCHANGED <<batch, current>>
  BY <1>4 DEF Holds
<1>5. CASE AttemptRecordsSent(t) \/ AttemptRecordsFailed(t) \/ RetryTickDies(t)
  <2>1. batch[t] \in SUBSET batch[t] /\ {} \in SUBSET batch[t]
    OBVIOUS
  <2> QED
    BY <1>1, <1>5, <2>1
       DEF AttemptRecordsSent, AttemptRecordsFailed, RetryTickDies
<1> QED
  BY <1>2, <1>3, <1>4, <1>5 DEF AttemptStep, AttemptCalls, AttemptUpdateThrows

LEMMA OwnStep ==
    ASSUME TypeOK, OwnInv, [Next]_vars
    PROVE  OwnInv'
<1> USE DEF OwnInv
<1>0. TypeOK'
  BY NextTypeOK
<1>1. ASSUME req' = req,
             \A m \in Messages : \/ row'[m].status = row[m].status
                                 \/ row[m].status \in Past /\ row'[m].status \in Past,
             \A t \in RetryTicks : \A m \in Messages :
                Holds(t, m)' => row[m].status \in Past,
             \A s \in SimTicks : \A m \in simBatch'[s] : row[m].status \in Past
      PROVE  OwnInv'
  <2>1. \A m \in Messages :
            /\ row'[m].status = "absent" <=> row[m].status = "absent"
            /\ row[m].status = "queued" => row'[m].status = "queued"
            /\ row[m].status \in Past => row'[m].status \in Past
    BY <1>1 DEF Past
  <2>2. \A s \in SimTicks : simBatch'[s] \subseteq Messages
    BY <1>0 DEF TypeOK
  <2>3. \A m \in Messages :
            /\ req'[m] = "idle" <=> row'[m].status = "absent"
            /\ req'[m] \in {"calling", "accepted", "errored"}
                  => row'[m].status = "queued"
    BY <1>1, <2>1
  <2>4. \A t \in RetryTicks : \A m \in Messages :
            Holds(t, m)' => row'[m].status \in Past
    BY <1>1, <2>1
  <2>5. \A s \in SimTicks : \A m \in simBatch'[s] : row'[m].status \in Past
    BY <1>1, <2>1, <2>2
  <2> QED BY <2>3, <2>4, <2>5
<1>2. ASSUME NEW m \in Messages, CreateRecord(m)
      PROVE  OwnInv'
  BY <1>0, <1>2 DEF CreateRecord, tickVars, Holds, Past, TypeOK, Row
<1>3. ASSUME NEW m \in Messages, RequestCalls(m)
      PROVE  OwnInv'
  BY <1>3 DEF RequestCalls, tickVars, Holds, TypeOK
<1>4. ASSUME NEW m \in Messages, RequestRecordsSent(m)
      PROVE  OwnInv'
  <2>1. /\ req[m] = "accepted"
        /\ \/ req' = [req EXCEPT ![m] = "errored"] /\ row' = row
           \/ /\ req' = [req EXCEPT ![m] = "ended"]
              /\ row' = [row EXCEPT
                    ![m] = [row[m] EXCEPT !.status = "sent", !.sentAt = TRUE]]
        /\ UNCHANGED <<batch, current, simBatch>>
    BY <1>4 DEF RequestRecordsSent, tickVars
  <2>2. [row[m] EXCEPT !.status = "sent", !.sentAt = TRUE].status = "sent"
    BY DEF TypeOK, Row
  <2>3. /\ row'[m].status \in {"queued", "sent"}
        /\ req'[m] = "errored" => row'[m].status = "queued"
        /\ \A n \in Messages : n # m => row'[n] = row[n] /\ req'[n] = req[n]
        /\ req'[m] \in {"errored", "ended"}
    <3>1. req \in [Messages -> ReqPc]
      BY DEF TypeOK
    <3>2. CASE req' = [req EXCEPT ![m] = "errored"] /\ row' = row
      <4>1. /\ req'[m] = "errored"
            /\ \A n \in Messages : n # m => req'[n] = req[n]
        BY <3>1, <3>2
      <4>2. row'[m].status = "queued"
        BY <2>1, <3>2 DEF OwnInv
      <4> QED
        BY <3>2, <4>1, <4>2
    <3>3. CASE /\ req' = [req EXCEPT ![m] = "ended"]
               /\ row' = [row EXCEPT
                     ![m] = [row[m] EXCEPT !.status = "sent", !.sentAt = TRUE]]
      <4>1. /\ req'[m] = "ended"
            /\ \A n \in Messages : n # m => req'[n] = req[n]
        BY <3>1, <3>3
      <4>2. /\ row'[m].status = "sent"
            /\ \A n \in Messages : n # m => row'[n] = row[n]
        BY <2>2, <3>3, RowUpdate, ZenonT(30)
      <4> QED
        BY <4>1, <4>2
    <3> QED
      BY <2>1, <3>2, <3>3
  <2> QED
    BY <2>1, <2>3 DEF Holds, Past, TypeOK
<1>5. ASSUME NEW m \in Messages, RequestRecordsFailed(m)
      PROVE  OwnInv'
  <2>1. /\ req[m] = "errored"
        /\ req' = [req EXCEPT ![m] = "ended"]
        /\ \/ row' = row
           \/ row' = [row EXCEPT
                 ![m] = [row[m] EXCEPT !.status = "failed", !.failedAt = TRUE]]
        /\ UNCHANGED <<batch, current, simBatch>>
    BY <1>5 DEF RequestRecordsFailed, tickVars
  <2>2. [row[m] EXCEPT !.status = "failed", !.failedAt = TRUE].status = "failed"
    BY DEF TypeOK, Row
  <2>3. /\ row'[m].status \in {"queued", "failed"}
        /\ \A n \in Messages : n # m => row'[n] = row[n] /\ req'[n] = req[n]
        /\ req'[m] = "ended"
    BY <2>1, <2>2, RowUpdate, ZenonT(30) DEF TypeOK
  <2> QED
    BY <2>1, <2>3, SMTT(30) DEF Holds, Past, TypeOK
<1>6. ASSUME NEW m \in Messages, BackoffElapses(m)
      PROVE  OwnInv'
  <2>1. \A n \in Messages : row'[n].status = row[n].status
    BY <1>6 DEF BackoffElapses, TypeOK, Row
  <2> QED
    BY <1>1, <1>6, <2>1 DEF BackoffElapses, tickVars, Holds
<1>7. ASSUME NEW t \in RetryTicks, RetryTickFires(t)
      PROVE  OwnInv'
  <2>1. PICK b \in Page(Retryables, RetryTake) :
            batch' = [batch EXCEPT ![t] = b]
    BY <1>7 DEF RetryTickFires
  <2>2. \A m \in b : m \in Messages /\ row[m].status = "failed"
    BY <2>1, PageSubset DEF Retryables, Retryable
  <2>3. \A u \in RetryTicks : \A m \in Messages :
            Holds(u, m)' => row[m].status \in Past
    BY <1>7, <2>1, <2>2 DEF RetryTickFires, Holds, Past, TypeOK
  <2> QED
    BY <1>1, <1>7, <2>3 DEF RetryTickFires
<1>8. ASSUME NEW t \in RetryTicks, AttemptStep(t) \/ RetryTickDies(t)
      PROVE  OwnInv'
  <2>1. \A u \in RetryTicks : \A m \in Messages :
            Holds(u, m)' => row[m].status \in Past
    BY <1>8, HoldsLess
  <2>2. ASSUME NEW r, row' = [row EXCEPT ![current[t]] = r], r.status \in Past,
               current[t] \in Messages
        PROVE  \A m \in Messages :
                  \/ row'[m].status = row[m].status
                  \/ row[m].status \in Past /\ row'[m].status \in Past
    BY <2>2, RowUpdate DEF Holds
  <2>3. UNCHANGED <<req, simBatch>>
    BY <1>8 DEF AttemptStep, AttemptReads, AttemptSkips, AttemptCalls,
       AttemptRecordsSent, AttemptUpdateThrows, AttemptRecordsFailed,
       RetryTickDies
  <2>4. CASE row' = row
    BY <1>1, <2>1, <2>3, <2>4
  <2>5. CASE AttemptRecordsSent(t)
    <3> DEFINE r == [row[current[t]] EXCEPT
                        !.status = "sent", !.sentAt = TRUE,
                        !.failedAt = FALSE, !.nextRetryAt = "null"]
    <3>1. current[t] \in Messages
      BY <2>5 DEF AttemptRecordsSent, TypeOK
    <3>2. r.status \in Past
      BY <3>1 DEF TypeOK, Row, Past
    <3>3. row' = [row EXCEPT ![current[t]] = r]
      BY <2>5 DEF AttemptRecordsSent
    <3> HIDE DEF r
    <3> QED BY <1>1, <2>1, <2>2, <2>3, <3>1, <3>2, <3>3
  <2>6. CASE AttemptRecordsFailed(t)
    <3> DEFINE r == [row[current[t]] EXCEPT
                        !.status = "failed", !.failedAt = TRUE,
                        !.retryCount = seen[t] + 1, !.nextRetryAt = "ahead"]
    <3>1. current[t] \in Messages
      BY <2>6 DEF AttemptRecordsFailed, TypeOK
    <3>2. r.status \in Past
      BY <3>1 DEF TypeOK, Row, Past
    <3>3. row' = [row EXCEPT ![current[t]] = r]
      BY <2>6 DEF AttemptRecordsFailed
    <3> HIDE DEF r
    <3> QED BY <1>1, <2>1, <2>2, <2>3, <3>1, <3>2, <3>3
  <2> QED
    BY <1>8, <2>4, <2>5, <2>6 DEF AttemptStep, AttemptReads, AttemptSkips,
       AttemptCalls, AttemptUpdateThrows, RetryTickDies
<1>9. ASSUME NEW s \in SimTicks, SimTickFires(s)
      PROVE  OwnInv'
  <2>1. PICK b \in Page({m \in Messages : Undelivered(m)}, SimTake) :
            simBatch' = [simBatch EXCEPT ![s] = b]
    BY <1>9 DEF SimTickFires
  <2>2. \A m \in b : m \in Messages /\ row[m].status = "sent"
    BY <2>1, PageSubset DEF Undelivered
  <2>3. \A u \in SimTicks : \A m \in simBatch'[u] : row[m].status \in Past
    BY <2>1, <2>2 DEF Past, TypeOK
  <2> QED
    BY <1>1, <1>9, <2>3 DEF SimTickFires, tickVars, Holds
<1>10. ASSUME NEW s \in SimTicks, NEW m \in Messages, SimRecordsDelivered(s, m)
       PROVE  OwnInv'
  <2>1. [row[m] EXCEPT !.status = "delivered", !.deliveredAt = TRUE].status
           = "delivered"
    BY DEF TypeOK, Row
  <2>2. \A n \in Messages :
            \/ row'[n].status = row[n].status
            \/ row[n].status \in Past /\ row'[n].status \in Past
    BY <1>10, <2>1, RowUpdate DEF SimRecordsDelivered, Past
  <2>3. \A u \in SimTicks : simBatch'[u] \subseteq simBatch[u]
    BY <1>10 DEF SimRecordsDelivered, TypeOK
  <2> QED
    BY <1>1, <1>10, <2>2, <2>3 DEF SimRecordsDelivered, tickVars, Holds
<1>11. ASSUME NEW s \in SimTicks, SimTickDies(s)
       PROVE  OwnInv'
  BY <1>1, <1>11 DEF SimTickDies, tickVars, Holds, TypeOK
<1>12. CASE Crash
  BY <1>12, ConstantsAssumption DEF Crash, Holds, TypeOK
<1>13. CASE UNCHANGED vars
  BY <1>13 DEF vars, Holds
<1> QED
  BY <1>2, <1>3, <1>4, <1>5, <1>6, <1>7, <1>8, <1>9, <1>10, <1>11, <1>12,
     <1>13 DEF Next, RequestStep, SimStep

LEMMA OwnHolds == Spec => []OwnInv
<1>1. Init => OwnInv
  BY ConstantsAssumption DEF Init, OwnInv, Holds, NoRow
<1> QED BY <1>1, OwnStep, TypeCorrect, PTL DEF Spec

----------------------------------------------------------------------------
(* The retry limit under one and two executions *)

AtMostTwo == \A t, u, v \in RetryTicks : t = u \/ u = v \/ t = v

\* An attempt that starts from the limit has the row to itself: the row has
\* used up its retries, so no query finds it again, and a tick that had it in
\* its page as well would have found it below the limit.
LimitInv ==
    \A m \in Messages :
        /\ row[m].retryCount <= RETRY_LIMIT + 1
        /\ NonOverlap => row[m].retryCount <= RETRY_LIMIT
        /\ \A t \in RetryTicks : Holds(t, m) =>
              /\ row[m].retryCount <= RETRY_LIMIT
              /\ NonOverlap => row[m].retryCount < RETRY_LIMIT
              /\ current[t] = m =>
                    /\ m \notin batch[t]
                    /\ seen[t] <= RETRY_LIMIT
                    /\ seen[t] = RETRY_LIMIT => row[m].retryCount >= RETRY_LIMIT
              /\ \A u \in RetryTicks :
                    u # t /\ Holds(u, m) => row[m].retryCount < RETRY_LIMIT

LEMMA LimitStep ==
    ASSUME AtMostTwo, TypeOK, LimitInv, [Next]_vars
    PROVE  LimitInv'
<1>0. /\ TypeOK'
      /\ RETRY_LIMIT \in Nat
      /\ \A m \in Messages : row[m].retryCount \in Nat /\ row'[m].retryCount \in Nat
      /\ \A t \in RetryTicks : seen[t] \in Nat /\ seen'[t] \in Nat
  BY NextTypeOK, ConstantsAssumption DEF TypeOK, Row
<1>1. ASSUME \A m \in Messages : row'[m].retryCount = row[m].retryCount,
             \A t \in RetryTicks : \A m \in Messages :
                /\ Holds(t, m)' => Holds(t, m)
                /\ m \in batch'[t] => m \in batch[t]
                /\ current'[t] = m => current[t] = m /\ seen'[t] = seen[t]
      PROVE  LimitInv'
  BY <1>1 DEF LimitInv
<1>2. ASSUME NEW m \in Messages,
             CreateRecord(m) \/ RequestStep(m) \/ BackoffElapses(m)
      PROVE  LimitInv'
  <2>1. \A n \in Messages : row'[n].retryCount = row[n].retryCount
    <3>1. row \in [Messages -> Row]
      BY DEF TypeOK
    <3>2. CASE CreateRecord(m)
      BY <3>1, <3>2 DEF CreateRecord, Row
    <3>3. CASE RequestRecordsSent(m)
      <4> DEFINE r == [row[m] EXCEPT !.status = "sent", !.sentAt = TRUE]
      <4>1. r.retryCount = row[m].retryCount
        BY <3>1 DEF Row
      <4>2. row' = row \/ row' = [row EXCEPT ![m] = r]
        BY <3>3 DEF RequestRecordsSent
      <4> HIDE DEF r
      <4> QED BY <4>1, <4>2, RowUpdate
    <3>4. CASE RequestRecordsFailed(m)
      <4> DEFINE r == [row[m] EXCEPT !.status = "failed", !.failedAt = TRUE]
      <4>1. r.retryCount = row[m].retryCount
        BY <3>1 DEF Row
      <4>2. row' = row \/ row' = [row EXCEPT ![m] = r]
        BY <3>4 DEF RequestRecordsFailed
      <4> HIDE DEF r
      <4> QED BY <4>1, <4>2, RowUpdate
    <3>5. CASE BackoffElapses(m)
      BY <3>1, <3>5 DEF BackoffElapses, Row
    <3>6. CASE RequestCalls(m)
      BY <3>6 DEF RequestCalls
    <3> QED BY <1>2, <3>2, <3>3, <3>4, <3>5, <3>6 DEF RequestStep
  <2>2. UNCHANGED <<batch, current, seen>>
    BY <1>2 DEF CreateRecord, RequestStep, RequestCalls, RequestRecordsSent,
       RequestRecordsFailed, BackoffElapses, tickVars
  <2> QED BY <1>1, <2>1, <2>2 DEF Holds
<1>3. ASSUME NEW s \in SimTicks, SimTickFires(s) \/ SimStep(s) \/ SimTickDies(s)
      PROVE  LimitInv'
  <2>1. \A n \in Messages : row'[n].retryCount = row[n].retryCount
    <3>1. ASSUME NEW m \in Messages, SimRecordsDelivered(s, m)
          PROVE  \A n \in Messages : row'[n].retryCount = row[n].retryCount
      <4> DEFINE r == [row[m] EXCEPT !.status = "delivered", !.deliveredAt = TRUE]
      <4>1. r.retryCount = row[m].retryCount
        BY DEF TypeOK, Row
      <4>2. row' = [row EXCEPT ![m] = r]
        BY <3>1 DEF SimRecordsDelivered
      <4> HIDE DEF r
      <4> QED BY <4>1, <4>2, RowUpdate
    <3>2. CASE row' = row
      BY <3>2
    <3> QED BY <1>3, <3>1, <3>2 DEF SimTickFires, SimStep, SimTickDies
  <2>2. UNCHANGED <<batch, current, seen>>
    BY <1>3 DEF SimTickFires, SimStep, SimRecordsDelivered, SimTickDies,
       tickVars
  <2> QED BY <1>1, <2>1, <2>2 DEF Holds
<1>4. ASSUME NEW t \in RetryTicks, RetryTickFires(t)
      PROVE  LimitInv'
  <2>1. PICK b \in Page(Retryables, RetryTake) :
            batch' = [batch EXCEPT ![t] = b]
    BY <1>4 DEF RetryTickFires
  <2>2. \A m \in b : m \in Messages /\ row[m].retryCount < RETRY_LIMIT
    BY <2>1, PageSubset DEF Retryables, Retryable
  <2>3. UNCHANGED <<row, current, seen>> /\ current[t] = NoMsg
    BY <1>4 DEF RetryTickFires, TypeOK
  <2>4. \A u \in RetryTicks : \A m \in Messages :
            /\ current[u] = m => u # t
            /\ u # t => batch'[u] = batch[u] /\ (Holds(u, m)' <=> Holds(u, m))
            /\ Holds(u, m)' =>
                  Holds(u, m) \/ (u = t /\ row[m].retryCount < RETRY_LIMIT)
    BY <2>1, <2>2, <2>3, ConstantsAssumption DEF Holds, TypeOK
  <2> QED
    BY <1>0, <2>3, <2>4 DEF LimitInv
<1>5. ASSUME NEW t \in RetryTicks, NEW m \in Messages, AttemptReads(t, m)
      PROVE  LimitInv'
  <2>1. /\ m \in batch[t]
        /\ batch' = [batch EXCEPT ![t] = batch[t] \ {m}]
        /\ current' = [current EXCEPT ![t] = m]
        /\ seen' = [seen EXCEPT ![t] = row[m].retryCount]
        /\ row' = row
    BY <1>5 DEF AttemptReads
  <2>2. \A u \in RetryTicks : \A n \in Messages : Holds(u, n)' => Holds(u, n)
    BY <1>5, HoldsLess DEF AttemptStep
  <2>3. row[m].retryCount <= RETRY_LIMIT
    BY <2>1 DEF LimitInv, Holds
  <2>4. ASSUME NEW u \in RetryTicks, NEW n \in Messages, current'[u] = n
        PROVE  /\ n \notin batch'[u]
               /\ seen'[u] <= RETRY_LIMIT
               /\ seen'[u] = RETRY_LIMIT => row[n].retryCount >= RETRY_LIMIT
    <3>1. CASE u = t
      BY <1>0, <2>1, <2>3, <2>4, <3>1 DEF TypeOK
    <3>2. CASE u # t
      BY <2>1, <2>4, <3>2 DEF LimitInv, Holds, TypeOK
    <3> QED BY <3>1, <3>2
  <2> QED BY <2>1, <2>2, <2>4 DEF LimitInv
<1>6. ASSUME NEW t \in RetryTicks, NEW rest \in SUBSET batch[t],
             NextIteration(t, rest), seen' = seen,
             \A m \in Messages : row'[m].retryCount = row[m].retryCount
      PROVE  LimitInv'
  <2>1. \A u \in RetryTicks : \A m \in Messages :
            /\ Holds(u, m)' => Holds(u, m)
            /\ m \in batch'[u] => m \in batch[u]
            /\ current'[u] = m => current[u] = m /\ seen'[u] = seen[u]
    BY <1>6, ConstantsAssumption DEF NextIteration, Holds, TypeOK
  <2> QED BY <1>1, <1>6, <2>1
<1>7. ASSUME NEW t \in RetryTicks, RetryTickDies(t)
      PROVE  LimitInv'
  BY <1>6, <1>7 DEF RetryTickDies
<1>8. ASSUME NEW t \in RetryTicks, NEW m \in Messages, AttemptSkips(t, m)
      PROVE  LimitInv'
  <2>1. batch[t] \ {m} \in SUBSET batch[t]
    OBVIOUS
  <2> QED BY <1>6, <1>8, <2>1 DEF AttemptSkips
<1>9. ASSUME NEW t \in RetryTicks, AttemptRecordsSent(t)
      PROVE  LimitInv'
  <2>1. batch[t] \in SUBSET batch[t]
    OBVIOUS
  <2>2. \A m \in Messages : row'[m].retryCount = row[m].retryCount
    BY <1>9 DEF AttemptRecordsSent, TypeOK, Row
  <2> QED BY <1>6, <1>9, <2>1, <2>2 DEF AttemptRecordsSent
<1>10. ASSUME NEW t \in RetryTicks, AttemptRecordsFailed(t)
       PROVE  LimitInv'
  <2>0. PICK m \in Messages : m = current[t] /\ Holds(t, m)
    BY <1>10 DEF AttemptRecordsFailed, TypeOK, Holds
  <2>1. /\ row'[m].retryCount = seen[t] + 1
        /\ \A n \in Messages : n # m => row'[n] = row[n]
    BY <1>10, <2>0 DEF AttemptRecordsFailed, TypeOK, Row
  <2>2. /\ current' = [current EXCEPT ![t] = NoMsg]
        /\ batch' = batch /\ seen' = seen
        /\ m \notin batch[t]
    BY <1>10, <2>0 DEF AttemptRecordsFailed, NextIteration, LimitInv, TypeOK
  <2>3. \A u \in RetryTicks : \A n \in Messages :
            /\ Holds(u, n)' => Holds(u, n)
            /\ current'[u] = n => current[u] = n
            /\ Holds(u, m)' => u # t
    BY <2>0, <2>2, ConstantsAssumption DEF Holds, TypeOK
  <2>4. /\ seen[t] <= RETRY_LIMIT
        /\ seen[t] = RETRY_LIMIT => row[m].retryCount >= RETRY_LIMIT
        /\ row[m].retryCount <= RETRY_LIMIT
        /\ NonOverlap => row[m].retryCount < RETRY_LIMIT
    BY <2>0 DEF LimitInv
  <2>5. ASSUME NEW u \in RetryTicks, Holds(u, m)'
        PROVE  /\ u # t /\ ~NonOverlap
               /\ row'[m].retryCount <= RETRY_LIMIT
               /\ current[u] = m => m \notin batch[u] /\ seen[u] < RETRY_LIMIT
               /\ \A v \in RetryTicks : v # u => ~Holds(v, m)'
    <3>1. u # t /\ Holds(u, m)
      BY <2>0, <2>3, <2>5
    <3>2. row[m].retryCount < RETRY_LIMIT
      BY <2>0, <3>1 DEF LimitInv
    <3>3. row'[m].retryCount <= RETRY_LIMIT
      BY <1>0, <2>1, <2>4, <3>2
    <3>4. current[u] = m => m \notin batch[u] /\ seen[u] < RETRY_LIMIT
      BY <1>0, <2>0, <3>1, <3>2 DEF LimitInv
    <3>5. \A v \in RetryTicks : v # u => ~Holds(v, m)'
      BY <2>0, <2>3, <3>1 DEF AtMostTwo
    <3> QED BY <3>1, <3>3, <3>4, <3>5 DEF NonOverlap
  <2>6. ASSUME NEW n \in Messages
        PROVE  /\ row'[n].retryCount <= RETRY_LIMIT + 1
               /\ NonOverlap => row'[n].retryCount <= RETRY_LIMIT
    <3>1. CASE n = m
      BY <1>0, <2>0, <2>1, <2>4, <3>1
    <3>2. CASE n # m
      BY <2>1, <3>2 DEF LimitInv
    <3> QED BY <3>1, <3>2
  <2>7. ASSUME NEW n \in Messages, NEW u \in RetryTicks, Holds(u, n)'
        PROVE  /\ row'[n].retryCount <= RETRY_LIMIT
               /\ NonOverlap => row'[n].retryCount < RETRY_LIMIT
               /\ current'[u] = n =>
                     /\ n \notin batch'[u]
                     /\ seen'[u] <= RETRY_LIMIT
                     /\ seen'[u] = RETRY_LIMIT
                           => row'[n].retryCount >= RETRY_LIMIT
               /\ \A v \in RetryTicks :
                     v # u /\ Holds(v, n)' => row'[n].retryCount < RETRY_LIMIT
    <3>1. CASE n = m
      BY <1>0, <2>2, <2>3, <2>5, <2>7, <3>1
    <3>2. CASE n # m
      <4>1. row'[n] = row[n] /\ Holds(u, n)
        BY <2>1, <2>3, <2>7, <3>2
      <4> QED BY <2>2, <2>3, <4>1 DEF LimitInv
    <3> QED BY <3>1, <3>2
  <2> QED BY <2>6, <2>7 DEF LimitInv
<1>11. ASSUME NEW t \in RetryTicks, AttemptCalls(t) \/ AttemptUpdateThrows(t)
       PROVE  LimitInv'
  BY <1>1, <1>11 DEF AttemptCalls, AttemptUpdateThrows, Holds
<1>12. CASE Crash
  BY <1>1, <1>12, ConstantsAssumption DEF Crash, Holds
<1>13. CASE UNCHANGED vars
  BY <1>1, <1>13 DEF vars, Holds
<1> QED
  BY <1>2, <1>3, <1>4, <1>5, <1>7, <1>8, <1>9, <1>10, <1>11, <1>12, <1>13
     DEF Next, AttemptStep

\* What the number of executions says about three of them.
LEMMA FewTicks ==
    /\ Cardinality(RetryTicks) = 1 => NonOverlap
    /\ Cardinality(RetryTicks) \in 1 .. 2 => AtMostTwo
<1>1. ASSUME NEW t \in RetryTicks, NEW u \in RetryTicks, t # u
      PROVE  IsFiniteSet({t} \cup {u}) /\ Cardinality({t} \cup {u}) = 2
  <2>1. IsFiniteSet({t}) /\ Cardinality({t}) = 1 /\ u \notin {t}
    BY <1>1, FS_Singleton
  <2> QED BY <2>1, FS_AddElement
<1>2. ASSUME NEW S \in SUBSET RetryTicks
      PROVE  Cardinality(S) <= Cardinality(RetryTicks)
  BY <1>2, FS_Subset, ConstantsAssumption
<1>3. Cardinality(RetryTicks) = 1 => NonOverlap
  <2> SUFFICES ASSUME Cardinality(RetryTicks) = 1,
                      NEW t \in RetryTicks, NEW u \in RetryTicks, t # u
               PROVE  FALSE
    BY DEF NonOverlap
  <2>1. Cardinality({t} \cup {u}) <= Cardinality(RetryTicks)
    BY <1>2
  <2> QED BY <1>1, <2>1
<1>4. Cardinality(RetryTicks) \in 1 .. 2 => AtMostTwo
  <2> SUFFICES ASSUME Cardinality(RetryTicks) \in 1 .. 2,
                      NEW t \in RetryTicks, NEW u \in RetryTicks,
                      NEW v \in RetryTicks, t # u, u # v, t # v
               PROVE  FALSE
    BY DEF AtMostTwo
  <2>1. Cardinality(({t} \cup {u}) \cup {v}) = 3
    <3> DEFINE S == {t} \cup {u}
    <3>1. v \notin S
      OBVIOUS
    <3>2. IsFiniteSet(S) /\ Cardinality(S) = 2
      BY <1>1
    <3> HIDE DEF S
    <3>3. Cardinality(S \cup {v}) = 3
      BY <3>1, <3>2, FS_AddElement
    <3> QED BY <3>3 DEF S
  <2>2. Cardinality(({t} \cup {u}) \cup {v}) <= Cardinality(RetryTicks)
    BY <1>2
  <2> QED BY <2>1, <2>2
<1> QED BY <1>3, <1>4

\* The retry limit, although attemptSend neither checks it nor adds to the
\* count in the database: one execution keeps it, and a second one that
\* overlaps it adds at most one retry.
THEOREM RetriesBounded == Spec => []RetryCountBound
<1>1. CASE Cardinality(RetryTicks) \notin 1 .. 2
  <2>1. RetryCountBound
    BY <1>1 DEF RetryCountBound
  <2> QED BY <2>1, PTL
<1>2. CASE Cardinality(RetryTicks) \in 1 .. 2
  <2>1. AtMostTwo
    BY <1>2, FewTicks
  <2>2. Init => LimitInv
    BY ConstantsAssumption DEF Init, LimitInv, Holds, NoRow
  <2>3. TypeOK /\ LimitInv /\ [Next]_vars => LimitInv'
    BY <2>1, LimitStep
  <2>4. TypeOK /\ LimitInv => RetryCountBound
    <3> SUFFICES ASSUME TypeOK, LimitInv, NEW m \in Messages
                 PROVE  row[m].retryCount
                           <= RETRY_LIMIT + Cardinality(RetryTicks) - 1
      BY DEF RetryCountBound
    <3>1. row[m].retryCount \in Nat /\ RETRY_LIMIT \in Nat
      BY ConstantsAssumption DEF TypeOK, Row
    <3>2. CASE Cardinality(RetryTicks) = 1
      BY <3>1, <3>2, FewTicks DEF LimitInv
    <3>3. CASE Cardinality(RetryTicks) = 2
      BY <3>1, <3>3 DEF LimitInv
    <3> QED BY <1>2, <3>2, <3>3
  <2> QED BY <2>2, <2>3, <2>4, TypeCorrect, PTL DEF Spec
<1> QED BY <1>1, <1>2

----------------------------------------------------------------------------
(* Who may revise a recorded outcome *)

\* Of all the writers by id only the retry job takes an outcome back.
LEMMA RevisedByAttempt ==
    ASSUME TypeOK, OwnInv, [Next]_vars, NEW m \in Messages, Recorded(m),
           row'[m].status \notin {row[m].status, "delivered"}
    PROVE  \E t \in RetryTicks :
              /\ current[t] = m /\ current'[t] = NoMsg
              /\ tickPc[t] \in {"accepted", "errored"}
<1>1. row \in [Messages -> Row] /\ row' # row /\ row'[m].status # row[m].status
  BY DEF TypeOK
<1>2. row[m].status \in {"sent", "delivered"}
  BY DEF Recorded
<1>3. ASSUME NEW n \in Messages, CreateRecord(n) \/ RequestStep(n)
      PROVE  FALSE
  <2>1. \A i \in Messages : i # n => row'[i] = row[i]
    BY <1>1, <1>3 DEF CreateRecord, RequestStep, RequestCalls,
       RequestRecordsSent, RequestRecordsFailed
  <2>2. n = m
    BY <1>1, <2>1
  <2>3. req[m] \in {"idle", "calling", "accepted", "errored"}
    BY <1>3, <2>2 DEF CreateRecord, RequestStep, RequestCalls,
       RequestRecordsSent, RequestRecordsFailed
  <2> QED BY <1>2, <2>3 DEF OwnInv
<1>4. ASSUME NEW n \in Messages, BackoffElapses(n)
      PROVE  FALSE
  BY <1>1, <1>4 DEF BackoffElapses, Row
<1>5. ASSUME NEW s \in SimTicks, NEW n \in Messages, SimRecordsDelivered(s, n)
      PROVE  FALSE
  <2> DEFINE r == [row[n] EXCEPT !.status = "delivered", !.deliveredAt = TRUE]
  <2>1. r.status = "delivered"
    BY <1>1 DEF Row
  <2>2. row' = [row EXCEPT ![n] = r]
    BY <1>5 DEF SimRecordsDelivered
  <2> HIDE DEF r
  <2> QED BY <1>1, <2>1, <2>2, RowUpdate
<1>6. ASSUME NEW t \in RetryTicks,
             AttemptRecordsSent(t) \/ AttemptRecordsFailed(t)
      PROVE  current[t] = m /\ current'[t] = NoMsg
                /\ tickPc[t] \in {"accepted", "errored"}
  <2>1. tickPc[t] \in {"accepted", "errored"} /\ current'[t] = NoMsg
    BY <1>6 DEF AttemptRecordsSent, AttemptRecordsFailed, NextIteration, TypeOK
  <2>2. current[t] # m => row'[m] = row[m]
    BY <1>1, <1>6 DEF AttemptRecordsSent, AttemptRecordsFailed
  <2> QED BY <1>1, <2>1, <2>2
<1> QED
  BY <1>1, <1>3, <1>4, <1>5, <1>6
     DEF Next, vars, AttemptStep, AttemptReads, AttemptSkips, AttemptCalls,
         AttemptUpdateThrows, RetryTickFires, RetryTickDies, SimTickFires,
         SimStep, SimTickDies, Crash

----------------------------------------------------------------------------
(* Executions of the retry job that do not overlap.  The argument: a row   *)
(* has one writer at a time.  While it is queued only its sendManual call  *)
(* writes it, while it is failed only the retry tick that holds it, and    *)
(* afterwards only the simulation.                                         *)

\* Who may write which row, and what the row then looks like.
RowInv ==
    /\ RequestOwnsRow
    /\ TickOwnsRows
    /\ SimOwnsRows
    /\ StampsMatchStatus
    /\ RetryLimitHolds

LEMMA RowInit == Init => RowInv
BY ConstantsAssumption
   DEF Init, RowInv, RequestOwnsRow, TickOwnsRows, SimOwnsRows,
       StampsMatchStatus, RetryLimitHolds, Recorded, NoRow

LEMMA RowStep ==
    ASSUME NonOverlap, TypeOK, RowInv, [Next]_vars
    PROVE  RowInv'
<1> USE DEF RowInv, Due
<1>0. TypeOK'
  BY NextTypeOK
<1>1. ASSUME NEW m \in Messages, CreateRecord(m)
      PROVE  RowInv'
  BY <1>1 DEF CreateRecord, RequestOwnsRow, TickOwnsRows, SimOwnsRows,
     StampsMatchStatus, RetryLimitHolds, Recorded, Retryable, TypeOK, Row,
     tickVars, history
<1>2. ASSUME NEW m \in Messages, RequestCalls(m)
      PROVE  RowInv'
  BY <1>2 DEF RequestCalls, RequestOwnsRow, TickOwnsRows, SimOwnsRows,
     StampsMatchStatus, RetryLimitHolds, Recorded, Retryable, TypeOK, tickVars
<1>3. ASSUME NEW m \in Messages, RequestRecordsSent(m)
      PROVE  RowInv'
  <2>1. row[m].status = "queued" /\ row[m].retryCount = 0
    BY <1>3 DEF RequestRecordsSent, RequestOwnsRow, TypeOK
  <2>2. CASE /\ row' = [row EXCEPT
                          ![m] = [@ EXCEPT !.status = "sent", !.sentAt = TRUE]]
             /\ req' = [req EXCEPT ![m] = "ended"]
    <3>1. UNCHANGED <<tickVars, simBatch>>
      BY <1>3 DEF RequestRecordsSent
    <3>2. RequestOwnsRow' /\ SimOwnsRows' /\ StampsMatchStatus'
            /\ RetryLimitHolds'
      BY <2>1, <2>2, <3>1
         DEF RequestOwnsRow, SimOwnsRows, StampsMatchStatus, RetryLimitHolds,
             Recorded, TypeOK, Row
    <3>3. TickOwnsRows'
      BY <2>1, <2>2, <3>1 DEF TickOwnsRows, Retryable, TypeOK, tickVars
    <3> QED BY <3>2, <3>3
  <2>3. CASE row' = row
    BY <1>3, <2>1, <2>3
       DEF RequestRecordsSent, RequestOwnsRow, TickOwnsRows, SimOwnsRows,
           StampsMatchStatus, RetryLimitHolds, Recorded, Retryable, TypeOK,
           tickVars, history
  <2> QED BY <1>3, <2>2, <2>3 DEF RequestRecordsSent
<1>4. ASSUME NEW m \in Messages, RequestRecordsFailed(m)
      PROVE  RowInv'
  <2>1. row[m].status = "queued" /\ row[m].retryCount = 0
    BY <1>4 DEF RequestRecordsFailed, RequestOwnsRow, TypeOK
  <2>2. CASE row' = [row EXCEPT
                       ![m] = [@ EXCEPT !.status = "failed", !.failedAt = TRUE]]
    BY <1>4, <2>1, <2>2, ConstantsAssumption
       DEF RequestRecordsFailed, RequestOwnsRow, TickOwnsRows, SimOwnsRows,
           StampsMatchStatus, RetryLimitHolds, Recorded, Retryable, TypeOK,
           Row, tickVars, history
  <2>3. CASE row' = row
    BY <1>4, <2>1, <2>3
       DEF RequestRecordsFailed, RequestOwnsRow, TickOwnsRows, SimOwnsRows,
           StampsMatchStatus, RetryLimitHolds, Recorded, Retryable, TypeOK,
           tickVars, history
  <2> QED BY <1>4, <2>2, <2>3 DEF RequestRecordsFailed
<1>5. ASSUME NEW m \in Messages, BackoffElapses(m)
      PROVE  RowInv'
  BY <1>5 DEF BackoffElapses, RequestOwnsRow, TickOwnsRows, SimOwnsRows,
     StampsMatchStatus, RetryLimitHolds, Recorded, Retryable, TypeOK, Row,
     tickVars, history
<1>6. ASSUME NEW t \in RetryTicks, RetryTickFires(t)
      PROVE  RowInv'
  <2>1. PICK b \in Page(Retryables, RetryTake) :
            batch' = [batch EXCEPT ![t] = b]
    BY <1>6 DEF RetryTickFires
  <2>2. \A m \in b : Retryable(m)
    BY <2>1, PageSubset DEF Retryables
  <2> QED
    BY <1>6, <2>1, <2>2 DEF RetryTickFires, RequestOwnsRow, TickOwnsRows,
       SimOwnsRows, StampsMatchStatus, RetryLimitHolds, Recorded, Retryable,
       TypeOK, history
<1>7. ASSUME NEW t \in RetryTicks, NEW m \in Messages, AttemptReads(t, m)
      PROVE  RowInv'
  BY <1>7 DEF AttemptReads, RequestOwnsRow, TickOwnsRows, SimOwnsRows,
     StampsMatchStatus, RetryLimitHolds, Recorded, Retryable, TypeOK, history
<1>8. ASSUME NEW t \in RetryTicks, NEW m \in Messages, AttemptSkips(t, m)
      PROVE  RowInv'
  BY <1>8 DEF AttemptSkips, TickOwnsRows, Retryable
<1>9. ASSUME NEW t \in RetryTicks, AttemptCalls(t)
      PROVE  RowInv'
  BY <1>9 DEF AttemptCalls, RequestOwnsRow, TickOwnsRows, SimOwnsRows,
     StampsMatchStatus, RetryLimitHolds, Recorded, Retryable, TypeOK
<1>10. ASSUME NEW t \in RetryTicks, AttemptRecordsSent(t)
       PROVE  RowInv'
  <2>1. current[t] \in Messages /\ current[t] \notin batch[t]
    BY <1>10 DEF AttemptRecordsSent, TypeOK
  <2> QED
    BY <1>10, <2>1
       DEF AttemptRecordsSent, NextIteration, RequestOwnsRow, TickOwnsRows,
           SimOwnsRows, StampsMatchStatus, RetryLimitHolds, Recorded,
           Retryable, TypeOK, Row, history, NonOverlap
<1>11. ASSUME NEW t \in RetryTicks, AttemptUpdateThrows(t)
       PROVE  RowInv'
  BY <1>11 DEF AttemptUpdateThrows, RequestOwnsRow, TickOwnsRows, SimOwnsRows,
     StampsMatchStatus, RetryLimitHolds, Recorded, Retryable, TypeOK, history
<1>12. ASSUME NEW t \in RetryTicks, AttemptRecordsFailed(t)
       PROVE  RowInv'
  <2>1. current[t] \in Messages /\ current[t] \notin batch[t]
    BY <1>12 DEF AttemptRecordsFailed, TypeOK
  <2> QED
    BY <1>12, <2>1, ConstantsAssumption
       DEF AttemptRecordsFailed, NextIteration, RequestOwnsRow, TickOwnsRows,
           SimOwnsRows, StampsMatchStatus, RetryLimitHolds, Recorded,
           Retryable, TypeOK, Row, history, NonOverlap
<1>13. ASSUME NEW t \in RetryTicks, RetryTickDies(t)
       PROVE  RowInv'
  BY <1>13 DEF RetryTickDies, NextIteration, RequestOwnsRow, TickOwnsRows,
     SimOwnsRows, StampsMatchStatus, RetryLimitHolds, Recorded, Retryable,
     TypeOK, history
<1>14. ASSUME NEW s \in SimTicks, SimTickFires(s)
       PROVE  RowInv'
  <2>1. PICK b \in Page({m \in Messages : Undelivered(m)}, SimTake) :
            simBatch' = [simBatch EXCEPT ![s] = b]
    BY <1>14 DEF SimTickFires
  <2>2. \A m \in b : m \in Messages /\ Recorded(m)
    BY <2>1, PageSubset DEF Undelivered, Recorded
  <2> QED
    BY <1>14, <2>1, <2>2 DEF SimTickFires, RequestOwnsRow, TickOwnsRows,
       SimOwnsRows, StampsMatchStatus, RetryLimitHolds, Recorded, Retryable,
       TypeOK, tickVars, history
<1>15. ASSUME NEW s \in SimTicks, NEW m \in Messages, SimRecordsDelivered(s, m)
       PROVE  RowInv'
  BY <1>15 DEF SimRecordsDelivered, RequestOwnsRow, TickOwnsRows, SimOwnsRows,
     StampsMatchStatus, RetryLimitHolds, Recorded, Retryable, TypeOK, Row,
     tickVars, history
<1>16. ASSUME NEW s \in SimTicks, SimTickDies(s)
       PROVE  RowInv'
  BY <1>16 DEF SimTickDies, RequestOwnsRow, TickOwnsRows, SimOwnsRows,
     StampsMatchStatus, RetryLimitHolds, Recorded, Retryable, TypeOK,
     tickVars, history
<1>17. CASE Crash
  BY <1>17 DEF Crash, RequestOwnsRow, TickOwnsRows, SimOwnsRows,
     StampsMatchStatus, RetryLimitHolds, Recorded, Retryable, TypeOK, history
<1>18. CASE UNCHANGED vars
  BY <1>18 DEF vars, RequestOwnsRow, TickOwnsRows, SimOwnsRows,
     StampsMatchStatus, RetryLimitHolds, Recorded, Retryable
<1> QED
  BY <1>1, <1>2, <1>3, <1>4, <1>5, <1>6, <1>7, <1>8, <1>9, <1>10, <1>11,
     <1>12, <1>13, <1>14, <1>15, <1>16, <1>17, <1>18
     DEF Next, RequestStep, AttemptStep, SimStep

----------------------------------------------------------------------------
(* Counting calls and copies *)

CountInv ==
    /\ CallsAccounted
    /\ CallBudget
    /\ CopiesAccounted
    /\ CopyBudget
    /\ OrphanOnlyByFault

LEMMA CountInit == Init => CountInv
BY ConstantsAssumption
   DEF Init, CountInv, CallsAccounted, CallBudget, CopiesAccounted,
       CopyBudget, OrphanOnlyByFault, Orphan, NoRow

LEMMA CountStep ==
    ASSUME NonOverlap, TypeOK, RowInv, CountInv, [Next]_vars
    PROVE  CountInv'
<1>0. /\ TypeOK'
      /\ RETRY_LIMIT \in Nat
      /\ \A m \in Messages : /\ row[m].retryCount \in Nat
                             /\ row[m].retryCount <= RETRY_LIMIT
                             /\ calls[m] \in Nat
                             /\ accepted[m] \in Nat
                             /\ hits[m] \in Nat
  BY NextTypeOK, ConstantsAssumption
     DEF TypeOK, Row, RowInv, RetryLimitHolds
<1>1. ASSUME NEW m \in Messages, CreateRecord(m)
      PROVE  CountInv'
  BY <1>1, <1>0 DEF CreateRecord, CountInv, CallsAccounted, CallBudget, CopiesAccounted, CopyBudget,
     OrphanOnlyByFault, Orphan, AttemptCalled, AttemptAccepted, Recorded,
     TypeOK, Row,
     tickVars, history, faultVars
<1>2. ASSUME NEW m \in Messages, RequestCalls(m)
      PROVE  CountInv'
  <2>1. /\ req[m] = "calling" /\ row[m].status = "queued"
        /\ calls[m] = 0 /\ accepted[m] = 0
        /\ UNCHANGED row
        /\ \A n \in Messages : /\ AttemptCalled(n)' = AttemptCalled(n)
                                /\ AttemptAccepted(n)' = AttemptAccepted(n)
    BY <1>2, <1>0 DEF RequestCalls, RowInv, RequestOwnsRow, CountInv,
       CallsAccounted, CopiesAccounted, AttemptCalled, AttemptAccepted, tickVars
  <2>2. CASE /\ calls' = [calls EXCEPT ![m] = @ + 1]
             /\ accepted' = [accepted EXCEPT ![m] = @ + 1]
             /\ req' = [req EXCEPT ![m] = "accepted"]
             /\ hits' = hits
    BY <1>0, <2>1, <2>2, SMTT(30)
       DEF Fault, CountInv, CallsAccounted, CallBudget, CopiesAccounted,
           CopyBudget, OrphanOnlyByFault, Orphan, Recorded, TypeOK
  <2>3. CASE /\ calls' = [calls EXCEPT ![m] = @ + 1]
             /\ accepted' = accepted
             /\ req' = [req EXCEPT ![m] = "errored"]
             /\ hits' = hits
    BY <1>0, <2>1, <2>3, SMTT(30)
       DEF Fault, CountInv, CallsAccounted, CallBudget, CopiesAccounted,
           CopyBudget, OrphanOnlyByFault, Orphan, Recorded, TypeOK
  <2>4. CASE /\ calls' = [calls EXCEPT ![m] = @ + 1]
             /\ accepted' = [accepted EXCEPT ![m] = @ + 1]
             /\ req' = [req EXCEPT ![m] = "errored"]
             /\ Fault({m})
    BY <1>0, <2>1, <2>4, SMTT(30)
       DEF Fault, CountInv, CallsAccounted, CallBudget, CopiesAccounted,
           CopyBudget, OrphanOnlyByFault, Orphan, Recorded, TypeOK
  <2> QED
    BY <1>2, <2>2, <2>3, <2>4 DEF RequestCalls, ProviderTakes, ProviderRefuses,
       Called, NoFault, faultVars
<1>3. ASSUME NEW m \in Messages, RequestRecordsSent(m)
      PROVE  CountInv'
  <2>1. row[m].status = "queued" /\ UNCHANGED <<tickVars, history>>
    BY <1>3 DEF RequestRecordsSent, RowInv, RequestOwnsRow, TypeOK
  <2>2. CASE /\ row' = [row EXCEPT
                          ![m] = [@ EXCEPT !.status = "sent", !.sentAt = TRUE]]
             /\ req' = [req EXCEPT ![m] = "ended"]
             /\ hits' = hits
    BY <1>0, <2>1, <2>2
       DEF CountInv, CallsAccounted, CallBudget, CopiesAccounted,
           CopyBudget, OrphanOnlyByFault, Orphan, AttemptCalled,
           AttemptAccepted, Recorded, TypeOK,
           Row, tickVars, history, faultVars
  <2>3. CASE /\ row' = row
             /\ req' = [req EXCEPT ![m] = "errored"]
             /\ Fault({m})
    BY <1>0, <2>1, <2>3
       DEF Fault, CountInv, CallsAccounted, CallBudget, CopiesAccounted,
           CopyBudget, OrphanOnlyByFault, Orphan, AttemptCalled,
           AttemptAccepted, Recorded, TypeOK,
           tickVars, history, faultVars
  <2> QED
    BY <1>3, <2>2, <2>3 DEF RequestRecordsSent, NoFault, faultVars
<1>4. ASSUME NEW m \in Messages, RequestRecordsFailed(m)
      PROVE  CountInv'
  <2>1. /\ row[m].status = "queued" /\ row[m].retryCount = 0
        /\ req[m] = "errored"
        /\ req' = [req EXCEPT ![m] = "ended"]
        /\ UNCHANGED <<tickVars, history>>
    BY <1>4 DEF RequestRecordsFailed, RowInv, RequestOwnsRow, TypeOK
  <2>2. CASE /\ row' = [row EXCEPT
                          ![m] = [@ EXCEPT !.status = "failed", !.failedAt = TRUE]]
             /\ hits' = hits
    BY <1>0, <2>1, <2>2
       DEF CountInv, CallsAccounted, CallBudget, CopiesAccounted,
           CopyBudget, OrphanOnlyByFault, Orphan, AttemptCalled,
           AttemptAccepted, Recorded, TypeOK,
           Row, tickVars, history, faultVars
  <2>3. CASE row' = row /\ Fault({m})
    BY <1>0, <2>1, <2>3
       DEF Fault, CountInv, CallsAccounted, CallBudget, CopiesAccounted,
           CopyBudget, OrphanOnlyByFault, Orphan, AttemptCalled,
           AttemptAccepted, Recorded, TypeOK,
           tickVars, history, faultVars
  <2> QED
    BY <1>4, <2>2, <2>3 DEF RequestRecordsFailed, NoFault, faultVars
<1>5. ASSUME NEW m \in Messages, BackoffElapses(m)
      PROVE  CountInv'
  BY <1>5, <1>0 DEF BackoffElapses, CountInv, CallsAccounted, CallBudget, CopiesAccounted, CopyBudget,
     OrphanOnlyByFault, Orphan, AttemptCalled, AttemptAccepted, Recorded,
     TypeOK, Row,
     tickVars, history, faultVars
<1>6. ASSUME NEW t \in RetryTicks, RetryTickFires(t)
      PROVE  CountInv'
  BY <1>6, <1>0 DEF RetryTickFires, CountInv, CallsAccounted, CallBudget, CopiesAccounted, CopyBudget,
     OrphanOnlyByFault, Orphan, AttemptCalled, AttemptAccepted, Recorded,
     TypeOK, history, faultVars
<1>7. ASSUME NEW t \in RetryTicks, NEW m \in Messages, AttemptReads(t, m)
      PROVE  CountInv'
  BY <1>7, <1>0 DEF AttemptReads, CountInv, CallsAccounted, CallBudget, CopiesAccounted, CopyBudget,
     OrphanOnlyByFault, Orphan, AttemptCalled, AttemptAccepted, Recorded,
     TypeOK, history, faultVars
<1>8. ASSUME NEW t \in RetryTicks, NEW m \in Messages, AttemptSkips(t, m)
      PROVE  CountInv'
  BY <1>8, <1>0 DEF AttemptSkips, NextIteration, CountInv, CallsAccounted, CallBudget, CopiesAccounted, CopyBudget,
     OrphanOnlyByFault, Orphan, AttemptCalled, AttemptAccepted, Recorded,
     TypeOK, RowInv, TickOwnsRows, Retryable, history, faultVars
<1>9. ASSUME NEW t \in RetryTicks, AttemptCalls(t)
      PROVE  CountInv'
  <2> DEFINE m == current[t]
  <2>1. /\ m \in Messages
        /\ Retryable(m)
        /\ ~AttemptCalled(m) /\ ~AttemptAccepted(m)
        /\ UNCHANGED <<row, req, current>>
    BY <1>9 DEF AttemptCalls, AttemptCalled, AttemptAccepted, RowInv,
       TickOwnsRows, NonOverlap, TypeOK
  <2>2. req[m] = "ended"
    BY <2>1 DEF RowInv, RequestOwnsRow, Retryable, TypeOK, ReqPc
  <2>3. /\ calls[m] <= 1 + row[m].retryCount + hits[m]
        /\ row[m].retryCount < RETRY_LIMIT
        /\ accepted[m] <= hits[m]
    BY <2>1, <2>2 DEF CountInv, CallsAccounted, CopiesAccounted, Retryable,
       Recorded
  <2> HIDE DEF m
  <2>4. CASE /\ calls' = [calls EXCEPT ![m] = @ + 1]
             /\ accepted' = [accepted EXCEPT ![m] = @ + 1]
             /\ tickPc' = [tickPc EXCEPT ![t] = "accepted"]
             /\ hits' = hits
    BY <1>0, <2>1, <2>2, <2>3, <2>4
       DEF CountInv, CallsAccounted, CallBudget, CopiesAccounted,
           CopyBudget, OrphanOnlyByFault, Orphan, AttemptCalled,
           AttemptAccepted, Recorded, TypeOK,
           Retryable, NonOverlap, m
  <2>5. CASE /\ calls' = [calls EXCEPT ![m] = @ + 1]
             /\ accepted' = accepted
             /\ tickPc' = [tickPc EXCEPT ![t] = "errored"]
             /\ hits' = hits
    BY <1>0, <2>1, <2>2, <2>3, <2>5
       DEF CountInv, CallsAccounted, CallBudget, CopiesAccounted,
           CopyBudget, OrphanOnlyByFault, Orphan, AttemptCalled,
           AttemptAccepted, Recorded, TypeOK,
           Retryable, NonOverlap, m
  <2>6. CASE /\ calls' = [calls EXCEPT ![m] = @ + 1]
             /\ accepted' = [accepted EXCEPT ![m] = @ + 1]
             /\ tickPc' = [tickPc EXCEPT ![t] = "errored"]
             /\ Fault({m})
    BY <1>0, <2>1, <2>2, <2>3, <2>6
       DEF Fault, CountInv, CallsAccounted, CallBudget, CopiesAccounted,
           CopyBudget, OrphanOnlyByFault, Orphan, AttemptCalled,
           AttemptAccepted, Recorded, TypeOK,
           Retryable, NonOverlap, m
  <2> QED
    BY <1>9, <2>4, <2>5, <2>6 DEF AttemptCalls, ProviderTakes,
       ProviderRefuses, Called, NoFault, faultVars, m
<1>10. ASSUME NEW t \in RetryTicks, AttemptRecordsSent(t)
      PROVE  CountInv'
  BY <1>10, <1>0 DEF AttemptRecordsSent, NextIteration, CountInv, CallsAccounted, CallBudget, CopiesAccounted, CopyBudget,
     OrphanOnlyByFault, Orphan, AttemptCalled, AttemptAccepted, Recorded,
     TypeOK, Row,
     RowInv, TickOwnsRows, Retryable, NonOverlap, history, faultVars
<1>11. ASSUME NEW t \in RetryTicks, AttemptUpdateThrows(t)
      PROVE  CountInv'
  BY <1>11, <1>0 DEF AttemptUpdateThrows, Fault, CountInv, CallsAccounted, CallBudget, CopiesAccounted, CopyBudget,
     OrphanOnlyByFault, Orphan, AttemptCalled, AttemptAccepted, Recorded,
     TypeOK,
     RowInv, TickOwnsRows, Retryable, NonOverlap, history, faultVars
<1>12. ASSUME NEW t \in RetryTicks, AttemptRecordsFailed(t)
      PROVE  CountInv'
  <2> DEFINE m == current[t]
             r == [row[m] EXCEPT !.status = "failed", !.failedAt = TRUE,
                                 !.retryCount = seen[t] + 1,
                                 !.nextRetryAt = "ahead"]
  <2>1. /\ m \in Messages
        /\ tickPc[t] = "errored"
        /\ Retryable(m)
        /\ seen[t] = row[m].retryCount
        /\ row' = [row EXCEPT ![m] = r]
        /\ UNCHANGED <<req, calls, accepted, hits>>
        /\ ~AttemptAccepted(m)
    BY <1>12 DEF AttemptRecordsFailed, AttemptAccepted, RowInv, TickOwnsRows,
       NonOverlap, TypeOK, history, faultVars
  <2>2. r.status = "failed" /\ r.retryCount = row[m].retryCount + 1
    BY <2>1 DEF TypeOK, Row
  <2>3. req[m] = "ended"
    BY <2>1 DEF RowInv, RequestOwnsRow, Retryable, TypeOK, ReqPc
  <2>4. calls[m] <= 2 + row[m].retryCount + hits[m] /\ accepted[m] <= hits[m]
    BY <2>1, <2>3 DEF CountInv, CallsAccounted, CopiesAccounted, Retryable,
       Recorded
  <2>5. \A n \in Messages : n # m => ~AttemptCalled(n) /\ ~AttemptAccepted(n)
    BY <1>12 DEF AttemptCalled, AttemptAccepted, NonOverlap
  <2> HIDE DEF m, r
  <2> QED
    BY <1>0, <2>1, <2>2, <2>3, <2>4, <2>5
       DEF CountInv, CallsAccounted, CallBudget, CopiesAccounted, CopyBudget,
           OrphanOnlyByFault, Orphan, Recorded, TypeOK
<1>13. ASSUME NEW t \in RetryTicks, RetryTickDies(t)
      PROVE  CountInv'
  BY <1>13, <1>0 DEF RetryTickDies, NextIteration, Fault, CountInv, CallsAccounted, CallBudget, CopiesAccounted, CopyBudget,
     OrphanOnlyByFault, Orphan, AttemptCalled, AttemptAccepted, Recorded,
     TypeOK,
     RowInv, TickOwnsRows, Retryable, NonOverlap, history, faultVars
<1>14. ASSUME NEW s \in SimTicks, SimTickFires(s)
      PROVE  CountInv'
  BY <1>14, <1>0 DEF SimTickFires, CountInv, CallsAccounted, CallBudget, CopiesAccounted, CopyBudget,
     OrphanOnlyByFault, Orphan, AttemptCalled, AttemptAccepted, Recorded,
     TypeOK, tickVars, history, faultVars
<1>15. ASSUME NEW s \in SimTicks, NEW m \in Messages, SimRecordsDelivered(s, m)
      PROVE  CountInv'
  BY <1>15, <1>0 DEF SimRecordsDelivered, CountInv, CallsAccounted, CallBudget, CopiesAccounted, CopyBudget,
     OrphanOnlyByFault, Orphan, AttemptCalled, AttemptAccepted, Recorded,
     TypeOK, Row,
     RowInv, SimOwnsRows, tickVars, history, faultVars
<1>16. ASSUME NEW s \in SimTicks, SimTickDies(s)
      PROVE  CountInv'
  BY <1>16, <1>0 DEF SimTickDies, Fault, CountInv, CallsAccounted, CallBudget, CopiesAccounted, CopyBudget,
     OrphanOnlyByFault, Orphan, AttemptCalled, AttemptAccepted, Recorded,
     TypeOK, tickVars, history, faultVars
<1>17. CASE Crash
  <2>1. /\ UNCHANGED <<row, calls, accepted>>
        /\ req' = [m \in Messages |->
                      IF req[m] = "idle" THEN "idle" ELSE "ended"]
        /\ current' = [t \in RetryTicks |-> NoMsg]
    BY <1>17 DEF Crash, history
  <2>2. \A m \in Messages :
           hits'[m] = IF m \in Requested \cup Attempted
                      THEN hits[m] + 1 ELSE hits[m]
    BY <1>17 DEF Crash, Fault
  <2>3. \A m \in Messages :
           /\ req[m] \in {"calling", "accepted", "errored"} => m \in Requested
           /\ AttemptCalled(m) \/ AttemptAccepted(m) => m \in Attempted
    BY DEF Requested, Attempted, AttemptCalled, AttemptAccepted
  <2>4. \A m \in Messages : ~AttemptCalled(m)' /\ ~AttemptAccepted(m)'
    BY <2>1, ConstantsAssumption DEF AttemptCalled, AttemptAccepted
  <2>5. \A m \in Messages :
           req[m] \in {"idle", "calling", "accepted", "errored", "ended"}
    BY DEF TypeOK, ReqPc
  <2> HIDE DEF Requested, Attempted, AttemptCalled, AttemptAccepted
  <2> QED
    BY <1>0, <2>1, <2>2, <2>3, <2>4, <2>5, SMTT(30)
       DEF CountInv, CallsAccounted, CallBudget, CopiesAccounted, CopyBudget,
           OrphanOnlyByFault, Orphan, Recorded
<1>18. CASE UNCHANGED vars
  BY <1>18 DEF vars, CountInv, CallsAccounted, CallBudget, CopiesAccounted,
     CopyBudget, OrphanOnlyByFault, Orphan, AttemptCalled, AttemptAccepted,
     Recorded
<1> QED
  BY <1>1, <1>2, <1>3, <1>4, <1>5, <1>6, <1>7, <1>8, <1>9, <1>10, <1>11,
     <1>12, <1>13, <1>14, <1>15, <1>16, <1>17, <1>18
     DEF Next, RequestStep, AttemptStep, SimStep

----------------------------------------------------------------------------
(* The theorems *)

LEMMA DeliveryInvParts ==
    DeliveryInv <=> HonestInv /\ RowInv /\ CountInv
BY DEF DeliveryInv, HonestInv, RowInv, CountInv

\* One execution of the retry job at a time: stamps agree with the status,
\* the retry count stays within RETRY_LIMIT, every provider call and every
\* copy is accounted for, and only a fault of its own sendManual call orphans a
\* queued record.
THEOREM SingleTickSafety ==
    ASSUME NonOverlap
    PROVE  Spec => []DeliveryInv
<1>1. Init => DeliveryInv
  BY HonestInit, RowInit, CountInit, DeliveryInvParts
<1>2. TypeOK /\ DeliveryInv /\ [Next]_vars => DeliveryInv'
  <2> SUFFICES ASSUME TypeOK, DeliveryInv, [Next]_vars
               PROVE  DeliveryInv'
    OBVIOUS
  <2>1. HonestInv /\ RowInv /\ CountInv
    BY DeliveryInvParts
  <2>2. HonestInv'  BY <2>1, HonestStep
  <2>3. RowInv'  BY <2>1, RowStep
  <2>4. CountInv'  BY <2>1, CountStep
  <2> QED
    BY <2>2, <2>3, <2>4 DEF DeliveryInv, HonestInv, RowInv, CountInv
<1> QED BY <1>1, <1>2, TypeCorrect, PTL DEF Spec

\* What a reader asks of one message: the calls and the copies it may cost.
THEOREM SingleTickBudgets ==
    ASSUME NonOverlap
    PROVE  Spec => [](RetryLimitHolds /\ CallBudget /\ CopyBudget)
<1>1. DeliveryInv => RetryLimitHolds /\ CallBudget /\ CopyBudget
  BY DEF DeliveryInv
<1> QED BY <1>1, SingleTickSafety, PTL

\* The provider takes a message twice only because of a fault that hit it: an update that
\* failed after it had accepted, or a crash there.
THEOREM SingleTickCopies ==
    ASSUME NonOverlap
    PROVE  Spec => []CopyBudget
<1>1. DeliveryInv => CopyBudget
  BY DEF DeliveryInv
<1> QED BY <1>1, SingleTickSafety, PTL

\* A record that stays queued with nobody left to send it is the work of a
\* fault that hit its own sendManual call: no order of calls and ticks alone
\* strands a message.
THEOREM SingleTickOrphans ==
    ASSUME NonOverlap
    PROVE  Spec => []OrphanOnlyByFault
<1>1. DeliveryInv => OrphanOnlyByFault
  BY DEF DeliveryInv
<1> QED BY <1>1, SingleTickSafety, PTL

\* The time stamps of a record agree with its status.
THEOREM SingleTickStamps ==
    ASSUME NonOverlap
    PROVE  Spec => []StampsMatchStatus
<1>1. DeliveryInv => StampsMatchStatus
  BY DEF DeliveryInv
<1> QED BY <1>1, SingleTickSafety, PTL

\* No attempt is made during the backoff or beyond the retry limit, although
\* attemptSend checks neither.
THEOREM SingleTickBackoff ==
    ASSUME NonOverlap
    PROVE  Spec => BackoffRespected
<1>1. ASSUME TypeOK, DeliveryInv
      PROVE  \A t \in RetryTicks :
                tickPc[t] = "read" /\ calls'[current[t]] > calls[current[t]]
                  => Retryable(current[t])
  BY <1>1 DEF DeliveryInv, TickOwnsRows, TypeOK
<1> QED BY <1>1, TypeCorrect, SingleTickSafety, PTL DEF BackoffRespected

\* An outcome is revised only by an attempt that outlived it, and that takes
\* an overlap: without one the row under attempt is still failed.
THEOREM RevisedOnlyLate == Spec => OutcomeRevisedLate
<1> DEFINE Late ==
      \A m \in Messages :
          /\ Recorded(m)
          /\ row'[m].status \notin {row[m].status, "delivered"}
          => /\ ~NonOverlap
             /\ \E t \in RetryTicks :
                   /\ current[t] = m /\ current'[t] = NoMsg
                   /\ tickPc[t] \in {"accepted", "errored"}
<1>1. CASE NonOverlap
  <2>1. TypeOK /\ OwnInv /\ DeliveryInv /\ [Next]_vars => Late
    <3> SUFFICES ASSUME TypeOK, OwnInv, DeliveryInv, [Next]_vars,
                        NEW m \in Messages, Recorded(m),
                        row'[m].status \notin {row[m].status, "delivered"}
                 PROVE  FALSE
      OBVIOUS
    <3>1. PICK t \in RetryTicks : current[t] = m
      BY RevisedByAttempt
    <3>2. Retryable(m)
      BY <3>1, ConstantsAssumption DEF DeliveryInv, TickOwnsRows
    <3> QED BY <3>2 DEF Retryable, Recorded
  <2> HIDE DEF Late
  <2>2. Spec => [][Late]_vars
    BY <1>1, <2>1, TypeCorrect, OwnHolds, SingleTickSafety, PTL DEF Spec
  <2> USE DEF Late
  <2> QED BY <2>2 DEF OutcomeRevisedLate
<1>2. CASE ~NonOverlap
  <2>1. TypeOK /\ OwnInv /\ [Next]_vars => Late
    BY <1>2, RevisedByAttempt
  <2> HIDE DEF Late
  <2>2. Spec => [][Late]_vars
    BY <2>1, TypeCorrect, OwnHolds, PTL DEF Spec
  <2> USE DEF Late
  <2> QED BY <2>2 DEF OutcomeRevisedLate
<1> QED BY <1>1, <1>2

----------------------------------------------------------------------------
(* The refinement *)

LEMMA OneRowChanges ==
    ASSUME NEW m \in Messages, \A n \in Messages : n # m => row'[n] = row[n]
    PROVE  outcomeBar' = [outcomeBar EXCEPT ![m] = OutcomeOf(m)']
BY DEF outcomeBar, OutcomeOf, Recorded

LEMMA NoRowChanges ==
    ASSUME row' = row
    PROVE  outcomeBar' = outcomeBar
BY DEF outcomeBar, OutcomeOf, Recorded

LEMMA OutcomeStays ==
    ASSUME NEW m \in Messages, \A n \in Messages : n # m => row'[n] = row[n],
           OutcomeOf(m)' = OutcomeOf(m)
    PROVE  outcomeBar' = outcomeBar
<1>1. \A n \in Messages : n # m => OutcomeOf(n)' = OutcomeOf(n)
  BY DEF OutcomeOf, Recorded
<1>2. \A n \in Messages : OutcomeOf(n)' = OutcomeOf(n)
  BY <1>1
<1> QED BY <1>2 DEF outcomeBar

LEMMA OutboxStart == Init => O!OutboxInit
BY DEF Init, O!OutboxInit, outcomeBar, OutcomeOf, Recorded, NoRow

\* Every step of the component is a step of the outbox or leaves it alone.
LEMMA OutboxStep ==
    ASSUME NonOverlap, TypeOK, DeliveryInv, [Next]_vars
    PROVE  [O!OutboxNext]_(O!outboxVars)
<1> DEFINE Outbox == O!OutboxNext \/ UNCHANGED <<outcomeBar, accepted>>
<1> SUFFICES Outbox
  BY DEF O!outboxVars
<1>0. /\ TypeOK'
      /\ HonestInv /\ HonestInv' /\ RowInv
      /\ RETRY_LIMIT \in Nat
      /\ \A m \in Messages : row[m] \in Row /\ outcomeBar[m] = OutcomeOf(m)
  BY NextTypeOK, DeliveryInvParts, HonestStep, ConstantsAssumption
     DEF TypeOK, outcomeBar
<1>1. ASSUME NEW m \in Messages, CreateRecord(m)
      PROVE  Outbox
  <2>1. OutcomeOf(m) = "none" /\ OutcomeOf(m)' = "open"
    BY <1>0, <1>1 DEF CreateRecord, OutcomeOf, Recorded, RowInv,
       RequestOwnsRow, TypeOK, Row
  <2>2. outcomeBar' = [outcomeBar EXCEPT ![m] = "open"]
    BY <1>1, <2>1, OneRowChanges DEF CreateRecord, TypeOK
  <2>3. O!Submit(m)
    BY <1>0, <1>1, <2>1, <2>2 DEF CreateRecord, history, O!Submit
  <2> QED BY <2>3 DEF O!OutboxNext
<1>2. ASSUME NEW m \in Messages, ProviderTakes(m), row' = row,
             OutcomeOf(m) = "open"
      PROVE  Outbox
  <2>1. O!HandOver(m)
    BY <1>0, <1>2, NoRowChanges DEF ProviderTakes, O!HandOver
  <2> QED BY <2>1 DEF O!OutboxNext
<1>3. ASSUME row' = row, accepted' = accepted
      PROVE  Outbox
  BY <1>3, NoRowChanges
<1>4. ASSUME NEW m \in Messages, NEW r \in Row, row' = [row EXCEPT ![m] = r],
             OutcomeOf(m) = "open", r.status = "sent", accepted[m] > 0,
             accepted' = accepted
      PROVE  Outbox
  <2>1. OutcomeOf(m)' = "accepted"
    BY <1>4 DEF OutcomeOf, Recorded, TypeOK
  <2>2. outcomeBar' = [outcomeBar EXCEPT ![m] = "accepted"]
    BY <1>4, <2>1, OneRowChanges DEF TypeOK
  <2>3. O!Accept(m)
    BY <1>0, <1>4, <2>2 DEF O!Accept
  <2> QED BY <2>3 DEF O!OutboxNext
<1>5. ASSUME NEW m \in Messages, NEW r \in Row, row' = [row EXCEPT ![m] = r],
             OutcomeOf(m) = "open", r.status = "failed", accepted' = accepted
      PROVE  Outbox
  <2>1. OutcomeOf(m)' \in {"open", "abandoned"}
    BY <1>4, <1>5 DEF OutcomeOf, Recorded, TypeOK
  <2>2. outcomeBar' = [outcomeBar EXCEPT ![m] = OutcomeOf(m)']
    BY <1>5, OneRowChanges DEF TypeOK
  <2>3. CASE OutcomeOf(m)' = "open"
    <3>1. outcomeBar' = outcomeBar
      BY <1>0, <1>5, <2>2, <2>3 DEF outcomeBar
    <3> QED BY <1>5, <3>1
  <2>4. CASE OutcomeOf(m)' = "abandoned"
    <3>1. O!Abandon(m)
      BY <1>0, <1>5, <2>2, <2>4 DEF O!Abandon
    <3> QED BY <3>1 DEF O!OutboxNext
  <2> QED BY <2>1, <2>3, <2>4
<1>6. ASSUME NEW m \in Messages, NEW r \in Row, row' = [row EXCEPT ![m] = r],
             Recorded(m), r.status = "delivered", accepted' = accepted
      PROVE  Outbox
  <2>1. OutcomeOf(m)' = OutcomeOf(m)
    BY <1>0, <1>6 DEF OutcomeOf, Recorded, TypeOK
  <2>2. outcomeBar' = outcomeBar
    BY <1>6, <2>1, OutcomeStays DEF TypeOK
  <2> QED BY <1>6, <2>2
<1>7. ASSUME NEW m \in Messages, row[m].status = "queued" \/ Retryable(m)
      PROVE  OutcomeOf(m) = "open"
  <2>1. row[m].retryCount \in Nat
    BY <1>0 DEF Row
  <2> QED
    BY <1>0, <1>7, <2>1 DEF OutcomeOf, Recorded, Retryable
<1>8. ASSUME NEW m \in Messages, req[m] \in {"calling", "accepted", "errored"}
      PROVE  OutcomeOf(m) = "open"
  BY <1>0, <1>7, <1>8 DEF RowInv, RequestOwnsRow
<1>9. ASSUME NEW t \in RetryTicks, tickPc[t] \in {"read", "accepted", "errored"}
      PROVE  current[t] \in Messages /\ OutcomeOf(current[t]) = "open"
  BY <1>0, <1>7, <1>9, SMTT(30) DEF RowInv, TickOwnsRows, TypeOK
<1>10. ASSUME NEW m \in Messages, RequestStep(m)
       PROVE  Outbox
  <2>1. CASE RequestCalls(m)
    BY <1>2, <1>3, <1>8, <2>1 DEF RequestCalls, ProviderRefuses
  <2>2. CASE RequestRecordsSent(m)
    <3> DEFINE r == [row[m] EXCEPT !.status = "sent", !.sentAt = TRUE]
    <3>1. accepted[m] > 0 /\ OutcomeOf(m) = "open" /\ accepted' = accepted
      BY <1>0, <1>8, <2>2 DEF RequestRecordsSent, HonestInv,
         WritersHoldCopy, history
    <3>2. r \in Row /\ r.status = "sent"
      BY <1>0, UpdatedRow DEF Row
    <3>3. row' = row \/ row' = [row EXCEPT ![m] = r]
      BY <2>2 DEF RequestRecordsSent
    <3> HIDE DEF r
    <3> QED BY <1>3, <1>4, <3>1, <3>2, <3>3
  <2>3. CASE RequestRecordsFailed(m)
    <3> DEFINE r == [row[m] EXCEPT !.status = "failed", !.failedAt = TRUE]
    <3>1. OutcomeOf(m) = "open" /\ accepted' = accepted
      BY <1>0, <1>8, <2>3 DEF RequestRecordsFailed, history
    <3>2. r \in Row /\ r.status = "failed"
      BY <1>0, UpdatedRow DEF Row
    <3>3. row' = row \/ row' = [row EXCEPT ![m] = r]
      BY <2>3 DEF RequestRecordsFailed
    <3> HIDE DEF r
    <3> QED BY <1>3, <1>5, <3>1, <3>2, <3>3
  <2> QED BY <1>10, <2>1, <2>2, <2>3 DEF RequestStep
<1>11. ASSUME NEW m \in Messages, BackoffElapses(m)
       PROVE  Outbox
  <2>1. OutcomeOf(m)' = OutcomeOf(m)
    BY <1>0, <1>11 DEF BackoffElapses, OutcomeOf, Recorded, TypeOK, Row
  <2>2. outcomeBar' = outcomeBar
    BY <1>11, <2>1, OutcomeStays DEF BackoffElapses, TypeOK
  <2> QED BY <1>11, <2>2 DEF BackoffElapses, history
<1>12. ASSUME NEW t \in RetryTicks, AttemptStep(t)
       PROVE  Outbox
  <2>1. CASE AttemptCalls(t)
    BY <1>2, <1>3, <1>9, <2>1 DEF AttemptCalls, ProviderRefuses
  <2>2. CASE AttemptRecordsSent(t)
    <3> DEFINE r == [row[current[t]] EXCEPT
                        !.status = "sent", !.sentAt = TRUE,
                        !.failedAt = FALSE, !.nextRetryAt = "null"]
    <3>1. /\ current[t] \in Messages
          /\ accepted[current[t]] > 0
          /\ OutcomeOf(current[t]) = "open"
          /\ accepted' = accepted
      BY <1>0, <1>9, <2>2 DEF AttemptRecordsSent, HonestInv,
         WritersHoldCopy, history
    <3>2. r \in Row /\ r.status = "sent"
      <4>1. r \in Row  BY <1>0, <3>1, UpdatedRow
      <4>2. r.status = "sent"  BY <1>0, <3>1 DEF Row
      <4> QED BY <4>1, <4>2
    <3>3. row' = [row EXCEPT ![current[t]] = r]
      BY <2>2 DEF AttemptRecordsSent
    <3> HIDE DEF r
    <3> QED BY <1>4, <3>1, <3>2, <3>3
  <2>3. CASE AttemptRecordsFailed(t)
    <3> DEFINE r == [row[current[t]] EXCEPT
                        !.status = "failed", !.failedAt = TRUE,
                        !.retryCount = seen[t] + 1, !.nextRetryAt = "ahead"]
    <3>1. /\ current[t] \in Messages
          /\ OutcomeOf(current[t]) = "open"
          /\ accepted' = accepted
      BY <1>9, <2>3 DEF AttemptRecordsFailed, history
    <3>2. r \in Row /\ r.status = "failed"
      <4>1. seen[t] + 1 \in Nat  BY DEF TypeOK
      <4> QED BY <1>0, <3>1, <4>1, UpdatedRow, ZenonT(30) DEF Row
    <3>3. row' = [row EXCEPT ![current[t]] = r]
      BY <2>3 DEF AttemptRecordsFailed
    <3> HIDE DEF r
    <3> QED BY <1>5, <3>1, <3>2, <3>3
  <2>4. CASE row' = row /\ accepted' = accepted
    BY <1>3, <2>4
  <2> QED
    BY <1>12, <2>1, <2>2, <2>3, <2>4 DEF AttemptStep, AttemptReads,
       AttemptSkips, AttemptUpdateThrows, history
<1>13. ASSUME NEW s \in SimTicks, NEW m \in Messages, SimRecordsDelivered(s, m)
       PROVE  Outbox
  <2> DEFINE r == [row[m] EXCEPT !.status = "delivered", !.deliveredAt = TRUE]
  <2>1. r \in Row /\ r.status = "delivered"
    BY <1>0 DEF Row, Status
  <2>2. Recorded(m) /\ row' = [row EXCEPT ![m] = r] /\ accepted' = accepted
    BY <1>0, <1>13 DEF SimRecordsDelivered, RowInv, SimOwnsRows, history
  <2> HIDE DEF r
  <2> QED BY <1>6, <2>1, <2>2
<1>14. CASE row' = row /\ accepted' = accepted
  BY <1>3, <1>14
<1> QED
  BY <1>1, <1>10, <1>11, <1>12, <1>13, <1>14
     DEF Next, vars, RetryTickFires, RetryTickDies, SimTickFires, SimStep,
         SimTickDies, Crash, history

\* Without overlap the component keeps the outbox's promise: no provider call
\* for a message whose outcome is recorded, and no outcome is revised.
THEOREM SingleTickImplementsOutbox ==
    ASSUME NonOverlap
    PROVE  Spec => ImplementsOutbox
<1>1. Init => O!OutboxInit  BY OutboxStart
<1>2. TypeOK /\ DeliveryInv /\ [Next]_vars => [O!OutboxNext]_(O!outboxVars)
  BY OutboxStep
<1> QED
  BY <1>1, <1>2, TypeCorrect, SingleTickSafety, PTL
     DEF Spec, ImplementsOutbox, O!OutboxSpec
=============================================================================
