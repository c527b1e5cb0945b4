---------------------------- MODULE TasksProofs ----------------------------
(***************************************************************************)
(* Proofs about Tasks, for any number of tasks: the types, the agreement   *)
(* of status and completedAt however calls overlap, and that as long as    *)
(* those about one task do not, they implement TaskLifecycle and leave an  *)
(* audit trail that explains the task.                                     *)
(***************************************************************************)
EXTENDS Tasks, TLAPS

LEMMA TableType ==
    /\ Status = {"todo", "in_progress", "done", "canceled"}
    /\ \A s \in Status : Allowed[s] \subseteq Status
    /\ Lifecycle!NoTask \in Row
    /\ Lifecycle!NoTask.status = "todo" /\ ~Lifecycle!NoTask.completed
BY DEF Status, Allowed, Row, Lifecycle!Status, Lifecycle!Allowed,
       Lifecycle!NoTask

LEMMA NoCallApart == NoCall \notin Call
BY TasksAssumption, TableType DEF Call

----------------------------------------------------------------------------
(* Types *)

LEMMA InitType == Init => TypeOK
BY TableType, NoCallApart, TasksAssumption DEF Init, TypeOK

LEMMA EnterType ==
    ASSUME TypeOK, NEW p \in Procs, NEW k \in TaskIds,
           NEW action \in Actions,
           NEW from \in Status, NEW to \in Status,
           Enter(p, action, k, from, to)
    PROVE  TypeOK'
<1>1. [action |-> action, id |-> k, from |-> from, to |-> to] \in Call
  BY DEF Call
<1> QED
  BY <1>1, NoCallApart DEF Enter, TypeOK

LEMMA WriteType ==
    ASSUME TypeOK, NEW p \in Procs, NEW action, NEW r \in Row,
           Write(p, action, r)
    PROVE  TypeOK'
BY DEF Write, TypeOK, Call

\* The three writes put a row in the place of the one the call is about.
LEMMA Writes ==
    ASSUME TypeOK, NEW p \in Procs,
           \/ WritesCreate(p) \/ WritesUpdate(p)
           \/ WritesStatus(p) \/ WritesDelete(p)
    PROVE  /\ pc[p] = "write" /\ call[p] \in Call
           /\ call[p].id \in TaskIds /\ call[p].to \in Status
           /\ Own(p) \in Row
BY NoCallApart
   DEF WritesCreate, WritesUpdate, WritesStatus, WritesDelete, Write, TypeOK, Call, Own

LEMMA WrittenRow ==
    ASSUME NEW r \in Row, NEW s \in Status
    PROVE  /\ [Lifecycle!NoTask EXCEPT !.exists = TRUE] \in Row
           /\ [r EXCEPT !.status = s, !.completed = (s = "done")] \in Row
           /\ [r EXCEPT !.deleted = TRUE] \in Row
BY TableType DEF Row

LEMMA NextType == TypeOK /\ [Next]_vars => TypeOK'
<1> SUFFICES ASSUME TypeOK, [Next]_vars
             PROVE  TypeOK'
  OBVIOUS
<1>1. ASSUME NEW p \in Procs, NEW k \in TaskIds,
             \/ CallCreate(p, k)
             \/ \E to \in Status : CallStatus(p, k, to)
             \/ CallUpdate(p, k) \/ CallDelete(p, k)
      PROVE  TypeOK'
  <2>1. row[k].status \in Status /\ "todo" \in Status
    BY TableType DEF TypeOK, Row
  <2> QED
    BY <1>1, <2>1, EnterType
       DEF CallCreate, CallUpdate, CallStatus, CallDelete, Actions
<1>2. ASSUME NEW p \in Procs,
             \/ WritesCreate(p) \/ WritesUpdate(p)
             \/ WritesStatus(p) \/ WritesDelete(p)
      PROVE  TypeOK'
  BY <1>2, Writes, WrittenRow, WriteType
     DEF WritesCreate, WritesUpdate, WritesStatus, WritesDelete
<1>3. ASSUME NEW p \in Procs, Audits(p) \/ AuditLost(p) \/ Fails(p)
      PROVE  TypeOK'
  <2>1. call[p] \in Call /\ call[p].id \in TaskIds
    BY <1>3 DEF Audits, AuditLost, Fails, TypeOK, Call
  <2>2. Append(trail[call[p].id], call[p]) \in Seq(Call)
    BY <2>1 DEF TypeOK
  <2>3. trail' \in [TaskIds -> Seq(Call)]
    BY <1>3, <2>1, <2>2 DEF Audits, AuditLost, Fails, TypeOK
  <2>4. lost' \in [TaskIds -> 0 .. MaxFaults]
    <3>1. CASE AuditLost(p)
      <4>1. lost[call[p].id] + 1 \in 0 .. MaxFaults
        BY <2>1, <3>1, TasksAssumption DEF AuditLost, TypeOK
      <4> QED
        BY <3>1, <4>1 DEF AuditLost, TypeOK
    <3> QED
      BY <1>3, <3>1 DEF Audits, Fails, TypeOK
  <2>5. /\ pc' = [pc EXCEPT ![p] = "idle"]
        /\ call' = [call EXCEPT ![p] = NoCall]
        /\ UNCHANGED row
    BY <1>3 DEF Audits, AuditLost, Fails, Leave
  <2> QED
    BY <2>3, <2>4, <2>5 DEF TypeOK
<1>4. CASE UNCHANGED vars
  BY <1>4 DEF vars, TypeOK
<1> QED
  BY <1>1, <1>2, <1>3, <1>4 DEF Next

\* Every variable keeps its type; a call under way is a call of the service.
THEOREM TypeCorrect == Spec => []TypeOK
BY InitType, NextType, PTL DEF Spec

----------------------------------------------------------------------------
(* completedAt *)

\* However many calls overlap, a task has a completedAt exactly while it is
\* done: every write that touches one of the two writes both.
THEOREM CompletedAgrees == Spec => []CompletedIffDone
<1>1. Init => CompletedIffDone
  BY TableType DEF Init, CompletedIffDone
<1>2. TypeOK /\ CompletedIffDone /\ [Next]_vars => CompletedIffDone'
  <2> SUFFICES ASSUME TypeOK, CompletedIffDone, [Next]_vars
               PROVE  CompletedIffDone'
    OBVIOUS
  <2>1. CASE UNCHANGED row
    BY <2>1 DEF CompletedIffDone
  <2>2. ASSUME NEW p \in Procs,
               \/ WritesCreate(p) \/ WritesUpdate(p)
               \/ WritesStatus(p) \/ WritesDelete(p)
        PROVE  CompletedIffDone'
    <3>1. PICK r : /\ row' = [row EXCEPT ![call[p].id] = r]
                   /\ r.completed <=> r.status = "done"
      <4>1. CASE WritesCreate(p)
        <5> DEFINE r == [Lifecycle!NoTask EXCEPT !.exists = TRUE]
        <5>1. r.completed <=> r.status = "done"
          BY DEF Lifecycle!NoTask
        <5> QED
          BY <4>1, <5>1 DEF WritesCreate, Write
      <4>2. CASE WritesStatus(p)
        <5> DEFINE r == [Own(p) EXCEPT !.status = call[p].to,
                                       !.completed = (call[p].to = "done")]
        <5>1. r.completed <=> r.status = "done"
          BY <4>2, Writes DEF Row
        <5> QED
          BY <4>2, <5>1 DEF WritesStatus, Write
      <4>3. CASE WritesDelete(p)
        <5> DEFINE r == [Own(p) EXCEPT !.deleted = TRUE]
        <5>1. Own(p) \in Row /\ (Own(p).completed <=> Own(p).status = "done")
          BY <4>3, Writes DEF CompletedIffDone, Own
        <5>2. r.completed <=> r.status = "done"
          BY <5>1 DEF Row
        <5> QED
          BY <4>3, <5>2 DEF WritesDelete, Write
      <4>4. CASE WritesUpdate(p)
        <5>1. Own(p).completed <=> Own(p).status = "done"
          BY <4>4, Writes DEF CompletedIffDone, Own
        <5> QED
          BY <4>4, <5>1 DEF WritesUpdate, Write
      <4> QED
        BY <2>2, <4>1, <4>2, <4>3, <4>4
    <3> QED
      BY <3>1, <2>2, Writes DEF CompletedIffDone, TypeOK
  <2> QED
    BY <2>1, <2>2
       DEF Next, vars, CallCreate, CallUpdate, CallStatus, CallDelete, Enter,
           Audits, AuditLost, Fails
<1> QED
  BY <1>1, <1>2, TypeCorrect, PTL DEF Spec

----------------------------------------------------------------------------
(* The lifecycle *)

LEMMA ReadsInit == Init => ReadsCurrent
BY DEF Init, ReadsCurrent

LEMMA ReadsEnter ==
    ASSUME TypeOK, ReadsCurrent, NEW p \in Procs, NEW k \in TaskIds,
           \/ CallCreate(p, k)
           \/ \E to \in Status : CallStatus(p, k, to)
           \/ CallUpdate(p, k) \/ CallDelete(p, k)
    PROVE  ReadsCurrent' /\ UNCHANGED row
<1>1. UNCHANGED row
  BY DEF CallCreate, CallUpdate, CallStatus, CallDelete, Enter
<1>2. PICK c : /\ call' = [call EXCEPT ![p] = c]
               /\ c.id = k
               /\ c.action = "create" => ~row[k].exists
               /\ c.action # "create" => Live(k)
               /\ c.action = "status" => c.to \in Allowed[row[k].status]
  <2>1. CASE CallCreate(p, k)
    <3> DEFINE c == [action |-> "create", id |-> k, from |-> "todo", to |-> "todo"]
    <3>1. /\ c.id = k /\ c.action = "create" /\ c.to = "todo"
          /\ call' = [call EXCEPT ![p] = c]
      BY <2>1 DEF CallCreate, Enter
    <3> HIDE DEF c
    <3> QED
      BY <2>1, <3>1 DEF CallCreate
  <2>2. CASE \E to \in Status : CallStatus(p, k, to)
    <3>1. PICK to \in Status : CallStatus(p, k, to)
      BY <2>2
    <3> DEFINE c == [action |-> "status", id |-> k, from |-> row[k].status, to |-> to]
    <3>2. /\ c.id = k /\ c.action = "status" /\ c.to = to
          /\ call' = [call EXCEPT ![p] = c]
      BY <2>2, <3>1 DEF CallStatus, Enter
    <3> HIDE DEF c
    <3> QED
      BY <2>2, <3>1, <3>2 DEF CallStatus, AssertTransition
  <2>3. CASE CallDelete(p, k)
    <3> DEFINE c == [action |-> "delete", id |-> k, from |-> row[k].status, to |-> row[k].status]
    <3>1. /\ c.id = k /\ c.action = "delete" /\ c.to = row[k].status
          /\ call' = [call EXCEPT ![p] = c]
      BY <2>3 DEF CallDelete, Enter
    <3> HIDE DEF c
    <3> QED
      BY <2>3, <3>1 DEF CallDelete
  <2>4. CASE CallUpdate(p, k)
    <3> DEFINE c == [action |-> "update", id |-> k, from |-> row[k].status, to |-> row[k].status]
    <3>1. /\ c.id = k /\ c.action = "update" /\ c.to = row[k].status
          /\ call' = [call EXCEPT ![p] = c]
      BY <2>4 DEF CallUpdate, Enter
    <3> HIDE DEF c
    <3> QED
      BY <2>4, <3>1 DEF CallUpdate
  <2> QED
    BY <2>1, <2>2, <2>3, <2>4
<1>3. /\ call'[p] = c
      /\ \A q \in Procs : q # p => call'[q] = call[q] /\ pc'[q] = pc[q]
  BY <1>2 DEF TypeOK, CallCreate, CallUpdate, CallStatus, CallDelete, Enter
<1> QED
  BY <1>1, <1>2, <1>3 DEF ReadsCurrent, Live

\* A write is a step of the lifecycle, or none for the columns it does not have.
LEMMA WriteRefines ==
    ASSUME Apart, TypeOK, ReadsCurrent, NEW p \in Procs,
           \/ WritesCreate(p) \/ WritesUpdate(p)
           \/ WritesStatus(p) \/ WritesDelete(p)
    PROVE  ReadsCurrent' /\ [Lifecycle!Next]_row
<1> DEFINE k == call[p].id
<1>1. k \in TaskIds /\ pc[p] = "write" /\ Own(p) \in Row /\ Own(p) = row[k]
      /\ call[p].to \in Status
  BY Writes DEF Own
<1>2. /\ UNCHANGED call
      /\ \A q \in Procs : pc'[q] = "write" => pc[q] = "write" /\ call[q].id # k
  BY <1>1 DEF Apart, TypeOK, WritesCreate, WritesUpdate, WritesStatus,
         WritesDelete, Write
<1>7. ASSUME UNCHANGED row \/ \E r : row' = [row EXCEPT ![k] = r],
             \A j \in TaskIds : ~row'[j].exists => row'[j] = Lifecycle!NoTask
      PROVE  ReadsCurrent'
  <2>1. \A j \in TaskIds : j # k => row'[j] = row[j]
    BY <1>7 DEF TypeOK
  <2>2. \A q \in Procs : pc'[q] = "write" => row'[call[q].id] = row[call[q].id]
    BY <1>2, <2>1, NoCallApart DEF TypeOK, Call
  <2> QED
    BY <1>2, <1>7, <2>2 DEF ReadsCurrent, Live
<1>3. CASE WritesCreate(p)
  <2>1. row[k] = Lifecycle!NoTask /\ ~row[k].exists
    BY <1>1, <1>3 DEF ReadsCurrent, WritesCreate, Write
  <2>2. row' = [row EXCEPT ![k] = [row[k] EXCEPT !.exists = TRUE]]
    BY <1>3, <2>1 DEF WritesCreate, Write
  <2>3. Lifecycle!Create(k)
    BY <2>1, <2>2 DEF Lifecycle!Create
  <2>4. row'[k].exists
    BY <1>1, <2>2 DEF Row, TypeOK
  <2>5. \A j \in TaskIds : ~row'[j].exists => row'[j] = Lifecycle!NoTask
    BY <1>1, <2>2, <2>4 DEF ReadsCurrent, TypeOK
  <2> QED
    BY <1>1, <1>7, <2>2, <2>3, <2>5 DEF Lifecycle!Next
<1>4. CASE WritesStatus(p)
  <2> DEFINE r == [row[k] EXCEPT !.status = call[p].to,
                                 !.completed = (call[p].to = "done")]
  <2>1. Live(k) /\ call[p].to \in Allowed[row[k].status]
    BY <1>1, <1>4 DEF ReadsCurrent, WritesStatus, Write
  <2>2. row' = [row EXCEPT ![k] = r]
    BY <1>4 DEF WritesStatus, Write, Own
  <2>3. Lifecycle!Move(k, call[p].to)
    BY <2>1, <2>2 DEF Lifecycle!Move, Lifecycle!Live, Live, Allowed
  <2>4. r.exists
    BY <1>1, <2>1 DEF Row, Live
  <2> HIDE DEF r
  <2>5. \A j \in TaskIds : ~row'[j].exists => row'[j] = Lifecycle!NoTask
    BY <1>1, <2>2, <2>4 DEF ReadsCurrent, TypeOK
  <2> QED
    BY <1>1, <1>7, <2>2, <2>3, <2>5 DEF Lifecycle!Next, Status
<1>5. CASE WritesDelete(p)
  <2> DEFINE r == [row[k] EXCEPT !.deleted = TRUE]
  <2>1. Live(k)
    BY <1>1, <1>5 DEF ReadsCurrent, WritesDelete, Write
  <2>2. row' = [row EXCEPT ![k] = r]
    BY <1>5 DEF WritesDelete, Write, Own
  <2>3. Lifecycle!Delete(k)
    BY <2>1, <2>2 DEF Lifecycle!Delete, Lifecycle!Live, Live
  <2>4. r.exists
    BY <1>1, <2>1 DEF Row, Live
  <2> HIDE DEF r
  <2>5. \A j \in TaskIds : ~row'[j].exists => row'[j] = Lifecycle!NoTask
    BY <1>1, <2>2, <2>4 DEF ReadsCurrent, TypeOK
  <2> QED
    BY <1>1, <1>7, <2>2, <2>3, <2>5 DEF Lifecycle!Next
<1>6. CASE WritesUpdate(p)
  <2>1. UNCHANGED row
    BY <1>1, <1>6 DEF WritesUpdate, Write, TypeOK
  <2> QED
    BY <1>7, <2>1 DEF ReadsCurrent
<1> QED
  BY <1>3, <1>4, <1>5, <1>6

\* A step with what the calls have read still true.
LEMMA ReadsNext ==
    ASSUME Apart, TypeOK, ReadsCurrent, [Next]_vars
    PROVE  ReadsCurrent' /\ [Lifecycle!Next]_row
<1>1. ASSUME NEW p \in Procs, Audits(p) \/ AuditLost(p) \/ Fails(p)
      PROVE  ReadsCurrent' /\ UNCHANGED row
  <2>1. /\ UNCHANGED row
        /\ pc' = [pc EXCEPT ![p] = "idle"] /\ call' = [call EXCEPT ![p] = NoCall]
    BY <1>1 DEF Audits, AuditLost, Fails, Leave
  <2>2. \A q \in Procs : pc'[q] = "write" => pc[q] = "write" /\ call'[q] = call[q]
    BY <2>1 DEF TypeOK
  <2> QED
    BY <2>1, <2>2 DEF ReadsCurrent, Live
<1>2. CASE UNCHANGED vars
  BY <1>2 DEF vars, ReadsCurrent, Live
<1> QED
  BY <1>1, <1>2, ReadsEnter, WriteRefines DEF Next

\* As long as calls about one task do not overlap, whatever those about other
\* tasks do, they implement TaskLifecycle: what a call has checked still holds
\* when it writes.
THEOREM ImplementsLifecycle == Spec /\ []Apart => KeepsLifecycle
<1>1. Init => Lifecycle!Init
  BY DEF Init, Lifecycle!Init
<1>2. /\ Apart /\ TypeOK /\ ReadsCurrent /\ [Next]_vars
      => ReadsCurrent' /\ [Lifecycle!Next]_row
  BY ReadsNext
<1> QED
  BY <1>1, <1>2, ReadsInit, TypeCorrect, PTL
     DEF Spec, KeepsLifecycle, Lifecycle!Spec

\* Then updateStatus moves a task along the table of assertTransition only:
\* the moves that it refuses, and that overlapping calls make nevertheless,
\* take two calls about the same task.
THEOREM LegalUnlessOverlap == Spec /\ []Apart => LegalTransitions
<1>1. /\ Apart /\ TypeOK /\ ReadsCurrent /\ [Next]_vars
      => /\ ReadsCurrent'
         /\ [\A k \in TaskIds : row'[k].status # row[k].status =>
                row'[k].status \in Allowed[row[k].status]]_vars
  <2> SUFFICES ASSUME Apart, TypeOK, ReadsCurrent, [Next]_vars,
                      NEW k \in TaskIds, row'[k].status # row[k].status
               PROVE  row'[k].status \in Allowed[row[k].status]
    BY ReadsNext
  <2>1. [Lifecycle!Next]_row /\ row \in [TaskIds -> Row]
    BY ReadsNext DEF TypeOK
  <2>2. PICK j \in TaskIds : \/ Lifecycle!Create(j)
                             \/ \E to \in Status : Lifecycle!Move(j, to)
                             \/ Lifecycle!Delete(j)
    BY <2>1 DEF Lifecycle!Next, Status
  <2>3. CASE Lifecycle!Create(j)
    BY <2>1, <2>3 DEF Lifecycle!Create, Row
  <2>4. CASE Lifecycle!Delete(j)
    BY <2>1, <2>4 DEF Lifecycle!Delete, Row
  <2>5. ASSUME NEW to \in Status, Lifecycle!Move(j, to)
        PROVE  row'[k].status \in Allowed[row[k].status]
    <3>1. row'[j].status = to /\ to \in Allowed[row[j].status]
      BY <2>1, <2>5 DEF Lifecycle!Move, Allowed, Row
    <3>2. j # k => row'[k] = row[k]
      BY <2>1, <2>5 DEF Lifecycle!Move
    <3> QED
      BY <3>1, <3>2
  <2> QED
    BY <2>2, <2>3, <2>4, <2>5
<1> QED
  BY <1>1, ReadsInit, TypeCorrect, PTL DEF Spec, LegalTransitions

----------------------------------------------------------------------------
(* The audit rows *)

\* A call that is about to write has read the status the task still has; one
\* that has written owes the audit row that explains its write.
TrailInv ==
    /\ \A p \in Procs :
          pc[p] = "write" /\ call[p].action = "status" =>
              call[p].from = row[call[p].id].status
    /\ \A k \in TaskIds : lost[k] = 0 =>
          /\ (\A p \in Procs : pc[p] = "audit" => call[p].id # k) =>
                Tell(trail[k], row[k])
          /\ \A p \in Procs : pc[p] = "audit" /\ call[p].id = k =>
                Tell(Append(trail[k], call[p]), row[k])

\* What the first rows lead to stays when one is added; the rows with the new
\* one lead to where it moves, or else to where they led.
LEMMA LeadToAppend ==
    ASSUME NEW rows \in Seq(Call), NEW e \in Call
    PROVE  /\ \A i \in 0 .. Len(rows), s \in Status :
                 LeadTo(rows, i, s) => LeadTo(Append(rows, e), i, s)
           /\ \A s \in Status : /\ e.action # "status"
                                /\ LeadTo(rows, Len(rows), s)
                  => LeadTo(Append(rows, e), Len(rows) + 1, s)
           /\ e.action = "status" =>
                  LeadTo(Append(rows, e), Len(rows) + 1, e.to)
<1> DEFINE more == Append(rows, e)
           n == Len(rows)
<1>1. /\ n \in Nat
      /\ \A j \in 1 .. n : more[j] = rows[j]
      /\ more[n + 1] = e
  OBVIOUS
<1> HIDE DEF more, n
<1>2. ASSUME NEW i \in 0 .. n, NEW s \in Status, LeadTo(rows, i, s)
      PROVE  LeadTo(more, i, s)
  <2>1. \A j \in 1 .. i : more[j] = rows[j]
    BY <1>1
  <2>2. \A j \in 1 .. i : \A h \in j + 1 .. i : h \in 1 .. i
    BY <1>1
  <2> QED
    BY <1>2, <2>1, <2>2 DEF LeadTo
<1>3. ASSUME NEW s \in Status, e.action # "status", LeadTo(rows, n, s)
      PROVE  LeadTo(more, n + 1, s)
  <2>1. LeadTo(more, n, s)
    BY <1>1, <1>2, <1>3
  <2>2. \A h \in 1 .. n + 1 : h \in 1 .. n \/ more[h].action # "status"
    BY <1>1, <1>3
  <2>3. CASE s = "todo" /\ \A j \in 1 .. n : more[j].action # "status"
    BY <2>2, <2>3 DEF LeadTo
  <2>4. ASSUME NEW j \in 1 .. n, more[j].action = "status", more[j].to = s,
               \A h \in j + 1 .. n : more[h].action # "status"
        PROVE  LeadTo(more, n + 1, s)
    <3>1. j \in 1 .. n + 1
      BY <1>1
    <3>2. \A h \in j + 1 .. n + 1 : more[h].action # "status"
      BY <1>1, <2>2, <2>4
    <3> QED
      BY <2>4, <3>1, <3>2 DEF LeadTo
  <2> QED
    BY <2>1, <2>3, <2>4 DEF LeadTo
<1>4. ASSUME e.action = "status"
      PROVE  LeadTo(more, n + 1, e.to)
  <2>1. n + 1 \in 1 .. n + 1 /\ \A h \in (n + 1) + 1 .. n + 1 : FALSE
    BY <1>1
  <2> QED
    BY <1>1, <1>4, <2>1 DEF LeadTo
<1> QED
  BY <1>2, <1>3, <1>4 DEF more, n

\* A write by a call that has read the row as it is, with its audit row.
LEMMA TellAppend ==
    ASSUME NEW rows \in Seq(Call), NEW r \in Row, NEW e \in Call, NEW s \in Row,
           Tell(rows, r),
           e.action = "status" => e.from = r.status /\ s.status = e.to,
           e.action # "status" => s.status = r.status,
           s.exists,
           s.deleted <=> e.action = "delete"
    PROVE  Tell(Append(rows, e), s)
<1> DEFINE more == Append(rows, e)
           n == Len(rows)
<1>1. /\ n \in Nat /\ Len(more) = n + 1
      /\ \A j \in 1 .. n : more[j] = rows[j] /\ rows[j] \in Call
      /\ more[n + 1] = e /\ more # <<>>
  OBVIOUS
<1>2. r.status \in Status /\ s.status \in Status
  BY DEF Row
<1>3. ASSUME NEW i \in 1 .. n + 1, more[i].action = "status"
      PROVE  LeadTo(more, i - 1, more[i].from)
  <2>1. CASE i \in 1 .. n
    <3>1. LeadTo(rows, i - 1, rows[i].from)
      BY <1>1, <1>3, <2>1 DEF Tell
    <3>2. i - 1 \in 0 .. n /\ rows[i].from \in Status
      BY <1>1, <2>1 DEF Call
    <3> QED
      BY <1>1, <2>1, <3>1, <3>2, LeadToAppend
  <2>2. CASE i = n + 1
    <3>1. e.action = "status" /\ e.from = r.status /\ i - 1 = n
      BY <1>1, <1>3, <2>2
    <3>2. LeadTo(rows, n, r.status)
      BY DEF Tell
    <3>3. LeadTo(more, n, r.status)
      BY <1>1, <1>2, <3>2, LeadToAppend
    <3> QED
      BY <1>1, <2>2, <3>1, <3>3
  <2> QED
    BY <1>1, <2>1, <2>2
<1>4. LeadTo(more, n + 1, s.status)
  <2>1. LeadTo(rows, n, r.status)
    BY DEF Tell
  <2> QED
    BY <1>2, <2>1, LeadToAppend
<1> HIDE DEF more, n
<1>5. Tell(more, s)
  BY <1>1, <1>3, <1>4 DEF Tell
<1> QED
  BY <1>5 DEF more

LEMMA TrailInit == Init => TrailInv
<1> SUFFICES ASSUME Init
             PROVE  TrailInv
  OBVIOUS
<1>1. \A k \in TaskIds : trail[k] = <<>> /\ row[k] = Lifecycle!NoTask
  BY DEF Init
<1>2. Tell(<<>>, Lifecycle!NoTask)
  <2>1. LeadTo(<<>>, 0, "todo")
    BY DEF LeadTo
  <2> QED
    BY <2>1 DEF Tell, Lifecycle!NoTask
<1>3. \A p \in Procs : pc[p] = "idle"
  BY DEF Init
<1> QED
  BY <1>1, <1>2, <1>3 DEF TrailInv

LEMMA TrailEnter ==
    ASSUME TypeOK, TrailInv, NEW p \in Procs, NEW k \in TaskIds,
           \/ CallCreate(p, k)
           \/ \E to \in Status : CallStatus(p, k, to)
           \/ CallUpdate(p, k) \/ CallDelete(p, k)
    PROVE  TrailInv'
<1>1. /\ UNCHANGED <<row, trail, lost>>
      /\ pc[p] = "idle"
      /\ pc' = [pc EXCEPT ![p] = "write"]
  BY DEF CallCreate, CallUpdate, CallStatus, CallDelete, Enter
<1>2. /\ call'[p].id = k
      /\ call'[p].action = "status" => call'[p].from = row[k].status
  BY DEF CallCreate, CallUpdate, CallStatus, CallDelete, Enter, TypeOK
<1>3. /\ pc'[p] = "write"
      /\ \A q \in Procs : q # p => pc'[q] = pc[q] /\ call'[q] = call[q]
  BY DEF CallCreate, CallUpdate, CallStatus, CallDelete, Enter, TypeOK
<1>4. \A q \in Procs : /\ pc'[q] = "audit" <=> pc[q] = "audit"
                       /\ pc[q] = "audit" => call'[q] = call[q]
  BY <1>1, <1>3
<1> QED
  BY <1>1, <1>2, <1>3, <1>4 DEF TrailInv

LEMMA TrailWrite ==
    ASSUME Apart, TypeOK, ReadsCurrent, TrailInv, NEW p \in Procs,
           \/ WritesCreate(p) \/ WritesUpdate(p)
           \/ WritesStatus(p) \/ WritesDelete(p)
    PROVE  TrailInv'
<1> DEFINE k == call[p].id
           e == call[p]
<1>1. /\ k \in TaskIds /\ pc[p] = "write" /\ e \in Call
      /\ Own(p) \in Row /\ Own(p) = row[k] /\ call[p].to \in Status
  BY Writes DEF Own
<1>2. UNCHANGED <<call, trail, lost>> /\ pc' = [pc EXCEPT ![p] = "audit"]
  BY DEF WritesCreate, WritesUpdate, WritesStatus, WritesDelete, Write
<1>3. /\ pc'[p] = "audit"
      /\ \A q \in Procs : q # p =>
            /\ pc'[q] = pc[q]
            /\ pc[q] # "idle" => call[q].id # k
  BY <1>1, <1>2 DEF Apart, TypeOK
<1>4. lost[k] = 0 => Tell(trail[k], row[k])
  BY <1>1, <1>3 DEF TrailInv
<1>5. PICK s \in Row :
          /\ row' = [row EXCEPT ![k] = s]
          /\ e.action = "status" => e.from = row[k].status /\ s.status = e.to
          /\ e.action # "status" => s.status = row[k].status
          /\ s.exists
          /\ s.deleted <=> e.action = "delete"
  <2>1. CASE WritesCreate(p)
    <3>1. row[k] = Lifecycle!NoTask /\ e.action = "create"
      BY <1>1, <2>1 DEF ReadsCurrent, WritesCreate, Write
    <3> DEFINE s == [Lifecycle!NoTask EXCEPT !.exists = TRUE]
    <3>2. s \in Row /\ row' = [row EXCEPT ![k] = s]
      BY <2>1, WrittenRow, <1>1 DEF WritesCreate, Write
    <3>3. s.exists /\ ~s.deleted /\ s.status = row[k].status
      BY <3>1 DEF Lifecycle!NoTask
    <3> HIDE DEF s
    <3> QED
      BY <3>1, <3>2, <3>3
  <2>2. CASE WritesUpdate(p)
    <3>1. Live(k) /\ e.action = "update"
      BY <1>1, <2>2 DEF ReadsCurrent, WritesUpdate, Write
    <3>2. row' = [row EXCEPT ![k] = row[k]]
      BY <1>1, <2>2 DEF WritesUpdate, Write
    <3> QED
      BY <1>1, <3>1, <3>2 DEF Live
  <2>3. CASE WritesStatus(p)
    <3>1. Live(k) /\ e.action = "status" /\ e.from = row[k].status
      BY <1>1, <2>3 DEF ReadsCurrent, WritesStatus, Write, TrailInv
    <3> DEFINE s == [Own(p) EXCEPT !.status = call[p].to,
                                   !.completed = (call[p].to = "done")]
    <3>2. s \in Row /\ row' = [row EXCEPT ![k] = s]
      BY <2>3, WrittenRow, <1>1 DEF WritesStatus, Write
    <3>3. s.exists /\ ~s.deleted /\ s.status = e.to
      BY <1>1, <3>1 DEF Live, Row
    <3> HIDE DEF s
    <3> QED
      BY <3>1, <3>2, <3>3
  <2>4. CASE WritesDelete(p)
    <3>1. Live(k) /\ e.action = "delete"
      BY <1>1, <2>4 DEF ReadsCurrent, WritesDelete, Write
    <3> DEFINE s == [Own(p) EXCEPT !.deleted = TRUE]
    <3>2. s \in Row /\ row' = [row EXCEPT ![k] = s]
      BY <2>4, WrittenRow, <1>1 DEF WritesDelete, Write
    <3>3. s.exists /\ s.deleted /\ s.status = row[k].status
      BY <1>1, <3>1 DEF Live, Row
    <3> HIDE DEF s
    <3> QED
      BY <3>1, <3>2, <3>3
  <2> QED
    BY <2>1, <2>2, <2>3, <2>4
<1>6. row[k] \in Row /\ trail[k] \in Seq(Call)
  BY <1>1 DEF TypeOK
<1>7. lost[k] = 0 => Tell(Append(trail[k], e), s)
  BY <1>1, <1>4, <1>5, <1>6, TellAppend
<1>8. /\ row'[k] = s
      /\ \A j \in TaskIds : j # k => row'[j] = row[j]
  BY <1>1, <1>5 DEF TypeOK
<1>9. ASSUME NEW q \in Procs, pc'[q] = "write" /\ call'[q].action = "status"
      PROVE  call'[q].from = row'[call'[q].id].status
  <2>1. q # p /\ pc[q] = "write" /\ call[q].id \in TaskIds
    BY <1>2, <1>3, <1>9, NoCallApart DEF TypeOK, Call
  <2> QED
    BY <1>2, <1>3, <1>8, <1>9, <2>1 DEF TrailInv
<1>10. ASSUME NEW j \in TaskIds, lost[j] = 0
       PROVE  /\ (\A q \in Procs : pc'[q] = "audit" => call[q].id # j) =>
                     Tell(trail[j], row'[j])
              /\ \A q \in Procs : pc'[q] = "audit" /\ call[q].id = j =>
                     Tell(Append(trail[j], call[q]), row'[j])
  <2>1. CASE j = k
    BY <1>3, <1>7, <1>8, <1>10, <2>1
  <2>2. CASE j # k
    <3>1. \A q \in Procs : /\ pc'[q] = "audit" /\ call[q].id = j => pc[q] = "audit"
                           /\ pc[q] = "audit" => pc'[q] = "audit"
      BY <1>1, <1>3, <2>2
    <3> QED
      BY <1>8, <1>10, <2>2, <3>1 DEF TrailInv
  <2> QED
    BY <2>1, <2>2
<1> QED
  BY <1>2, <1>9, <1>10 DEF TrailInv

LEMMA TrailLeave ==
    ASSUME Apart, TypeOK, TrailInv, NEW p \in Procs,
           Audits(p) \/ AuditLost(p) \/ Fails(p)
    PROVE  TrailInv'
<1> DEFINE k == call[p].id
<1>1. /\ UNCHANGED row
      /\ pc[p] \in {"write", "audit"} /\ k \in TaskIds
      /\ pc'[p] = "idle"
      /\ \A q \in Procs : q # p => pc'[q] = pc[q] /\ call'[q] = call[q]
  BY DEF Audits, AuditLost, Fails, Leave, TypeOK, Call
<1>2. \A q \in Procs : q # p /\ pc[q] # "idle" => call[q].id # k
  BY <1>1 DEF Apart
<1>3. ASSUME NEW j \in TaskIds, lost'[j] = 0,
             j # k \/ Fails(p)
      PROVE  /\ lost[j] = 0 /\ trail'[j] = trail[j]
             /\ \A q \in Procs : /\ pc[q] = "audit" /\ call[q].id = j
                                       => pc'[q] = "audit" /\ call'[q] = call[q]
                                 /\ pc'[q] = "audit"
                                       => pc[q] = "audit" /\ call'[q] = call[q]
  <2>1. lost[j] = 0 /\ trail'[j] = trail[j]
    BY <1>1, <1>3 DEF Audits, AuditLost, Fails, TypeOK
  <2>2. \A q \in Procs : pc[q] = "audit" /\ call[q].id = j => q # p
    BY <1>3 DEF Fails
  <2> QED
    BY <1>1, <2>1, <2>2
<1>4. ASSUME lost'[k] = 0, ~Fails(p)
      PROVE  /\ Tell(trail'[k], row'[k])
             /\ \A q \in Procs : pc'[q] = "audit" => call'[q].id # k
  <2>1. CASE AuditLost(p)
    <3>1. lost[k] \in Nat /\ lost'[k] = lost[k] + 1
      BY <1>1, <2>1, TasksAssumption DEF AuditLost, TypeOK
    <3> QED
      BY <1>4, <3>1
  <2>2. CASE Audits(p)
    <3>1. pc[p] = "audit" /\ lost[k] = 0 /\ trail'[k] = Append(trail[k], call[p])
      BY <1>1, <1>4, <2>2 DEF Audits, TypeOK
    <3> QED
      BY <1>1, <1>2, <3>1 DEF TrailInv
  <2> QED
    BY <1>4, <2>1, <2>2
<1>5. ASSUME NEW j \in TaskIds, lost'[j] = 0
      PROVE  /\ (\A q \in Procs : pc'[q] = "audit" => call'[q].id # j) =>
                    Tell(trail'[j], row'[j])
             /\ \A q \in Procs : pc'[q] = "audit" /\ call'[q].id = j =>
                    Tell(Append(trail'[j], call'[q]), row'[j])
  <2>1. CASE j # k \/ Fails(p)
    BY <1>1, <1>3, <1>5, <2>1 DEF TrailInv
  <2>2. CASE j = k /\ ~Fails(p)
    BY <1>4, <1>5, <2>2
  <2> QED
    BY <2>1, <2>2
<1> QED
  BY <1>1, <1>5 DEF TrailInv

\* As long as calls about one task do not overlap, its audit rows explain the
\* state it is in, unless one was lost.
THEOREM AuditsTellTheTruth == Spec /\ []Apart => []AuditExplains
<1>1. Apart /\ TypeOK /\ ReadsCurrent /\ TrailInv /\ [Next]_vars
      => ReadsCurrent' /\ TrailInv'
  <2> SUFFICES ASSUME Apart, TypeOK, ReadsCurrent, TrailInv, [Next]_vars
               PROVE  ReadsCurrent' /\ TrailInv'
    OBVIOUS
  <2>1. ReadsCurrent'
    BY ReadsNext
  <2>2. CASE UNCHANGED vars
    BY <2>1, <2>2 DEF vars, TrailInv
  <2> QED
    BY <2>1, <2>2, TrailEnter, TrailWrite, TrailLeave DEF Next
<1>2. TypeOK /\ TrailInv => AuditExplains
  BY DEF TrailInv, AuditExplains, At
<1> QED
  BY <1>1, <1>2, ReadsInit, TrailInit, TypeCorrect, PTL DEF Spec
=============================================================================
