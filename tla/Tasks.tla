------------------------------- MODULE Tasks -------------------------------
(***************************************************************************)
(* TasksService.create, update, updateStatus and softDelete with the audit *)
(* rows they leave.  A call reads the task, checks, writes it by id and    *)
(* then writes the audit row, each in a statement of its own and without a *)
(* transaction.  TaskLifecycle says what the calls promise.                *)
(***************************************************************************)
EXTENDS Integers, Sequences, FiniteSets

CONSTANTS
    TaskIds,     \* the tasks of a company
    Procs,       \* calls that may be under way at the same time
    NoCall,      \* no call under way
    MaxEntries,  \* bound on the audit rows of a task
    MaxFaults    \* bound on audit rows that are lost

Actions == {"create", "update", "status", "delete"}

ASSUME TasksAssumption ==
    /\ NoCall \notin [action : Actions, id : TaskIds,
                      from : {"todo", "in_progress", "done", "canceled"},
                      to : {"todo", "in_progress", "done", "canceled"}]
    /\ MaxEntries \in Nat
    /\ MaxFaults \in Nat

VARIABLES
    row,      \* row[k]: the columns of task k
    pc,       \* pc[p]: the statement call p is at
    call,     \* call[p]: what it does, with the status it has read
    trail,    \* trail[k]: the audit rows of k, oldest first
    lost      \* lost[k]: audit rows of k that were not written

vars == <<row, pc, call, trail, lost>>

Lifecycle == INSTANCE TaskLifecycle WITH Tasks <- TaskIds

Status == Lifecycle!Status
Allowed == Lifecycle!Allowed
Live(k) == row[k].exists /\ ~row[k].deleted

Row == [exists : BOOLEAN, status : Status, completed : BOOLEAN,
        deleted : BOOLEAN]

Call == [action : Actions, id : TaskIds,
         from : Status, to : Status]

TypeOK ==
    /\ row \in [TaskIds -> Row]
    /\ pc \in [Procs -> {"idle", "write", "audit"}]
    /\ call \in [Procs -> Call \cup {NoCall}]
    /\ \A p \in Procs : pc[p] = "idle" <=> call[p] = NoCall
    /\ trail \in [TaskIds -> Seq(Call)]
    /\ lost \in [TaskIds -> 0 .. MaxFaults]

Init ==
    /\ row = [k \in TaskIds |-> Lifecycle!NoTask]
    /\ pc = [p \in Procs |-> "idle"]
    /\ call = [p \in Procs |-> NoCall]
    /\ trail = [k \in TaskIds |-> <<>>]
    /\ lost = [k \in TaskIds |-> 0]

----------------------------------------------------------------------------
\* The calls under way on task k.
At(k) == {p \in Procs : pc[p] # "idle" /\ call[p].id = k}

\* The call has read the task as from and passed its checks.
Enter(p, action, k, from, to) ==
    /\ pc[p] = "idle"
    /\ Len(trail[k]) + Cardinality(At(k)) < MaxEntries
    /\ pc' = [pc EXCEPT ![p] = "write"]
    /\ call' = [call EXCEPT ![p] =
                  [action |-> action, id |-> k, from |-> from, to |-> to]]
    /\ UNCHANGED <<row, trail, lost>>

\* create, once the assignee, customer and deal are found.
CallCreate(p, k) ==
    /\ ~row[k].exists
    /\ At(k) = {}
    /\ Enter(p, "create", k, "todo", "todo")

\* update, once the assignee, customer and deal it names are found.  It leaves
\* the columns of the life cycle alone.
CallUpdate(p, k) ==
    /\ Live(k)
    /\ Enter(p, "update", k, row[k].status, row[k].status)

\* Mutant of assertTransition: from done to anywhere.
TransitionFromDone(from, to) == from = "done" \/ to \in Allowed[from]

AssertTransition(from, to) == to \in Allowed[from]

\* updateStatus; a call for the status the task has already returns at once.
CallStatus(p, k, to) ==
    /\ Live(k)
    /\ to # row[k].status
    /\ AssertTransition(row[k].status, to)
    /\ Enter(p, "status", k, row[k].status, to)

CallDelete(p, k) ==
    /\ Live(k)
    /\ Enter(p, "delete", k, row[k].status, row[k].status)

\* The write is by id and looks at nothing else.
Write(p, action, columns) ==
    /\ pc[p] = "write"
    /\ call[p].action = action
    /\ row' = [row EXCEPT ![call[p].id] = columns]
    /\ pc' = [pc EXCEPT ![p] = "audit"]
    /\ UNCHANGED <<call, trail, lost>>

Own(p) == row[call[p].id]

WritesCreate(p) == Write(p, "create", [Lifecycle!NoTask EXCEPT !.exists = TRUE])

WritesUpdate(p) == Write(p, "update", Own(p))

WritesStatus(p) ==
    Write(p, "status",
          [Own(p) EXCEPT !.status = call[p].to,
                         !.completed = (call[p].to = "done")])

WritesDelete(p) == Write(p, "delete", [Own(p) EXCEPT !.deleted = TRUE])

Leave(p) ==
    /\ pc' = [pc EXCEPT ![p] = "idle"]
    /\ call' = [call EXCEPT ![p] = NoCall]

\* Mutant: from and to are swapped in the metadata.
AuditsSwapped(p) ==
    /\ pc[p] = "audit"
    /\ trail' = [trail EXCEPT ![call[p].id] = Append(@,
                    [call[p] EXCEPT !.from = call[p].to, !.to = call[p].from])]
    /\ Leave(p)
    /\ UNCHANGED <<row, lost>>

Audits(p) ==
    /\ pc[p] = "audit"
    /\ trail' = [trail EXCEPT ![call[p].id] = Append(@, call[p])]
    /\ Leave(p)
    /\ UNCHANGED <<row, lost>>

\* audit.log swallows the error of its insert, or the process stops before it.
AuditLost(p) ==
    /\ pc[p] = "audit"
    /\ lost[call[p].id] < MaxFaults
    /\ lost' = [lost EXCEPT ![call[p].id] = @ + 1]
    /\ Leave(p)
    /\ UNCHANGED <<row, trail>>

\* The write throws, or the process stops before it.
Fails(p) ==
    /\ pc[p] = "write"
    /\ Leave(p)
    /\ UNCHANGED <<row, trail, lost>>

Next ==
    \E p \in Procs :
        \/ \E k \in TaskIds : \/ CallCreate(p, k)
                              \/ \E to \in Status : CallStatus(p, k, to)
                              \/ CallUpdate(p, k) \/ CallDelete(p, k)
        \/ WritesCreate(p) \/ WritesUpdate(p) \/ WritesStatus(p) \/ WritesDelete(p)
        \/ Audits(p) \/ AuditLost(p) \/ Fails(p)

Spec == Init /\ [][Next]_vars

\* Calls about one task do not overlap; those about others may.
Apart ==
    \A p, q \in Procs :
        pc[p] # "idle" /\ pc[q] # "idle" /\ call[p].id = call[q].id => p = q

----------------------------------------------------------------------------
(* Properties *)

\* completedAt is set exactly while the task is done, whatever calls overlap.
CompletedIffDone == \A k \in TaskIds : row[k].completed <=> row[k].status = "done"

\* updateStatus moves a task along the table of assertTransition only.
LegalTransitions ==
    [][\A k \in TaskIds : row'[k].status # row[k].status =>
          row'[k].status \in Allowed[row[k].status]]_vars

\* What a call has read still holds when it writes, if no call came between.
ReadsCurrent ==
    /\ \A k \in TaskIds : ~row[k].exists => row[k] = Lifecycle!NoTask
    /\ \A p \in Procs : pc[p] = "write" =>
          /\ call[p].action = "create" => ~row[call[p].id].exists
          /\ call[p].action # "create" => Live(call[p].id)
          /\ call[p].action = "status" =>
                call[p].to \in Allowed[row[call[p].id].status]

\* Where calls about one task do not overlap, they keep the promise of
\* TaskLifecycle.
KeepsLifecycle == Lifecycle!Spec

\* The first i audit rows lead to this status: the last move among them ends
\* there, or none is and a task starts as todo.
LeadTo(rows, i, status) ==
    LET move(j) == rows[j].action = "status"
    IN  \/ status = "todo" /\ \A j \in 1 .. i : ~move(j)
        \/ \E j \in 1 .. i : /\ move(j) /\ rows[j].to = status
                            /\ \A h \in j + 1 .. i : ~move(h)

\* The audit rows lead from the creation of the task to its columns r, each
\* move from where the rows before it lead.
Tell(rows, r) ==
    /\ \A i \in 1 .. Len(rows) :
          rows[i].action = "status" => LeadTo(rows, i - 1, rows[i].from)
    /\ LeadTo(rows, Len(rows), r.status)
    /\ r.exists <=> rows # <<>>
    /\ r.deleted <=> rows # <<>> /\ rows[Len(rows)].action = "delete"

\* Where calls about one task do not overlap and no audit row is lost, the
\* audit rows of a task explain its present state.
AuditExplains ==
    \A k \in TaskIds : At(k) = {} /\ lost[k] = 0 => Tell(trail[k], row[k])
=============================================================================
