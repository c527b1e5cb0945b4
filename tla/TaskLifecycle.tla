--------------------------- MODULE TaskLifecycle ---------------------------
(***************************************************************************)
(* What TasksService promises about a task: it starts as todo, its status  *)
(* moves along the table of assertTransition only, completedAt is set      *)
(* exactly while it is done, and a deleted task stays as it was.           *)
(***************************************************************************)
CONSTANT Tasks

VARIABLE row

Status == {"todo", "in_progress", "done", "canceled"}

\* The table of assertTransition.
Allowed == [todo        |-> {"in_progress", "canceled"},
            in_progress |-> {"todo", "done", "canceled"},
            done        |-> {"in_progress"},
            canceled    |-> {"todo"}]

NoTask == [exists |-> FALSE, status |-> "todo", completed |-> FALSE,
           deleted |-> FALSE]

Live(k) == row[k].exists /\ ~row[k].deleted

Init == row = [k \in Tasks |-> NoTask]

Create(k) ==
    /\ ~row[k].exists
    /\ row' = [row EXCEPT ![k].exists = TRUE]

Move(k, to) ==
    /\ Live(k)
    /\ to \in Allowed[row[k].status]
    /\ row' = [row EXCEPT ![k] = [@ EXCEPT !.status = to,
                                           !.completed = (to = "done")]]

Delete(k) ==
    /\ Live(k)
    /\ row' = [row EXCEPT ![k].deleted = TRUE]

Next == \E k \in Tasks : \/ Create(k)
                         \/ \E to \in Status : Move(k, to)
                         \/ Delete(k)

Spec == Init /\ [][Next]_row
=============================================================================
