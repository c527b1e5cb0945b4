------------------------- MODULE MCOverdueWorkflow -------------------------
(* Instances of OverdueWorkflow for TLC. *)
EXTENDS OverdueWorkflow, TLC

\* Two rules that match every task, and none without a recipient.
AllMatch == Tasks \X {1, 2}
NoneUnresolved == {}

\* The third rule matches the first task only, and the second one wants a
\* customer that this task does not have.
FirstTask == CHOOSE k \in Tasks : TRUE
MixedMatch == AllMatch \cup {<<FirstTask, 3>>}
OneUnresolved == {<<FirstTask, 2>>}

\* Executions run the same code.
Symmetry == Permutations(Ticks)
=============================================================================
