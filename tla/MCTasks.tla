------------------------------ MODULE MCTasks ------------------------------
(* Tasks on small instances.                                               *)
EXTENDS Tasks, TLC

Symmetry == Permutations(TaskIds) \cup Permutations(Procs)
=============================================================================
