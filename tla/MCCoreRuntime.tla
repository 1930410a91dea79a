---------------------------- MODULE MCCoreRuntime ----------------------------
(* Instances of CoreRuntime for TLC. *)
EXTENDS CoreRuntime, TLC

CONSTANTS r1, r2, r3, sync, task1, task2

OneRuntime == {r1}
TwoRuntimes == {r1, r2}
ThreeRuntimes == {r1, r2, r3}
OneSync == {sync}
TwoTasks == {task1, task2}
NoItems == {}

\* Runtimes, and tasks, differ by name only.
RuntimeSymmetry == Permutations(Runtimes)
TaskSymmetry == Permutations(Subagent)
Symmetry == RuntimeSymmetry \cup TaskSymmetry
==============================================================================
