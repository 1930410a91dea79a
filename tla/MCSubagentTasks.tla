--------------------------- MODULE MCSubagentTasks ---------------------------
(* Instances of SubagentTasks for TLC: one task and its review. *)
EXTENDS SubagentTasks

CONSTANTS t1, w1

OneTask == {t1}
TaskAndReview == {t1, <<"review", t1>>}
OneRuntime == {w1}
==============================================================================
