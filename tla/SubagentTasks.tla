---------------------------- MODULE SubagentTasks ----------------------------
(***************************************************************************)
(* Sub-agent tasks from the heartbeat that asks for them to the conflict   *)
(* review of their results: subagent_tasks and subagent_results beside the *)
(* rows of core_work_queue, executed in concurrent batches by one core     *)
(* runtime after another, each task through the agent harness (AgentRun).  *)
(*                                                                         *)
(* The runtime dies at any point and its successor recovers the rows; what *)
(* two runtimes may do at once is CoreRuntime's.                           *)
(***************************************************************************)
EXTENDS AgentRun, CoreWorkQueue

CONSTANTS Asked,            \* tasks the heartbeat creates; the others review them
          Concurrency,      \* MAIL_ASSISTANT_SUBAGENT_CONCURRENCY
          RequestBudget, CrashBudget    \* bounds, for TLC

ReviewOf(t) == <<"review", t>>
ASSUME TaskAssumption == Asked \subseteq Tasks /\ Tasks \ Asked = {ReviewOf(t) : t \in Asked}
ASSUME BatchAssumption == Concurrency \in Nat \ {0}
ASSUME WorkerAssumption == Runtimes # {}
ASSUME BudgetAssumption == RequestBudget \in Nat /\ CrashBudget \in Nat

VARIABLES row,        \* core_work_queue
          task,       \* subagent_tasks: the status
          result,     \* subagent_results: how many, the last that requires review
          payload,    \* of a review row: the result it is about
          judged,     \* history: the last result of each task that a review saw
          swallowed,  \* history: tasks whose review was asked for during a review
          up, requests, crashes

taskVars == <<row, task, result, payload, judged, swallowed>>
vars == <<runVars, taskVars, up, requests, crashes>>

TaskStatus == {"absent", "pending", "running", "completed", "failed"}
Phases == {"idle", "start"} \cup RunPhases
          \cup {"mark", "reviewTask", "reviewWork", "close", "retry"}
Hands == [phase : Phases, step : Nat, llm : Nat, tools : Nat, said : Nat, pending : Nat,
          batch : Nat, attempt : Nat, input : Nat, review : BOOLEAN]
Idle == [phase |-> "idle", step |-> 0, llm |-> 0, tools |-> 0, said |-> 0, pending |-> 0,
         batch |-> 0, attempt |-> 0, input |-> 0, review |-> FALSE]

TypeOK ==
    /\ run \in [Tasks -> Run] /\ strays \in [Tasks -> Nat] /\ at \in [Tasks -> Hands]
    /\ row \in [Tasks -> Row] /\ task \in [Tasks -> TaskStatus]
    /\ result \in [Tasks -> [count : Nat, flagged : Nat]]
    /\ payload \in [Tasks -> Nat] /\ judged \in [Asked -> Nat] /\ swallowed \subseteq Asked
    /\ up \in BOOLEAN /\ faults \in 0 .. FaultBudget
    /\ requests \in 0 .. RequestBudget /\ crashes \in 0 .. CrashBudget

Init ==
    /\ run = [t \in Tasks |-> [FreshRun EXCEPT !.status = "absent"]]
    /\ strays = [t \in Tasks |-> 0] /\ at = [t \in Tasks |-> Idle]
    /\ row = [t \in Tasks |-> AbsentRow] /\ task = [t \in Tasks |-> "absent"]
    /\ result = [t \in Tasks |-> [count |-> 0, flagged |-> 0]]
    /\ payload = [t \in Tasks |-> 0] /\ judged = [t \in Asked |-> 0] /\ swallowed = {}
    /\ up = TRUE /\ faults = 0 /\ requests = 0 /\ crashes = 0

Busy == {t \in Tasks : Phase(t) # "idle"}

------------------------------------------------------------------------------
(* execute_assistant_heartbeat, between two batches: the task is recorded as  *)
(* pending, then its work is enqueued, unless that fails.                     *)

RequestTask(t) ==
    /\ up /\ Busy = {} /\ requests < RequestBudget /\ requests' = requests + 1
    /\ task' = [task EXCEPT ![t] = "pending"]
    /\ \/ row' = [row EXCEPT ![t] = Enqueued(@)] /\ NoFault
       \/ UNCHANGED row /\ Fault
    /\ UNCHANGED <<run, strays, at, result, payload, judged, swallowed, up, crashes>>

\* subagent_input: what the payload says.  Of a review, the result it is about.
Input(t) == payload[t]

\* run_once: one sub-agent row, and more up to the concurrency.
Due == {t \in Tasks : Claimable(row[t])}
StartBatch(batch) ==
    /\ up /\ Busy = {} /\ batch # {}
    /\ Cardinality(batch) = IF Cardinality(Due) < Concurrency THEN Cardinality(Due) ELSE Concurrency
    /\ row' = [t \in Tasks |-> IF t \in batch THEN Claimed(row[t], CHOOSE w \in Runtimes : TRUE)
                               ELSE row[t]]
    /\ at' = [t \in Tasks |-> IF t \in batch
                THEN [Idle EXCEPT !.phase = "start", !.attempt = row[t].attempt + 1,
                                  !.input = Input(t)]
                ELSE at[t]]
    /\ NoFault
    /\ UNCHANGED <<run, strays, task, result, payload, judged, swallowed, up, requests, crashes>>

------------------------------------------------------------------------------
(* execute_subagent_task *)

\* The skill bundle has a worker spec and tools.
Prepared(t) == Goto(t, "begin") /\ NoFault

\* No spec of that name, lessons or tools that cannot be had: straight back to the
\* queue, with the task still running.
Unprepared(t) == Goto(t, "retry") /\ Fault

\* The payload does not read as a task of the mail assistant, or the task cannot be
\* recorded: back to the queue, with the task as it was.
Unrecorded(t) == Goto(t, "retry") /\ Fault /\ UNCHANGED task

Start(t) ==
    /\ Phase(t) = "start"
    /\ \/ /\ task' = [task EXCEPT ![t] = "running"]
          /\ Prepared(t) \/ Unprepared(t)
       \/ Unrecorded(t)
    /\ UNCHANGED <<run, strays, row, result, payload, judged, swallowed>>

\* A review worker has judged the result that its input names.
InsertResult(t) ==
    /\ Phase(t) = "finished"
    /\ \E review \in BOOLEAN :
         /\ result' = [result EXCEPT ![t].count = @ + 1,
                                     ![t].flagged = IF review THEN result[t].count + 1 ELSE @]
         /\ at' = [at EXCEPT ![t].phase = "mark", ![t].review = review]
    /\ run' = [run EXCEPT ![t].results = @ + 1]
    /\ judged' = [o \in Asked |-> IF t = ReviewOf(o) THEN at[t].input ELSE judged[o]]
    /\ NoFault /\ UNCHANGED <<strays, row, task, payload, swallowed>>

MarkCompleted(t) ==
    /\ Phase(t) = "mark"
    /\ task' = [task EXCEPT ![t] = "completed"]
    /\ Goto(t, IF at[t].review /\ t \in Asked THEN "reviewTask" ELSE "close")
    /\ NoFault /\ UNCHANGED <<run, strays, row, result, payload, judged, swallowed>>

\* enqueue_conflict_review_if_needed
ReviewTask(t) ==
    /\ Phase(t) = "reviewTask"
    /\ task' = [task EXCEPT ![ReviewOf(t)] = "pending"]
    /\ Goto(t, "reviewWork")
    /\ NoFault /\ UNCHANGED <<run, strays, row, result, payload, judged, swallowed>>

\* Mutant of ReviewWork: ON CONFLICT DO NOTHING.
ReviewWorkOnce(t) ==
    /\ Phase(t) = "reviewWork"
    /\ row' = [row EXCEPT ![ReviewOf(t)] = IF @.status = "absent" THEN Enqueued(@) ELSE @]
    /\ payload' = [payload EXCEPT ![ReviewOf(t)] = result[t].count]
    /\ swallowed' = IF row[ReviewOf(t)].status = "processing" THEN swallowed \cup {t}
                    ELSE swallowed \ {t}
    /\ Goto(t, "close")
    /\ NoFault /\ UNCHANGED <<run, strays, task, result, judged>>

ReviewWork(t) ==
    /\ Phase(t) = "reviewWork"
    /\ row' = [row EXCEPT ![ReviewOf(t)] = Enqueued(@)]
    /\ payload' = [payload EXCEPT ![ReviewOf(t)] = result[t].count]
    /\ swallowed' = IF row[ReviewOf(t)].status = "processing" THEN swallowed \cup {t}
                    ELSE swallowed \ {t}
    /\ Goto(t, "close")
    /\ NoFault /\ UNCHANGED <<run, strays, task, result, judged>>

MarkFailed(t) ==
    /\ Phase(t) = "error"
    /\ task' = [task EXCEPT ![t] = "failed"]
    /\ Goto(t, "retry")
    /\ NoFault /\ UNCHANGED <<run, strays, row, result, payload, judged, swallowed>>

\* A database call between the run and the queue fails: back to the queue, with the
\* task's status as it is.
StoreFails(t) ==
    /\ Phase(t) \in {"finished", "mark", "reviewTask", "reviewWork", "error"} /\ Fault
    /\ Goto(t, "retry")
    /\ UNCHANGED <<run, strays, taskVars>>

\* process_claimed_work
CloseWork(t) ==
    /\ Phase(t) = "close"
    /\ row' = [row EXCEPT ![t] = Completed(@)]
    /\ at' = [at EXCEPT ![t] = Idle]
    /\ NoFault /\ UNCHANGED <<run, strays, task, result, payload, judged, swallowed>>

RetryWork(t) ==
    /\ Phase(t) = "retry"
    /\ row' = [row EXCEPT ![t] = AfterFailure(@, at[t].attempt)]
    /\ at' = [at EXCEPT ![t] = Idle]
    /\ NoFault /\ UNCHANGED <<run, strays, task, result, payload, judged, swallowed>>

TaskStep(t) ==
    /\ \/ Start(t) \/ InsertResult(t) \/ MarkCompleted(t) \/ ReviewTask(t)
       \/ ReviewWork(t) \/ MarkFailed(t) \/ StoreFails(t) \/ CloseWork(t) \/ RetryWork(t)
       \/ RunStep(t) /\ UNCHANGED taskVars
    /\ UNCHANGED <<up, requests, crashes>>

------------------------------------------------------------------------------

BecomesDue(t) ==
    /\ row[t].status = "failed" /\ ~row[t].due
    /\ row' = [row EXCEPT ![t].due = TRUE]
    /\ NoFault
    /\ UNCHANGED <<run, strays, at, task, result, payload, judged, swallowed, up, requests, crashes>>

Crash ==
    /\ up /\ crashes < CrashBudget /\ crashes' = crashes + 1
    /\ up' = FALSE
    /\ at' = [t \in Tasks |-> Idle]
    /\ NoFault
    /\ UNCHANGED <<run, strays, taskVars, requests>>

\* Mutant of Restart: the tasks are recovered, the rows are not.
RestartTasksOnly ==
    /\ ~up /\ up' = TRUE
    /\ task' = [t \in Tasks |-> IF row[t].status = "processing" /\ task[t] = "running"
                                THEN "pending" ELSE task[t]]
    /\ NoFault
    /\ UNCHANGED <<run, strays, at, row, result, payload, judged, swallowed, requests, crashes>>

\* recover_orphaned_core_work: the processing rows, then the running tasks linked
\* to them.
Restart ==
    /\ ~up /\ up' = TRUE
    /\ row' = [t \in Tasks |-> IF row[t].status = "processing" THEN MadeRetryable(row[t]) ELSE row[t]]
    /\ task' = [t \in Tasks |-> IF row[t].status = "processing" /\ task[t] = "running"
                                THEN "pending" ELSE task[t]]
    /\ NoFault
    /\ UNCHANGED <<run, strays, at, result, payload, judged, swallowed, requests, crashes>>

Next ==
    \/ \E t \in Asked : RequestTask(t)
    \/ \E batch \in SUBSET Due : StartBatch(batch)
    \/ \E t \in Tasks : TaskStep(t) \/ BecomesDue(t)
    \/ Crash \/ Restart

Spec == Init /\ [][Next]_vars

\* The coordinator goes on claiming, an attempt goes on, a delay passes, and a
\* runtime that died is started again.
Fairness ==
    /\ WF_vars(\E batch \in SUBSET Due : StartBatch(batch))
    /\ \A t \in Tasks : WF_vars(TaskStep(t)) /\ WF_vars(BecomesDue(t))
    /\ WF_vars(Restart)

FairSpec == Spec /\ Fairness

------------------------------------------------------------------------------
(* Properties *)

\* A task never has two rows in agent_runs that are running, however its attempts
\* ended, and every run of the harness gives at most one row of results, the run
\* being completed: what subagent_results cites is what the harness stored.
OneRunPerResult ==
    \A t \in Tasks :
        /\ strays[t] = 0
        /\ run[t].results <= 1
        /\ run[t].results = 1 => run[t].status = "completed"

\* A run row taken over after a crash counts at most one budget of calls for each
\* attempt that used it, and no tool call that the log lacks.  The budget of a task
\* is thus spent once more by every attempt; a call whose record fails is in no count.
SpendIsCounted ==
    \A t \in Tasks :
        /\ run[t].calls <= MaxLlmCalls * run[t].attempts
        /\ run[t].tools <= run[t].logged

\* No result that requires a review is forgotten: when the work that gave it is
\* done, the review of that very result is on its way, or has been made, or has
\* failed for good.  The exception is a review that was asked for while an
\* earlier one was being executed in the same batch: its row stays processing.
ResultsAreReviewed ==
    \A t \in Asked \ swallowed :
        row[t].status = "done" /\ result[t].flagged = result[t].count /\ result[t].count > 0 =>
            \/ judged[t] = result[t].flagged
            \/ /\ payload[ReviewOf(t)] = result[t].flagged
               /\ Active(row[ReviewOf(t)]) \/ row[ReviewOf(t)].status = "dead"

\* A task that was asked for comes to an end, crashes, timeouts and failing calls
\* notwithstanding: its work is done or dead.
RequestedTaskEnds ==
    \A t \in Tasks : Active(row[t]) ~> row[t].status \in {"done", "dead"}

\* "checkpoint after every tool call -- survives process restarts": an attempt that
\* takes over a run starts from the most that was saved of it.
CheckpointsSurvive ==
    [][\A t \in Tasks : Phase(t) = "load" /\ at'[t].phase = "call" =>
         \A s \in SavedSteps(t) : at'[t].said >= run[t].saved[s]]_vars

------------------------------------------------------------------------------
(* Refinement: the tasks' rows as ExclusiveWork. *)

Executing(t) == Phase(t) # "idle"

AbstractState(t) ==
    CASE Executing(t) -> "running"
      [] ~Executing(t) /\ row[t].status = "absent" -> "idle"
      [] ~Executing(t) /\ row[t].status \in {"pending", "failed"} -> "ready"
      [] ~Executing(t) /\ row[t].status = "processing" -> "orphaned"
      [] ~Executing(t) /\ row[t].status = "done" -> "finished"
      [] ~Executing(t) /\ row[t].status = "dead" -> "abandoned"

Abstract == INSTANCE ExclusiveWork WITH
    Items    <- Tasks,
    Workers  <- Runtimes,
    NoWorker <- NoRuntime,
    MaxTries <- MaxAttempts,
    state  <- [t \in Tasks |-> AbstractState(t)],
    holder <- [t \in Tasks |-> IF Executing(t) THEN row[t].worker ELSE NoRuntime],
    tries  <- [t \in Tasks |-> row[t].attempt]

\* The queue of these tasks, with its batches, reviews enqueued from within them,
\* deaths and recoveries, is the one that CoreRuntime shows to be exclusive.
ImplementsExclusiveWork == Abstract!AbstractSpec
==============================================================================
