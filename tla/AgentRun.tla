------------------------------- MODULE AgentRun -------------------------------
(***************************************************************************)
(* One attempt of the agent harness at a task (AgentHarness), with what it *)
(* leaves in agent_runs, agent_checkpoints and agent_tool_log.             *)
(*                                                                         *)
(* A caller sets an attempt to "begin" and finds it at "finished", when it *)
(* reads the answer, or at "error".                                        *)
(* Tasks of the durable queue have one attempt at a time: that is what     *)
(* CoreRuntime shows (ExclusiveExecution).                                 *)
(*                                                                         *)
(* Abstracted data: messages are the number of exchanges they hold beyond  *)
(* the initial ones, answers of the model only their kind; scratchpad      *)
(* values, prompts and escalation reasons are left out.  What the          *)
(* mail-assistant does before its loop is not needed by these tasks.       *)
(***************************************************************************)
EXTENDS Integers, FiniteSets

CONSTANTS Tasks,
          MaxIterations, MaxLlmCalls, MaxToolCalls,   \* of the agent's spec
          FaultBudget       \* bound on failing calls, for TLC

ASSUME SpecAssumption ==
    /\ MaxIterations \in Nat \ {0} /\ MaxLlmCalls \in Nat /\ MaxToolCalls \in Nat
    /\ FaultBudget \in Nat

VARIABLES run,      \* the latest agent_runs row of each task
          strays,   \* how many earlier rows of it are still 'running'
          at,       \* the attempt in hand
          faults

runVars == <<run, strays, at, faults>>

Steps == 0 .. MaxIterations - 1
Unsaved == -1

RunStatus == {"absent", "running", "completed", "failed", "timed_out"}
Run == [status : RunStatus, calls : Nat, tools : Nat, logged : Nat,
        saved : [Steps -> Nat \cup {Unsaved}],   \* agent_checkpoints: exchanges by step
        attempts : Nat, results : Nat]           \* history: who used the row, what came of it

FreshRun == [status |-> "running", calls |-> 0, tools |-> 0, logged |-> 0,
             saved |-> [s \in Steps |-> Unsaved], attempts |-> 0, results |-> 0]

\* The loop of run_with_callback is from "call" to "finished".
LoopPhases == {"call", "tool", "record", "save", "finish", "finished"}
RunPhases == {"begin", "insert", "load"} \cup LoopPhases \cup {"error"}

\* said: exchanges in messages; pending: tool calls of this answer to execute,
\* of which batch were asked for.
Attempt == [step : Nat, llm : Nat, tools : Nat, said : Nat, pending : Nat, batch : Nat]
NewAttempt == [step |-> 0, llm |-> 0, tools |-> 0, said |-> 0, pending |-> 0, batch |-> 0]

Fault == faults < FaultBudget /\ faults' = faults + 1
NoFault == UNCHANGED faults

Phase(t) == at[t].phase
Goto(t, phase) == at' = [at EXCEPT ![t].phase = phase]
End(t, status) == run' = [run EXCEPT ![t].status = status]

------------------------------------------------------------------------------
(* begin_run: take over the row that is still 'running', or insert one. *)

JoinRun(t) ==
    /\ run' = [run EXCEPT ![t].attempts = @ + 1]
    /\ Goto(t, "load")

\* Mutant of FindRun: whatever the row's status.
FindRunAny(t) ==
    /\ Phase(t) = "begin"
    /\ \/ run[t].status # "absent" /\ JoinRun(t)
       \/ run[t].status = "absent" /\ Goto(t, "insert") /\ UNCHANGED run
    /\ NoFault /\ UNCHANGED strays

FindRun(t) ==
    /\ Phase(t) = "begin"
    /\ \/ run[t].status = "running" /\ JoinRun(t)
       \/ run[t].status # "running" /\ Goto(t, "insert") /\ UNCHANGED run
    /\ NoFault /\ UNCHANGED strays

InsertRun(t) ==
    /\ Phase(t) = "insert"
    /\ run' = [run EXCEPT ![t] = [FreshRun EXCEPT !.attempts = 1]]
    /\ strays' = [strays EXCEPT ![t] = @ + IF run[t].status = "running" THEN 1 ELSE 0]
    /\ Goto(t, "load")
    /\ NoFault

\* No provider for the spec, or begin_run fails.
NotBegun(t) ==
    /\ Phase(t) \in {"begin", "insert"} /\ Fault
    /\ Goto(t, "error")
    /\ UNCHANGED <<run, strays>>

\* latest_checkpoint: the messages of the highest step, not of the latest time.
\* The counters of the budget start over.
SavedSteps(t) == {s \in Steps : run[t].saved[s] # Unsaved}
Restored(t) ==
    IF SavedSteps(t) = {} THEN 0
    ELSE run[t].saved[CHOOSE s \in SavedSteps(t) : \A z \in SavedSteps(t) : z <= s]

Load(t) ==
    /\ Phase(t) = "load"
    /\ at' = [at EXCEPT ![t].phase = "call", ![t].step = 0, ![t].llm = 0,
                        ![t].tools = 0, ![t].said = Restored(t)]
    /\ NoFault /\ UNCHANGED <<run, strays>>

\* An error before the loop leaves the run 'running'.
LoadFails(t) ==
    /\ Phase(t) = "load" /\ Fault
    /\ Goto(t, "error")
    /\ UNCHANGED <<run, strays>>

------------------------------------------------------------------------------
(* The loop: one call of the model per step. *)

NextStep(t) == [at EXCEPT ![t].phase = "call", ![t].step = @ + 1]
Spent(t) == at[t].step = MaxIterations \/ at[t].llm >= MaxLlmCalls

\* An exchange was appended; with checkpoint_every = 1 it is saved.
Appended(t) == [at EXCEPT ![t].phase = "save", ![t].said = @ + 1, ![t].llm = @ + 1]

\* Native tool calls, or one written as JSON: within the budget, or the run is over.
AnswerTools(t) ==
    \E n \in 1 .. MaxToolCalls :
        IF at[t].tools + n > MaxToolCalls
        THEN Goto(t, "error") /\ run' = [run EXCEPT ![t].calls = @ + 1, ![t].status = "failed"]
        ELSE /\ at' = [at EXCEPT ![t].phase = "tool", ![t].llm = @ + 1,
                                 ![t].pending = n, ![t].batch = n]
             /\ run' = [run EXCEPT ![t].calls = @ + 1]

\* A scratchpad action is carried out at once; one on a key that state.schema does
\* not declare ends the run.
AnswerScratchpad(t) ==
    \/ at' = Appended(t) /\ run' = [run EXCEPT ![t].calls = @ + 1]
    \/ Goto(t, "error") /\ run' = [run EXCEPT ![t].calls = @ + 1, ![t].status = "failed"]

\* No valid output: the model is told what is wrong with it, and nothing is saved.
AnswerInvalid(t) ==
    /\ at' = [NextStep(t) EXCEPT ![t].said = @ + 1, ![t].llm = @ + 1]
    /\ run' = [run EXCEPT ![t].calls = @ + 1]

AnswerFinal(t) ==
    /\ at' = [at EXCEPT ![t].phase = "finish", ![t].llm = @ + 1]
    /\ run' = [run EXCEPT ![t].calls = @ + 1]

Answer(t) == AnswerTools(t) \/ AnswerScratchpad(t) \/ AnswerInvalid(t) \/ AnswerFinal(t)

\* The answer came and was counted, and then the loop ended by timeout_secs or by a
\* statement whose answer was lost.  One that came and was not counted is in LoopFails
\* and Timeout.
AnswerLost(t) ==
    /\ Goto(t, "error")
    /\ \E status \in {"running", "failed", "timed_out"} :
         run' = [run EXCEPT ![t].calls = @ + 1, ![t].status = status]

\* complete_with_request, then record_llm_call.
Call(t) ==
    /\ Phase(t) = "call" /\ ~Spent(t)
    /\ \/ Answer(t) /\ NoFault
       \/ AnswerLost(t) /\ Fault
    /\ UNCHANGED strays

\* max_iterations or max_llm_calls is reached.
GiveUp(t) ==
    /\ Phase(t) = "call" /\ Spent(t)
    /\ Goto(t, "error") /\ End(t, "failed")
    /\ NoFault /\ UNCHANGED strays

Tool(t) ==
    /\ Phase(t) = "tool"
    /\ at' = [at EXCEPT ![t].pending = @ - 1, ![t].tools = @ + 1,
                        ![t].phase = IF at[t].pending = 1 THEN "record" ELSE "tool"]
    /\ run' = [run EXCEPT ![t].logged = @ + 1]
    /\ NoFault /\ UNCHANGED strays

\* Mutant of RecordTools: the budget of the spec is recorded, not the calls made.
RecordMoreTools(t) ==
    /\ Phase(t) = "record"
    /\ run' = [run EXCEPT ![t].tools = @ + at[t].batch + 1]
    /\ at' = [at EXCEPT ![t].phase = "save", ![t].said = @ + 1]
    /\ NoFault /\ UNCHANGED strays

RecordTools(t) ==
    /\ Phase(t) = "record"
    /\ run' = [run EXCEPT ![t].tools = @ + at[t].batch]
    /\ at' = [at EXCEPT ![t].phase = "save", ![t].said = @ + 1]
    /\ NoFault /\ UNCHANGED strays

\* save_checkpoint replaces the checkpoint of the same step; a failure is logged.
Save(t) ==
    /\ Phase(t) = "save"
    /\ at' = NextStep(t)
    /\ \/ run' = [run EXCEPT ![t].saved[at[t].step] = at[t].said] /\ NoFault
       \/ UNCHANGED run /\ Fault
    /\ UNCHANGED strays

\* finish_run: the row is completed before the answer to the statement arrives.
\* Mutant of Finish: a status the table does not know.
FinishMisspelt(t) ==
    /\ Phase(t) = "finish"
    /\ End(t, "complete") /\ Goto(t, "finished")
    /\ NoFault /\ UNCHANGED strays

Finish(t) ==
    /\ Phase(t) = "finish"
    /\ End(t, "completed") /\ Goto(t, "finished")
    /\ NoFault /\ UNCHANGED strays

\* A call of the loop fails and fail_run is tried; when that fails too, the row
\* stays as it is.
LoopFails(t) ==
    /\ Phase(t) \in LoopPhases /\ Fault
    /\ Goto(t, "error")
    /\ End(t, "failed") \/ UNCHANGED run
    /\ UNCHANGED strays

\* timeout_secs pass somewhere in the loop: its future is dropped there, a
\* finished run whose answer was not read included.
Timeout(t) ==
    /\ Phase(t) \in LoopPhases /\ Fault
    /\ Goto(t, "error") /\ End(t, "timed_out")
    /\ UNCHANGED strays

RunStep(t) ==
    \/ FindRun(t) \/ InsertRun(t) \/ NotBegun(t) \/ Load(t)
    \/ LoadFails(t) \/ Call(t) \/ GiveUp(t) \/ Tool(t) \/ RecordTools(t) \/ Save(t)
    \/ Finish(t) \/ LoopFails(t) \/ Timeout(t)
==============================================================================
