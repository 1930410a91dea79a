----------------------------- MODULE CoreRuntime -----------------------------
(***************************************************************************)
(* Core runtimes of one account around the durable work queue: the         *)
(* advisory lease, startup recovery, the claim / execute / mark loop, the  *)
(* concurrent sub-agent batch, graceful shutdown, abort after the grace    *)
(* period, owner-aware cleanup and crashes.                                *)
(*                                                                         *)
(* A runtime is one run of one process: its worker id is a fresh UUID      *)
(* (CoreCoordinatorConfig::from_env), so a restart is another member of    *)
(* Runtimes and a stopped runtime never comes back.                        *)
(*                                                                         *)
(* What a work item does, and which items a planner enqueues, is left to   *)
(* CorePipeline: here an execution returns Ok or Err, and an item may be   *)
(* enqueued at any moment (the coordinator, the background sync loop, a    *)
(* heartbeat and the API's agents all do so).  Of the claim order only the *)
(* class is kept; inside a class any due row may come first.               *)
(***************************************************************************)
EXTENDS CoreWorkQueue, FiniteSets

CONSTANTS Pipeline,             \* rows of sync, analyze, embed, locate, file
          Heartbeat,            \* assistant_heartbeat rows
          Subagent,             \* subagent_task rows
          SubagentConcurrency,  \* MAIL_ASSISTANT_SUBAGENT_CONCURRENCY
          LeaseMayDrop,         \* can the lease's database session be lost?
          AttemptBound          \* bound on attempt_count, for TLC

ASSUME ItemAssumption ==
    /\ Pipeline \cap Heartbeat = {}
    /\ Pipeline \cap Subagent = {}
    /\ Heartbeat \cap Subagent = {}
    /\ IsFiniteSet(Subagent)
ASSUME ConcurrencyAssumption == SubagentConcurrency \in Nat \ {0}
ASSUME LeaseAssumption == LeaseMayDrop \in BOOLEAN
ASSUME BoundAssumption == AttemptBound \in Nat

Support == Heartbeat \cup Subagent
Items == Pipeline \cup Support

VARIABLES work,       \* [Items -> Row]: the table, shared by everyone
          lease,      \* holder of the Postgres advisory lock
          pc,         \* where each runtime is in its life
          running,    \* the items whose execution a runtime has in hand
          seen,       \* attempt_count as the claim returned it
          failing,    \* runtimes in whose batch a database call failed
          signalled   \* runtimes whose daemon set the shutdown flag

vars == <<work, lease, pc, running, seen, failing, signalled>>

\* "looping" is the head of run_core_coordinator_loop (the idle sleep
\* included), "claiming" sits between the two statements of run_once,
\* "batching" between the first claim and the batch claim.  "releasing" and
\* "closing" follow the loop; "cleanup" is core_daemon.rs after its task ended.
InLoop == {"looping", "claiming", "batching", "working"}
InTask == InLoop \cup {"recovering", "releasing", "closing"}
Phases == InTask \cup {"off", "cleanup", "stopped"}

TypeOK ==
    /\ work \in [Items -> Row]
    /\ lease \in Runtimes \cup {NoRuntime}
    /\ pc \in [Runtimes -> Phases]
    /\ running \in [Runtimes -> SUBSET Items]
    /\ seen \in [Runtimes -> [Items -> Nat]]
    /\ failing \in SUBSET Runtimes
    /\ signalled \in SUBSET Runtimes

Init ==
    /\ work = [i \in Items |-> AbsentRow]
    /\ lease = NoRuntime
    /\ pc = [r \in Runtimes |-> "off"]
    /\ running = [r \in Runtimes |-> {}]
    /\ seen = [r \in Runtimes |-> [i \in Items |-> 0]]
    /\ failing = {}
    /\ signalled = {}

GoTo(r, phase) == pc' = [pc EXCEPT ![r] = phase]

\* The task's future ends: everything it had in hand is gone, and so is the
\* connection that holds the lease.
DropTask(r) ==
    /\ running' = [running EXCEPT ![r] = {}]
    /\ failing' = failing \ {r}
    /\ lease' = IF lease = r THEN NoRuntime ELSE lease

------------------------------------------------------------------------------
(* Start: the lease, then recovery of every processing row. *)

\* Mutant of AcquireLease: the answer of pg_try_advisory_lock is ignored.
AcquireLeaseUnchecked(r) ==
    /\ pc[r] = "off"
    /\ lease' = r
    /\ GoTo(r, "recovering")
    /\ UNCHANGED <<work, running, seen, failing, signalled>>

AcquireLease(r) ==
    /\ pc[r] = "off"
    /\ lease = NoRuntime
    /\ lease' = r
    /\ GoTo(r, "recovering")
    /\ UNCHANGED <<work, running, seen, failing, signalled>>

\* pg_try_advisory_lock returned false: the task returns at once and the
\* daemon runs its cleanup.
LeaseRefused(r) ==
    /\ pc[r] = "off"
    /\ lease # NoRuntime
    /\ GoTo(r, "cleanup")
    /\ UNCHANGED <<work, lease, running, seen, failing, signalled>>

\* Mutant of RecoverOrphans: only rows past the stale timeout are recovered.
RecoverStaleOrphans(r) ==
    /\ pc[r] = "recovering"
    /\ work' = [i \in Items |->
                  IF work[i].status = "processing" /\ work[i].stale
                  THEN MadeRetryable(work[i]) ELSE work[i]]
    /\ GoTo(r, "looping")
    /\ UNCHANGED <<lease, running, seen, failing, signalled>>

\* After the rows, a second statement resets the sub-agent tasks attached to
\* them; when that one fails the task ends here.
RecoverOrphans(r) ==
    /\ pc[r] = "recovering"
    /\ work' = [i \in Items |-> IF work[i].status = "processing"
                                THEN MadeRetryable(work[i]) ELSE work[i]]
    /\ GoTo(r, "looping") \/ GoTo(r, "closing")
    /\ UNCHANGED <<lease, running, seen, failing, signalled>>

------------------------------------------------------------------------------
(* run_once: reset stale rows, claim one row, and for a sub-agent task     *)
(* claim further sub-agent tasks up to the concurrency.                    *)

\* Mutant of ResetStale: rows past the stale timeout are left as they are.
ResetNothing(r) ==
    /\ pc[r] = "looping"
    /\ r \notin signalled
    /\ GoTo(r, "claiming")
    /\ UNCHANGED <<work, lease, running, seen, failing, signalled>>

ResetStale(r) ==
    /\ pc[r] = "looping"
    /\ r \notin signalled
    /\ work' = [i \in Items |->
                  IF work[i].status = "processing" /\ work[i].stale
                  THEN MadeRetryable(work[i]) ELSE work[i]]
    /\ GoTo(r, "claiming")
    /\ UNCHANGED <<lease, running, seen, failing, signalled>>

\* TLC's bound: a row that reached AttemptBound is left alone.
DueIn(S) == {i \in S : Claimable(work[i]) /\ work[i].attempt < AttemptBound}

\* ORDER BY the class of the work type: support work only when no pipeline
\* row is due.
NextCandidates == IF DueIn(Pipeline) # {} THEN DueIn(Pipeline) ELSE DueIn(Support)

TakeAll(r, S) ==
    /\ work' = [i \in Items |-> IF i \in S THEN Claimed(work[i], r) ELSE work[i]]
    /\ running' = [running EXCEPT ![r] = @ \cup S]
    /\ seen' = [seen EXCEPT ![r] = [i \in Items |->
                  IF i \in S THEN work[i].attempt + 1 ELSE @[i]]]

Claim(r) ==
    /\ pc[r] = "claiming"
    /\ \E i \in NextCandidates :
         /\ TakeAll(r, {i})
         /\ GoTo(r, IF i \in Subagent /\ SubagentConcurrency > 1
                    THEN "batching" ELSE "working")
    /\ UNCHANGED <<lease, failing, signalled>>

NothingDue(r) ==
    /\ pc[r] = "claiming"
    /\ NextCandidates = {}
    /\ GoTo(r, "looping")
    /\ UNCHANGED <<work, lease, running, seen, failing, signalled>>

\* LIMIT concurrency - 1: as many due sub-agent rows as there are, up to it.
ClaimBatch(r) ==
    /\ pc[r] = "batching"
    /\ \E S \in SUBSET DueIn(Subagent) :
         /\ Cardinality(S) <= SubagentConcurrency - 1
         /\ \/ S = DueIn(Subagent)
            \/ Cardinality(S) = SubagentConcurrency - 1
         /\ TakeAll(r, S)
    /\ GoTo(r, "working")
    /\ UNCHANGED <<lease, failing, signalled>>

------------------------------------------------------------------------------
(* process_claimed_work for one item of the batch.  The executions of a    *)
(* batch end in any order.                                                 *)

Drop(r, i) == running' = [running EXCEPT ![r] = @ \ {i}]

\* The execution returned Ok: the row is done and follow-up work is planned.
MarkDone(r, i) ==
    /\ pc[r] = "working"
    /\ i \in running[r]
    /\ work' = [work EXCEPT ![i] = Completed(@)]
    /\ Drop(r, i)
    /\ UNCHANGED <<lease, pc, seen, failing, signalled>>

\* The execution returned Err.
MarkRetryOrDead(r, i) ==
    /\ pc[r] = "working"
    /\ i \in running[r]
    /\ work' = [work EXCEPT ![i] = AfterFailure(@, seen[r][i])]
    /\ Drop(r, i)
    /\ UNCHANGED <<lease, pc, seen, failing, signalled>>

\* The statement that marks the row fails: the row stays processing.
MarkFails(r, i) ==
    /\ pc[r] = "working"
    /\ i \in running[r]
    /\ Drop(r, i)
    /\ failing' = failing \cup {r}
    /\ UNCHANGED <<work, lease, pc, seen, signalled>>

\* The row is marked done but planning the follow-up work fails.
FollowUpFails(r, i) ==
    /\ pc[r] = "working"
    /\ i \in running[r]
    /\ work' = [work EXCEPT ![i] = Completed(@)]
    /\ Drop(r, i)
    /\ failing' = failing \cup {r}
    /\ UNCHANGED <<lease, pc, seen, signalled>>

\* The whole batch has ended; one error among the results ends the loop.
BatchEnd(r) ==
    /\ pc[r] = "working"
    /\ running[r] = {}
    /\ GoTo(r, IF r \in failing THEN "releasing" ELSE "looping")
    /\ failing' = failing \ {r}
    /\ UNCHANGED <<work, lease, running, seen, signalled>>

------------------------------------------------------------------------------
(* The ways out of the loop. *)

\* The daemon has taken its signal branch and set the shutdown flag.
Signal(r) ==
    /\ pc[r] \in InTask
    /\ signalled' = signalled \cup {r}
    /\ UNCHANGED <<work, lease, pc, running, seen, failing>>

\* The loop looks at the shutdown flag at its head and while it sleeps.
ShutdownSeen(r) ==
    /\ pc[r] = "looping"
    /\ r \in signalled
    /\ GoTo(r, "releasing")
    /\ UNCHANGED <<work, lease, running, seen, failing, signalled>>

\* A query fails: before the loop the task returns at once, inside it the
\* claims are released first.
DatabaseError(r) ==
    /\ pc[r] \in {"recovering", "looping", "claiming", "batching"}
    /\ GoTo(r, IF pc[r] = "recovering" THEN "closing" ELSE "releasing")
    /\ running' = [running EXCEPT ![r] = {}]
    /\ UNCHANGED <<work, lease, seen, failing, signalled>>

\* Mutant of ReleaseRows: the release is not limited to the worker's rows.
ReleaseAllRows(r) ==
    work' = [i \in Items |-> IF work[i].status = "processing"
                             THEN MadeRetryable(work[i]) ELSE work[i]]

ReleaseRows(r) ==
    work' = [i \in Items |->
               IF work[i].status = "processing" /\ work[i].worker = r
               THEN MadeRetryable(work[i]) ELSE work[i]]

ReleaseClaims(r) ==
    /\ pc[r] = "releasing"
    /\ ReleaseRows(r)
    /\ GoTo(r, "closing")
    /\ UNCHANGED <<lease, running, seen, failing, signalled>>

ReleaseFails(r) ==
    /\ pc[r] = "releasing"
    /\ GoTo(r, "closing")
    /\ UNCHANGED <<work, lease, running, seen, failing, signalled>>

\* The task returns, which drops the lease.  The daemon cleans up after a task
\* that ended on its own, not after one that it had asked to stop.
TaskReturns(r) ==
    /\ pc[r] = "closing"
    /\ DropTask(r)
    /\ GoTo(r, IF r \in signalled THEN "stopped" ELSE "cleanup")
    /\ UNCHANGED <<work, seen, signalled>>

\* The task is aborted wherever it is: the grace period expired, the API
\* server beside it failed, or it panicked.  The lease goes with it, before
\* the claims are released.
Abort(r) ==
    /\ pc[r] \in InTask
    /\ DropTask(r)
    /\ GoTo(r, "cleanup")
    /\ UNCHANGED <<work, seen, signalled>>

Cleanup(r) ==
    /\ pc[r] = "cleanup"
    /\ ReleaseRows(r)
    /\ GoTo(r, "stopped")
    /\ UNCHANGED <<lease, running, seen, failing, signalled>>

\* The process dies, or its cleanup fails.
Crash(r) ==
    /\ pc[r] \in InTask \cup {"cleanup"}
    /\ DropTask(r)
    /\ GoTo(r, "stopped")
    /\ UNCHANGED <<work, seen, signalled>>

\* The session that holds the advisory lock ends (a Postgres restart, a cut
\* connection).  Nothing in the process looks at that connection again.
LeaseLost(r) ==
    /\ LeaseMayDrop
    /\ lease = r
    /\ lease' = NoRuntime
    /\ UNCHANGED <<work, pc, running, seen, failing, signalled>>

------------------------------------------------------------------------------
(* Around the runtimes: anyone enqueues, and time passes. *)

EnqueueWork(i) ==
    /\ work' = [work EXCEPT ![i] = Enqueued(@)]
    /\ UNCHANGED <<lease, pc, running, seen, failing, signalled>>

BecomesDue(i) ==
    /\ work[i].status = "failed"
    /\ work' = [work EXCEPT ![i].due = TRUE]
    /\ UNCHANGED <<lease, pc, running, seen, failing, signalled>>

BecomesStale(i) ==
    /\ work[i].status = "processing"
    /\ work' = [work EXCEPT ![i].stale = TRUE]
    /\ UNCHANGED <<lease, pc, running, seen, failing, signalled>>

------------------------------------------------------------------------------
Work(r) ==
    \/ RecoverOrphans(r) \/ ResetStale(r) \/ Claim(r) \/ NothingDue(r)
    \/ ClaimBatch(r) \/ BatchEnd(r)
    \/ \E i \in Items : MarkDone(r, i) \/ MarkRetryOrDead(r, i)
                        \/ MarkFails(r, i) \/ FollowUpFails(r, i)

Leave(r) ==
    \/ ShutdownSeen(r) \/ ReleaseClaims(r) \/ ReleaseFails(r)
    \/ TaskReturns(r) \/ Cleanup(r)

Fault(r) == DatabaseError(r) \/ Abort(r) \/ Crash(r) \/ LeaseLost(r)

Environment == \E i \in Items : EnqueueWork(i) \/ BecomesDue(i) \/ BecomesStale(i)

Next ==
    \/ \E r \in Runtimes : AcquireLease(r) \/ LeaseRefused(r) \/ Work(r)
                           \/ Signal(r) \/ Leave(r) \/ Fault(r)
    \/ Environment

Spec == Init /\ [][Next]_vars

\* The loop never stops on its own, an execution ends, the daemon carries its
\* shutdown through, and a lock that stays gets old.  Nothing makes a process
\* start, fail or be signalled.
Fairness ==
    /\ \A r \in Runtimes : WF_vars(Work(r)) /\ WF_vars(Leave(r))
    /\ \A i \in Items : WF_vars(BecomesStale(i))

FairSpec == Spec /\ Fairness

------------------------------------------------------------------------------
(* Properties. *)

\* Two runtimes never execute the same work item.  The lease, recovery at
\* startup, owner-aware cleanup and the abort path must all agree on this.
ExclusiveExecution ==
    \A r1, r2 \in Runtimes : r1 # r2 => running[r1] \cap running[r2] = {}

\* While an item is executed, its row still is the claim that started the
\* execution: processing, owned by this runtime, with the attempt count the
\* runtime read.  This is what makes it right for the two mark statements to
\* address the row by its id alone.
ExecutionOwnsRow ==
    \A r \in Runtimes : \A i \in running[r] :
        /\ work[i].status = "processing"
        /\ work[i].worker = r
        /\ work[i].attempt = seen[r][i]

\* The runtime that holds the lease has, past its recovery, in hand every row
\* that is processing, unless its database failed it: no row is left behind
\* by an earlier runtime, and the stale reset finds nothing to take away.
NoOrphanInLoop ==
    \A r \in Runtimes :
        (lease = r /\ pc[r] \in InLoop /\ r \notin failing) =>
            \A i \in Items : work[i].status = "processing" => i \in running[r]

\* A runtime is in its task only under the lease, and only a batch in progress
\* has items in hand.  Owned is what makes the properties above inductive, and
\* so provable (CoreRuntime_proofs): at every moment of a shutdown or an abort
\* the lease outlives the executions, and the executions outlive their rows'
\* claims.
HolderOnly == \A r \in Runtimes : pc[r] \in InTask => lease = r
HandsInBatch == \A r \in Runtimes : running[r] # {} => pc[r] \in {"batching", "working"}
Owned == HolderOnly /\ HandsInBatch /\ ExecutionOwnsRow /\ NoOrphanInLoop

\* attempt_count exceeds max_attempts only by interrupted attempts, one for
\* each runtime that has left its loop: an item that keeps failing is not
\* retried for ever.
LeftLoop == {r \in Runtimes : pc[r] \in {"releasing", "closing", "cleanup", "stopped"}}
AttemptsBounded ==
    \A i \in Items : work[i].attempt <= MaxAttempts + Cardinality(LeftLoop)

\* A row becomes dead only as the outcome of an execution that had used up
\* the attempts: neither an interruption nor a late answer kills an item that
\* was enqueued again.
OnlyExhaustedWorkDies ==
    [][\A i \in Items :
         (work[i].status # "dead" /\ work'[i].status = "dead") =>
            /\ work[i].status = "processing"
            /\ work[i].attempt >= MaxAttempts]_vars

\* docs/ARCHITECTURE.md: core claim priority keeps pipeline work ahead of
\* heartbeat and sub-agent support work.
PipelineFirst ==
    [][\A i \in Support :
         (work[i].status # "processing" /\ work'[i].status = "processing") =>
            DueIn(Pipeline) = {}]_vars

\* docs/ARCHITECTURE.md: two local runtimes cannot claim the same account
\* queue at the same time.
OneClaimer ==
    \A r1, r2 \in Runtimes :
        (pc[r1] \in InLoop /\ pc[r2] \in InLoop) => r1 = r2

\* A row does not stay processing for ever: its execution ends, or a release,
\* a cleanup, the next runtime's recovery or, when the lease had been lost, the
\* stale reset of a runtime still looping frees it, or no runtime is alive.
ProcessingEnds ==
    \A i \in Items :
        (work[i].status = "processing") ~>
            \/ work[i].status # "processing"
            \/ \A r \in Runtimes : pc[r] \in {"off", "stopped"}

------------------------------------------------------------------------------
(* Refinement: the queue as ExclusiveWork. *)

InHand(i) == \E r \in Runtimes : i \in running[r]

AbstractState(i) ==
    CASE InHand(i) -> "running"
      [] ~InHand(i) /\ work[i].status = "absent" -> "idle"
      [] ~InHand(i) /\ work[i].status \in {"pending", "failed"} -> "ready"
      [] ~InHand(i) /\ work[i].status = "processing" -> "orphaned"
      [] ~InHand(i) /\ work[i].status = "done" -> "finished"
      [] ~InHand(i) /\ work[i].status = "dead" -> "abandoned"

Abstract == INSTANCE ExclusiveWork WITH
    Workers  <- Runtimes,
    NoWorker <- NoRuntime,
    MaxTries <- MaxAttempts,
    state  <- [i \in Items |-> AbstractState(i)],
    holder <- [i \in Items |-> IF InHand(i) THEN work[i].worker ELSE NoRuntime],
    tries  <- [i \in Items |-> work[i].attempt]

\* The detailed runtime implements the abstract promise.
ImplementsExclusiveWork == Abstract!AbstractSpec
==============================================================================
