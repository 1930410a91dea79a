---------------------------- MODULE CoreWorkQueue ----------------------------
(***************************************************************************)
(* One row of the table core_work_queue and what each SQL statement of     *)
(* database/core_work.rs makes of it.  A statement is a single UPDATE or   *)
(* INSERT ... ON CONFLICT, atomic in Postgres, so it is an operator from   *)
(* the old row to the new one; the modules that EXTEND this one say who    *)
(* runs which statement, and when.                                         *)
(*                                                                         *)
(* Abstracted data: payload, timestamps and error texts are left out.      *)
(* "due" stands for available_at <= NOW(), "stale" for a locked_at older   *)
(* than stale_after_secs.                                                  *)
(***************************************************************************)
EXTENDS Naturals

CONSTANTS Runtimes,     \* the worker ids a row can carry, one per process
          NoRuntime,    \* worker_id IS NULL
          MaxAttempts   \* max_attempts of an enqueued row (3 in the code)

ASSUME RuntimeAssumption == NoRuntime \notin Runtimes
ASSUME AttemptAssumption == MaxAttempts \in Nat \ {0}

Status == {"absent", "pending", "processing", "failed", "done", "dead"}

Row == [status  : Status,
        attempt : Nat,
        worker  : Runtimes \cup {NoRuntime},
        due     : BOOLEAN,
        stale   : BOOLEAN]

AbsentRow == [status |-> "absent", attempt |-> 0, worker |-> NoRuntime,
              due |-> FALSE, stale |-> FALSE]

\* Mutant of Enqueued: a request resets a row that is being executed.
EnqueuedReset(row) ==
    [status |-> "pending", attempt |-> 0, worker |-> NoRuntime,
     due |-> TRUE, stale |-> FALSE]

\* enqueue_core_work: a processing row keeps everything but its payload; any
\* other row, finished, failed or dead, starts over.
Enqueued(row) ==
    IF row.status = "processing"
    THEN row
    ELSE [status |-> "pending", attempt |-> 0, worker |-> NoRuntime,
          due |-> TRUE, stale |-> FALSE]

\* The WHERE clause shared by the two claim statements.
Claimable(row) == row.status \in {"pending", "failed"} /\ row.due

Claimed(row, worker) ==
    [row EXCEPT !.status = "processing", !.attempt = @ + 1,
                !.worker = worker, !.stale = FALSE]

\* mark_core_work_done and mark_core_work_retry_or_dead find the row by its id
\* alone: neither looks at the status or the worker the row has by then.
Completed(row) ==
    [row EXCEPT !.status = "done", !.worker = NoRuntime, !.stale = FALSE]

\* Mutants of AfterFailure: the last attempt is given away, or one is added.
AfterFailureEarly(row, attempt) ==
    [row EXCEPT !.status = IF attempt + 1 >= MaxAttempts THEN "dead" ELSE "failed",
                !.due    = IF attempt + 1 >= MaxAttempts THEN @ ELSE FALSE,
                !.worker = NoRuntime,
                !.stale  = FALSE]
AfterFailureLate(row, attempt) ==
    [row EXCEPT !.status = IF attempt > MaxAttempts THEN "dead" ELSE "failed",
                !.due    = IF attempt > MaxAttempts THEN @ ELSE FALSE,
                !.worker = NoRuntime,
                !.stale  = FALSE]

\* attempt is the count the claim returned, not the one the row has now.
AfterFailure(row, attempt) ==
    [row EXCEPT !.status = IF attempt >= MaxAttempts THEN "dead" ELSE "failed",
                !.due    = IF attempt >= MaxAttempts THEN @ ELSE FALSE,
                !.worker = NoRuntime,
                !.stale  = FALSE]

\* Mutant of MadeRetryable: a status the table does not know.
MadeRetryableMisspelt(row) ==
    [row EXCEPT !.status = "retry", !.due = TRUE,
                !.worker = NoRuntime, !.stale = FALSE]

\* The SET list shared by recover_orphaned, release_for_worker and reset_stale.
MadeRetryable(row) ==
    [row EXCEPT !.status = "failed", !.due = TRUE,
                !.worker = NoRuntime, !.stale = FALSE]

\* The status list of has_active_core_work_type.
Active(row) == row.status \in {"pending", "processing", "failed"}
==============================================================================
