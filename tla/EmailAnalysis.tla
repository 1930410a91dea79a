----------------------------- MODULE EmailAnalysis -----------------------------
(***************************************************************************)
(* The analysis of the stored mail: the core process's Analyze work and the *)
(* analyze, process-frontier-queue and lifecycle-cleanup commands, each a   *)
(* process of its own over the same rows.  Nothing claims a message for     *)
(* analysis; only the frontier queue has claims.                            *)
(*                                                                         *)
(* At this commit no code sets queued_for_frontier, so nothing enqueues:    *)
(* the frontier command works on rows that older versions left.             *)
(***************************************************************************)
EXTENDS ResultNormalization, Integers, FiniteSets, FiniteSetsExt

CONSTANTS Mail,             \* messages with a body, numbered by received date
          Core,             \* the core process; it alone re-plans its work
          Commands,         \* processes started by hand
          Answers,          \* verdicts of the models
          AnalyzeLimit, Concurrency,    \* of one Analyze
          MaxAttempts, FrontierMax,     \* MAX_ANALYSIS_ATTEMPTS, FRONTIER_QUEUE_MAX_ATTEMPTS
          OldRows,          \* messages in the frontier queue at the start
          OldActions,       \* messages with a code that an older version analyzed and acted on
          FaultBudget       \* bound: database errors, for TLC

ASSUME MailAssumption == Mail \subseteq Nat /\ IsFiniteSet(Mail)
ASSUME AnswerAssumption == Answers \subseteq Verdict /\ \A v \in Answers : Consistent(v)
ASSUME LimitAssumption ==
    {AnalyzeLimit, Concurrency, MaxAttempts, FrontierMax} \subseteq Nat \ {0} /\ FaultBudget \in Nat
ASSUME ProcessAssumption == Core \notin Commands

VARIABLES row,      \* emails
          queue,    \* frontier_analysis_queue
          job,      \* what each process is doing
          due,      \* messages whose code expired or whose retention ended
          trash,    \* messages in the server's Trash folder
          deep,     \* history: messages with a stored answer of the frontier model
          faults

vars == <<row, queue, job, due, trash, deep, faults>>

Processes == Commands \cup {Core}

Row == [analyzed : BOOLEAN, attempts : 0 .. MaxAttempts, cooling : BOOLEAN,
        permanent : BOOLEAN, spam : BOOLEAN, phishing : BOOLEAN, marketing : BOOLEAN,
        code : BOOLEAN, expiry : BOOLEAN, newsletter : BOOLEAN, action : BOOLEAN]
Queue == [status : {"absent", "pending", "processing", "failed", "dead"},
          attempts : 0 .. FrontierMax, ready : BOOLEAN, stale : BOOLEAN]
Job == [cmd : {"none", "analyze", "claim", "frontier", "cleanup"}, left : SUBSET Mail,
        seen : [Mail -> Nat],       \* analysis_attempts, or the claim's attempt_count
        at : [Mail -> {"none", "asked", "condemn", "done", "retry", "retryLast"}]]

NoMail == [m \in Mail |-> 0]
NoJob == [cmd |-> "none", left |-> {}, seen |-> NoMail, at |-> [m \in Mail |-> "none"]]

TypeOK ==
    /\ row \in [Mail -> Row] /\ queue \in [Mail -> Queue] /\ job \in [Processes -> Job]
    /\ due \subseteq Mail /\ trash \subseteq Mail /\ deep \subseteq Mail
    /\ faults \in 0 .. FaultBudget

Init ==
    /\ row = [m \in Mail |-> [analyzed |-> m \in OldActions, attempts |-> 0, cooling |-> FALSE,
                permanent |-> FALSE, spam |-> FALSE, phishing |-> FALSE, marketing |-> FALSE, code |-> m \in OldActions, expiry |-> FALSE,
                newsletter |-> FALSE, action |-> m \in OldActions]]
    /\ queue = [m \in Mail |-> [status |-> IF m \in OldRows THEN "pending" ELSE "absent",
                                attempts |-> 0, ready |-> TRUE, stale |-> FALSE]]
    /\ job = [p \in Processes |-> NoJob]
    /\ due = {} /\ trash = {} /\ deep = {} /\ faults = 0

NoFault == faults' = faults
Fault == faults < FaultBudget /\ faults' = faults + 1

InHand(p) == {m \in Mail : job[p].at[m] # "none"}
Goto(p, m, step) ==
    job' = [job EXCEPT ![p].at[m] = step, ![p].seen[m] = IF step = "none" THEN 0 ELSE @]
Idle(p) == job[p].cmd = "none"
Ends(p) == job' = [job EXCEPT ![p] = NoJob]
Capped(n, max) == IF n > max THEN max ELSE n
Newest(S, n) == {m \in S : Cardinality({o \in S : o > m}) < n}

------------------------------------------------------------------------------
(* run_analyze_with_limit_for_account and analyze_one_record_for_account *)

\* get_unanalyzed_emails_for_account; the back-off after a failure is `cooling'.
Eligible(force) ==
    {m \in Mail : m \notin trash /\
        (force \/ (~row[m].analyzed /\ ~row[m].permanent /\ ~row[m].cooling))}

Analyze(p, batch) ==
    /\ Idle(p)
    /\ job' = [job EXCEPT ![p] = [NoJob EXCEPT !.cmd = "analyze", !.left = batch,
                                    !.seen = [m \in Mail |-> IF m \in batch THEN row[m].attempts ELSE 0]]]
    /\ UNCHANGED <<row, queue, due, trash, deep, faults>>

\* Core's Analyze work; a command may also force, or name one message.
CoreAnalyze == Eligible(FALSE) # {} /\ Analyze(Core, Newest(Eligible(FALSE), AnalyzeLimit))
CommandAnalyze(p) == \E force \in BOOLEAN : Analyze(p, Newest(Eligible(force), AnalyzeLimit))
AnalyzeOne(p, m) == Analyze(p, {m})

\* analysis_concurrency_from_env
Room(p) == Cardinality(InHand(p)) < Concurrency

\* The next message of the batch, newest first, is given to the harness.
Ask(p) ==
    /\ job[p].cmd = "analyze" /\ job[p].left # {} /\ Room(p)
    /\ LET m == Max(job[p].left) IN
         job' = [job EXCEPT ![p].left = @ \ {m}, ![p].at[m] = "asked"]
    /\ UNCHANGED <<row, queue, due, trash, deep, faults>>

\* repair_schema_alignment: the review is not needed, or fails, or is applied.
Repaired(v) == {v} \cup Aligned(v)

\* update_ai_fields_for_account: an expiry the verdict lacks keeps the stored one.
Stored(r, v) ==
    LET n == Normalized(v) IN
    [r EXCEPT !.analyzed = TRUE, !.cooling = FALSE, !.permanent = FALSE, !.action = FALSE,
              !.spam = n.spam, !.phishing = n.phishing, !.marketing = n.marketing,
              !.code = n.otp, !.expiry = @ \/ n.expiry, !.newsletter = n.newsletter]

Answered(p, m) ==
    /\ job[p].cmd = "analyze" /\ job[p].at[m] = "asked"
    /\ \E v \in Answers : \E a \in Repaired(v) : row' = [row EXCEPT ![m] = Stored(@, a)]
    /\ Goto(p, m, "none") /\ NoFault
    /\ UNCHANGED <<queue, due, trash, deep>>

\* A save that fails is logged and counted as a success of the batch.
SaveFails(p, m) ==
    /\ job[p].cmd = "analyze" /\ job[p].at[m] = "asked"
    /\ Goto(p, m, "none") /\ Fault
    /\ UNCHANGED <<row, queue, due, trash, deep>>

\* The mistake of leaving a provider's passing refusals uncounted.
AttemptFailedUnlessTransient(r, transient) ==
    IF transient THEN r ELSE [r EXCEPT !.attempts = Capped(@ + 1, MaxAttempts), !.cooling = TRUE]

\* record_analysis_attempt_failed_for_account.
AttemptFailed(r, transient) ==
    [r EXCEPT !.attempts = Capped(@ + 1, MaxAttempts), !.cooling = TRUE]

\* The mistake of counting the first attempt twice.
LastAttemptEarly(p, m) == job[p].seen[m] + 2 >= MaxAttempts

\* Whether this failure is the last: by the attempts read with the batch.
LastAttempt(p, m) == job[p].seen[m] + 1 >= MaxAttempts

\* A transient error ends a sequential batch after the failure is recorded.
Failed(p, m, transient, step) ==
    job' = [job EXCEPT ![p].at[m] = step, ![p].seen[m] = 0,
                       ![p].left = IF transient /\ Concurrency = 1 THEN {} ELSE @]

AnalysisFails(p, m) ==
    /\ job[p].cmd = "analyze" /\ job[p].at[m] = "asked"
    /\ \E transient \in BOOLEAN :
         /\ \/ /\ row' = [row EXCEPT ![m] = AttemptFailed(@, transient)] /\ NoFault
               /\ Failed(p, m, transient, IF LastAttempt(p, m) THEN "condemn" ELSE "none")
            \/ Fault /\ UNCHANGED row /\ Failed(p, m, transient, "none")
    /\ UNCHANGED <<queue, due, trash, deep>>

\* mark_analysis_permanent_failure_for_account; an error is logged.
Condemn(p, m) ==
    /\ job[p].at[m] = "condemn"
    /\ \/ row' = [row EXCEPT ![m].permanent = TRUE] /\ NoFault
       \/ Fault /\ UNCHANGED row
    /\ Goto(p, m, "none") /\ UNCHANGED <<queue, due, trash, deep>>

BatchEnds(p) ==
    /\ job[p].cmd \in {"analyze", "frontier"} /\ job[p].left = {} /\ InHand(p) = {}
    /\ Ends(p) /\ UNCHANGED <<row, queue, due, trash, deep, faults>>

------------------------------------------------------------------------------
(* run_process_frontier_queue_for_account *)

\* The mistake of a status the schema does not know.
ResetStaleMisspelt(p) ==
    /\ Idle(p)
    /\ queue' = [m \in Mail |-> IF queue[m].status = "processing" /\ queue[m].stale
                    THEN [queue[m] EXCEPT !.status = "stale"] ELSE queue[m]]
    /\ job' = [job EXCEPT ![p].cmd = "claim"]
    /\ UNCHANGED <<row, due, trash, deep, faults>>

\* reset_stale_frontier_processing_for_account: the attempts stay as they are.
ResetStale(p) ==
    /\ Idle(p)
    /\ queue' = [m \in Mail |-> IF queue[m].status = "processing" /\ queue[m].stale
                    THEN [queue[m] EXCEPT !.status = "failed", !.ready = TRUE, !.stale = FALSE]
                    ELSE queue[m]]
    /\ job' = [job EXCEPT ![p].cmd = "claim"]
    /\ UNCHANGED <<row, due, trash, deep, faults>>

\* claim_frontier_queue_batch_for_account; an empty batch ends the command.
Claimable == {m \in Mail : queue[m].status \in {"pending", "failed"} /\ queue[m].ready}
ClaimFrontier(p) ==
    /\ job[p].cmd = "claim"
    /\ \E batch \in SUBSET Claimable :
         /\ batch = {} <=> Claimable = {}
         /\ queue' = [m \in Mail |-> IF m \in batch
                THEN [status |-> "processing", attempts |-> Capped(queue[m].attempts + 1, FrontierMax),
                      ready |-> TRUE, stale |-> FALSE]
                ELSE queue[m]]
         /\ job' = [job EXCEPT ![p] = [NoJob EXCEPT !.cmd = "frontier", !.left = batch,
                        !.seen = [m \in Mail |-> IF m \in batch
                            THEN Capped(queue[m].attempts + 1, FrontierMax) ELSE 0]]]
    /\ UNCHANGED <<row, due, trash, deep, faults>>

AskFrontier(p) ==
    /\ job[p].cmd = "frontier" /\ InHand(p) = {}
    /\ \E m \in job[p].left :
         job' = [job EXCEPT ![p].left = @ \ {m}, ![p].at[m] = "asked"]
    /\ UNCHANGED <<row, queue, due, trash, deep, faults>>

\* The frontier model has answered: the answer is stored, and the row may go.
FrontierAnswered(p, m) ==
    /\ job[p].cmd = "frontier" /\ job[p].at[m] = "asked"
    /\ \E v \in Answers : \E a \in Repaired(v) : row' = [row EXCEPT ![m] = Stored(@, a)]
    /\ deep' = deep \cup {m} /\ Goto(p, m, "done") /\ NoFault
    /\ UNCHANGED <<queue, due, trash>>

\* The mistake of going on to the removal after a failed save.
FrontierFailsThrough(p, m) ==
    /\ job[p].cmd = "frontier" /\ job[p].at[m] = "asked"
    /\ \E step \in {"retry", "done"} : Goto(p, m, step)
    /\ NoFault /\ UNCHANGED <<row, queue, due, trash, deep>>

\* The call or the save failed; a transient error stops the command, and the rest
\* of its rows stay claimed.
FrontierFails(p, m) ==
    /\ job[p].cmd = "frontier" /\ job[p].at[m] = "asked"
    /\ \E transient \in BOOLEAN : Goto(p, m, IF transient THEN "retryLast" ELSE "retry")
    /\ NoFault /\ UNCHANGED <<row, queue, due, trash, deep>>

\* mark_frontier_done_for_account deletes the row, whoever has claimed it since.
FrontierDone(p, m) ==
    /\ job[p].at[m] = "done"
    /\ \/ /\ queue' = [queue EXCEPT ![m].status = "absent", ![m].attempts = 0, ![m].stale = FALSE]
          /\ Goto(p, m, "none") /\ NoFault
       \/ Goto(p, m, "retry") /\ Fault /\ UNCHANGED queue
    /\ UNCHANGED <<row, due, trash, deep>>

\* mark_frontier_retry_or_dead_for_account, by the attempt count of the claim and
\* whoever has claimed the row since; an error is logged.
FrontierRetry(p, m) ==
    /\ job[p].at[m] \in {"retry", "retryLast"}
    /\ \/ /\ queue' = IF queue[m].status = "absent" THEN queue
                      ELSE [queue EXCEPT ![m].stale = FALSE, ![m].ready = FALSE, ![m].status =
                                IF job[p].seen[m] >= FrontierMax THEN "dead" ELSE "failed"]
          /\ NoFault
       \/ Fault /\ UNCHANGED queue
    /\ IF job[p].at[m] = "retryLast" THEN Ends(p) ELSE Goto(p, m, "none")
    /\ UNCHANGED <<row, due, trash, deep>>

------------------------------------------------------------------------------
(* run_lifecycle_cleanup_for_account *)

Expired(m) == row[m].analyzed /\ m \in due /\ m \notin trash /\ (row[m].code \/ row[m].newsletter)

\* get_lifecycle_cleanup_candidates_for_account: NOT IN is never true of a NULL
\* action_status.
CleanupCandidates == {m \in Mail : Expired(m) /\ row[m].action}

Cleanup(p) ==
    /\ Idle(p)
    /\ job' = [job EXCEPT ![p] = [NoJob EXCEPT !.cmd = "cleanup", !.left = CleanupCandidates]]
    /\ UNCHANGED <<row, queue, due, trash, deep, faults>>

\* move_message: by MOVE, or by COPY, \Deleted and EXPUNGE, after ensure_mailbox.  The
\* copy that a failure halfway leaves in Trash is left out.
MoveToTrash(m) == trash' = trash \cup {m}

\* Oldest first: the message is skipped, or it is moved; then the schema's CHECK
\* rejects the status lifecycle_trashed, and the command ends with that error.
CleanupOne(p) ==
    /\ job[p].cmd = "cleanup" /\ job[p].left # {}
    /\ LET m == Min(job[p].left) IN
         \/ job' = [job EXCEPT ![p].left = @ \ {m}] /\ UNCHANGED trash
         \/ Ends(p) /\ MoveToTrash(m)
    /\ UNCHANGED <<row, queue, due, deep, faults>>

CleanupEnds(p) ==
    /\ job[p].cmd = "cleanup" /\ job[p].left = {}
    /\ Ends(p) /\ UNCHANGED <<row, queue, due, trash, deep, faults>>

------------------------------------------------------------------------------
(* Time and death *)

BackOffEnds(m) == row[m].cooling /\ row' = [row EXCEPT ![m].cooling = FALSE]
                  /\ UNCHANGED <<queue, job, due, trash, deep, faults>>
RetryIsDue(m) == ~queue[m].ready /\ queue' = [queue EXCEPT ![m].ready = TRUE]
                 /\ UNCHANGED <<row, job, due, trash, deep, faults>>
LockGoesStale(m) == queue[m].status = "processing" /\ ~queue[m].stale
                   /\ queue' = [queue EXCEPT ![m].stale = TRUE]
                    /\ UNCHANGED <<row, job, due, trash, deep, faults>>
Expire(m) == row[m].code /\ m \notin due /\ due' = due \cup {m}
             /\ UNCHANGED <<row, queue, job, trash, deep, faults>>
Dies(p) == ~Idle(p) /\ Ends(p) /\ Fault /\ UNCHANGED <<row, queue, due, trash, deep>>

AnalysisStep(p, m) == Answered(p, m) \/ SaveFails(p, m) \/ AnalysisFails(p, m) \/ Condemn(p, m)
FrontierStep(p, m) == FrontierAnswered(p, m) \/ FrontierFails(p, m) \/ FrontierDone(p, m)
                      \/ FrontierRetry(p, m)

Next ==
    \/ CoreAnalyze
    \/ \E p \in Commands : CommandAnalyze(p) \/ ResetStale(p) \/ Cleanup(p)
                           \/ \E m \in Mail : AnalyzeOne(p, m)
    \/ \E p \in Processes : Ask(p) \/ BatchEnds(p) \/ ClaimFrontier(p) \/ AskFrontier(p)
                            \/ CleanupOne(p) \/ CleanupEnds(p) \/ Dies(p)
    \/ \E p \in Processes, m \in Mail : AnalysisStep(p, m) \/ FrontierStep(p, m)
    \/ \E m \in Mail : BackOffEnds(m) \/ RetryIsDue(m) \/ LockGoesStale(m) \/ Expire(m)

Spec == Init /\ [][Next]_vars

\* The core process keeps working and time keeps passing; commands need not go on.
Fairness ==
    /\ WF_vars(CoreAnalyze) /\ WF_vars(Ask(Core)) /\ WF_vars(BatchEnds(Core))
    /\ \A m \in Mail : WF_vars(AnalysisStep(Core, m)) /\ WF_vars(BackOffEnds(m))

FairSpec == Spec /\ Fairness

------------------------------------------------------------------------------
(* Properties *)

\* A message is given up for good only after MaxAttempts recorded failures, however
\* the processes that count them interleave.
PermanentIsEarned == \A m \in Mail : row[m].permanent => row[m].attempts >= MaxAttempts

\* The stored row of a phishing message keeps the spam and marketing answers that
\* the model gave with it, whatever the keyword repairs would have made of them.
ThreatsKeepTheirVerdict ==
    \A m \in Mail : row[m].phishing =>
        \E v \in Answers : row[m].spam = v.spam /\ row[m].marketing = v.marketing

\* A row leaves the frontier queue only when the frontier model's answer has been
\* stored, whichever command removes it.
FrontierRowsAreAnswered ==
    [][\A m \in Mail : queue[m].status # "absent" /\ queue'[m].status = "absent" => m \in deep]_vars

\* Every message is in the end analyzed, given up, or moved to Trash: refusals and
\* failures of the models delay it and nothing else.
AnalysisSettles ==
    \A m \in Mail : <>(row[m].analyzed \/ row[m].permanent \/ m \in trash)

\* The cleanup considers every message whose code expired or whose retention ended
\* ("Find emails eligible for lifecycle cleanup: expired OTPs (>1hr) and stale
\* newsletters").
CleanupFindsExpired ==
    [][\A p \in Processes : job[p].cmd # "cleanup" /\ job'[p].cmd = "cleanup" =>
            {m \in Mail : Expired(m)} \subseteq job'[p].left]_vars

\* An expiry is stored only with a code ("Keep expiry reserved for real auth flows").
ExpiryNeedsCode == \A m \in Mail : row[m].analyzed /\ row[m].expiry => row[m].code
==============================================================================
