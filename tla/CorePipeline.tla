----------------------------- MODULE CorePipeline -----------------------------
(***************************************************************************)
(* The planner of the core runtime and the backlog it is driven by: what   *)
(* the coordinator seeds at startup, which follow-up work a completed item *)
(* queues, what an idle poll queues, how rows of one work type coalesce,   *)
(* and what each kind of work makes of the mail.  Beside the coordinator   *)
(* runs the background sync loop, which plans follow-up work of its own.   *)
(*                                                                         *)
(* One runtime at a time, as CoreRuntime justifies, with crashes and       *)
(* restarts between any two statements.  A row that is absent, done or     *)
(* dead is "inactive": the planner does not tell them apart.  Heartbeat    *)
(* bookkeeping beyond its row and sub-agent tasks are not here; agents ask *)
(* for work in AgentGate.  All mail fits one pass's LIMIT.                 *)
(***************************************************************************)
EXTENDS Naturals, FiniteSets, Sequences, SequencesExt

CONSTANTS Mail,                 \* messages that are or may come on the server
          MaxAttempts,          \* max_attempts, a column: by type of work (3 in the code)
          MaxAnalysisAttempts,  \* MAX_ANALYSIS_ATTEMPTS (5 by default)
          BackgroundSync,       \* background_sync_enabled
          HeartbeatEnabled,     \* assistant_heartbeat_enabled
          ApplySettings,        \* values CORE_FILE_APPLY may have at a start
          Unlocatable,          \* messages the location agent may turn out to fail on, always
          FaultBudget           \* bound on failing calls and crashes, for TLC

ASSUME AnalysisAssumption == MaxAnalysisAttempts \in Nat \ {0}
ASSUME SwitchAssumption == BackgroundSync \in BOOLEAN /\ HeartbeatEnabled \in BOOLEAN
ASSUME ApplyAssumption == ApplySettings \in (SUBSET BOOLEAN) \ {{}}
ASSUME UnlocatableAssumption == Unlocatable \subseteq Mail
ASSUME BudgetAssumption == FaultBudget \in Nat

SyncTypes == {"sync_full", "sync_incremental", "sync_body"}
PipelineTypes == SyncTypes \cup
                 {"analyze", "embed", "locate", "file_preview", "file_apply"}
WorkTypes == PipelineTypes \cup {"assistant_heartbeat"}

ASSUME AttemptAssumption == MaxAttempts \in [WorkTypes -> Nat \ {0}]

\* The rows the planner and the gate of an agent (AgentGate) can write: work type
\* and idempotency key.
RowIds == {<<"sync_full", "bootstrap">>, <<"sync_full", "periodic">>,
           <<"sync_incremental", "periodic">>,
           <<"sync_body", "body-backlog">>, <<"sync_body", "periodic">>,
           <<"analyze", "pipeline">>, <<"analyze", "periodic">>,
           <<"embed", "pipeline">>,
           <<"locate", "pipeline">>, <<"locate", "periodic">>,
           <<"file_preview", "pipeline">>,
           <<"file_apply", "pipeline">>, <<"file_apply", "periodic">>,
           <<"assistant_heartbeat", "assistant-heartbeat">>,
           <<"sync_full", "agent">>, <<"sync_body", "agent">>,
           <<"analyze", "agent">>, <<"locate", "agent">>}
TypeOf(id) == id[1]
HeartbeatRow == <<"assistant_heartbeat", "assistant-heartbeat">>
NoRow == <<"none", "none">>

\* Where a message is: not in the database yet, without body, ready for
\* analysis, in backoff after a failed analysis, analysed without location, the
\* same and the location agent fails on it whenever asked, located elsewhere than
\* it is, nothing left to do, permanently failed.
Stages == {"unknown", "bodyless", "ready", "backoff", "unlocated", "unlocatable",
           "unfiled", "settled", "given_up"}

Processes == {"core", "background"}

VARIABLES stage, tries, unembedded,       \* the emails table
          rows, queue,                    \* core_work_queue; due rows by available_at
          heartbeatRecent,                \* completed_at within the interval
          core, doing, result,            \* the coordinator
          background,                     \* the background sync loop
          plan, checked,                  \* work each process is about to enqueue
          fileApply,                      \* file_apply_enabled of this start
          faults

mailVars == <<stage, tries, unembedded>>
queueVars == <<rows, queue, heartbeatRecent>>
coreVars == <<core, doing, result>>
planVars == <<plan, checked>>
vars == <<mailVars, queueVars, coreVars, background, planVars, fileApply, faults>>

CorePhases == {"down", "seeding", "looping", "executing", "marking", "marked",
               "planning", "asleep"}

TypeOK ==
    /\ stage \in [Mail -> Stages]
    /\ tries \in [Mail -> 0 .. MaxAnalysisAttempts]
    /\ unembedded \in SUBSET Mail
    /\ rows \in [RowIds -> [status  : {"inactive", "pending", "processing", "failed"},
                            attempt : Nat]]
    /\ queue \in Seq(RowIds) /\ IsInjective(queue)
    /\ \A id \in ToSet(queue) : rows[id].status \in {"pending", "failed"}
    /\ heartbeatRecent \in BOOLEAN
    /\ core \in CorePhases
    /\ doing \in RowIds \cup {NoRow}
    /\ result \in {"none", "ok", "error"}
    /\ background \in {"off", "waiting", "syncing", "synced", "planning"}
    /\ plan \in [Processes -> Seq(RowIds)]
    /\ checked \in [Processes -> BOOLEAN]
    /\ fileApply \in BOOLEAN
    /\ faults \in 0 .. FaultBudget

Init ==
    /\ stage = [m \in Mail |-> "unknown"]
    /\ tries = [m \in Mail |-> 0]
    /\ unembedded = {}
    /\ rows = [id \in RowIds |-> [status |-> "inactive", attempt |-> 0]]
    /\ queue = <<>>
    /\ heartbeatRecent = FALSE
    /\ core = "down" /\ doing = NoRow /\ result = "none"
    /\ background = "off"
    /\ plan = [p \in Processes |-> <<>>]
    /\ checked = [p \in Processes |-> FALSE]
    /\ fileApply \in ApplySettings
    /\ faults = 0

MailAt(stages) == {m \in Mail : stage[m] \in stages}

\* The counts of DbCompletenessSnapshot the planner reads.  Mail in backoff
\* still counts as missing its analysis.
Known           == MailAt(Stages \ {"unknown"})
BodyMissing     == MailAt({"bodyless"})
AnalysisMissing == MailAt({"ready", "backoff"})
LocationMissing == MailAt({"unlocated", "unlocatable"})
FilingPending   == MailAt({"unfiled"})

\* needs_full_sync_backfill: an empty table, or one much smaller than the
\* largest folder on the server, which only unsynced mail can make it.
BackfillChoices ==
    IF Known = {} THEN {TRUE} ELSE IF Known = Mail THEN {FALSE} ELSE BOOLEAN

Active(type) ==
    \E id \in RowIds : TypeOf(id) = type
                       /\ rows[id].status \in {"pending", "processing", "failed"}
ActiveSync ==
    \E id \in RowIds : TypeOf(id) \in SyncTypes
                       /\ rows[id].status \in {"pending", "processing"}

Fault == faults < FaultBudget /\ faults' = faults + 1
NoFault == UNCHANGED faults

------------------------------------------------------------------------------
(* The plans. *)

If(condition, entry) == IF condition THEN <<entry>> ELSE <<>>

SeedPlan(backfill) ==
    <<IF backfill THEN <<"sync_full", "bootstrap">> ELSE <<"sync_incremental", "periodic">>>>
    \o If(BodyMissing # {}, <<"sync_body", "body-backlog">>)
    \o If(HeartbeatEnabled, HeartbeatRow)

\* Mutant: the idle poll leaves the body backlog to the syncs.
IdlePlanWithoutBodies(backfill) ==
    <<IF backfill THEN <<"sync_full", "periodic">> ELSE <<"sync_incremental", "periodic">>>>
    \o If(AnalysisMissing # {}, <<"analyze", "periodic">>)
    \o If(LocationMissing # {}, <<"locate", "periodic">>)
    \o If(fileApply /\ FilingPending # {}, <<"file_apply", "periodic">>)
    \o If(HeartbeatEnabled, HeartbeatRow)

IdlePlan(backfill) ==
    <<IF backfill THEN <<"sync_full", "periodic">> ELSE <<"sync_incremental", "periodic">>>>
    \o If(BodyMissing # {}, <<"sync_body", "periodic">>)
    \o If(AnalysisMissing # {}, <<"analyze", "periodic">>)
    \o If(LocationMissing # {}, <<"locate", "periodic">>)
    \o If(fileApply /\ FilingPending # {}, <<"file_apply", "periodic">>)
    \o If(HeartbeatEnabled, HeartbeatRow)

\* What the completed type itself leads to, by its own arm of the match.
NextStages(type) ==
    CASE type \in SyncTypes    -> If(AnalysisMissing # {}, <<"analyze", "pipeline">>)
      [] type = "analyze"      -> <<<<"embed", "pipeline">>>>
                                  \o If(LocationMissing # {}, <<"locate", "pipeline">>)
      [] type = "embed"        -> If(LocationMissing # {}, <<"locate", "pipeline">>)
      [] type = "locate"       -> If(FilingPending # {}, <<"file_preview", "pipeline">>)
      [] type = "file_preview" -> If(fileApply /\ FilingPending # {}, <<"file_apply", "pipeline">>)
      [] OTHER                 -> <<>>

\* Mutant: a completed item also polls the server, instead of the idle poll.
FollowUpAndPoll(type) ==
    NextStages(type) \o <<<<"sync_incremental", "periodic">>>>

\* Every completed item also plans for the backlogs its arm did not name.
FollowUpPlan(type) ==
    LET next == NextStages(type)
        Unnamed(id) == id \notin ToSet(next)
    IN  next
        \o If(AnalysisMissing # {} /\ Unnamed(<<"analyze", "pipeline">>), <<"analyze", "pipeline">>)
        \o If(LocationMissing # {} /\ Unnamed(<<"locate", "pipeline">>), <<"locate", "pipeline">>)

------------------------------------------------------------------------------
(* enqueue_core_work: one statement looks for an active row of the type, a *)
(* second one writes the row.                                              *)

HeadDone(p) == plan' = [plan EXCEPT ![p] = Tail(@)]

\* Mutant: active work is looked for by key instead of by type.
SkippedByKey(id) ==
    rows[id].status # "inactive" \/ (id = HeartbeatRow /\ heartbeatRecent)

\* Heartbeats do not coalesce: at startup the row is written in any case, in
\* an idle poll when core_work_due says so.
Skipped(id) ==
    IF id = HeartbeatRow
    THEN core = "planning" /\ (Active("assistant_heartbeat") \/ heartbeatRecent)
    ELSE Active(TypeOf(id))

EnqueueSkips(p) ==
    /\ plan[p] # <<>> /\ ~checked[p]
    /\ Skipped(Head(plan[p]))
    /\ HeadDone(p)
    /\ UNCHANGED <<mailVars, queueVars, coreVars, background, checked, fileApply, faults>>

EnqueueChecked(p) ==
    /\ plan[p] # <<>> /\ ~checked[p]
    /\ ~Skipped(Head(plan[p]))
    /\ checked' = [checked EXCEPT ![p] = TRUE]
    /\ UNCHANGED <<mailVars, queueVars, coreVars, background, plan, fileApply, faults>>

\* enqueue_core_work_for_account: a row that is being processed stays as it is.
Upsert(id) ==
    IF rows[id].status = "processing"
    THEN UNCHANGED <<rows, queue>>
    ELSE /\ rows' = [rows EXCEPT ![id] = [status |-> "pending", attempt |-> 0]]
         /\ queue' = Append(RemoveFirst(queue, id), id)

\* Mutant: the upsert resets a row that is being processed.
EnqueueResets(p) ==
    /\ plan[p] # <<>> /\ checked[p]
    /\ LET id == Head(plan[p])
       IN  /\ rows' = [rows EXCEPT ![id] = [status |-> "pending", attempt |-> 0]]
           /\ queue' = Append(RemoveFirst(queue, id), id)
    /\ HeadDone(p)
    /\ checked' = [checked EXCEPT ![p] = FALSE]
    /\ heartbeatRecent' = (heartbeatRecent /\ Head(plan[p]) # HeartbeatRow)
    /\ UNCHANGED <<mailVars, coreVars, background, fileApply, faults>>

EnqueueInserts(p) ==
    /\ plan[p] # <<>> /\ checked[p]
    /\ Upsert(Head(plan[p]))
    /\ HeadDone(p)
    /\ checked' = [checked EXCEPT ![p] = FALSE]
    /\ heartbeatRecent' = (heartbeatRecent /\ Head(plan[p]) # HeartbeatRow)
    /\ UNCHANGED <<mailVars, coreVars, background, fileApply, faults>>

SetPlan(p, entries) == plan' = [plan EXCEPT ![p] = entries]

------------------------------------------------------------------------------
(* The coordinator: start, loop, claim, mark, plan, sleep. *)

\* Startup recovery makes every processing row retryable now, then the
\* bootstrap work is planned.
Boot ==
    /\ core = "down"
    /\ core' = "seeding"
    /\ LET orphans == {id \in RowIds : rows[id].status = "processing"}
       IN  /\ rows' = [id \in RowIds |-> IF id \in orphans
                          THEN [rows[id] EXCEPT !.status = "failed"] ELSE rows[id]]
           /\ \E recovered \in SetToSeqs(orphans) : queue' = queue \o recovered
    /\ \E backfill \in BackfillChoices : SetPlan("core", SeedPlan(backfill))
    /\ fileApply' \in ApplySettings
    /\ UNCHANGED <<mailVars, heartbeatRecent, doing, result, background, checked, faults>>

PlanDone ==
    /\ core \in {"seeding", "planning"}
    /\ plan["core"] = <<>>
    /\ core' = "looping"
    /\ background' = IF core = "seeding" /\ BackgroundSync THEN "waiting" ELSE background
    /\ UNCHANGED <<mailVars, queueVars, doing, result, planVars, fileApply, faults>>

\* The claim's order: pipeline rows before support rows, then by available_at.
Before(i, j) ==
    LET Pipeline(k) == TypeOf(queue[k]) \in PipelineTypes
    IN  IF Pipeline(i) <=> Pipeline(j) THEN i < j ELSE Pipeline(i)

First(id) ==
    /\ rows[id].status \in {"pending", "failed"}
    /\ \E i \in DOMAIN queue : queue[i] = id /\ \A j \in DOMAIN queue \ {i} : Before(i, j)

\* Mutant: the claimed row stays due.
ClaimStaysDue ==
    /\ core = "looping"
    /\ core' = "executing"
    /\ \E id \in ToSet(queue) :
         /\ First(id)
         /\ doing' = id
         /\ rows' = [rows EXCEPT ![id] = [status |-> "processing", attempt |-> @.attempt + 1]]
    /\ UNCHANGED <<mailVars, queue, heartbeatRecent, result, background, planVars, fileApply,
                   faults>>

Claim ==
    /\ core = "looping"
    /\ core' = "executing"
    /\ \E id \in ToSet(queue) :
         /\ First(id)
         /\ doing' = id
         /\ rows' = [rows EXCEPT ![id] = [status |-> "processing", attempt |-> @.attempt + 1]]
         /\ queue' = RemoveFirst(queue, id)
    /\ UNCHANGED <<mailVars, heartbeatRecent, result, background, planVars, fileApply, faults>>

Sleep ==
    /\ core = "looping"
    /\ queue = <<>>
    /\ core' = "asleep"
    /\ UNCHANGED <<mailVars, queueVars, doing, result, background, planVars, fileApply, faults>>

\* The poll interval is over: the idle plan, then the loop again.
Wake ==
    /\ core = "asleep"
    /\ core' = "planning"
    /\ \E backfill \in BackfillChoices : SetPlan("core", IdlePlan(backfill))
    /\ UNCHANGED <<mailVars, queueVars, doing, result, background, checked, fileApply, faults>>

MarkDone ==
    /\ core = "marking" /\ result = "ok"
    /\ core' = "marked"
    /\ result' = "none"
    /\ rows' = [rows EXCEPT ![doing] = [status |-> "inactive", attempt |-> 0]]
    /\ heartbeatRecent' = (heartbeatRecent \/ doing = HeartbeatRow)
    /\ UNCHANGED <<mailVars, queue, doing, background, planVars, fileApply, faults>>

FollowUp ==
    /\ core = "marked"
    /\ core' = "planning"
    /\ SetPlan("core", FollowUpPlan(TypeOf(doing)))
    /\ doing' = NoRow
    /\ UNCHANGED <<mailVars, queueVars, result, background, checked, fileApply, faults>>

\* A failed item is retried later or, its attempts used up, dead.  Nothing
\* follows it.
MarkRetryOrDead ==
    /\ core = "marking" /\ result = "error"
    /\ core' = "looping"
    /\ result' = "none"
    /\ doing' = NoRow
    /\ rows' = [rows EXCEPT ![doing] =
                  IF @.attempt >= MaxAttempts[TypeOf(doing)]
                  THEN [status |-> "inactive", attempt |-> 0]
                  ELSE [@ EXCEPT !.status = "failed"]]
    /\ UNCHANGED <<mailVars, queue, heartbeatRecent, background, planVars, fileApply, faults>>

\* The process goes, with everything it had not written.
Crash ==
    /\ core # "down"
    /\ Fault
    /\ core' = "down" /\ doing' = NoRow /\ result' = "none"
    /\ background' = "off"
    /\ plan' = [p \in Processes |-> <<>>]
    /\ checked' = [p \in Processes |-> FALSE]
    /\ UNCHANGED <<mailVars, queueVars, fileApply>>

------------------------------------------------------------------------------
(* execute_work: what a pass makes of the mail, and whether it returns Ok. *)
(* A pass is one step: only the background sync runs beside it, and the    *)
(* two touch mail in different stages.  A Fault is a call that fails.      *)

Running(types) == core = "executing" /\ TypeOf(doing) \in types

Returns(r) ==
    /\ core' = "marking"
    /\ result' = r
    /\ UNCHANGED <<queueVars, doing, background, planVars, fileApply>>

Becomes(S, next) == [m \in Mail |-> IF m \in S THEN next ELSE stage[m]]

\* Envelopes of some new mail are stored, and the body queue is drained as far
\* as the server lets it; an incremental sync without new mail skips that.
SyncEffect(incremental) ==
    \E new \in SUBSET MailAt({"unknown"}) :
    \E fetched \in SUBSET (new \cup BodyMissing) :
        /\ incremental /\ new = {} => fetched = {}
        /\ stage' = [m \in Mail |-> IF m \in fetched THEN "ready"
                                    ELSE IF m \in new THEN "bodyless" ELSE stage[m]]
        /\ unembedded' = unembedded \cup fetched
        /\ UNCHANGED tries

RunSync ==
    /\ Running({"sync_full", "sync_incremental"})
    /\ SyncEffect(TypeOf(doing) = "sync_incremental")
    /\ \/ Returns("ok") /\ NoFault
       \/ Returns("error") /\ Fault

RunBodySync ==
    /\ Running({"sync_body"})
    /\ \E fetched \in SUBSET BodyMissing :
         /\ stage' = Becomes(fetched, "ready")
         /\ unembedded' = unembedded \cup fetched
         /\ \/ fetched = BodyMissing /\ Returns("ok") /\ NoFault
            \/ (Returns("ok") \/ Returns("error")) /\ Fault
    /\ UNCHANGED tries

\* Mail in backoff is not selected.  A failed message counts an attempt; the
\* last one is permanent.  The pass returns Err only for a message that was
\* selected alone, or for an error that stops the pass.  A result that cannot
\* be saved leaves its message as it was.
AfterFailedAnalysis(m) ==
    IF tries[m] + 1 >= MaxAnalysisAttempts THEN "given_up" ELSE "backoff"

\* What a pass makes of the mail it reached.
Analyzed(reached, failed, toLocate, never) ==
    [m \in Mail |-> IF m \in failed THEN AfterFailedAnalysis(m)
                    ELSE IF m \in never THEN "unlocatable"
                    ELSE IF m \in toLocate THEN "unlocated"
                    ELSE IF m \in reached THEN "settled" ELSE stage[m]]

\* How the pass ends.
AnalyzeReturns(reached, failed) ==
    \/ /\ reached = MailAt({"ready"})
       /\ Returns(IF failed = reached /\ Cardinality(reached) = 1 THEN "error" ELSE "ok")
       /\ NoFault
    \/ failed # {} /\ Returns("error") /\ NoFault
    \/ (Returns("ok") \/ Returns("error")) /\ Fault

RunAnalyze ==
    /\ Running({"analyze"})
    /\ \E reached \in SUBSET MailAt({"ready"}) :
       \E failed \in SUBSET reached : \E toLocate \in SUBSET (reached \ failed) :
       \E never \in SUBSET (toLocate \cap Unlocatable) :
         /\ stage' = Analyzed(reached, failed, toLocate, never)
         /\ tries' = [m \in Mail |-> IF m \in failed THEN tries[m] + 1 ELSE tries[m]]
         /\ AnalyzeReturns(reached, failed)
    /\ UNCHANGED unembedded

\* get_emails_needing_embedding_for_account: a body and no embedding.
Embeddable == unembedded \ MailAt({"unknown", "bodyless"})

RunEmbed ==
    /\ Running({"embed"})
    /\ \E embedded \in SUBSET Embeddable :
         /\ unembedded' = unembedded \ embedded
         /\ \/ embedded = Embeddable /\ Returns("ok") /\ NoFault
            \/ (Returns("ok") \/ Returns("error")) /\ Fault
    /\ UNCHANGED <<stage, tries>>

\* What a pass can place: it asks about the unlocatable every time, in vain.
ToLocate == MailAt({"unlocated"})

\* The pass returns Ok whatever happened to each message.  A failure leaves no
\* trace: no attempt is counted and nothing backs off.
RunLocate ==
    /\ Running({"locate"})
    /\ \E located \in SUBSET ToLocate : \E inPlace \in SUBSET located :
         /\ stage' = [m \in Mail |-> IF m \in inPlace THEN "settled"
                                     ELSE IF m \in located THEN "unfiled" ELSE stage[m]]
         /\ \/ located = ToLocate /\ Returns("ok") /\ NoFault
            \/ (Returns("ok") \/ Returns("error")) /\ Fault
    /\ UNCHANGED <<tries, unembedded>>

RunFilePreview ==
    /\ Running({"file_preview"})
    /\ \/ Returns("ok") /\ NoFault
       \/ Returns("error") /\ Fault
    /\ UNCHANGED mailVars

\* Mutant: a queued apply is carried out whatever this start's setting.
RunFileApplyUnasked ==
    /\ Running({"file_apply"})
    /\ \E moved \in SUBSET FilingPending : stage' = Becomes(moved, "settled")
    /\ \/ Returns("ok") /\ NoFault
       \/ Returns("error") /\ Fault
    /\ UNCHANGED <<tries, unembedded>>

\* Messages that cannot be moved are skipped; a switched off apply is Ok.
RunFileApply ==
    /\ Running({"file_apply"})
    /\ \E moved \in SUBSET (IF fileApply THEN FilingPending ELSE {}) :
         stage' = Becomes(moved, "settled")
    /\ \/ Returns("ok") /\ NoFault
       \/ Returns("error") /\ Fault
    /\ UNCHANGED <<tries, unembedded>>

RunHeartbeat ==
    /\ Running({"assistant_heartbeat"})
    /\ \/ Returns("ok") /\ NoFault
       \/ Returns("error") /\ Fault
    /\ UNCHANGED mailVars

------------------------------------------------------------------------------
(* run_background_sync_loop. *)

BackgroundStart ==
    /\ background = "waiting"
    /\ ~ActiveSync
    /\ background' = "syncing"
    /\ UNCHANGED <<mailVars, queueVars, coreVars, planVars, fileApply, faults>>

BackgroundRun ==
    /\ background = "syncing"
    /\ SyncEffect(TRUE)
    /\ \/ background' = "synced" /\ NoFault
       \/ background' = "waiting" /\ Fault
    /\ UNCHANGED <<queueVars, coreVars, planVars, fileApply>>

BackgroundFollowUp ==
    /\ background = "synced"
    /\ background' = "planning"
    /\ SetPlan("background", FollowUpPlan("sync_incremental"))
    /\ UNCHANGED <<mailVars, queueVars, coreVars, checked, fileApply, faults>>

BackgroundDone ==
    /\ background = "planning"
    /\ plan["background"] = <<>>
    /\ background' = "waiting"
    /\ UNCHANGED <<mailVars, queueVars, coreVars, planVars, fileApply, faults>>

------------------------------------------------------------------------------
(* Time. *)

\* available_at of a failed row passes: it takes its place behind the rows
\* that were due before.
RetryDue(id) ==
    /\ rows[id].status = "failed"
    /\ id \notin ToSet(queue)
    /\ queue' = Append(queue, id)
    /\ UNCHANGED <<mailVars, rows, heartbeatRecent, coreVars, background, planVars,
                   fileApply, faults>>

BackoffExpires(m) ==
    /\ stage[m] = "backoff"
    /\ stage' = [stage EXCEPT ![m] = "ready"]
    /\ UNCHANGED <<tries, unembedded, queueVars, coreVars, background, planVars,
                   fileApply, faults>>

HeartbeatAges ==
    /\ heartbeatRecent
    /\ heartbeatRecent' = FALSE
    /\ UNCHANGED <<mailVars, rows, queue, coreVars, background, planVars, fileApply, faults>>

------------------------------------------------------------------------------
Enqueue(p) == EnqueueSkips(p) \/ EnqueueChecked(p) \/ EnqueueInserts(p)

Execute ==
    \/ RunSync \/ RunBodySync \/ RunAnalyze \/ RunEmbed \/ RunLocate
    \/ RunFilePreview \/ RunFileApply \/ RunHeartbeat

Coordinator ==
    \/ Enqueue("core") \/ PlanDone \/ Claim \/ Sleep \/ Wake
    \/ Execute \/ MarkDone \/ FollowUp \/ MarkRetryOrDead

BackgroundLoop ==
    \/ Enqueue("background") \/ BackgroundRun \/ BackgroundFollowUp \/ BackgroundDone

Time ==
    \/ \E id \in RowIds : RetryDue(id)
    \/ \E m \in Mail : BackoffExpires(m)
    \/ HeartbeatAges

Next == Boot \/ Coordinator \/ BackgroundStart \/ BackgroundLoop \/ Time \/ Crash

Spec == Init /\ [][Next]_vars

\* The loops run, and of the retry and of the backoff delays one after the other
\* passes.  Nothing starts a process that is down, and no new mail needs to come.
Fairness ==
    /\ WF_vars(Coordinator)
    /\ WF_vars(BackgroundLoop)
    /\ WF_vars(\E id \in RowIds : RetryDue(id))
    /\ WF_vars(\E m \in Mail : BackoffExpires(m))

FairSpec == Spec /\ Fairness

------------------------------------------------------------------------------
(* Properties. *)

\* docs/getting-started.md:136, which says in the same breath that the background sync
\* is on by default: core "coalesces active work so the same backlog is not processed
\* twice".  Active work is coalesced by its type, a backlog by a row of another key.
OneActiveRowPerType ==
    \A id1, id2 \in RowIds :
        /\ TypeOf(id1) = TypeOf(id2)
        /\ rows[id1].status # "inactive"
        /\ rows[id2].status # "inactive"
        => id1 = id2

\* What both the coordinator and the background loop plan.
SharedTypes == IF BackgroundSync THEN {"analyze", "locate"} ELSE {}

\* What is left of it: the work of every type that the coordinator alone plans is
\* coalesced, whatever the background loop inserts between its check and its insert,
\* and through crashes, retries and restarts.  Rows of one type differ by key, so
\* nothing in the table enforces this.
PlannerCoalesces ==
    \A id1, id2 \in RowIds :
        /\ TypeOf(id1) = TypeOf(id2) /\ TypeOf(id1) \notin SharedTypes
        /\ rows[id1].status # "inactive"
        /\ rows[id2].status # "inactive"
        => id1 = id2

\* Once failing calls are over, known mail is analysed or given up, and located
\* unless the location agent fails on it for good, whatever follow-up work crashes
\* and dead rows have lost: the next idle poll finds it again, unless the process
\* stays down.  Mail that cannot be located keeps no other work out.
NothingForgotten ==
    \A m \in Mail :
        stage[m] \in {"bodyless", "ready", "backoff", "unlocated"} ~>
            \/ stage[m] \in {"unlocatable", "unfiled", "settled", "given_up"}
            \/ core = "down"

\* docs/ARCHITECTURE.md: the planner keeps an idle core from printing the same
\* filing preview over and over.  Mail is finite, so previews must end.
PreviewsEnd == <>[](~Running({"file_preview"}))

\* The pipeline comes first but does not keep the heartbeat out for ever, whatever
\* the background loop adds to it; except by mail that cannot be located, for which
\* every pass queues the next one.
HeartbeatServed ==
    (rows[HeartbeatRow].status \in {"pending", "failed"}) ~>
        \/ rows[HeartbeatRow].status \in {"processing", "inactive"}
        \/ core = "down"
        \/ MailAt({"unlocatable"}) # {}

\* docs/getting-started.md: IMAP moves are not applied by core unless
\* CORE_FILE_APPLY is set - for this start, whatever an earlier start with
\* another setting has left in the queue.
MovesNeedOptIn ==
    [][\A m \in Mail : (stage[m] = "unfiled" /\ stage'[m] # "unfiled") => fileApply]_vars

\* The background loop enqueues while the coordinator executes, and its upsert
\* may meet the very row in execution: that row stays claimed and is not due
\* again before its outcome is written.
ExecutingRowIsProcessing ==
    core \in {"executing", "marking"} =>
        rows[doing].status = "processing" /\ doing \notin ToSet(queue)
==============================================================================
