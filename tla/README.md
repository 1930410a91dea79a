# MailSubsystem in TLA+

TLA+ modules, TLC configurations and TLAPS proofs about MailSubsystem: a Rust program that
keeps a mailbox synchronised, analysed and filed through a durable work queue in Postgres,
and answers questions about it through agents. Source paths below are relative to the
repository root; queue code is in `src/core_work_queue.rs` (the coordinator) and
`src/database/core_work.rs` (its SQL).

## 1. Inventory

| Component | State | Operations | What is hard | What makes it correct |
|---|---|---|---|---|
| Core work queue (`database/core_work.rs`, table `core_work_queue`) | rows: status, attempt_count, worker_id, locked_at, available_at; unique per (account, type, key) | enqueue (upsert), claim one, claim batch, mark done, mark retry or dead, reset stale, recover orphaned, release for worker | marks address a row by id alone; an upsert may meet a row in execution | a row in execution is its executor's claim; only used-up work dies |
| Core runtime (`core_work_queue.rs`, `core_daemon.rs`, `runtime_task_services.rs`) | advisory lease, worker id, work in hand, shutdown flag | start, recover, loop, batch, signal, release, abort after grace, cleanup, crash | two processes, abort at any await, lease in a session nobody watches | no item executed twice at once; no row left processing |
| Planner and pipeline (`core_work_queue.rs`, `database/completeness.rs`, pass functions in `cli_commands/`) | completeness snapshot, rows per type | seed, follow-up plan, idle plan, coalescing, background sync loop, ten kinds of work | check-then-insert by two planners, lost follow-ups, plans for backlogs a pass cannot reduce | one active row of what only the coordinator plans; nothing forgotten; support work served; no moves without the opt-in |
| Body sync queue (`database/body_sync_queue.rs`, `body_sync_service.rs`) | rows, worker ids, bodies | enqueue, claim batch, fetch, import, mark, stale reset, drain | enqueue resets a processing row, marks have no owner check, a failed drain leaves workers behind, an import carries an old position | done means stored; every known message gets its body |
| Mailbox sync (`mailbox_sync_runtime.rs`, `database/mailbox_sync.rs`, `email_ingest.rs`) | folder cursors, UIDVALIDITY, HIGHESTMODSEQ, envelopes, user pins | full, incremental (two), windowed sync, orphan search, expunges, flags | two syncs at once, a crash between cursor, UIDVALIDITY and envelopes, a mailbox recreated between two commands | no message skipped by a cursor; a row's UID is its message's |
| Filing (`folder_location_cli.rs`, `message_lifecycle_cli.rs`) | location, recommendation, locks | preview, apply, record, undo of duplicates, lifecycle cleanup | MOVE and its record are two steps; a list read at the start | what the user has placed stays |
| Email analysis (`analysis_cli.rs`, `database/email_analysis.rs`, `email_analysis/`) | attempts, back-off, permanent failure, verdict | batch, save, failed attempt, give up, repairs of a verdict | nothing claims a message: core and commands work on the same rows | given up only when earned; a threat is never softened; everything settles |
| Frontier queue (`database/frontier_queue.rs`, `frontier_cli.rs`) | rows | claim, retry, delete, stale reset | completion deletes a row whoever holds it | a row leaves only with its answer stored |
| Sub-agent tasks (`worker_runtime.rs`, `database/subagent_state.rs`, `assistant_runtime.rs`) | tasks, results, lessons | upsert, execute, finish, review follow-up, attached core row | two tables and two statements for one task; repeated after a crash | a result has a completed run of its own; a flagged result has its review asked for; every core row ends |
| Agent harness (`agent_harness/run_executor.rs`, `database/agent_runs.rs`, tool registry) | run, checkpoints, tool log, budgets | run loop, resume, timeout, finish; gate on a complete database and requests for what is missing | resumption after a crash, timeout beside completion, sampling a mailbox in motion | spend is counted per attempt; the gate opens on a mailbox at rest, and does open |
| Local API and chat (`local_api/`, `database/conversations.rs`) | permits, threads, messages, sockets | admit, execute, stream, time out, delete a thread | the request's task and the socket's handler end independently | permits neither leak nor run over; "completed" means stored |
| Terminal UI (`terminal_ui/`) | threads, active thread, draft, pending answer | keys, list, delete, send, events | results of commands in any order, an old stream's events | the composer unlocks; it is aimed at a thread the list shows |
| AI providers and rate limiter, retrieval and search, configuration, CLI, schema management, metrics | per request | I/O and text | external services | (outcomes only, section 8) |

Interaction: `run_core` or `run_app` starts the coordinator as a task. The coordinator
holds the lease and runs recovery, then the loop: `run_once` (stale reset, claim,
execute, mark, follow-up), a sleep of `poll_interval` when nothing is due, the idle
plan. `run_background_sync_loop` is a second task of the same process; it syncs when no
sync row is active and plans follow-up work itself. Heartbeats enqueue sub-agent rows,
agents enqueue sync and analysis rows. The CLI's commands are processes of their own
over the same tables. The chat server executes agents in tasks of the API's process.
Everything shared lives in Postgres; a statement is atomic, a sequence of statements is
not.

## 2. Modules

| Module | Models | EXTENDS / composes |
|---|---|---|
| `CoreWorkQueue` | one row of the queue and what each SQL statement makes of it | - |
| `CoreRuntime` | runtimes, lease and queue; from start to stop, abort or crash | extends `CoreWorkQueue`; instantiates `ExclusiveWork` |
| `ExclusiveWork` | the abstract promise: one holder, only the holder ends an item, orphans are reclaimed | - |
| `CorePipeline` | planner, coalescing, background loop and what each pass makes of the mail | - |
| `AgentGate` | an agent's run in front of a mailbox that core is still preparing | extends `CorePipeline` (composition: both step) |
| `MailFiling` | where a message is: sync passes, the body queue with its workers and drains, the filing pass and the user, all writing or moving its position | - |
| `MailboxSync` | one folder and every kind of pass over it, across UIDVALIDITY changes, expunges and unreadable mail | - |
| `AgentRun` | one attempt of the harness: budgets, checkpoints, tool log, resumption, timeout | - |
| `SubagentTasks` | tasks, their core rows, results and reviews, over one runtime after another | extends `AgentRun` and `CoreWorkQueue`; instantiates `ExclusiveWork` |
| `ResultNormalization` | the repairs of a verdict, as operators | - |
| `EmailAnalysis` | core's analysis beside the analyze, frontier and cleanup commands | extends `ResultNormalization` |
| `ChatServer` | admission, permits, the two tasks of a streamed request, threads | - |
| `TerminalChat` | the terminal's chat tab with its commands and streams | extends `ChatServer` (composition) |
| `MC...` | instances for TLC | extend the module of that name |
| `..._proofs` | theorems (section 6) | extend the module and TLAPS |

An operator whose comment begins "Mutant" or "The mistake of" is a wrong variant of the
operator that follows it; no specification uses it, and it shows which bug a property
would catch.

### CoreRuntime and the code

| Variable | Code |
|---|---|
| `work` | rows of `core_work_queue`; `due` is `available_at <= NOW()`, `stale` a `locked_at` older than `stale_after_secs` |
| `lease` | holder of `pg_try_advisory_lock`, dropped with the task that owns its connection |
| `pc` | where `run_core_coordinator_with_config` is; "cleanup" and "stopped" belong to `core_daemon.rs` |
| `running`, `seen` | work items a batch has in hand and the `attempt_count` their claim returned |
| `failing` | runtimes whose batch had an `Err` from a mark or a follow-up; `collect::<Result>` ends the loop only after the whole batch |
| `signalled` | runtimes whose `shutdown_tx.send(true)` came from the signal branch |

A runtime is one process run (its worker id is a new UUID), so a restart is another
member of `Runtimes`. Each database statement is one action. The daemon's cleanup runs
after the task has ended, hence after the lease is gone: that order is in the model.
`Abort` covers the expired grace period, a failed API task and a panic.

### CorePipeline, AgentGate and the code

| Variable | Code |
|---|---|
| `stage`, `tries`, `unembedded` | where each message stands in table `emails`, its `analysis_attempts`, messages without embedding |
| `rows`, `queue`, `heartbeatRecent` | the planner's rows; due rows in order of `available_at`; the heartbeat's `completed_at` within its interval |
| `core`, `doing`, `result` | the coordinator |
| `plan`, `checked` | work a planner is about to enqueue, and whether its head passed the coalescing check |
| `background` | `run_background_sync_loop` |
| `fileApply` | `CORE_FILE_APPLY` of this start |
| `gate` (AgentGate) | `wait_for_db_completeness` or `attach_mailbox_preparation_context` of one run: previous count, stable polls, work to be asked for |

`enqueue_core_work` is two actions, check and insert, because it is two statements.
`MarkDone` and `FollowUp` are two actions, because a crash fits between them. A pass
(`execute_work`) is one action: within it only the background sync runs, and that
changes messages in other stages. A pass decides freely what happens to each message
within what the pass function does, e.g. analysis selects no message in back-off,
returns `Err` for a single selected message that failed and `Ok` for several, and
location returns `Ok` whatever failed. The gate's requests (`request_db_prerequisite_work`)
are upserts under the key `agent` that skip the coalescing check and count as made when
they fail.

### MailFiling and the code

`CorePipeline` says which passes run and what they do to the stage a message is in;
`MailFiling` opens three of them (incremental sync, body sync, filing) and models each
statement and each IMAP call as an action of its own.

| Variable | Code |
|---|---|
| `at`, `next` | the IMAP server: folder and UID of each message, each folder's UIDNEXT (external) |
| `position` | `emails.location` and `uid` |
| `pin`, `locked` | `user_pinned_folder`; messages whose `filing_lock_until` is to come |
| `bodied`, `recommended` | messages with `body_synced_at`, with `location_recommendation` |
| `cursor` | `imap_folders.last_synced_uid` |
| `jobs` | `body_sync_queue`, keyed by folder, UID and message; `processing` rows may be old at any time |
| `pass` | a running pass per loop: its phase, the cursors it read at its start, folders left, what the current folder's search found and its highest UID, the workers of its drain |
| `worker` | the row a worker claimed, with the `attempt_count` of that claim |
| `filing` | messages of the list still to do; the one between MOVE and record |
| `placed`, `unrecorded` | history for `UserPlacementKept`: the folder the user last put a message in, where the database did not have it or core's move there was about to be recorded; messages that core moved without a record |

The background loop's check (`SyncBegin`) and its reading of the cursors (`SyncRead`)
are two actions, so core may begin a sync between them. `Drain` starts workers that are
not running; workers that a failed drain left behind stay, because a dropped
`JoinHandle` detaches its task. `Import` is the one transaction of
`upsert_and_mark_body_synced` and what follows it up to the mark. Both `upsert_emails_*`
functions of the schema treat positions alike, hence one `UpsertAll`.

### MailboxSync and the code

| Variable | Code |
|---|---|
| `validity`, `box`, `next`, `mod`, `elsewhere` | the server's mailbox: UIDVALIDITY, messages by UID, UIDNEXT, MODSEQs; messages in other folders (external) |
| `stored`, `cursor`, `modseq` | `imap_folders`: UIDVALIDITY, `last_synced_uid`, HIGHESTMODSEQ |
| `place`, `seen`, `deleted`, `missing` | `emails`: folder, UIDVALIDITY and UID; the flags last read; `deleted_from_server_at`; `emails_missing_message_id` |
| `pass` | the pass in hand: kind, phase, range, UIDs its search found, envelopes its fetch read and the UIDVALIDITY of that SELECT |
| `origin` | history: which message had a UID under each UIDVALIDITY |
| `torn` | history: one of the three cases of `Tears` has happened and no full pass has reset the folder since |

Each IMAP command and each SQL statement of a pass is an action, but for the search for
what was expunged (`Expunge`): one action with every outcome of its searches and their
failures, and the death half way. The server may act between any two, and `Dies` is a
failing call or a crash at any of them. The SELECT of
a search and the SELECT of its fetch are different actions, so a mailbox may be
recreated between them.

### AgentRun, SubagentTasks and the code

| Variable | Code |
|---|---|
| `run` | the latest `agent_runs` row of a task, its checkpoints (`saved`), its tool log (`logged`); `attempts`, `results` are history |
| `strays` | earlier rows of the same task that are still `running` |
| `at` | the attempt in hand: phase, step, budget counters, exchanges said, tool calls pending |
| `row`, `task`, `result` | `core_work_queue`, `subagent_tasks.status`, `subagent_results` |
| `payload`, `judged` | the result a review's row is about, and the last that a review saw (history) |
| `swallowed` | history: a review asked for while an earlier one of the same task was executing |

A task's life: the heartbeat's upserts (`RequestTask`, the second of which may fail), a
batch claim, the harness's attempt, its calls (each counted when it is recorded), the
result, the task's end, the review's task and row, the mark. Each is a statement of its
own, with a failing call, the timeout or a crash of the runtime at any.

### EmailAnalysis and the code

| Variable | Code |
|---|---|
| `row` | the analysis fields of `emails`; `cooling` is an `analysis_next_attempt_at` to come, `action` a non-null `action_status` |
| `queue` | `frontier_analysis_queue` |
| `job` | a process: its command, the messages left, the attempts it read with its batch (`seen`), what each message in hand waits for |
| `due`, `trash` | messages whose code expired or retention ended; messages moved to Trash |
| `deep` | history: messages with a stored answer of the frontier model |

A verdict is a record of the answers and of the tests that the keyword lists decide;
`ResultNormalization` computes what is stored from it.

### ChatServer, TerminalChat and the code

| Variable | Code |
|---|---|
| `thread`, `talk` | `conversation_threads`, `conversation_messages` |
| `chat`, `channel`, `socket` | the request's task, the mpsc channel to its handler, the websocket as the handler sees it |
| `streams` | `active_chat_streams` |
| `listed`, `ui` | `App.threads`; active thread, draft, pending answer and its stream |
| `waiting`, `calls`, `replies` | client tasks of streams that still run; commands not yet served; results not yet delivered (a list is as old as its reading) |
| `stale` | history: the last list could not be loaded |

## 3. Runs

| Run | Instance | Shows |
|---|---|---|
| `core` | 2 runtimes, 2 sub-agent tasks, concurrency 2, 2 attempts, symmetry | start, batch, shutdown, abort and crash never let two executions share an item or a mark meet another claim; attempts pass the maximum only by interruptions; refinement of `ExclusiveWork` |
| `liveness` | 2 runtimes, 1 sync row, the lease may be lost | recovery, release, cleanup or the stale reset frees every row (`ProcessingEnds`) |
| `pipeline` | 1 message that the location agent may turn out to fail on, background loop, either setting of CORE_FILE_APPLY, heartbeat, 2 attempts of incremental syncs and of locate work and 1 of other rows, 2 of an analysis, 1 fault | the second planner never takes the row in execution away and disturbs only the coalescing of what it plans itself; a leftover `file_apply` row moves nothing; follow-up work lost to a crash or a dead row is found again; the heartbeat is served while all mail can be located |
| `coalescing` | as `pipeline` | a violation: section 4, number 2 |
| `bodies` | 2 messages, 2 folders, 1 user move, 1 fault, core alone, filing of one message | late marks, repeated claims, moves, dead rows and crashes never lose a body or mark one that is not there |
| `beside` | 2 messages, of which 1 is synced and to be filed and the other comes when it likes, 3 folders, 2 UIDs each, 1 user move, 1 fault, core and background, no body workers | two overlapping passes skip nothing; filing does not move what the user has placed |
| `sync` | 3 messages of which 1 unreadable, 3 UIDs, 2 UIDVALIDITYs, 4 changes of the server, 1 fault, batches of 2 | all six kinds of pass one after the other: no cursor passes readable mail, no row names another's UID, a full pass repairs what was left behind |
| `worker` | 1 task and its review, 2 iterations, 2 model calls, 1 tool call, 2 attempts, 1 request, 1 fault, 1 crash | results, spend and reviews survive retries, timeouts and crashes; every core row of a task ends; refinement of `ExclusiveWork`, reviews asked for within a batch included |
| `chat` | 2 requests, 2 threads (1 of them old), 1 permit, 1 restart, the user's own commands one at a time | permits are accounted for, "completed" is stored, the composer unlocks, its thread is one the list shows or will show |
| `analysis` | 2 messages, core and one command process, 2 attempts, 1 frontier attempt, 1 database error, an answer with every field that a repair may touch | giving up is earned, a threat keeps its verdict, no escalation is lost, every message settles |
| `gate` | 1 message that the location agent may turn out to fail on, 2 attempts, 2 stable polls, requests on | the gate opens only on a mailbox at rest, and does open while all mail can be located |
| `cleanup` | as `analysis` | a violation: section 4, number 1 |

`PROJECT.json` lists the properties of each run; the comment before each property in its
module says what it is about.

Bounds and why they suffice:

- Two runtimes in `core`: every argument about rows is between one runtime that leaves
  (or lost its lease) and one that starts; the theorems hold for any number.
- Two tasks make a batch with an item that ends before the other; `MaxAttempts = 2`
  has a first and a last attempt. `AttemptBound` is a guard for TLC: an item with that
  many attempts is not claimed again; `core` does not reach it (9), in `liveness` (4) it
  stops only repeated losses of the lease.
- Rows may become due or stale at any time after they fail or are claimed, so delays
  need no clock.
- One message reaches all nine stages and every row type. `FaultBudget` counts failing
  calls and crashes; one is enough for each loss that recovery must repair. `MaxAttempts`
  is a column of the row, 3 in the code, so the model takes it by type of work. In
  `pipeline` a failed incremental sync (only the coordinator's) and failed locate work
  (planned by both loops) come due again, and other failed work is dead at once and leaves
  its backlog to the idle poll; in `gate` all is retried. Every message there may turn out
  to be one the location agent fails on (`Unlocatable`), or not. What holds of two messages
  is in the theorems; in `pipeline` and `gate` they would only multiply the planner's
  states.
- `MaxUid = 2` in `beside`: an arrival and a second one in the same folder, so a message
  can be moved away and come back; `MoveBudget = 1` is one user move besides core's own;
  three folders are where the mail came, where core wants it and where the user wants
  it. Two messages are what an overlap of two passes needs to skip one: the second comes
  behind the search of one pass and before that of the other. The run starts from a
  mailbox in use (`InUse`: what a first sync, its drain and the locate pass of one message
  leave), where an arrival, a move of either side and a failing call or crash meet. It has
  no body workers: they do not touch cursors, and `bodies` has them; the theorems
  `BodiesStored` and `NothingSkipped` are for any number of all. `bodies` has no background
  pass because of disagreement 6: with it, the database can have a position for ever that
  is not the message's, and the body is never found there.
- In `sync` three UIDs leave a gap and a message on each side of it, a batch of 2 makes a
  looping pass go round twice, and 4 changes fill the mailbox, then empty or recreate it.
- In `worker` the heartbeat's request, one crash and one fault combine in any order with
  two attempts for each row; a second result of a task needs its first attempt to have
  stored one, which the crash gives.
- In `chat` two requests are an older and a newer stream, one permit makes the second
  request wait or be refused. `MaxCalls = 1` lets the user give a command when no other is
  under way; those that the app gives by itself come at any time.
- In `analysis` two processes race over each message; the commands repeat for ever.

`worker` and `chat` switch the deadlock check off: when every task has ended and no
request or crash is left, or the user has sent all messages and deleted all threads,
nothing is left to do. In all others something always is: `EnqueueWork` in `CoreRuntime`,
a start or another pass elsewhere.

## 4. Where code and documentation disagree

1. Checked by `cleanup` (`CleanupFindsExpired`): the lifecycle cleanup's candidates
   exclude rows by `action_status NOT IN (...)`, which is not true of NULL, and every
   analysis sets `action_status` to NULL. No mail that this version analyzed is ever
   found (`src/database/email_analysis.rs:780`, against its comment at 749).

2. Checked by `coalescing` (`OneActiveRowPerType`): the coalescing check and the insert are
   two statements, and with background sync, which is on by default, two planners make
   them: the background loop's follow-up and the coordinator's plan both pass the check and
   insert rows of one type under keys of their own (`src/core_work_queue.rs:664`).
   `docs/getting-started.md:136` says in one paragraph that background sync is on by default
   and that core "coalesces active work so the same backlog is not processed twice". The
   types that only the coordinator plans are coalesced even then (`PlannerCoalesces`).
   Requests of agents do not check at all.

The others below were met on the way. Their properties are in the modules and no run
checks them; to see a counterexample, add the property to the configuration named.

3. `PipelineFirst` (`CoreRuntime_core.cfg` with a pipeline item): the batch claim of
   further sub-agent tasks does not look at pipeline rows that became due after the
   first claim, although `docs/ARCHITECTURE.md` has pipeline work ahead of support work.
4. `OneClaimer` (`LeaseMayDrop = TRUE`): the lease ends with its database session, and
   nothing looks at that session again; `docs/ARCHITECTURE.md` has two runtimes never
   claim at the same time. `ProcessingEnds` holds even then.
5. `PreviewsEnd` (`CorePipeline_pipeline.cfg` with two messages, one of them in
   `Unlocatable`, no faults, no heartbeat, no opt-in, no background sync): a message that
   cannot be located is retried without back-off, each pass queues a preview and the next
   pass, and the loop never reaches its sleep (`docs/ARCHITECTURE.md`: the planner keeps an
   idle core from printing the same preview over and over). This also keeps the heartbeat
   and the idle poll out: `HeartbeatServed` and `GateOpens` allow for such mail in their last
   disjunct, and are violated without it.
6. `PositionTracked` (`MailFiling_bodies.cfg` with `Passes <- CoreAndBackground` and
   `Recommendable <- None`): a body worker stores the position its row was queued with, in the
   same upsert as the body. When the message has moved meanwhile and the other pass has
   stored the new position and advanced that folder's cursor, the old position comes
   back and stays (`docs/DATABASE.md:67`; `src/body_sync_service.rs:332`).
7. `CheckpointsSurvive` (`SubagentTasks_worker.cfg`): an attempt that is resumed loads
   the checkpoint of the highest step number, and a resumed run counts its steps from
   zero again, so a later, fuller checkpoint under a lower number is passed over
   (`specs/agents/email-analyzer.md:11`: survives process restarts).
8. `DeletedMailIsGone` (`MailboxSync_sync.cfg`): a search that fails counts as "not
   found", so one failing call marks a message as deleted that is still in a folder
   (`src/cli_commands/folder_location_cli.rs:250`, against the comment at
   `src/database/mailbox_sync.rs:685`).
9. `ExpiryNeedsCode` (`EmailAnalysis_analysis.cfg` with `Answers <- BothAnswers`): a
   re-analysis that finds no code clears the expiry of its verdict, and the update's
   COALESCE keeps the stored one (`src/email_analysis/result_normalization.rs:900`, "Keep
   expiry reserved for real auth flows", against `src/database/email_analysis.rs:521`).
10. Not modelled: a skill lesson counts a repetition of one task as support, because
    results of a crashed attempt are written again with their lessons
    (`src/worker_runtime.rs:601`; `docs/ARCHITECTURE.md` promotes only repeated lessons).

Also read from the code: the gate's "still preparing" answer is only given to chats, and
they no longer wait; an account without mail, and a mailbox with a message whose body row
is dead, never open the gate of a command-line agent before its maximum wait; nothing
creates `mailbox_context` tasks, and nothing enqueues frontier rows. A sub-agent task whose
spec or lessons cannot be loaded stays 'running' although its row goes back to the queue
and dies (`src/worker_runtime.rs:553`). In the terminal, the answer to an older message
ends a draft that the user has begun meanwhile, or leaves the thread that was opened
meanwhile, and aims the composer at its own thread (`src/terminal_ui/terminal_app.rs:1362`):
what is typed next goes there. The Done of an older stream unlocks the composer although a
newer answer is awaited (1391). A panic in the task of a streamed request leaves its handler
waiting on a sender of its own, with its permit, and the composer locked until the
connection ends (`src/local_api/chat_routes.rs:206`). A client told that its request failed may
find the answer stored (250). These are in the models.

## 5. Fairness

- `CoreRuntime`: weak fairness of each runtime's `Work` and `Leave` (the loop and the
  daemon's shutdown wait for nothing but the database and their executions; an execution
  is assumed to end) and of a lock getting old. Nothing makes a process start, fail or be
  signalled.
- `CorePipeline`: weak fairness of the coordinator, of the background loop once its sync
  has begun, and of the retry delays and the back-offs passing, of one row or message after
  the other. The background loop need not begin
  a sync, new mail need not come, a process that is down need not start again: the
  liveness properties allow for it. `AgentGate` adds weak fairness of the gate's own
  steps; the run may end at any time.
- `MailFiling`: weak fairness of each pass, worker, body step and filing step that has
  begun; strong fairness of core's `SyncBegin` and `BodyBegin`, which are disabled while
  core does something else. It stands for `CorePipeline`'s scheduling: the idle poll
  plans an incremental sync always and a body pass for any body backlog. The user, the
  background loop, recommendations and expiring locks need not do anything.
- `SubagentTasks`: weak fairness of a batch claim of due rows, of each task's steps, of
  retry delays and of a restart (`worker` asks what becomes of a task while core is used).
- `EmailAnalysis`: weak fairness of core's planning, asking and answering and of
  back-offs; commands need not do anything.
- `MailboxSync`, `TerminalChat`: none. `FullPassRecovers` is about a step, and what the
  chat promises is safety.

## 6. Proofs

All are for any values of the constants that satisfy the modules' named assumptions; TLC
evaluates those in every run.

`CoreRuntime_proofs`:

- `Typing`: `Spec => []TypeOK`, also when the lease may be lost. The lemmas `...Type` say
  that each SQL operator maps a row to a row.
- `Ownership`, `ExecutionsOwn`, `NothingOrphaned`: with a sound lease (`~LeaseMayDrop`),
  `ExclusiveExecution`, `ExecutionOwnsRow` and `NoOrphanInLoop`. `ExclusiveExecution` alone
  is not inductive: that two runtimes do not share an item follows from only the lease
  holder being in its task (`HolderOnly`), only a batch having items in hand
  (`HandsInBatch`), and rows in hand being claimed rows (`ExecutionOwnsRow`). For the stale
  reset one also needs that a looping holder has no orphans (`NoOrphanInLoop`). `Owned` is
  their conjunction; `OwnedStep` has a step per action.
- `DeathIsEarned`: with a sound lease, `OnlyExhaustedWorkDies`. It needs
  `ExecutionOwnsRow`, because the code compares the count the claim returned, not the
  row's.
- `Refinement`: with a sound lease, `ImplementsExclusiveWork`. Each action is mapped:
  recovery, stale reset and release are `Reclaim`; the claims `Start`; the marks `End`; a
  failing mark, an abort, a crash, a lost database and the end of a batch `Interrupt`; an
  enqueue is `Submit` or a stutter; the rest stutter. `Owned` is what makes a mark the
  holder's own and a reclaimed item nobody's.
- `AttemptsHold`: with a sound lease and finitely many runtimes, `AttemptsBounded`. In
  `AttemptsInv`, `Room` says that only what a runtime still in its loop has claimed may
  have used its last attempt without an outcome; with each runtime that leaves its loop
  the bound grows by one, by the cardinality of a finite set.

`CorePipeline_proofs`: `Coalescing`: `PlannerCoalesces`, with the background loop or without. The
invariant adds that only the coordinator checks and inserts what is not in `SharedTypes`,
that such a passed check is still true when its insert comes, and that the row in execution
is active. For the types of `SharedTypes` it is false (section 4, number 2).
`NoMoveWithoutOptIn`: `MovesNeedOptIn`, with the background loop. `MailMoves` says what no
step may do to any message; each pass changes mail of the stages it selects and leaves
the rest (`Changed`), and only the apply selects mail to be filed. `Typing` and
`ExecutionKeepsItsRow` (`ExecutingRowIsProcessing`) are proved together from `TypeInv`: the
row in execution is processing until its outcome is written (`DoingHeld`), the queue holds
distinct rows, and only rows that wait (`QueueTyped`), so neither a claim nor an enqueue of
either planner meets the row in execution. That removing a row leaves all others, once
each, is `RemoveFirstProperties`; a message that is not given up has an attempt left
(`TriesLeft`), without which its counter would pass its bound.

`AgentGate_proofs`: `OpensOnRest`: `OpensAtRest`, for `StablePolls >= 2` and finite mail. Known
mail stays known through every step of the composition (`KnownStays`, from `MailMoves`), so
two equal counts are counts of one set (`SameMail`). The code requires two polls by default;
with a setting of one there is no poll before to compare with, and nothing would follow.
`GateTyping` (`GateTypeOK`) and `ExecutionKeepsItsRowBesideAgents` carry `TypeInv` through
the composition: what an agent asks for is enqueued under a key of its own, and an
enqueue leaves a row in processing as it is.

`MailFiling_proofs`:

- `Typing`: one lemma per kind of assignment, a `Frame` lemma, and a step per action.
- `BodiesStored`: `DoneHasBody`. The invariant adds that a worker in phase "done" has
  stored its body (`MarkEarned`): the code's marks look at no owner, so the argument
  cannot be about rows; it is that bodies are never taken away.
- `NothingSkipped`: `NoMailSkipped`. `Covered(f, uid)` says that `uid` has been given
  and all mail up to it is known; `SkipInv` has it for every cursor, every cursor value
  a pass has read, and, up to what the pass has found and not stored, for its highest
  listed UID. `StepGrows` says that UIDs are given upwards and no message is forgotten,
  hence what is covered stays covered (`CoveredStays`), which settles all steps of
  others; what is left are the steps of a pass itself.
- `PlacementKept`: `UserPlacementKept`. A message that is where the user has placed it is
  guarded (`PlacedInv`): pinned, or elsewhere according to the database so that core's MOVE
  names a UID that is no longer its own, or already at its destination, or its last move
  was not recorded; and what a filing pass has listed and is still there was not placed
  by the user (`ListedInv`). Both rest on `OldPlaces`: every position on record, found by a
  pass, queued for a body, in a worker's hand or listed for filing is one the server has
  given, so a message never comes back to it, and an old list never names a new place.

`MailboxSync_proofs`:

- `Typing`: `Typed` adds to `TypeOK` what a pass has read by its phase (`PassInv`).
- `NamesHold`: `RowsNameTheirMail`. `NamesInv`: the server never gives a UID of one
  generation twice (`ServerInv`), a pass holds envelopes of the UIDVALIDITY it selected
  (`ReadInv`), and neither rows nor the folder are of a generation to come (`RowInv`).
- `NothingSkipped`: `NoMailSkipped`. `SkipInv` has five parts: a message has one UID
  (`OnceInv`); all mail up to a sound cursor is placed, and the cursor is within the
  mailbox (`CursorInv`); a pass writes under the UIDVALIDITY on record, and nothing it read
  has come back behind the cursor (`StoredInv`); a looping pass has read all of its range
  (`LoopInv`); an incremental pass has found and read all from its cursor to its highest
  UID, unless torn (`NewInv`). Proved per kind of step, each part of `SkipInv` in turn.
- `RepairHolds`: `FullPassRecovers`. A full pass begins by forgetting what was torn and
  nothing in it tears again (`FullInv`); with `NamesInv` the UIDVALIDITY it ends under is
  the one it read, and with `LoopInv` it has read every range, so `CursorInv` at its end
  speaks of the whole mailbox.

`SubagentTasks_proofs`: `Typing`, `ResultsAreRuns` (`OneRunPerResult`) and `SpendHolds`
(`SpendIsCounted`) from `AttemptInv`, which says for each phase of an attempt what its run
row has (results, spent calls, logged tools), and `ResultsFollowed` (`ResultsAreReviewed`)
from `ReviewInv`: an attempt has its row in processing (`AtWork`), the flag an attempt
carries is that of the last result (`Counted`), a review that runs is about its row's
payload (`Judging`), and a flagged result has had its review asked for before its row is
closed (`Followed`). `Refinement` (`ImplementsExclusiveWork`): a batch is `Start`, a mark `End`,
the death of the process `Interrupt` of all it had, recovery `Reclaim`, a request or a
review of a row not in execution `Submit`, and one of a row in execution a stutter. The
invariant is `AtWork` with `HandsOwn`: an attempt in hand is the last claim of its row, so
the attempt the code compares with the maximum is the row's own count.

`EmailAnalysis_proofs`: `Typing`; `GivenUpWhenSpent` (`PermanentIsEarned`) from `EarnedInv`: the
attempts a process read are never above the row's, and a process that is about to give a
message up has counted its failure; `ThreatsKept` (`ThreatsKeepTheirVerdict`), which needs
only that the two answers a threat keeps survive the alignment and every repair;
`FrontierAnswersStored` (`FrontierRowsAreAnswered`) from `DoneInv`: who removes a row has
stored its answer.

`TerminalChat_proofs`: `Typing`, `PermitsHold` (`PermitsAccounted`: four kinds of step touch a
handler, and each moves the counter with the set's cardinality), `CompletedStays`
(`CompletedIsStored`, from what a request has left in its thread in each phase),
`PendingHasStream`, and `ActiveThreadIsListed` (`ActiveIsListed`). That
one needs that a draft is aimed at no thread (`DraftHasNoThread`): a list that comes without
the active thread moves the composer off it, and whatever aims it at a thread not listed asks
for the list.

## 7. Only model-checked

Liveness (`ProcessingEnds`, `NothingForgotten`, `HeartbeatServed`, `BodyArrives`,
`RequestedTaskEnds`, `AnalysisSettles`, `GateOpens`): fairness and ENABLED are outside the
prover. `CleanupFindsExpired` and `OneActiveRowPerType` are violated. All other properties of the
runs are theorems.

## 8. Not modelled

- AI providers and the rate limiter: calls over HTTP, whose outcome is nondeterministic
  where it is used. The limiter is one instant and one sleep per caller
  (`src/provider_rate_limit.rs:39`: nothing orders those who wait); without real time
  nothing of it is left to check.
- IMAP sessions: the pool of sessions, its mailbox cache (an operation that began before
  an invalidation writes its older copy back, `src/imap_client.rs:347`; a connection that
  fails leaves `borrowed_count` raised, 318-333), the plain EXPUNGE that replaces UID
  EXPUNGE, and the parsing of responses. What a command does to a mailbox is modelled
  where it is used.
- Retrieval and search are read-only; so are the data routes. Folder consolidation,
  message actions and lifecycle commands other than cleanup are run by hand, one call
  after the other.
- Skill lessons, calibration, scratchpads, escalation texts, forced tools and prompts:
  text, or bookkeeping over it. Conversations' contents, the terminal's other tabs and
  drawing.
- Configuration, CLI parsing, schema management, metrics: start-up and output; settings
  appear as constants.
- In `MailFiling`: changes of UIDVALIDITY and the other kinds of pass (those are
  `MailboxSync`'s, one folder at a time), folders that cannot be selected or must be
  created. A worker claims one row at a time (the code's batch only delays the others), and a
  body pass selects all messages without body, where the code takes 25 of a folder at most
  (`src/mailbox_sync_runtime.rs:385`) and leaves the rest to the next pass.
  `TakesBack` counts a move of the user against core's own only between core's MOVE and its
  record; while core still searches for the message's new UID the database cannot tell the
  two apart, and a message taken back then is filed again.
- In `MailboxSync`: two passes at once (those are `MailFiling`'s), attachments, the
  throttling of logins. A fetch of UIDs is one SELECT, as it is for up to 250 of them; the
  code fetches more in chunks and keeps the last chunk's UIDVALIDITY
  (`src/mailbox_sync_runtime.rs:723`, 970), so a mailbox recreated between two chunks gives rows of
  one generation the UIDVALIDITY of another. `RowsNameTheirMail` is about one chunk.
- In `CorePipeline`: LIMITs of passes (all mail fits one pass), sub-agent rows; rows of
  the body queue, which in the idle and seed plans also count as body backlog. Mail that
  the server never gives a body for is a fault there, so within the budget.
- In `SubagentTasks`: two runtimes at once (`CoreRuntime`'s), tasks that ask for each other
  beyond a result and its review.
- In `EmailAnalysis`: COALESCE mixes fields of two analyses when the later lacks one
  (`src/database/email_analysis.rs:516`); only the expiry's case is there. Forced
  re-analysis beside core is; the analyze command's limits are core's. A copy that a
  half-failed move leaves in Trash is not.

## 9. What could follow

1. An abstract body queue ("done means stored, and a known message is owed its body")
   implemented by `MailFiling`.
2. `MailboxSync` for two folders and two passes, with moves between them, which would join
   it to `MailFiling`.
3. The session pool with its cache, once a property of it is promised anywhere.
