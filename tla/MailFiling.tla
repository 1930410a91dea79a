------------------------------ MODULE MailFiling ------------------------------
(***************************************************************************)
(* Where a message is: on the server, and by the emails table.  Three      *)
(* kinds of actors write its position: incremental sync passes, the        *)
(* workers of the durable body queue (their import writes a position too), *)
(* and the filing pass that moves mail on the server; on the server alone  *)
(* the user does.  Each reads, waits for IMAP and writes what it has read. *)
(*                                                                         *)
(* Core runs one item at a time: a sync pass, a body pass or a filing      *)
(* pass.  The background loop runs sync passes beside it; it does not      *)
(* begin one while core syncs, but core does not look at the background.   *)
(* A pass that found mail, and a body pass, end with a drain of the queue. *)
(*                                                                         *)
(* A message keeps its Message-ID; each arrival in a folder gets the       *)
(* folder's next UID.  UIDVALIDITY does not change here, folders exist and *)
(* are selectable, every envelope has a Message-ID, and the full sync is   *)
(* over: planners plan one for a blank or partial database only.  A worker *)
(* claims one row at a time; a larger batch only delays its rows.          *)
(***************************************************************************)
EXTENDS Naturals

CONSTANTS Mail, Folders, NoFolder, Nowhere,
          Inbox,            \* where mail is delivered
          Destination,      \* location_recommendation of each message
          Recommendable,    \* messages a location pass makes a recommendation for
          Passes,           \* "core" and, if the loop is enabled, "background"
          Workers,          \* tasks of one drain_body_sync_queue
          MaxAttempts,      \* BODY_SYNC_MAX_ATTEMPTS
          MaxUid, MoveBudget, FaultBudget  \* bounds, for TLC

ASSUME FolderAssumption == Inbox \in Folders /\ NoFolder \notin Folders
ASSUME DestinationAssumption == Destination \in [Mail -> Folders] /\ Recommendable \subseteq Mail
ASSUME PassAssumption == "core" \in Passes /\ Passes \subseteq {"core", "background"}
ASSUME BoundAssumption ==
    MaxAttempts \in Nat \ {0} /\ MaxUid \in Nat \ {0} /\ MoveBudget \in Nat /\ FaultBudget \in Nat

\* A message at a place: also the key of a body_sync_queue row.
Spots == [mail : Mail, folder : Folders, uid : 1 .. MaxUid]

ASSUME NowhereAssumption == Nowhere \notin Spots

VARIABLES at, next,                             \* the server: places, next UIDs
          position, pin, locked, bodied, recommended,   \* the emails table
          cursor,                               \* imap_folders.last_synced_uid
          jobs,                                 \* body_sync_queue
          pass, worker, filing,                 \* the actors
          placed, unrecorded,                   \* history, for properties only
          moves, faults

serverVars == <<at, next>>
placeVars == <<position, pin, locked>>
emailVars == <<placeVars, bodied, recommended>>
historyVars == <<placed, unrecorded>>
vars == <<serverVars, emailVars, cursor, jobs, pass, worker, filing, historyVars, moves, faults>>

Statuses == {"absent", "pending", "processing", "failed", "done", "dead"}

PassStates ==
    [phase  : {"idle", "start", "list", "fetch", "upsert", "cursor", "select", "insert", "drain"},
     from   : [Folders -> 0 .. MaxUid],
     todo   : SUBSET Folders,
     folder : Folders \cup {NoFolder},
     found  : SUBSET Spots,
     upTo   : 0 .. MaxUid,
     any    : BOOLEAN,              \* total_new > 0
     crew   : SUBSET Workers]       \* workers of this drain

\* A worker has a row from its claim to its mark, a filing pass a message from
\* the MOVE to its record.
WorkStates ==
    [phase : {"off", "claim"}, job : {Nowhere}, attempt : {0}]
        \cup [phase : {"fetch", "upsert", "done", "retry"}, job : Spots, attempt : 0 .. MaxAttempts]

FilingStates ==
    [phase : {"idle", "move"}, todo : SUBSET Spots, spot : {Nowhere}]
        \cup [phase : {"search", "record"}, todo : SUBSET Spots, spot : Spots]

NoPass == [phase |-> "idle", from |-> [f \in Folders |-> 0], todo |-> {}, folder |-> NoFolder,
           found |-> {}, upTo |-> 0, any |-> FALSE, crew |-> {}]
NoWork == [phase |-> "off", job |-> Nowhere, attempt |-> 0]
Ready == [NoWork EXCEPT !.phase = "claim"]
NoFiling == [phase |-> "idle", todo |-> {}, spot |-> Nowhere]

ServerOK ==
    /\ at \in [Mail -> Spots \cup {Nowhere}]
    /\ \A m \in Mail : at[m] # Nowhere => at[m].mail = m
    /\ next \in [Folders -> 1 .. MaxUid + 1]

TableOK ==
    /\ position \in [Mail -> Spots \cup {Nowhere}]
    /\ \A m \in Mail : position[m] # Nowhere => position[m].mail = m
    /\ pin \in [Mail -> Folders \cup {NoFolder}]
    /\ locked \subseteq Mail /\ bodied \subseteq Mail /\ recommended \subseteq Mail
    /\ cursor \in [Folders -> 0 .. MaxUid]

QueueOK ==
    /\ jobs \in [Spots -> [status : Statuses, attempt : 0 .. MaxAttempts]]
    /\ worker \in [Passes \X Workers -> WorkStates]

PassOK == pass \in [Passes -> PassStates]

FilingOK == filing \in FilingStates

TypeOK ==
    /\ ServerOK /\ TableOK /\ QueueOK /\ PassOK /\ FilingOK
    /\ placed \in [Mail -> Folders \cup {NoFolder}]
    /\ unrecorded \subseteq Mail
    /\ moves \in 0 .. MoveBudget /\ faults \in 0 .. FaultBudget

Init ==
    /\ at = [m \in Mail |-> Nowhere]
    /\ next = [f \in Folders |-> 1]
    /\ position = [m \in Mail |-> Nowhere]
    /\ pin = [m \in Mail |-> NoFolder]
    /\ locked = {} /\ bodied = {} /\ recommended = {}
    /\ cursor = [f \in Folders |-> 0]
    /\ jobs = [s \in Spots |-> [status |-> "absent", attempt |-> 0]]
    /\ pass = [p \in Passes |-> NoPass]
    /\ worker = [w \in Passes \X Workers |-> NoWork]
    /\ filing = NoFiling
    /\ placed = [m \in Mail |-> NoFolder]
    /\ unrecorded = {}
    /\ moves = 0 /\ faults = 0

Fault == faults < FaultBudget /\ faults' = faults + 1
NoFault == UNCHANGED faults

OnServer == {at[m] : m \in Mail} \ {Nowhere}

------------------------------------------------------------------------------
(* The statements that write the tables. *)

\* upsert_emails_from_envelope and upsert_emails_from_import: the place written
\* becomes the position; a folder other than the one on record is taken for a
\* move of the user, who is given the pin and the lock.
LooksMoved(spot) ==
    position[spot.mail] # Nowhere /\ position[spot.mail].folder # spot.folder

UpsertAll(spots) ==
    LET Of(m) == CHOOSE spot \in spots : spot.mail = m
        seen  == {spot.mail : spot \in spots}
        moved == {spot.mail : spot \in {s \in spots : LooksMoved(s)}}
    IN  /\ position' = [m \in Mail |-> IF m \in seen THEN Of(m) ELSE position[m]]
        /\ pin' = [m \in Mail |-> IF m \in moved THEN Of(m).folder ELSE pin[m]]
        /\ locked' = locked \cup moved

\* Enqueue of body rows: a row that is done stays, any other becomes due, also
\* one that is processing or dead; its attempts are kept.
Enqueued(row) == IF row.status = "done" THEN row ELSE [row EXCEPT !.status = "pending"]

EnqueueAll(spots) ==
    jobs' = [s \in Spots |-> IF s \in spots THEN Enqueued(jobs[s]) ELSE jobs[s]]

\* record_system_filing_move.
RecordMove(spot) ==
    /\ position' = [position EXCEPT ![spot.mail] = spot]
    /\ locked' = locked \cup {spot.mail}
    /\ pin' = [pin EXCEPT ![spot.mail] = IF @ = spot.folder THEN NoFolder ELSE @]

------------------------------------------------------------------------------
(* The server and the user. *)

Arrive(m, f) ==
    /\ next[f] <= MaxUid
    /\ at' = [at EXCEPT ![m] = [mail |-> m, folder |-> f, uid |-> next[f]]]
    /\ next' = [next EXCEPT ![f] = @ + 1]

Deliver(m) ==
    /\ at[m] = Nowhere
    /\ Arrive(m, Inbox)
    /\ UNCHANGED <<emailVars, cursor, jobs, pass, worker, filing, historyVars, moves, faults>>

\* The user has placed a message when it is in a folder that the database did
\* not already have it in, or when they have taken back a move of core's that is
\* about to be recorded.
TakesBack(m) == filing.phase = "record" /\ filing.spot.mail = m

UserMove(m, f) ==
    /\ at[m] # Nowhere /\ at[m].folder # f
    /\ moves < MoveBudget
    /\ moves' = moves + 1
    /\ Arrive(m, f)
    /\ placed' = [placed EXCEPT ![m] =
         IF position[m] # Nowhere /\ (position[m].folder # f \/ TakesBack(m)) THEN f ELSE NoFolder]
    /\ UNCHANGED <<emailVars, cursor, jobs, pass, worker, filing, unrecorded, faults>>

------------------------------------------------------------------------------
(* Passes: the incremental sync, folder by folder, and the body pass. *)

CoreIdle == pass["core"].phase = "idle" /\ filing.phase = "idle"

SetPass(p, state) == pass' = [pass EXCEPT ![p] = state]

\* The background loop looks whether core syncs, then begins.
SyncBegin(p) ==
    /\ pass[p].phase = "idle"
    /\ IF p = "core" THEN CoreIdle ELSE pass["core"].phase = "idle"
    /\ SetPass(p, [NoPass EXCEPT !.phase = "start"])
    /\ UNCHANGED <<serverVars, emailVars, cursor, jobs, worker, filing, historyVars, moves, faults>>

\* The cursors are read once.
SyncRead(p) ==
    /\ pass[p].phase = "start"
    /\ SetPass(p, [NoPass EXCEPT !.phase = "list", !.from = cursor, !.todo = Folders])
    /\ UNCHANGED <<serverVars, emailVars, cursor, jobs, worker, filing, historyVars, moves, faults>>

NewIn(p, f) == {spot \in OnServer : spot.folder = f /\ spot.uid > pass[p].from[f]}

NextFolder(p, f, any) ==
    SetPass(p, [NoPass EXCEPT !.phase = "list", !.from = [pass[p].from EXCEPT ![f] = 0],
                              !.todo = pass[p].todo \ {f}, !.any = any])

\* Nothing new, or the search failed: the pass goes on with the next folder.
SyncSkip(p, f) ==
    /\ pass[p].phase = "list" /\ f \in pass[p].todo
    /\ \/ NewIn(p, f) = {} /\ NoFault
       \/ NewIn(p, f) # {} /\ Fault
    /\ NextFolder(p, f, pass[p].any)
    /\ UNCHANGED <<serverVars, emailVars, cursor, jobs, worker, filing, historyVars, moves>>

Listed(p, f) ==
    /\ pass[p].phase = "list" /\ f \in pass[p].todo
    /\ \E last \in NewIn(p, f) :
         /\ \A spot \in NewIn(p, f) : spot.uid <= last.uid
         /\ SetPass(p, [pass[p] EXCEPT !.phase = "fetch", !.folder = f,
                                       !.found = NewIn(p, f), !.upTo = last.uid])

\* Mutant: the cursor moves with the listing, before the envelopes are stored.
SyncListAdvances(p, f) ==
    /\ Listed(p, f)
    /\ cursor' = [cursor EXCEPT ![f] = pass'[p].upTo]
    /\ UNCHANGED <<serverVars, emailVars, jobs, worker, filing, historyVars, moves, faults>>

SyncList(p, f) ==
    /\ Listed(p, f)
    /\ UNCHANGED <<serverVars, emailVars, cursor, jobs, worker, filing, historyVars, moves, faults>>

\* A listed message that has gone has no envelope.  Without any envelope the
\* cursor stays.
SyncFetch(p) ==
    /\ pass[p].phase = "fetch"
    /\ LET envelopes == pass[p].found \cap OnServer
       IN  IF envelopes = {} THEN NextFolder(p, pass[p].folder, pass[p].any)
           ELSE SetPass(p, [pass[p] EXCEPT !.phase = "upsert", !.found = envelopes])
    /\ UNCHANGED <<serverVars, emailVars, cursor, jobs, worker, filing, historyVars, moves, faults>>

\* Envelopes and their body rows, in one transaction.
SyncUpsert(p) ==
    /\ pass[p].phase = "upsert"
    /\ UpsertAll(pass[p].found)
    /\ EnqueueAll(pass[p].found)
    /\ SetPass(p, [pass[p] EXCEPT !.phase = "cursor", !.found = {}])
    /\ UNCHANGED <<serverVars, bodied, recommended, cursor, worker, filing, historyVars, moves, faults>>

\* The cursor is set, not raised, to the highest UID listed.
SyncCursor(p) ==
    /\ pass[p].phase = "cursor"
    /\ cursor' = [cursor EXCEPT ![pass[p].folder] = pass[p].upTo]
    /\ NextFolder(p, pass[p].folder, TRUE)
    /\ UNCHANGED <<serverVars, emailVars, jobs, worker, filing, historyVars, moves, faults>>

SyncEnd(p) ==
    /\ pass[p].phase = "list" /\ pass[p].todo = {} /\ ~pass[p].any
    /\ SetPass(p, NoPass)
    /\ UNCHANGED <<serverVars, emailVars, cursor, jobs, worker, filing, historyVars, moves, faults>>

WithoutBody(f) == {position[m] : m \in {n \in Mail \ bodied :
                                          position[n] # Nowhere /\ position[n].folder = f}}

Live(statuses) == {s \in Spots : jobs[s].status \in statuses}

\* sync_body is planned for missing bodies and for rows that wait.
BodyBegin ==
    /\ CoreIdle
    /\ Live({"pending", "failed", "processing"}) # {} \/ \E f \in Folders : WithoutBody(f) # {}
    /\ SetPass("core", [NoPass EXCEPT !.phase = "select", !.todo = Folders])
    /\ UNCHANGED <<serverVars, emailVars, cursor, jobs, worker, filing, historyVars, moves, faults>>

\* Rows for messages without body, where the database has them.
BodySelect(f) ==
    /\ pass["core"].phase = "select" /\ f \in pass["core"].todo
    /\ SetPass("core", [pass["core"] EXCEPT !.todo = @ \ {f}, !.found = WithoutBody(f),
                          !.phase = IF WithoutBody(f) = {} THEN "select" ELSE "insert"])
    /\ UNCHANGED <<serverVars, emailVars, cursor, jobs, worker, filing, historyVars, moves, faults>>

BodyInsert ==
    /\ pass["core"].phase = "insert"
    /\ EnqueueAll(pass["core"].found)
    /\ SetPass("core", [pass["core"] EXCEPT !.phase = "select", !.found = {}])
    /\ UNCHANGED <<serverVars, emailVars, cursor, worker, filing, historyVars, moves, faults>>

\* reset_stale_body_sync_processing: rows claimed long ago, whoever works on them.
ResetStale(old) ==
    jobs' = [s \in Spots |-> IF s \in old THEN [jobs[s] EXCEPT !.status = "failed"] ELSE jobs[s]]

\* A drain resets what is stale and starts its workers.  One that a failed drain left
\* behind goes on beside them.
Drain(p) ==
    /\ pass[p].phase = "select" \/ (pass[p].phase = "list" /\ pass[p].any)
    /\ pass[p].todo = {}
    /\ \E old \in SUBSET Live({"processing"}) : ResetStale(old)
    /\ LET crew == {w \in Workers : worker[<<p, w>>].phase = "off"}
       IN  /\ worker' = [w \in Passes \X Workers |->
                           IF w \in {p} \X crew THEN Ready ELSE worker[w]]
           /\ SetPass(p, [NoPass EXCEPT !.phase = "drain", !.crew = crew])
    /\ UNCHANGED <<serverVars, emailVars, cursor, filing, historyVars, moves, faults>>

DrainEnd(p) ==
    /\ pass[p].phase = "drain"
    /\ \A w \in pass[p].crew : worker[<<p, w>>].phase = "off"
    /\ SetPass(p, NoPass)
    /\ UNCHANGED <<serverVars, emailVars, cursor, jobs, worker, filing, historyVars, moves, faults>>

\* An error of a fetch or a statement ends the pass, not the workers of a drain;
\* only a folder's search is forgiven.
PassFails(p) ==
    /\ pass[p].phase # "idle"
    /\ pass[p].phase = "list" => pass[p].todo = {} /\ pass[p].any
    /\ Fault
    /\ SetPass(p, NoPass)
    /\ UNCHANGED <<serverVars, emailVars, cursor, jobs, worker, filing, historyVars, moves>>

------------------------------------------------------------------------------
(* The body queue's workers; w is a pass and a worker of its drains. *)

SetWork(w, state) == worker' = [worker EXCEPT ![w] = state]

\* Mutant: the status is misspelt.
SetJobMisspelt(s, status) ==
    jobs' = [jobs EXCEPT ![s].status = IF status = "dead" THEN "deadletter" ELSE status]

SetJob(s, status) == jobs' = [jobs EXCEPT ![s].status = status]

\* Attempts are compared with the maximum only, so they are counted up to it.
Claim(w, s) ==
    /\ worker[w].phase = "claim"
    /\ s \in Live({"pending", "failed"})
    /\ LET attempt == IF jobs[s].attempt = MaxAttempts THEN MaxAttempts ELSE jobs[s].attempt + 1
       IN  /\ jobs' = [jobs EXCEPT ![s] = [status |-> "processing", attempt |-> attempt]]
           /\ SetWork(w, [phase |-> "fetch", job |-> s, attempt |-> attempt])
    /\ UNCHANGED <<serverVars, emailVars, cursor, pass, filing, historyVars, moves, faults>>

\* Nothing is due: what has failed waits for its delay.
WorkerEnds(w) ==
    /\ worker[w].phase = "claim"
    /\ Live({"pending"}) = {}
    /\ SetWork(w, NoWork)
    /\ UNCHANGED <<serverVars, emailVars, cursor, jobs, pass, filing, historyVars, moves, faults>>

\* Mutant: the row is marked when the body has come, before it is stored.
FetchMarks(w) ==
    /\ worker[w].phase = "fetch"
    /\ worker[w].job \in OnServer
    /\ SetWork(w, [worker[w] EXCEPT !.phase = "upsert"])
    /\ SetJob(worker[w].job, "done")
    /\ UNCHANGED <<serverVars, emailVars, cursor, pass, filing, historyVars, moves, faults>>

\* Mutant: a row is done whatever the fetch brought.
FetchForgives(w) ==
    /\ worker[w].phase = "fetch"
    /\ \/ SetWork(w, [worker[w] EXCEPT !.phase = IF worker[w].job \in OnServer THEN "upsert" ELSE "done"])
          /\ NoFault
       \/ SetWork(w, [worker[w] EXCEPT !.phase = "done"]) /\ Fault
    /\ UNCHANGED <<serverVars, emailVars, cursor, jobs, pass, filing, historyVars, moves>>

Fetch(w) ==
    /\ worker[w].phase = "fetch"
    /\ \/ SetWork(w, [worker[w] EXCEPT !.phase = IF worker[w].job \in OnServer THEN "upsert" ELSE "retry"])
          /\ NoFault
       \/ SetWork(w, [worker[w] EXCEPT !.phase = "retry"]) /\ Fault
    /\ UNCHANGED <<serverVars, emailVars, cursor, jobs, pass, filing, historyVars, moves>>

\* upsert_and_mark_body_synced: body and position, in one transaction.
BodyStored(spot) == UpsertAll({spot}) /\ bodied' = bodied \cup {spot.mail}

\* When that fails, or the folder's full-sync cursor cannot be written after it, the
\* row is retried.
Import(w) ==
    /\ worker[w].phase = "upsert"
    /\ \/ /\ BodyStored(worker[w].job)
          /\ \/ SetWork(w, [worker[w] EXCEPT !.phase = "done"]) /\ NoFault
             \/ SetWork(w, [worker[w] EXCEPT !.phase = "retry"]) /\ Fault
       \/ /\ SetWork(w, [worker[w] EXCEPT !.phase = "retry"])
          /\ Fault
          /\ UNCHANGED <<placeVars, bodied>>
    /\ UNCHANGED <<serverVars, recommended, cursor, jobs, pass, filing, historyVars, moves>>

\* mark_body_sync_retry_or_dead
FailedStatus(attempt) == IF attempt >= MaxAttempts THEN "dead" ELSE "failed"

\* Both marks address the row by id alone.
MarkDone(w) ==
    /\ worker[w].phase = "done"
    /\ SetJob(worker[w].job, "done")
    /\ SetWork(w, Ready)
    /\ UNCHANGED <<serverVars, emailVars, cursor, pass, filing, historyVars, moves, faults>>

MarkRetry(w) ==
    /\ worker[w].phase = "retry"
    /\ SetJob(worker[w].job, FailedStatus(worker[w].attempt))
    /\ SetWork(w, Ready)
    /\ UNCHANGED <<serverVars, emailVars, cursor, pass, filing, historyVars, moves, faults>>

\* A statement that fails ends the worker, leaves its row processing, and may end
\* the drain before its other workers.
WorkerFails(w) ==
    /\ worker[w].phase \in {"claim", "done", "retry"}
    /\ Fault
    /\ SetWork(w, NoWork)
    /\ \/ UNCHANGED pass
       \/ w[2] \in pass[w[1]].crew /\ SetPass(w[1], NoPass)
    /\ UNCHANGED <<serverVars, emailVars, cursor, jobs, filing, historyVars, moves>>

------------------------------------------------------------------------------
(* Filing. *)

\* The outcome of an analysis and a location pass, which need a body and a
\* location.
Recommend(m) ==
    /\ m \in (bodied \cap Recommendable) \ recommended
    /\ recommended' = recommended \cup {m}
    /\ UNCHANGED <<serverVars, placeVars, bodied, cursor, jobs, pass, worker, filing, historyVars>>
    /\ UNCHANGED <<moves, faults>>

LockExpires(m) ==
    /\ m \in locked
    /\ locked' = locked \ {m}
    /\ UNCHANGED <<serverVars, position, pin, bodied, recommended, cursor, jobs, pass, worker>>
    /\ UNCHANGED <<filing, historyVars, moves, faults>>

\* Mutant: the pin is not looked at.
PendingOrPinned ==
    {position[m] : m \in {n \in recommended \ locked : position[n].folder # Destination[n]}}

\* get_emails_with_pending_location.
Pending ==
    {position[m] : m \in {n \in recommended \ locked :
                            /\ pin[n] = NoFolder
                            /\ position[n] # Nowhere /\ position[n].folder # Destination[n]}}

\* The list is read once; what follows uses the places read then.
FileList ==
    /\ CoreIdle
    /\ Pending # {}
    /\ filing' = [phase |-> "move", todo |-> Pending, spot |-> Nowhere]
    /\ UNCHANGED <<serverVars, emailVars, cursor, jobs, pass, worker, historyVars, moves, faults>>

FileNext == filing' = [filing EXCEPT !.phase = "move", !.spot = Nowhere]

\* The destination is not a selectable folder and is not to be created, or cannot
\* be, or the message has no place to be moved from.
FileSkip(spot) ==
    /\ filing.phase = "move" /\ spot \in filing.todo
    /\ filing' = [filing EXCEPT !.todo = @ \ {spot}]
    /\ UNCHANGED <<serverVars, emailVars, cursor, jobs, pass, worker, historyVars, moves, faults>>

\* UID MOVE.  The answer may lack the new UID, as it does when there was
\* nothing to move, or be lost, before or after the message has moved.
FileMove(spot) ==
    /\ filing.phase = "move" /\ spot \in filing.todo
    /\ LET m == spot.mail
           Then(phase, s) == filing' = [phase |-> phase, todo |-> filing.todo \ {spot}, spot |-> s]
       IN  \/ /\ at[m] = spot
              /\ Arrive(m, Destination[m])
              /\ placed' = [placed EXCEPT ![m] = NoFolder]
              /\ \/ Then("record", at'[m]) /\ NoFault /\ UNCHANGED unrecorded
                 \/ Then("search", spot) /\ NoFault /\ UNCHANGED unrecorded
                 \/ Then("move", Nowhere) /\ Fault /\ unrecorded' = unrecorded \cup {m}
           \/ /\ \/ at[m] # spot /\ Then("search", spot) /\ NoFault
                 \/ Then("move", Nowhere) /\ Fault
              /\ UNCHANGED <<serverVars, historyVars>>
    /\ UNCHANGED <<emailVars, cursor, jobs, pass, worker, moves>>

\* Search for the Message-ID in the destination.
FileSearch ==
    /\ filing.phase = "search"
    /\ LET m == filing.spot.mail
       IN  \/ /\ IF at[m] # Nowhere /\ at[m].folder = Destination[m]
                 THEN filing' = [filing EXCEPT !.phase = "record", !.spot = at[m]]
                 ELSE FileNext
              /\ NoFault /\ UNCHANGED unrecorded
           \/ FileNext /\ Fault /\ unrecorded' = unrecorded \cup {m}
    /\ UNCHANGED <<serverVars, emailVars, cursor, jobs, pass, worker, placed, moves>>

FileRecord ==
    /\ filing.phase = "record"
    /\ \/ RecordMove(filing.spot) /\ NoFault /\ UNCHANGED unrecorded
       \/ Fault /\ unrecorded' = unrecorded \cup {filing.spot.mail} /\ UNCHANGED placeVars
    /\ FileNext
    /\ UNCHANGED <<serverVars, bodied, recommended, cursor, jobs, pass, worker, placed, moves>>

FileEnd ==
    /\ filing.phase = "move" /\ filing.todo = {}
    /\ filing' = NoFiling
    /\ UNCHANGED <<serverVars, emailVars, cursor, jobs, pass, worker, historyVars, moves, faults>>

\* The process goes and starts again.
Crash ==
    /\ Fault
    /\ pass' = [p \in Passes |-> NoPass]
    /\ worker' = [w \in Passes \X Workers |-> NoWork]
    /\ filing' = NoFiling
    /\ unrecorded' = unrecorded \cup
         (IF filing.phase \in {"search", "record"} THEN {filing.spot.mail} ELSE {})
    /\ UNCHANGED <<serverVars, emailVars, cursor, jobs, placed, moves>>

------------------------------------------------------------------------------

PassStep(p) ==
    \/ \E f \in Folders : SyncSkip(p, f) \/ SyncList(p, f)
    \/ SyncRead(p) \/ SyncFetch(p) \/ SyncUpsert(p) \/ SyncCursor(p) \/ SyncEnd(p)
    \/ Drain(p) \/ DrainEnd(p) \/ PassFails(p)

BodyStep == BodyInsert \/ \E f \in Folders : BodySelect(f)

WorkerStep(w) ==
    \/ \E s \in Spots : Claim(w, s)
    \/ WorkerEnds(w) \/ Fetch(w) \/ Import(w) \/ MarkDone(w) \/ MarkRetry(w) \/ WorkerFails(w)

FilingStep ==
    \/ FileSearch \/ FileRecord \/ FileEnd
    \/ \E spot \in filing.todo : FileSkip(spot) \/ FileMove(spot)

Next ==
    \/ \E m \in Mail : Deliver(m) \/ Recommend(m) \/ LockExpires(m)
    \/ \E m \in Mail, f \in Folders : UserMove(m, f)
    \/ \E p \in Passes : SyncBegin(p) \/ PassStep(p)
    \/ BodyBegin \/ BodyStep
    \/ \E w \in Passes \X Workers : WorkerStep(w)
    \/ FileList \/ FilingStep
    \/ Crash

Spec == Init /\ [][Next]_vars

\* What has begun goes on, and core comes back to its sync and body passes (the
\* idle poll plans both).  The background loop need not begin a pass, mail need
\* not come, and the user need not move it.
Fairness ==
    /\ SF_vars(SyncBegin("core")) /\ SF_vars(BodyBegin)
    /\ \A p \in Passes : WF_vars(PassStep(p))
    /\ \A w \in Passes \X Workers : WF_vars(WorkerStep(w))
    /\ WF_vars(BodyStep)
    /\ WF_vars(FilingStep)

FairSpec == Spec /\ Fairness

------------------------------------------------------------------------------
(* Properties. *)

\* A body row is done for good, no enqueue makes it due again: so a done row
\* must mean a stored body, whatever late marks, stale resets, repeated claims
\* and crashes have come between claim and mark.
DoneHasBody ==
    \A s \in Spots : jobs[s].status = "done" => s.mail \in bodied

\* Mail at or below a folder's cursor is never listed again: the database knows
\* it.  Two passes move one cursor, each by what it has listed.
NoMailSkipped ==
    \A m \in Mail : at[m] # Nowhere /\ at[m].uid <= cursor[at[m].folder] => position[m] # Nowhere

\* README.md, docs/ARCHITECTURE.md: what the user has moved elsewhere is not
\* moved on by core, as long as core's own moves of the message were recorded.
\* Core knows of the user's move only by the position a sync writes, and works
\* on a list it read earlier.
UserPlacementKept ==
    [][\A m \in Mail :
          (at'[m] # at[m] /\ filing' # filing) =>
              (placed[m] # at[m].folder \/ m \in unrecorded)]_vars

\* A message the database knows gets its body: moves, failures, dead rows, late
\* marks and crashes only delay it, because body passes ask again where it is.
BodyArrives ==
    \A m \in Mail : (position[m] # Nowhere) ~> (m \in bodied)

\* docs/DATABASE.md: UID and UIDVALIDITY track the message's current folder
\* position and are updated by sync.
PositionTracked ==
    \A m \in Mail : (at[m] # Nowhere) ~> (position[m] = at[m])
==============================================================================
