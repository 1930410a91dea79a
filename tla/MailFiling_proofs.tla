--------------------------- MODULE MailFiling_proofs ---------------------------
(***************************************************************************)
(* Theorems about MailFiling, for any mail, folders, passes, workers and   *)
(* bounds: typing, that a row is done only with its body, that no mail is  *)
(* passed over, and that the user's placement is kept.  The first lemmas say *)
(* what each kind of assignment preserves.                                 *)
(***************************************************************************)
EXTENDS MailFiling, TLAPS

LEMMA ServerStep ==
    ASSUME ServerOK, NEW m \in Mail, NEW f \in Folders, Arrive(m, f)
    PROVE  /\ ServerOK'
           /\ at'[m] \in Spots
BY NowhereAssumption, BoundAssumption DEF ServerOK, Arrive, Spots

LEMMA UpsertStep ==
    ASSUME TableOK, NEW spots \in SUBSET Spots, UpsertAll(spots),
           bodied' \subseteq Mail, UNCHANGED <<recommended, cursor>>
    PROVE  TableOK'
BY NowhereAssumption DEF TableOK, UpsertAll, LooksMoved, Spots

LEMMA EnqueueStep ==
    ASSUME QueueOK, NEW spots, EnqueueAll(spots), UNCHANGED worker
    PROVE  QueueOK'
BY DEF QueueOK, EnqueueAll, Enqueued, Statuses

LEMMA WorkStep ==
    ASSUME QueueOK, NEW w \in Passes \X Workers, NEW state \in WorkStates, SetWork(w, state),
           \/ UNCHANGED jobs
           \/ \E s \in Spots, status \in Statuses : SetJob(s, status)
    PROVE  QueueOK'
<1>1. worker' \in [Passes \X Workers -> WorkStates]
  BY DEF QueueOK, SetWork
<1>2. jobs' \in [Spots -> [status : Statuses, attempt : 0 .. MaxAttempts]]
  BY DEF QueueOK, SetJob
<1> QED BY <1>1, <1>2 DEF QueueOK

LEMMA PassStepOK ==
    ASSUME PassOK, NEW p \in Passes, NEW state \in PassStates, SetPass(p, state)
    PROVE  PassOK'
BY DEF PassOK, SetPass

LEMMA ClearedPass == NoPass \in PassStates
BY BoundAssumption DEF NoPass, PassStates

\* A pass state built from the cleared one, field by field.
LEMMA BuiltPass ==
    /\ [NoPass EXCEPT !.phase = "start"] \in PassStates
    /\ \A todo \in SUBSET Folders :
         [NoPass EXCEPT !.phase = "select", !.todo = todo] \in PassStates
    /\ \A crew \in SUBSET Workers :
         [NoPass EXCEPT !.phase = "drain", !.crew = crew] \in PassStates
    /\ \A from \in [Folders -> 0 .. MaxUid], todo \in SUBSET Folders, any \in BOOLEAN :
         /\ [NoPass EXCEPT !.phase = "list", !.from = from, !.todo = todo] \in PassStates
         /\ [NoPass EXCEPT !.phase = "list", !.from = from, !.todo = todo, !.any = any]
              \in PassStates
BY ClearedPass, ZenonT(40) DEF PassStates

\* Resetting one value keeps the function's type, whatever the argument.
LEMMA Zeroed ==
    ASSUME NEW from \in [Folders -> 0 .. MaxUid], NEW f
    PROVE  [from EXCEPT ![f] = 0] \in [Folders -> 0 .. MaxUid]
<1>1. 0 \in 0 .. MaxUid
  BY BoundAssumption
<1> QED BY <1>1

LEMMA ClearedWork == NoWork \in WorkStates /\ Ready \in WorkStates
BY DEF NoWork, Ready, WorkStates

LEMMA ClearedFiling == NoFiling \in FilingStates
BY DEF NoFiling, FilingStates

\* A worker's job, while it has one.
LEMMA Job ==
    ASSUME QueueOK, NEW w \in Passes \X Workers, worker[w].phase \notin {"off", "claim"}
    PROVE  /\ worker[w].job \in Spots
           /\ \A phase \in {"fetch", "upsert", "done", "retry"} :
                [worker[w] EXCEPT !.phase = phase] \in WorkStates
BY DEF QueueOK, WorkStates

LEMMA NextFolderState ==
    ASSUME PassOK, NEW p \in Passes, NEW f \in Folders \cup {NoFolder}, NEW any \in BOOLEAN,
           NextFolder(p, f, any)
    PROVE  PassOK'
<1>1. /\ pass[p].from \in [Folders -> 0 .. MaxUid]
      /\ pass[p].todo \subseteq Folders
  BY DEF PassOK, PassStates
<1>2. [pass[p].from EXCEPT ![f] = 0] \in [Folders -> 0 .. MaxUid]
  BY <1>1, Zeroed
<1>3. [NoPass EXCEPT !.phase = "list", !.from = [pass[p].from EXCEPT ![f] = 0],
                     !.todo = pass[p].todo \ {f}, !.any = any] \in PassStates
  BY <1>1, <1>2, BuiltPass
<1> QED BY <1>3, PassStepOK DEF NextFolder

LEMMA FaultStep ==
    ASSUME faults \in 0 .. FaultBudget, Fault \/ NoFault
    PROVE  faults' \in 0 .. FaultBudget
BY BoundAssumption DEF Fault, NoFault

HistoryOK ==
    /\ placed \in [Mail -> Folders \cup {NoFolder}] /\ unrecorded \subseteq Mail
    /\ moves \in 0 .. MoveBudget /\ faults \in 0 .. FaultBudget

LEMMA Frame ==
    ASSUME TypeOK,
           ServerOK' \/ UNCHANGED serverVars,
           TableOK' \/ UNCHANGED <<emailVars, cursor>>,
           QueueOK' \/ UNCHANGED <<jobs, worker>>,
           PassOK' \/ UNCHANGED pass,
           FilingOK' \/ UNCHANGED filing,
           HistoryOK' \/ UNCHANGED <<historyVars, moves, faults>>
    PROVE  TypeOK'
<1>1. ServerOK'
  BY DEF TypeOK, ServerOK, serverVars
<1>2. TableOK'
  BY DEF TypeOK, TableOK, emailVars, placeVars
<1>3. QueueOK'
  BY DEF TypeOK, QueueOK
<1>4. PassOK' /\ FilingOK'
  BY DEF TypeOK, PassOK, FilingOK
<1>5. HistoryOK'
  BY DEF TypeOK, HistoryOK, historyVars
<1> QED BY <1>1, <1>2, <1>3, <1>4, <1>5 DEF TypeOK, HistoryOK

\* Every reachable state is well typed; in particular a worker has a row exactly
\* from its claim to its mark, and a filing pass a message from MOVE to record.
THEOREM Typing == Spec => []TypeOK
<1>1. Init => TypeOK
  <2> SUFFICES ASSUME Init PROVE TypeOK
    OBVIOUS
  <2> USE FolderAssumption, BoundAssumption, NowhereAssumption DEF Init
  <2>1. ServerOK /\ TableOK
    BY DEF ServerOK, TableOK
  <2>2. QueueOK
    BY ClearedWork DEF QueueOK, Statuses
  <2>3. PassOK /\ FilingOK
    BY ClearedPass, ClearedFiling DEF PassOK, FilingOK
  <2> QED BY <2>1, <2>2, <2>3 DEF TypeOK
<1>2. TypeOK /\ [Next]_vars => TypeOK'
  <2> SUFFICES ASSUME TypeOK, [Next]_vars PROVE TypeOK'
    OBVIOUS
  <2> USE FolderAssumption, BoundAssumption, NowhereAssumption DEF TypeOK
  <2>1. ASSUME NEW m \in Mail, Deliver(m) PROVE TypeOK'
    <3>1. ServerOK'
      BY <2>1, ServerStep DEF Deliver
    <3> QED BY <2>1, <3>1, Frame DEF Deliver
  <2>2. ASSUME NEW m \in Mail, Recommend(m) PROVE TypeOK'
    <3>1. TableOK'
      BY <2>2 DEF Recommend, TableOK, placeVars
    <3> QED BY <2>2, <3>1, Frame DEF Recommend
  <2>3. ASSUME NEW m \in Mail, LockExpires(m) PROVE TypeOK'
    <3>1. TableOK'
      BY <2>3 DEF LockExpires, TableOK
    <3> QED BY <2>3, <3>1, Frame DEF LockExpires
  <2>4. ASSUME NEW m \in Mail, NEW f \in Folders, UserMove(m, f) PROVE TypeOK'
    <3>1. ServerOK'
      BY <2>4, ServerStep DEF UserMove
    <3>2. HistoryOK'
      BY <2>4 DEF UserMove, HistoryOK
    <3> QED BY <2>4, <3>1, <3>2, Frame DEF UserMove
  <2>5. ASSUME NEW p \in Passes, SyncBegin(p) PROVE TypeOK'
    <3>1. PassOK'
      BY <2>5, BuiltPass, PassStepOK DEF SyncBegin
    <3> QED BY <2>5, <3>1, Frame DEF SyncBegin
  <2>6. ASSUME NEW p \in Passes, SyncRead(p) PROVE TypeOK'
    <3>1. [NoPass EXCEPT !.phase = "list", !.from = cursor, !.todo = Folders] \in PassStates
      BY BuiltPass DEF TableOK
    <3>2. PassOK'
      BY <2>6, <3>1, PassStepOK DEF SyncRead
    <3> QED BY <2>6, <3>1, <3>2, Frame DEF SyncRead
  <2>7. ASSUME NEW p \in Passes, NEW f \in Folders, SyncSkip(p, f) PROVE TypeOK'
    <3>1. PassOK'
      BY <2>7, NextFolderState DEF SyncSkip, PassOK, PassStates
    <3>2. HistoryOK'
      BY <2>7, FaultStep DEF SyncSkip, HistoryOK, historyVars
    <3> QED BY <2>7, <3>1, <3>2, Frame DEF SyncSkip
  <2>8. ASSUME NEW p \in Passes, NEW f \in Folders, SyncList(p, f) PROVE TypeOK'
    <3>1. pass[p] \in PassStates
      BY DEF PassOK
    <3>2. NewIn(p, f) \subseteq Spots
      BY DEF NewIn, OnServer, ServerOK
    <3>3. \A last \in NewIn(p, f) : last.uid \in 0 .. MaxUid
      BY <3>2 DEF Spots
    <3>4. \A uid \in 0 .. MaxUid :
            [pass[p] EXCEPT !.phase = "fetch", !.folder = f, !.found = NewIn(p, f), !.upTo = uid]
              \in PassStates
      BY <3>1, <3>2 DEF PassStates
    <3>5. PassOK'
      BY <2>8, <3>3, <3>4, PassStepOK DEF SyncList, Listed
    <3> QED BY <2>8, <3>1, <3>2, <3>3, <3>4, <3>5, Frame DEF SyncList
  <2>9. ASSUME NEW p \in Passes, SyncFetch(p) PROVE TypeOK'
    <3>1. pass[p] \in PassStates
      BY DEF PassOK
    <3>2. [pass[p] EXCEPT !.phase = "upsert", !.found = pass[p].found \cap OnServer] \in PassStates
      BY <3>1 DEF PassStates
    <3>3. pass[p].folder \in Folders \cup {NoFolder} /\ pass[p].any \in BOOLEAN
      BY <3>1 DEF PassStates
    <3>4. ASSUME pass[p].found \cap OnServer = {} PROVE PassOK'
      BY <2>9, <3>3, <3>4, NextFolderState DEF SyncFetch
    <3>5. ASSUME pass[p].found \cap OnServer # {} PROVE PassOK'
      BY <2>9, <3>2, <3>5, PassStepOK DEF SyncFetch
    <3>6. PassOK'
      BY <3>4, <3>5
    <3> QED BY <2>9, <3>1, <3>2, <3>3, <3>4, <3>5, <3>6, Frame DEF SyncFetch
  <2>10. ASSUME NEW p \in Passes, SyncUpsert(p) PROVE TypeOK'
    <3>1. pass[p] \in PassStates
      BY DEF PassOK
    <3>2. pass[p].found \subseteq Spots
      BY <3>1 DEF PassStates
    <3>3. TableOK'
      BY <2>10, <3>2, UpsertStep DEF SyncUpsert, TableOK
    <3>4. QueueOK'
      BY <2>10, EnqueueStep DEF SyncUpsert
    <3>5. [pass[p] EXCEPT !.phase = "cursor", !.found = {}] \in PassStates
      BY <3>1 DEF PassStates
    <3>6. PassOK'
      BY <2>10, <3>5, PassStepOK DEF SyncUpsert
    <3> QED BY <2>10, <3>1, <3>2, <3>3, <3>4, <3>5, <3>6, Frame DEF SyncUpsert
  <2>11. ASSUME NEW p \in Passes, SyncCursor(p) PROVE TypeOK'
    <3>1. pass[p] \in PassStates
      BY DEF PassOK
    <3>2. PassOK'
      BY <2>11, <3>1, NextFolderState DEF SyncCursor, PassStates
    <3>3. TableOK'
      BY <2>11, <3>1 DEF SyncCursor, TableOK, PassStates, emailVars, placeVars
    <3> QED BY <2>11, <3>1, <3>2, <3>3, Frame DEF SyncCursor
  <2>12. ASSUME NEW p \in Passes, SyncEnd(p) PROVE TypeOK'
    <3>1. PassOK'
      BY <2>12, ClearedPass, PassStepOK DEF SyncEnd
    <3> QED BY <2>12, <3>1, Frame DEF SyncEnd
  <2>13. CASE BodyBegin
    <3>1. [NoPass EXCEPT !.phase = "select", !.todo = Folders] \in PassStates
      BY BuiltPass
    <3>2. PassOK'
      BY <2>13, <3>1, PassAssumption, PassStepOK DEF BodyBegin
    <3> QED BY <2>13, <3>1, <3>2, Frame DEF BodyBegin
  <2>14. ASSUME NEW f \in Folders, BodySelect(f) PROVE TypeOK'
    <3>1. pass["core"] \in PassStates
      BY PassAssumption DEF PassOK
    <3>2. WithoutBody(f) \subseteq Spots
      BY DEF WithoutBody, TableOK
    <3>3. \A phase \in {"select", "insert"} :
            [pass["core"] EXCEPT !.todo = @ \ {f}, !.found = WithoutBody(f), !.phase = phase] \in PassStates
      BY <3>1, <3>2 DEF PassStates
    <3>4. PassOK'
      BY <2>14, <3>3, PassAssumption, PassStepOK DEF BodySelect
    <3> QED BY <2>14, <3>1, <3>2, <3>3, <3>4, Frame DEF BodySelect
  <2>15. CASE BodyInsert
    <3>1. pass["core"] \in PassStates
      BY PassAssumption DEF PassOK
    <3>2. [pass["core"] EXCEPT !.phase = "select", !.found = {}] \in PassStates
      BY <3>1 DEF PassStates
    <3>3. PassOK'
      BY <2>15, <3>2, PassAssumption, PassStepOK DEF BodyInsert
    <3>4. QueueOK'
      BY <2>15, EnqueueStep DEF BodyInsert
    <3> QED BY <2>15, <3>1, <3>2, <3>3, <3>4, Frame DEF BodyInsert
  <2>16. ASSUME NEW p \in Passes, Drain(p) PROVE TypeOK'
    <3>1. jobs' \in [Spots -> [status : Statuses, attempt : 0 .. MaxAttempts]]
      BY <2>16 DEF Drain, ResetStale, QueueOK, Statuses
    <3>2. worker' \in [Passes \X Workers -> WorkStates]
      BY <2>16, ClearedWork DEF Drain, ResetStale, QueueOK
    <3>3. PICK crew \in SUBSET Workers : SetPass(p, [NoPass EXCEPT !.phase = "drain", !.crew = crew])
      BY <2>16 DEF Drain, ResetStale
    <3>4. [NoPass EXCEPT !.phase = "drain", !.crew = crew] \in PassStates
      BY BuiltPass
    <3>5. PassOK'
      BY <3>3, <3>4, PassStepOK
    <3>6. QueueOK'
      BY <3>1, <3>2 DEF QueueOK
    <3> QED BY <2>16, <3>1, <3>2, <3>3, <3>4, <3>5, <3>6, Frame DEF Drain, ResetStale
  <2>17. ASSUME NEW p \in Passes, DrainEnd(p) PROVE TypeOK'
    <3>1. PassOK'
      BY <2>17, ClearedPass, PassStepOK DEF DrainEnd
    <3> QED BY <2>17, <3>1, Frame DEF DrainEnd
  <2>18. ASSUME NEW p \in Passes, PassFails(p) PROVE TypeOK'
    <3>1. PassOK'
      BY <2>18, ClearedPass, PassStepOK DEF PassFails
    <3>2. HistoryOK'
      BY <2>18, FaultStep DEF PassFails, HistoryOK, historyVars
    <3> QED BY <2>18, <3>1, <3>2, Frame DEF PassFails
  <2>19. ASSUME NEW w \in Passes \X Workers, NEW s \in Spots, Claim(w, s) PROVE TypeOK'
    <3>1. PICK attempt :
            /\ attempt = IF jobs[s].attempt = MaxAttempts THEN MaxAttempts ELSE jobs[s].attempt + 1
            /\ jobs' = [jobs EXCEPT ![s] = [status |-> "processing", attempt |-> attempt]]
            /\ SetWork(w, [phase |-> "fetch", job |-> s, attempt |-> attempt])
      BY <2>19 DEF Claim
    <3>2. jobs[s].attempt \in 0 .. MaxAttempts
      BY DEF QueueOK
    <3>3. attempt \in 0 .. MaxAttempts
      BY <3>1, <3>2
    <3>4. jobs' \in [Spots -> [status : Statuses, attempt : 0 .. MaxAttempts]]
      BY <3>1, <3>3 DEF QueueOK, Statuses
    <3>5. worker' \in [Passes \X Workers -> WorkStates]
      BY <3>1, <3>3 DEF QueueOK, SetWork, WorkStates
    <3>6. QueueOK'
      BY <3>4, <3>5 DEF QueueOK
    <3> QED BY <2>19, <3>1, <3>2, <3>3, <3>4, <3>5, <3>6, Frame DEF Claim
  <2>20. ASSUME NEW w \in Passes \X Workers, WorkerEnds(w) PROVE TypeOK'
    <3>1. QueueOK'
      BY <2>20, ClearedWork, WorkStep DEF WorkerEnds
    <3> QED BY <2>20, <3>1, Frame DEF WorkerEnds
  <2>21. ASSUME NEW w \in Passes \X Workers, Fetch(w) PROVE TypeOK'
    <3>1. QueueOK'
      BY <2>21, Job, WorkStep DEF Fetch
    <3>2. HistoryOK'
      BY <2>21, FaultStep DEF Fetch, HistoryOK, historyVars
    <3> QED BY <2>21, <3>1, <3>2, Frame DEF Fetch
  <2>22. ASSUME NEW w \in Passes \X Workers, Import(w) PROVE TypeOK'
    <3>1. worker[w].job \in Spots
      BY <2>22, Job DEF Import, BodyStored
    <3>2. QueueOK'
      BY <2>22, Job, WorkStep DEF Import, BodyStored
    <3>3. bodied' \subseteq Mail
      BY <2>22, <3>1 DEF Import, BodyStored, TableOK, Spots
    <3>4. TableOK'
      BY <2>22, <3>1, <3>3, UpsertStep DEF Import, BodyStored, TableOK, placeVars
    <3>5. HistoryOK'
      BY <2>22, FaultStep DEF Import, BodyStored, HistoryOK, historyVars
    <3> QED BY <2>22, <3>1, <3>2, <3>3, <3>4, <3>5, Frame DEF Import, BodyStored
  <2>23. ASSUME NEW w \in Passes \X Workers, MarkDone(w) PROVE TypeOK'
    <3>1. worker[w].job \in Spots
      BY <2>23, Job DEF MarkDone
    <3>2. QueueOK'
      BY <2>23, <3>1, ClearedWork, WorkStep DEF MarkDone, Statuses
    <3> QED BY <2>23, <3>1, <3>2, Frame DEF MarkDone
  <2>24. ASSUME NEW w \in Passes \X Workers, MarkRetry(w) PROVE TypeOK'
    <3>1. worker[w].job \in Spots
      BY <2>24, Job DEF MarkRetry, FailedStatus
    <3>2. QueueOK'
      BY <2>24, <3>1, ClearedWork, WorkStep DEF MarkRetry, FailedStatus, Statuses
    <3> QED BY <2>24, <3>1, <3>2, Frame DEF MarkRetry, FailedStatus
  <2>25. ASSUME NEW w \in Passes \X Workers, WorkerFails(w) PROVE TypeOK'
    <3>1. QueueOK'
      BY <2>25, ClearedWork, WorkStep DEF WorkerFails
    <3>2. PassOK' \/ UNCHANGED pass
      BY <2>25, ClearedPass, PassStepOK DEF WorkerFails
    <3>3. HistoryOK'
      BY <2>25, FaultStep DEF WorkerFails, HistoryOK, historyVars
    <3> QED BY <2>25, <3>1, <3>2, <3>3, Frame DEF WorkerFails
  <2>26. CASE FileList
    <3>1. Pending \subseteq Spots
      BY DEF Pending, TableOK
    <3>2. FilingOK'
      BY <2>26, <3>1 DEF FileList, FilingOK, FilingStates
    <3> QED BY <2>26, <3>1, <3>2, Frame DEF FileList
  <2>27. ASSUME NEW spot \in filing.todo, FileMove(spot) PROVE TypeOK'
    <3>1. filing.todo \subseteq Spots /\ spot \in Spots
      BY DEF FilingOK, FilingStates
    <3>2. spot.mail \in Mail
      BY <3>1 DEF Spots
    <3>3. /\ ServerOK' \/ UNCHANGED serverVars
          /\ at[spot.mail] = spot /\ ~UNCHANGED serverVars => at'[spot.mail] \in Spots
      BY <2>27, <3>2, DestinationAssumption, ServerStep DEF FileMove
    <3>4. FilingOK'
      BY <2>27, <3>1, <3>2, DestinationAssumption, ServerStep DEF FileMove, FilingOK, FilingStates
    <3>5. faults' \in 0 .. FaultBudget
      BY <2>27, FaultStep DEF FileMove
    <3>6. HistoryOK'
      BY <2>27, <3>2, <3>5 DEF FileMove, HistoryOK, historyVars
    <3> QED BY <2>27, <3>1, <3>2, <3>3, <3>4, <3>5, <3>6, Frame DEF FileMove
  <2>28. CASE FileSearch
    <3>1. filing.spot \in Spots /\ filing.todo \subseteq Spots
      BY <2>28 DEF FileSearch, FilingOK, FilingStates
    <3>2. filing.spot.mail \in Mail
      BY <3>1 DEF Spots
    <3>3. FilingOK'
      BY <2>28, <3>1, <3>2, ZenonT(40) DEF FileSearch, FileNext, FilingOK, FilingStates, ServerOK
    <3>4. HistoryOK'
      BY <2>28, <3>2, FaultStep DEF FileSearch, HistoryOK
    <3> QED BY <2>28, <3>1, <3>2, <3>3, <3>4, Frame DEF FileSearch
  <2>29. CASE FileRecord
    <3>1. filing.spot \in Spots /\ filing.todo \subseteq Spots
      BY <2>29 DEF FileRecord, FilingOK, FilingStates
    <3>2. filing.spot.mail \in Mail /\ filing.spot.folder \in Folders
      BY <3>1 DEF Spots
    <3>3. TableOK'
      BY <2>29, <3>1, <3>2 DEF FileRecord, RecordMove, TableOK, placeVars
    <3>4. FilingOK'
      BY <2>29, <3>1, <3>2 DEF FileRecord, FileNext, FilingOK, FilingStates
    <3>5. HistoryOK'
      BY <2>29, <3>2, FaultStep DEF FileRecord, HistoryOK
    <3> QED BY <2>29, <3>1, <3>2, <3>3, <3>4, <3>5, Frame DEF FileRecord
  <2>30. CASE FileEnd
    <3>1. FilingOK'
      BY <2>30, ClearedFiling DEF FileEnd, FilingOK
    <3> QED BY <2>30, <3>1, Frame DEF FileEnd
  <2>31. ASSUME NEW spot \in filing.todo, FileSkip(spot) PROVE TypeOK'
    <3>1. FilingOK'
      BY <2>31 DEF FileSkip, FilingOK, FilingStates
    <3> QED BY <2>31, <3>1, Frame DEF FileSkip
  <2>32. CASE Crash
    <3>1. PassOK' /\ FilingOK'
      BY <2>32, ClearedPass, ClearedFiling DEF Crash, PassOK, FilingOK
    <3>2. QueueOK'
      BY <2>32, ClearedWork DEF Crash, QueueOK
    <3>3. unrecorded' \subseteq Mail
      BY <2>32 DEF Crash, FilingOK, FilingStates, Spots
    <3>4. HistoryOK'
      BY <2>32, <3>3, FaultStep DEF Crash, HistoryOK
    <3> QED BY <2>32, <3>1, <3>2, <3>3, <3>4, Frame DEF Crash
  <2>33. CASE UNCHANGED vars
    <3> QED BY <2>33, Frame DEF vars
  <2> QED
    BY <2>1, <2>2, <2>3, <2>4, <2>5, <2>6, <2>7, <2>8, <2>9, <2>10, <2>11, <2>12, <2>13, <2>14,
       <2>15, <2>16, <2>17, <2>18, <2>19, <2>20, <2>21, <2>22, <2>23, <2>24, <2>25, <2>26, <2>27, <2>28,
       <2>29, <2>30, <2>31, <2>32, <2>33
    DEF Next, PassStep, BodyStep, WorkerStep, FilingStep
<1> QED BY <1>1, <1>2, PTL DEF Spec

------------------------------------------------------------------------------
(* Bodies. *)

\* A worker about to mark its row done has stored the body, and no body is lost.
MarkEarned == \A w \in Passes \X Workers : worker[w].phase = "done" => worker[w].job.mail \in bodied
BodyInv == DoneHasBody /\ MarkEarned

LEMMA QuietBodies ==
    ASSUME BodyInv, UNCHANGED <<jobs, worker>>, bodied \subseteq bodied'
    PROVE  BodyInv'
BY DEF BodyInv, DoneHasBody, MarkEarned

LEMMA EnqueuedBodies ==
    ASSUME TypeOK, BodyInv, NEW spots, EnqueueAll(spots), UNCHANGED <<worker, bodied>>
    PROVE  BodyInv'
<1>1. \A s \in Spots : jobs'[s].status = "done" => jobs[s].status = "done"
  BY DEF EnqueueAll, Enqueued, TypeOK, QueueOK
<1> QED BY <1>1 DEF BodyInv, DoneHasBody, MarkEarned

\* Marks and claims: a row comes to be done only from the phase done.
LEMMA WorkBodies ==
    ASSUME TypeOK, BodyInv, NEW w \in Passes \X Workers, NEW state, SetWork(w, state),
           state.phase = "done" => state.job.mail \in bodied',
           bodied \subseteq bodied',
           NEW s \in Spots, NEW row, jobs' = [jobs EXCEPT ![s] = row],
           row.status = "done" => s.mail \in bodied
    PROVE  BodyInv'
<1>1. \A t \in Spots : jobs'[t] = IF t = s THEN row ELSE jobs[t]
  BY DEF TypeOK, QueueOK
<1>2. \A v \in Passes \X Workers : worker'[v] = IF v = w THEN state ELSE worker[v]
  BY DEF TypeOK, QueueOK, SetWork
<1>3. DoneHasBody'
  BY <1>1 DEF BodyInv, DoneHasBody
<1>4. MarkEarned'
  BY <1>2 DEF BodyInv, MarkEarned
<1> QED BY <1>3, <1>4 DEF BodyInv

LEMMA WorkOnlyBodies ==
    ASSUME TypeOK, BodyInv, NEW w \in Passes \X Workers, NEW state, SetWork(w, state),
           state.phase = "done" => state.job.mail \in bodied',
           bodied \subseteq bodied', UNCHANGED jobs
    PROVE  BodyInv'
<1>1. \A v \in Passes \X Workers : worker'[v] = IF v = w THEN state ELSE worker[v]
  BY DEF TypeOK, QueueOK, SetWork
<1> QED BY <1>1 DEF BodyInv, DoneHasBody, MarkEarned

\* What SetJob leaves in the row's place.
LEMMA JobSet ==
    ASSUME TypeOK, NEW s \in Spots, NEW status, SetJob(s, status)
    PROVE  /\ jobs' = [jobs EXCEPT ![s] = [jobs[s] EXCEPT !.status = status]]
           /\ [jobs[s] EXCEPT !.status = status].status = status
BY DEF TypeOK, QueueOK, SetJob

\* A body row marked done has its body in the emails table (DoneHasBody), for any
\* interleaving of workers, late marks, stale resets, repeated claims and crashes:
\* the row is marked by the worker that stored the body, and bodies stay.
THEOREM BodiesStored == Spec => []DoneHasBody
<1>1. Init => BodyInv
  BY DEF Init, BodyInv, DoneHasBody, MarkEarned, NoWork
<1>2. TypeOK /\ BodyInv /\ [Next]_vars => BodyInv'
  <2> SUFFICES ASSUME TypeOK, BodyInv, [Next]_vars PROVE BodyInv'
    OBVIOUS
  <2>1. ASSUME NEW m \in Mail, Deliver(m) \/ Recommend(m) \/ LockExpires(m) PROVE BodyInv'
    BY <2>1, QuietBodies DEF Deliver, Recommend, LockExpires, emailVars
  <2>2. ASSUME NEW m \in Mail, NEW f \in Folders, UserMove(m, f) PROVE BodyInv'
    BY <2>2, QuietBodies DEF UserMove, emailVars
  <2>3. ASSUME NEW p \in Passes, SyncBegin(p) PROVE BodyInv'
    BY <2>3, QuietBodies DEF SyncBegin, emailVars
  <2>4. ASSUME NEW p \in Passes, PassStep(p) PROVE BodyInv'
    <3>1. ASSUME NEW f \in Folders, SyncSkip(p, f) \/ SyncList(p, f) PROVE BodyInv'
      BY <3>1, QuietBodies DEF SyncSkip, SyncList, emailVars
    <3>2. CASE SyncRead(p) \/ SyncFetch(p) \/ SyncCursor(p) \/ SyncEnd(p) \/ DrainEnd(p) \/ PassFails(p)
      BY <3>2, QuietBodies DEF SyncRead, SyncFetch, SyncCursor, SyncEnd, DrainEnd, PassFails, emailVars
    <3>3. CASE SyncUpsert(p)
      BY <3>3, EnqueuedBodies DEF SyncUpsert
    <3>4. CASE Drain(p)
      <4>1. bodied' = bodied
        BY <3>4 DEF Drain, ResetStale, emailVars
      <4>2. \A s \in Spots : jobs'[s].status = "done" => jobs[s].status = "done"
        BY <3>4 DEF Drain, ResetStale, TypeOK, QueueOK
      <4>3. \A w \in Passes \X Workers : worker'[w].phase = "done" => worker'[w] = worker[w]
        BY <3>4 DEF Drain, ResetStale, Ready, NoWork
      <4> QED BY <4>1, <4>2, <4>3 DEF BodyInv, DoneHasBody, MarkEarned
    <3> QED BY <2>4, <3>1, <3>2, <3>3, <3>4 DEF PassStep
  <2>5. CASE BodyBegin
    BY <2>5, QuietBodies DEF BodyBegin, emailVars
  <2>6. CASE BodyStep
    <3>1. ASSUME NEW f \in Folders, BodySelect(f) PROVE BodyInv'
      BY <3>1, QuietBodies DEF BodySelect, emailVars
    <3>2. CASE BodyInsert
      BY <3>2, EnqueuedBodies DEF BodyInsert, emailVars
    <3> QED BY <2>6, <3>1, <3>2 DEF BodyStep
  <2>7. ASSUME NEW w \in Passes \X Workers, WorkerStep(w) PROVE BodyInv'
    <3>1. ASSUME NEW s \in Spots, Claim(w, s) PROVE BodyInv'
      <4>1. PICK attempt :
              /\ jobs' = [jobs EXCEPT ![s] = [status |-> "processing", attempt |-> attempt]]
              /\ SetWork(w, [phase |-> "fetch", job |-> s, attempt |-> attempt])
        BY <3>1 DEF Claim
      <4>2. bodied' = bodied
        BY <3>1 DEF Claim, emailVars
      <4> QED BY <4>1, <4>2, WorkBodies
    <3>2. CASE WorkerEnds(w) \/ WorkerFails(w)
      BY <3>2, WorkOnlyBodies DEF WorkerEnds, WorkerFails, NoWork, emailVars
    <3>3. CASE Fetch(w)
      <4>1. PICK phase \in {"upsert", "retry"} : SetWork(w, [worker[w] EXCEPT !.phase = phase])
        BY <3>3 DEF Fetch
      <4>2. [worker[w] EXCEPT !.phase = phase].phase = phase
        BY <3>3, Job DEF Fetch, TypeOK, QueueOK, WorkStates
      <4>3. UNCHANGED <<bodied, jobs>>
        BY <3>3 DEF Fetch, emailVars
      <4> QED BY <4>1, <4>2, <4>3, WorkOnlyBodies
    <3>4. CASE Import(w)
      <4>1. PICK phase \in {"done", "retry"} :
              /\ SetWork(w, [worker[w] EXCEPT !.phase = phase])
              /\ phase = "done" => bodied' = bodied \cup {worker[w].job.mail}
        BY <3>4 DEF Import, BodyStored
      <4>2. /\ [worker[w] EXCEPT !.phase = phase].phase = phase
            /\ [worker[w] EXCEPT !.phase = phase].job = worker[w].job
        BY <3>4 DEF Import, BodyStored, TypeOK, QueueOK, WorkStates
      <4>3. bodied \subseteq bodied' /\ UNCHANGED jobs
        BY <3>4 DEF Import, BodyStored
      <4> QED BY <4>1, <4>2, <4>3, WorkOnlyBodies
    <3>5. CASE MarkDone(w)
      <4>1. worker[w].job \in Spots /\ worker[w].job.mail \in bodied
        BY <3>5, Job DEF MarkDone, TypeOK, BodyInv, MarkEarned
      <4>2. UNCHANGED bodied /\ SetWork(w, Ready) /\ SetJob(worker[w].job, "done")
        BY <3>5 DEF MarkDone, emailVars
      <4>3. Ready.phase = "claim"
        BY DEF Ready, NoWork
      <4> QED BY <4>1, <4>2, <4>3, JobSet, WorkBodies
    <3>6. CASE MarkRetry(w)
      <4>1. worker[w].job \in Spots
        BY <3>6, Job DEF MarkRetry, FailedStatus, TypeOK
      <4>2. PICK status \in {"dead", "failed"} : SetJob(worker[w].job, status)
        BY <3>6 DEF MarkRetry, FailedStatus
      <4>3. UNCHANGED bodied /\ SetWork(w, Ready)
        BY <3>6 DEF MarkRetry, FailedStatus, emailVars
      <4>4. Ready.phase = "claim"
        BY DEF Ready, NoWork
      <4> DEFINE row == [jobs[worker[w].job] EXCEPT !.status = status]
      <4>5. jobs' = [jobs EXCEPT ![worker[w].job] = row] /\ row.status # "done"
        BY <4>1, <4>2, JobSet
      <4> HIDE DEF row
      <4> QED BY <4>1, <4>3, <4>4, <4>5, WorkBodies
    <3> QED BY <2>7, <3>1, <3>2, <3>3, <3>4, <3>5, <3>6 DEF WorkerStep
  <2>8. CASE FileList
    BY <2>8, QuietBodies DEF FileList, emailVars
  <2>9. CASE FilingStep
    <3>1. ASSUME NEW spot \in filing.todo, FileMove(spot) PROVE BodyInv'
      BY <3>1, QuietBodies DEF FileMove, emailVars
    <3>2. CASE FileSearch \/ FileRecord \/ FileEnd
      BY <3>2, QuietBodies DEF FileSearch, FileRecord, FileEnd, emailVars
    <3>3. ASSUME NEW spot \in filing.todo, FileSkip(spot) PROVE BodyInv'
      BY <3>3, QuietBodies DEF FileSkip, emailVars
    <3> QED BY <2>9, <3>1, <3>2, <3>3 DEF FilingStep
  <2>10. CASE Crash
    <3>1. \A w \in Passes \X Workers : worker'[w].phase = "off"
      BY <2>10 DEF Crash, NoWork
    <3> QED BY <2>10, <3>1 DEF Crash, BodyInv, DoneHasBody, MarkEarned, emailVars
  <2>11. CASE UNCHANGED vars
    BY <2>11, QuietBodies DEF vars, emailVars
  <2> QED BY <2>1, <2>2, <2>3, <2>4, <2>5, <2>6, <2>7, <2>8, <2>9, <2>10, <2>11 DEF Next
<1> QED BY <1>1, <1>2, Typing, PTL DEF Spec, BodyInv

------------------------------------------------------------------------------
(* The cursors. *)

Known(m) == position[m] # Nowhere

\* Mail of a folder up to a UID is known, and the UID has been given.
Covered(f, uid) ==
    /\ uid \in 0 .. MaxUid /\ uid < next[f]
    /\ \A m \in Mail : at[m] # Nowhere /\ at[m].folder = f /\ at[m].uid <= uid => Known(m)

\* The same but for what a pass has found and not yet stored.
Listing(p) ==
    LET f == pass[p].folder
    IN  /\ pass[p].upTo \in 0 .. MaxUid /\ pass[p].upTo < next[f]
        /\ \A m \in Mail : at[m] # Nowhere /\ at[m].folder = f /\ at[m].uid <= pass[p].upTo =>
             Known(m) \/ at[m] \in pass[p].found

Given == \A m \in Mail : at[m] # Nowhere => at[m].uid < next[at[m].folder]

PassCovers(p) ==
    /\ \A f \in Folders : Covered(f, pass[p].from[f])
    /\ pass[p].phase \in {"fetch", "upsert", "cursor"} => pass[p].folder \in Folders
    /\ pass[p].phase \in {"fetch", "upsert"} => Listing(p)
    /\ pass[p].phase = "cursor" => Covered(pass[p].folder, pass[p].upTo)

SkipInv ==
    /\ Given
    /\ \A f \in Folders : Covered(f, cursor[f])
    /\ \A p \in Passes : PassCovers(p)

\* What any step does to the server and to what the database knows.
Grows ==
    /\ \A f \in Folders : next'[f] \in Nat /\ next[f] <= next'[f]
    /\ \A m \in Mail :
         /\ at'[m] # at[m] => /\ at'[m] \in Spots
                             /\ at'[m].uid = next[at'[m].folder]
                             /\ at'[m].uid < next'[at'[m].folder]
         /\ Known(m) => Known(m)'

LEMMA ArriveGrows ==
    ASSUME TypeOK, NEW m \in Mail, NEW f \in Folders, Arrive(m, f), UNCHANGED position
    PROVE  Grows
<1>1. [mail |-> m, folder |-> f, uid |-> next[f]] \in Spots
  BY BoundAssumption DEF Arrive, TypeOK, ServerOK, Spots
<1>2. \A n \in Mail : at'[n] = IF n = m THEN [mail |-> m, folder |-> f, uid |-> next[f]] ELSE at[n]
  BY DEF Arrive, TypeOK, ServerOK
<1>3. \A g \in Folders : next[g] \in Nat /\ next'[g] = IF g = f THEN next[g] + 1 ELSE next[g]
  BY BoundAssumption DEF Arrive, TypeOK, ServerOK
<1> QED BY <1>1, <1>2, <1>3 DEF Grows, Known

LEMMA KnownGrows ==
    ASSUME TypeOK, UNCHANGED serverVars, \A m \in Mail : Known(m) => Known(m)'
    PROVE  Grows
<1>1. \A f \in Folders : next[f] \in Nat
  BY BoundAssumption DEF TypeOK, ServerOK
<1> QED BY <1>1 DEF Grows, serverVars

LEMMA UpsertKnows ==
    ASSUME TypeOK, NEW spots \in SUBSET Spots, UpsertAll(spots)
    PROVE  /\ \A m \in Mail : Known(m) => Known(m)'
           /\ \A spot \in spots : Known(spot.mail)'
<1>1. \A m \in Mail : m \in {spot.mail : spot \in spots} =>
        (CHOOSE spot \in spots : spot.mail = m) \in Spots
  OBVIOUS
<1>2. \A spot \in spots : spot.mail \in Mail
  BY DEF Spots
<1> QED BY <1>1, <1>2, NowhereAssumption DEF UpsertAll, Known

LEMMA CoveredStays ==
    ASSUME TypeOK, Grows, NEW f \in Folders, NEW uid, Covered(f, uid)
    PROVE  Covered(f, uid)'
<1>1. next[f] \in Nat /\ next[f] <= next'[f] /\ uid \in Nat
  BY BoundAssumption DEF Grows, Covered, TypeOK, ServerOK
<1>2. ASSUME NEW m \in Mail, at'[m] # Nowhere, at'[m].folder = f, at'[m].uid <= uid
      PROVE  Known(m)'
  <2>1. at'[m] = at[m]
    BY <1>1, <1>2 DEF Grows, Covered
  <2> QED BY <1>2, <2>1 DEF Grows, Covered
<1>3. uid < next'[f]
  BY <1>1, BoundAssumption DEF Covered, Grows, TypeOK, ServerOK
<1> QED BY <1>2, <1>3 DEF Covered

\* What is covered now by the value an expression has, and has still, stays so.
LEMMA PassCoversStays ==
    ASSUME TypeOK, Grows, NEW p \in Passes, PassCovers(p), pass'[p] = pass[p]
    PROVE  PassCovers(p)'
<1>1. ASSUME NEW f \in Folders PROVE Covered(f, pass[p].from[f])'
  <2>1. PICK uid : uid = pass[p].from[f]
    OBVIOUS
  <2>2. Covered(f, uid)
    BY <2>1 DEF PassCovers
  <2>3. Covered(f, uid)'
    BY <2>2, CoveredStays
  <2> QED BY <2>1, <2>3 DEF Covered
<1>2. ASSUME (pass[p].phase = "cursor")' PROVE Covered(pass[p].folder, pass[p].upTo)'
  <2>1. PICK f, uid : f \in Folders /\ f = pass[p].folder /\ uid = pass[p].upTo
    BY <1>2 DEF PassCovers
  <2>2. Covered(f, uid)
    BY <1>2, <2>1 DEF PassCovers
  <2>3. Covered(f, uid)'
    BY <2>1, <2>2, CoveredStays
  <2> QED BY <2>1, <2>3 DEF Covered
<1>3. ASSUME (pass[p].phase \in {"fetch", "upsert"})' PROVE Listing(p)'
  <2>1. PICK f, uid : f \in Folders /\ f = pass[p].folder /\ uid = pass[p].upTo
    BY <1>3 DEF PassCovers
  <2>2. Listing(p)
    BY <1>3 DEF PassCovers
  <2>3. uid \in Nat /\ uid < next[f] /\ next[f] <= next'[f] /\ next[f] \in Nat /\ next'[f] \in Nat
    BY <2>1, <2>2, BoundAssumption DEF Listing, Grows, TypeOK, ServerOK
  <2>4. ASSUME NEW m \in Mail, at'[m] # Nowhere, at'[m].folder = f, at'[m].uid <= uid
        PROVE  at'[m] = at[m]
    BY <2>3, <2>4 DEF Grows
  <2>5. ASSUME NEW m \in Mail, at'[m] # Nowhere, at'[m].folder = f, at'[m].uid <= uid
        PROVE  Known(m)' \/ at'[m] \in pass[p].found
    BY <2>1, <2>2, <2>4, <2>5 DEF Grows, Listing
  <2> QED BY <2>1, <2>2, <2>3, <2>5 DEF Listing
<1> QED BY <1>1, <1>2, <1>3 DEF PassCovers

LEMMA GivenStays ==
    ASSUME Given, TypeOK, Grows
    PROVE  Given'
<1> SUFFICES ASSUME NEW m \in Mail, at'[m] # Nowhere PROVE at'[m].uid < next'[at'[m].folder]
  BY DEF Given
<1>1. CASE at'[m] # at[m]
  BY <1>1 DEF Grows
<1>2. CASE at'[m] = at[m]
  <2>1. at[m].folder \in Folders /\ at[m].uid \in Nat /\ at[m].uid < next[at[m].folder]
    BY <1>2 DEF TypeOK, ServerOK, Spots, Given
  <2>2. next[at[m].folder] \in Nat /\ next'[at[m].folder] \in Nat
           /\ next[at[m].folder] <= next'[at[m].folder]
    BY <2>1, BoundAssumption DEF Grows, TypeOK, ServerOK
  <2> QED BY <1>2, <2>1, <2>2
<1> QED BY <1>1, <1>2

LEMMA CursorsStay ==
    ASSUME TypeOK, Grows, \A f \in Folders : Covered(f, cursor[f]), UNCHANGED cursor
    PROVE  \A f \in Folders : Covered(f, cursor[f])'
<1> SUFFICES ASSUME NEW f \in Folders PROVE Covered(f, cursor[f])'
  OBVIOUS
<1>1. PICK uid : uid = cursor[f]
  OBVIOUS
<1>2. Covered(f, uid)'
  BY <1>1, CoveredStays
<1> QED BY <1>1, <1>2 DEF Covered

\* A step of others, or of a pass to which nothing more than the frame is owed.
LEMMA SkipFrame ==
    ASSUME TypeOK, Grows, SkipInv, UNCHANGED cursor,
           \A p \in Passes : pass'[p] = pass[p] \/ PassCovers(p)'
    PROVE  SkipInv'
<1>1. \A p \in Passes : PassCovers(p)'
  BY PassCoversStays DEF SkipInv
<1> QED BY <1>1, GivenStays, CursorsStay DEF SkipInv

\* UIDs are given upwards, and the database forgets no message.
LEMMA StepGrows ==
    ASSUME TypeOK, [Next]_vars
    PROVE  Grows
<1>1. ASSUME NEW m \in Mail, Deliver(m) \/ Recommend(m) \/ LockExpires(m) PROVE Grows
  <2>1. CASE Deliver(m)
    BY <2>1, FolderAssumption, ArriveGrows DEF Deliver, emailVars, placeVars
  <2>2. CASE Recommend(m) \/ LockExpires(m)
    BY <2>2, KnownGrows DEF Recommend, LockExpires, placeVars, Known
  <2> QED BY <1>1, <2>1, <2>2
<1>2. ASSUME NEW m \in Mail, NEW f \in Folders, UserMove(m, f) PROVE Grows
  BY <1>2, ArriveGrows DEF UserMove, emailVars, placeVars
<1>3. ASSUME NEW p \in Passes, SyncBegin(p) PROVE Grows
  BY <1>3, KnownGrows DEF SyncBegin, emailVars, placeVars, Known
<1>4. ASSUME NEW p \in Passes, PassStep(p) PROVE Grows
  <2>1. ASSUME NEW f \in Folders, SyncSkip(p, f) \/ SyncList(p, f) PROVE Grows
    BY <2>1, KnownGrows DEF SyncSkip, SyncList, emailVars, placeVars, Known
  <2>2. CASE \/ SyncRead(p) \/ SyncFetch(p) \/ SyncCursor(p) \/ SyncEnd(p)
             \/ Drain(p) \/ DrainEnd(p) \/ PassFails(p)
    BY <2>2, KnownGrows
       DEF SyncRead, SyncFetch, SyncCursor, SyncEnd, Drain, ResetStale, DrainEnd, PassFails, emailVars, placeVars, Known
  <2>3. CASE SyncUpsert(p)
    <3>1. pass[p].found \in SUBSET Spots
      BY DEF TypeOK, PassOK, PassStates
    <3> QED BY <2>3, <3>1, UpsertKnows, KnownGrows DEF SyncUpsert
  <2> QED BY <1>4, <2>1, <2>2, <2>3 DEF PassStep
<1>5. CASE BodyBegin \/ BodyStep
  BY <1>5, KnownGrows DEF BodyBegin, BodyStep, BodyInsert, BodySelect, emailVars, placeVars, Known
<1>6. ASSUME NEW w \in Passes \X Workers, WorkerStep(w) PROVE Grows
  <2>1. ASSUME NEW s \in Spots, Claim(w, s) PROVE Grows
    BY <2>1, KnownGrows DEF Claim, emailVars, placeVars, Known
  <2>2. CASE WorkerEnds(w) \/ Fetch(w) \/ MarkDone(w) \/ MarkRetry(w) \/ WorkerFails(w)
    BY <2>2, KnownGrows
       DEF WorkerEnds, Fetch, MarkDone, MarkRetry, FailedStatus, WorkerFails, emailVars, placeVars, Known
  <2>3. CASE Import(w)
    <3>1. {worker[w].job} \in SUBSET Spots
      BY <2>3, Job DEF Import, BodyStored, TypeOK
    <3>2. \A m \in Mail : Known(m) => Known(m)'
      <4>1. CASE UNCHANGED placeVars
        BY <4>1 DEF placeVars, Known
      <4>2. CASE UpsertAll({worker[w].job})
        BY <3>1, <4>2, UpsertKnows
      <4> QED BY <2>3, <4>1, <4>2 DEF Import, BodyStored
    <3> QED BY <2>3, <3>2, KnownGrows DEF Import, BodyStored
  <2> QED BY <1>6, <2>1, <2>2, <2>3 DEF WorkerStep
<1>7. CASE FileList
  BY <1>7, KnownGrows DEF FileList, emailVars, placeVars, Known
<1>8. CASE FilingStep
  <2>1. ASSUME NEW spot \in filing.todo, FileMove(spot) PROVE Grows
    <3>1. spot.mail \in Mail /\ Destination[spot.mail] \in Folders
      BY DestinationAssumption DEF TypeOK, FilingOK, FilingStates, Spots
    <3>2. CASE Arrive(spot.mail, Destination[spot.mail])
      BY <2>1, <3>1, <3>2, ArriveGrows DEF FileMove, emailVars, placeVars
    <3>3. CASE UNCHANGED serverVars
      BY <2>1, <3>3, KnownGrows DEF FileMove, emailVars, placeVars, Known
    <3> QED BY <2>1, <3>2, <3>3 DEF FileMove
  <2>2. CASE FileSearch \/ FileEnd
    BY <2>2, KnownGrows DEF FileSearch, FileEnd, emailVars, placeVars, Known
  <2>3. CASE FileRecord
    <3>1. filing.spot \in Spots
      BY <2>3 DEF FileRecord, TypeOK, FilingOK, FilingStates
    <3>2. \A m \in Mail : Known(m) => Known(m)'
      BY <2>3, <3>1, NowhereAssumption
         DEF FileRecord, RecordMove, Known, TypeOK, TableOK, placeVars
    <3> QED BY <2>3, <3>2, KnownGrows DEF FileRecord
  <2>4. ASSUME NEW spot \in filing.todo, FileSkip(spot) PROVE Grows
    BY <2>4, KnownGrows DEF FileSkip, emailVars, placeVars, Known
  <2> QED BY <1>8, <2>1, <2>2, <2>3, <2>4 DEF FilingStep
<1>9. CASE Crash \/ UNCHANGED vars
  BY <1>9, KnownGrows DEF Crash, vars, emailVars, placeVars, Known
<1> QED BY <1>1, <1>2, <1>3, <1>4, <1>5, <1>6, <1>7, <1>8, <1>9 DEF Next

\* A pass that is between folders, by the UIDs it lists from.
LEMMA BetweenFolders ==
    ASSUME TypeOK, Grows, SkipInv, NEW p \in Passes,
           pass'[p].phase \notin {"fetch", "upsert", "cursor"},
           \A f \in Folders : pass'[p].from[f] \in {0, pass[p].from[f], cursor[f]}
    PROVE  PassCovers(p)'
<1> SUFFICES ASSUME NEW f \in Folders PROVE Covered(f, pass[p].from[f])'
  BY DEF PassCovers
<1>1. PICK uid \in {0, pass[p].from[f], cursor[f]} : uid = pass'[p].from[f]
  OBVIOUS
<1>2. Covered(f, 0)
  BY BoundAssumption DEF Covered, TypeOK, ServerOK, Spots
<1>3. Covered(f, uid)
  BY <1>2 DEF SkipInv, PassCovers
<1>4. Covered(f, uid)'
  BY <1>3, CoveredStays
<1> QED BY <1>1, <1>4 DEF Covered

\* The list of a folder covers it, up to its highest UID.
LEMMA ListingBegins ==
    ASSUME TypeOK, SkipInv, NEW p \in Passes, NEW f \in Folders, SyncList(p, f)
    PROVE  PassCovers(p)'
<1>1. PICK last \in NewIn(p, f) :
        /\ \A spot \in NewIn(p, f) : spot.uid <= last.uid
        /\ pass'[p] = [pass[p] EXCEPT !.phase = "fetch", !.folder = f,
                                      !.found = NewIn(p, f), !.upTo = last.uid]
  BY DEF SyncList, Listed, SetPass, TypeOK, PassOK
<1>2. /\ pass'[p].phase = "fetch" /\ pass'[p].folder = f /\ pass'[p].found = NewIn(p, f)
      /\ pass'[p].upTo = last.uid /\ pass'[p].from = pass[p].from
  BY <1>1 DEF TypeOK, PassOK, PassStates
<1>3. UNCHANGED <<at, next, position>>
  BY DEF SyncList, serverVars, emailVars, placeVars
<1>4. last.uid \in 0 .. MaxUid /\ last.uid < next[f]
  BY DEF NewIn, OnServer, SkipInv, Given, TypeOK, ServerOK, Spots
<1>5. ASSUME NEW m \in Mail, at[m] # Nowhere, at[m].folder = f, at[m].uid <= last.uid
      PROVE  Known(m) \/ at[m] \in NewIn(p, f)
  <2>1. pass[p].from[f] \in Nat /\ at[m].uid \in Nat
    BY <1>5 DEF SkipInv, PassCovers, Covered, TypeOK, ServerOK, Spots
  <2>2. CASE at[m].uid <= pass[p].from[f]
    BY <1>5, <2>2 DEF SkipInv, PassCovers, Covered
  <2>3. CASE at[m].uid > pass[p].from[f]
    BY <1>5, <2>3 DEF NewIn, OnServer
  <2> QED BY <2>1, <2>2, <2>3
<1>6. Listing(p)'
  BY <1>2, <1>3, <1>4, <1>5 DEF Listing, Known
<1>7. \A g \in Folders : Covered(g, pass[p].from[g])'
  BY <1>2, <1>3 DEF SkipInv, PassCovers, Covered, Known
<1> QED BY <1>2, <1>6, <1>7 DEF PassCovers

\* What has left the server meanwhile has no envelope, and need not be known.
LEMMA ListingNarrows ==
    ASSUME TypeOK, SkipInv, NEW p \in Passes, SyncFetch(p), pass[p].found \cap OnServer # {}
    PROVE  PassCovers(p)'
<1>1. /\ pass'[p].phase = "upsert" /\ pass'[p].folder = pass[p].folder
      /\ pass'[p].found = pass[p].found \cap OnServer
      /\ pass'[p].upTo = pass[p].upTo /\ pass'[p].from = pass[p].from
  BY ZenonT(40) DEF SyncFetch, SetPass, TypeOK, PassOK, PassStates
<1>2. UNCHANGED <<at, next, position>>
  BY DEF SyncFetch, serverVars, emailVars, placeVars
<1>3. Listing(p) /\ pass[p].folder \in Folders
  BY DEF SyncFetch, SkipInv, PassCovers
<1>4. Listing(p)'
  BY <1>1, <1>2, <1>3 DEF Listing, OnServer, Known
<1>5. \A g \in Folders : Covered(g, pass[p].from[g])'
  BY <1>1, <1>2 DEF SkipInv, PassCovers, Covered, Known
<1> QED BY <1>1, <1>3, <1>4, <1>5 DEF PassCovers

\* Everything found is stored, and known from then on.
LEMMA ListingStored ==
    ASSUME TypeOK, SkipInv, NEW p \in Passes, SyncUpsert(p)
    PROVE  PassCovers(p)'
<1>1. /\ pass'[p].phase = "cursor" /\ pass'[p].folder = pass[p].folder
      /\ pass'[p].upTo = pass[p].upTo /\ pass'[p].from = pass[p].from
  BY DEF SyncUpsert, SetPass, TypeOK, PassOK, PassStates
<1>2. UNCHANGED <<at, next>>
  BY DEF SyncUpsert, serverVars
<1>3. pass[p].found \in SUBSET Spots
  BY DEF TypeOK, PassOK, PassStates
<1>4. /\ \A m \in Mail : Known(m) => Known(m)'
      /\ \A spot \in pass[p].found : Known(spot.mail)'
  BY <1>3, UpsertKnows DEF SyncUpsert
<1>5. Listing(p) /\ pass[p].folder \in Folders
  BY DEF SyncUpsert, SkipInv, PassCovers
<1>6. \A m \in Mail : at[m] # Nowhere => at[m].mail = m
  BY DEF TypeOK, ServerOK
<1>7. Covered(pass[p].folder, pass[p].upTo)'
  BY <1>1, <1>2, <1>4, <1>5, <1>6 DEF Listing, Covered
<1>8. \A g \in Folders : Covered(g, pass[p].from[g])'
  BY <1>1, <1>2, <1>4 DEF SkipInv, PassCovers, Covered
<1> QED BY <1>1, <1>5, <1>7, <1>8 DEF PassCovers

LEMMA Between ==
    ASSUME TypeOK, NEW p \in Passes, NEW f, NEW any, NextFolder(p, f, any)
    PROVE  /\ \A q \in Passes : q # p => pass'[q] = pass[q]
           /\ pass'[p].phase = "list"
           /\ \A g \in Folders : pass'[p].from[g] \in {0, pass[p].from[g], cursor[g]}
<1>1. pass' = [pass EXCEPT ![p] = [NoPass EXCEPT !.phase = "list",
                 !.from = [pass[p].from EXCEPT ![f] = 0], !.todo = pass[p].todo \ {f}, !.any = any]]
  BY DEF NextFolder, SetPass
<1>2. pass[p].from \in [Folders -> 0 .. MaxUid]
  BY DEF TypeOK, PassOK, PassStates
<1> QED BY <1>1, <1>2 DEF NoPass, TypeOK, PassOK

\* Mail at or below a folder's cursor is known to the database (NoMailSkipped),
\* for any overlap of the core and the background pass: each moves the cursor
\* only to a UID up to which all that it has listed is stored.
THEOREM NothingSkipped == Spec => []NoMailSkipped
<1>1. Init => SkipInv
  <2> SUFFICES ASSUME Init PROVE SkipInv
    OBVIOUS
  <2>1. Given /\ \A f \in Folders : Covered(f, 0)
    BY BoundAssumption DEF Init, Given, Covered
  <2> QED BY <2>1 DEF Init, SkipInv, PassCovers, NoPass
<1>2. TypeOK /\ SkipInv /\ [Next]_vars => SkipInv'
  <2> SUFFICES ASSUME TypeOK, SkipInv, [Next]_vars PROVE SkipInv'
    OBVIOUS
  <2>0. Grows
    BY StepGrows
  <2>1. ASSUME NEW m \in Mail, Deliver(m) \/ Recommend(m) \/ LockExpires(m) PROVE SkipInv'
    BY <2>0, <2>1, SkipFrame DEF Deliver, Recommend, LockExpires
  <2>2. ASSUME NEW m \in Mail, NEW f \in Folders, UserMove(m, f) PROVE SkipInv'
    BY <2>0, <2>2, SkipFrame DEF UserMove
  <2>3. ASSUME NEW p \in Passes, SyncBegin(p) PROVE SkipInv'
    <3>1. /\ \A q \in Passes : q # p => pass'[q] = pass[q]
          /\ pass'[p].phase = "start" /\ \A f \in Folders : pass'[p].from[f] = 0
      BY <2>3 DEF SyncBegin, SetPass, NoPass, TypeOK, PassOK
    <3>2. PassCovers(p)'
      BY <2>0, <3>1, BetweenFolders
    <3> QED BY <2>0, <2>3, <3>1, <3>2, SkipFrame DEF SyncBegin
  <2>4. ASSUME NEW p \in Passes, PassStep(p) PROVE SkipInv'
    <3>1. ASSUME NEW f \in Folders, SyncSkip(p, f) PROVE SkipInv'
      <4>1. /\ \A q \in Passes : q # p => pass'[q] = pass[q]
            /\ PassCovers(p)'
        BY <2>0, <3>1, Between, BetweenFolders DEF SyncSkip
      <4> QED BY <2>0, <3>1, <4>1, SkipFrame DEF SyncSkip
    <3>2. ASSUME NEW f \in Folders, SyncList(p, f) PROVE SkipInv'
      <4>1. \A q \in Passes : q # p => pass'[q] = pass[q]
        BY <3>2 DEF SyncList, Listed, SetPass, TypeOK, PassOK
      <4> QED BY <2>0, <3>2, <4>1, ListingBegins, SkipFrame DEF SyncList
    <3>3. CASE SyncFetch(p)
      <4>1. CASE pass[p].found \cap OnServer = {}
        <5>1. NextFolder(p, pass[p].folder, pass[p].any) /\ UNCHANGED cursor
          BY <3>3, <4>1 DEF SyncFetch
        <5>2. /\ \A q \in Passes : q # p => pass'[q] = pass[q]
              /\ PassCovers(p)'
          BY <2>0, <5>1, Between, BetweenFolders
        <5> QED BY <2>0, <5>1, <5>2, SkipFrame
      <4>2. CASE pass[p].found \cap OnServer # {}
        <5>1. /\ \A q \in Passes : q # p => pass'[q] = pass[q]
              /\ UNCHANGED cursor
          BY <3>3, <4>2 DEF SyncFetch, SetPass, TypeOK, PassOK
        <5> QED BY <2>0, <3>3, <4>2, <5>1, ListingNarrows, SkipFrame
      <4> QED BY <4>1, <4>2
    <3>4. CASE SyncUpsert(p)
      <4>1. \A q \in Passes : q # p => pass'[q] = pass[q]
        BY <3>4 DEF SyncUpsert, SetPass, TypeOK, PassOK
      <4> QED BY <2>0, <3>4, <4>1, ListingStored, SkipFrame DEF SyncUpsert
    <3>5. CASE SyncCursor(p)
      <4>1. /\ NextFolder(p, pass[p].folder, TRUE)
            /\ pass[p].folder \in Folders /\ Covered(pass[p].folder, pass[p].upTo)
            /\ cursor' = [cursor EXCEPT ![pass[p].folder] = pass[p].upTo]
            /\ UNCHANGED <<at, next, position>>
        BY <3>5 DEF SyncCursor, SkipInv, PassCovers, serverVars, emailVars, placeVars
      <4>2. /\ \A q \in Passes : q # p => pass'[q] = pass[q]
            /\ PassCovers(p)'
        BY <2>0, <4>1, Between, BetweenFolders
      <4>3. \A q \in Passes : PassCovers(q)'
        BY <2>0, <4>2, PassCoversStays DEF SkipInv
      <4>4. ASSUME NEW f \in Folders PROVE Covered(f, cursor[f])'
        <5>1. Covered(f, cursor'[f])
          BY <4>1 DEF SkipInv, TypeOK, TableOK
        <5> QED BY <4>1, <5>1 DEF Covered, Known
      <4>5. Given'
        BY <2>0, GivenStays DEF SkipInv
      <4> QED BY <4>3, <4>4, <4>5 DEF SkipInv
    <3>6. CASE SyncEnd(p) \/ Drain(p) \/ DrainEnd(p) \/ PassFails(p)
      <4>1. UNCHANGED cursor
        BY <3>6 DEF SyncEnd, Drain, ResetStale, DrainEnd, PassFails
      <4>2. PICK state :
              /\ pass' = [pass EXCEPT ![p] = state]
              /\ state.phase \in {"idle", "drain"} /\ \A f \in Folders : state.from[f] = 0
        <5>1. CASE Drain(p)
          <6>1. PICK crew : pass' = [pass EXCEPT ![p] = [NoPass EXCEPT !.phase = "drain", !.crew = crew]]
            BY <5>1 DEF Drain, ResetStale, SetPass
          <6>2. /\ [NoPass EXCEPT !.phase = "drain", !.crew = crew].phase = "drain"
                /\ \A f \in Folders : [NoPass EXCEPT !.phase = "drain", !.crew = crew].from[f] = 0
            BY DEF NoPass
          <6> QED BY <6>1, <6>2
        <5>2. CASE SyncEnd(p) \/ DrainEnd(p) \/ PassFails(p)
          <6>1. NoPass.phase = "idle" /\ \A f \in Folders : NoPass.from[f] = 0
            BY DEF NoPass
          <6> QED BY <5>2, <6>1 DEF SyncEnd, DrainEnd, PassFails, SetPass
        <5> QED BY <3>6, <5>1, <5>2
      <4>3. /\ \A q \in Passes : q # p => pass'[q] = pass[q]
            /\ pass'[p] = state
        BY <4>2 DEF TypeOK, PassOK
      <4>4. PassCovers(p)'
        BY <2>0, <4>2, <4>3, BetweenFolders
      <4> QED BY <2>0, <4>1, <4>3, <4>4, SkipFrame
    <3>7. CASE SyncRead(p)
      <4>1. /\ \A q \in Passes : q # p => pass'[q] = pass[q]
            /\ pass'[p].phase = "list" /\ pass'[p].from = cursor
        BY <3>7 DEF SyncRead, SetPass, NoPass, TypeOK, PassOK
      <4>2. PassCovers(p)'
        BY <2>0, <4>1, BetweenFolders
      <4> QED BY <2>0, <3>7, <4>1, <4>2, SkipFrame DEF SyncRead
    <3> QED BY <2>4, <3>1, <3>2, <3>3, <3>4, <3>5, <3>6, <3>7 DEF PassStep
  <2>5. CASE BodyBegin
    <3>1. /\ \A q \in Passes : q # "core" => pass'[q] = pass[q]
          /\ pass'["core"].phase = "select" /\ \A f \in Folders : pass'["core"].from[f] = 0
      BY <2>5, PassAssumption DEF BodyBegin, SetPass, NoPass, TypeOK, PassOK
    <3>2. PassCovers("core")'
      BY <2>0, <3>1, PassAssumption, BetweenFolders
    <3> QED BY <2>0, <2>5, <3>1, <3>2, SkipFrame DEF BodyBegin
  <2>6. CASE BodyStep
    <3>1. PICK state :
            /\ pass' = [pass EXCEPT !["core"] = state]
            /\ state.phase \in {"select", "insert"} /\ state.from = pass["core"].from
      <4>1. pass["core"] \in PassStates
        BY PassAssumption DEF TypeOK, PassOK
      <4>2. CASE BodyInsert
        <5> DEFINE state == [pass["core"] EXCEPT !.phase = "select", !.found = {}]
        <5>1. pass' = [pass EXCEPT !["core"] = state]
          BY <4>2 DEF BodyInsert, SetPass
        <5>2. state.phase = "select" /\ state.from = pass["core"].from
          BY <4>1 DEF PassStates
        <5> QED BY <5>1, <5>2
      <4>3. ASSUME NEW f \in Folders, BodySelect(f)
            PROVE  \E state : /\ pass' = [pass EXCEPT !["core"] = state]
                              /\ state.phase \in {"select", "insert"}
                              /\ state.from = pass["core"].from
        <5> DEFINE state == [pass["core"] EXCEPT !.todo = @ \ {f}, !.found = WithoutBody(f),
                               !.phase = IF WithoutBody(f) = {} THEN "select" ELSE "insert"]
        <5>1. pass' = [pass EXCEPT !["core"] = state]
          BY <4>3 DEF BodySelect, SetPass
        <5>2. state.phase \in {"select", "insert"} /\ state.from = pass["core"].from
          BY <4>1 DEF PassStates
        <5> QED BY <5>1, <5>2
      <4> QED BY <2>6, <4>2, <4>3 DEF BodyStep
    <3>2. /\ \A q \in Passes : q # "core" => pass'[q] = pass[q]
          /\ pass'["core"] = state /\ UNCHANGED cursor
      BY <2>6, <3>1, PassAssumption DEF BodyStep, BodyInsert, BodySelect, TypeOK, PassOK
    <3>3. PassCovers("core")'
      BY <2>0, <3>1, <3>2, PassAssumption, BetweenFolders
    <3> QED BY <2>0, <3>2, <3>3, SkipFrame
  <2>7. ASSUME NEW w \in Passes \X Workers, WorkerStep(w) PROVE SkipInv'
    <3>1. ASSUME NEW s \in Spots, Claim(w, s) PROVE SkipInv'
      BY <2>0, <3>1, SkipFrame DEF Claim
    <3>2. CASE WorkerEnds(w) \/ Fetch(w) \/ Import(w) \/ MarkDone(w) \/ MarkRetry(w)
      BY <2>0, <3>2, SkipFrame DEF WorkerEnds, Fetch, Import, BodyStored, MarkDone, MarkRetry, FailedStatus
    <3>3. CASE WorkerFails(w)
      <4>1. w[1] \in Passes
        OBVIOUS
      <4>2. \A q \in Passes : pass'[q] = pass[q] \/ pass'[q] = NoPass
        BY <3>3, <4>1 DEF WorkerFails, SetPass, TypeOK, PassOK
      <4>3. \A q \in Passes : pass'[q] = NoPass => PassCovers(q)'
        BY <2>0, BetweenFolders DEF NoPass
      <4> QED BY <2>0, <3>3, <4>2, <4>3, SkipFrame DEF WorkerFails
    <3> QED BY <2>7, <3>1, <3>2, <3>3 DEF WorkerStep
  <2>8. CASE FileList
    BY <2>0, <2>8, SkipFrame DEF FileList
  <2>9. CASE FilingStep
    <3>1. ASSUME NEW spot \in filing.todo, FileMove(spot) PROVE SkipInv'
      BY <2>0, <3>1, SkipFrame DEF FileMove
    <3>2. CASE FileSearch \/ FileRecord \/ FileEnd
      BY <2>0, <3>2, SkipFrame DEF FileSearch, FileRecord, FileEnd
    <3>3. ASSUME NEW spot \in filing.todo, FileSkip(spot) PROVE SkipInv'
      BY <2>0, <3>3, SkipFrame DEF FileSkip
    <3> QED BY <2>9, <3>1, <3>2, <3>3 DEF FilingStep
  <2>10. CASE Crash
    <3>1. \A q \in Passes : pass'[q] = NoPass
      BY <2>10 DEF Crash
    <3>2. \A q \in Passes : PassCovers(q)'
      BY <2>0, <3>1, BetweenFolders DEF NoPass
    <3> QED BY <2>0, <2>10, <3>2, SkipFrame DEF Crash
  <2>11. CASE UNCHANGED vars
    BY <2>0, <2>11, SkipFrame DEF vars
  <2> QED BY <2>1, <2>2, <2>3, <2>4, <2>5, <2>6, <2>7, <2>8, <2>9, <2>10, <2>11 DEF Next
<1>3. TypeOK /\ SkipInv => NoMailSkipped
  BY DEF SkipInv, Covered, NoMailSkipped, TypeOK, ServerOK, Spots, Known
<1> QED BY <1>1, <1>2, <1>3, Typing, PTL DEF Spec

------------------------------------------------------------------------------
(* What the user has placed. *)

\* A place with a UID its folder has given: no message will be given it again.
Old(spot) == spot.uid < next[spot.folder]
StillOld(spot) == spot.uid < next'[spot.folder]
OldSpots == {spot \in Spots : Old(spot)}

\* All places on record, read or listed were given by the server.
OldPosition == \A m \in Mail : Known(m) => Old(position[m])
OldFound == \A p \in Passes : \A spot \in pass[p].found : Old(spot)
OldJobs == \A s \in Spots : jobs[s].status # "absent" => Old(s)
OldWork == \A w \in Passes \X Workers : worker[w].job # Nowhere => Old(worker[w].job)
OldFiling ==
    /\ \A spot \in filing.todo : Old(spot) /\ Known(spot.mail)
    /\ filing.phase = "record" =>
         /\ Old(filing.spot)
         /\ filing.spot.folder = Destination[filing.spot.mail]
    /\ filing.phase \in {"search", "record"} => Known(filing.spot.mail)

OldPlaces == OldPosition /\ OldFound /\ OldJobs /\ OldWork /\ OldFiling

LEMMA OldStays ==
    ASSUME TypeOK, Grows, NEW spot \in Spots, Old(spot)
    PROVE  StillOld(spot)
<1>1. /\ spot.folder \in Folders /\ spot.uid \in Nat
      /\ next[spot.folder] \in Nat /\ next'[spot.folder] \in Nat
      /\ next[spot.folder] <= next'[spot.folder]
  BY BoundAssumption DEF Spots, Grows, TypeOK, ServerOK
<1> QED BY <1>1 DEF Old, StillOld

LEMMA OldPositionStays ==
    ASSUME TypeOK, Grows, OldPlaces,
           \A m \in Mail : position'[m] = position[m] \/ position'[m] \in OldSpots
    PROVE  OldPosition'
<1> SUFFICES ASSUME NEW m \in Mail, position'[m] # Nowhere PROVE StillOld(position'[m])
  BY DEF OldPosition, Known, Old, StillOld
<1>1. position'[m] \in Spots
  BY DEF TypeOK, TableOK, OldSpots
<1>2. Old(position'[m])
  BY DEF OldPlaces, OldPosition, Known, Old, OldSpots
<1> QED BY <1>1, <1>2, OldStays

LEMMA OldFoundStays ==
    ASSUME TypeOK, Grows, Given, OldPlaces,
           \A p \in Passes : \/ pass'[p].found \subseteq pass[p].found
                             \/ pass'[p].found \subseteq OnServer
                             \/ pass'[p].found \subseteq {position[m] : m \in Mail} \ {Nowhere}
    PROVE  OldFound'
<1> SUFFICES ASSUME NEW p \in Passes, NEW spot \in pass'[p].found PROVE StillOld(spot)
  BY DEF OldFound, Old, StillOld
<1>1. spot \in Spots /\ Old(spot)
  <2>1. CASE spot \in pass[p].found
    BY <2>1 DEF TypeOK, PassOK, PassStates, OldPlaces, OldFound
  <2>2. CASE spot \in OnServer
    BY <2>2 DEF OnServer, TypeOK, ServerOK, Given, Old
  <2>3. CASE spot \in {position[m] : m \in Mail} \ {Nowhere}
    BY <2>3 DEF TypeOK, TableOK, OldPlaces, OldPosition, Known
  <2> QED BY <2>1, <2>2, <2>3
<1> QED BY <1>1, OldStays

LEMMA OldJobsStay ==
    ASSUME TypeOK, Grows, OldPlaces,
           \A s \in Spots : jobs'[s].status # "absent" => jobs[s].status # "absent" \/ s \in OldSpots
    PROVE  OldJobs'
<1> SUFFICES ASSUME NEW s \in Spots, jobs'[s].status # "absent" PROVE StillOld(s)
  BY DEF OldJobs, Old, StillOld
<1>1. Old(s)
  BY DEF OldPlaces, OldJobs, OldSpots
<1> QED BY <1>1, OldStays

LEMMA OldWorkStays ==
    ASSUME TypeOK, Grows, OldPlaces,
           \A w \in Passes \X Workers :
             \/ worker'[w].job \in {worker[w].job, Nowhere}
             \/ worker'[w].job \in Spots /\ jobs[worker'[w].job].status # "absent"
    PROVE  OldWork'
<1> SUFFICES ASSUME NEW w \in Passes \X Workers, worker'[w].job # Nowhere PROVE StillOld(worker'[w].job)
  BY DEF OldWork, Old, StillOld
<1>1. worker'[w].job \in Spots /\ Old(worker'[w].job)
  BY DEF OldPlaces, OldWork, OldJobs, TypeOK, QueueOK, WorkStates, Old
<1> QED BY <1>1, OldStays

\* A filing pass that goes on with what it has listed, or is over.
LEMMA OldFilingStays ==
    ASSUME TypeOK, Grows, OldPlaces, filing'.todo \subseteq filing.todo,
           filing'.phase \in {"search", "record"} =>
             filing'.phase = filing.phase /\ filing'.spot = filing.spot
    PROVE  OldFiling'
<1>1. ASSUME NEW spot \in filing'.todo PROVE StillOld(spot) /\ Known(spot.mail)'
  <2>1. spot \in Spots /\ spot.mail \in Mail /\ Old(spot) /\ Known(spot.mail)
    BY DEF TypeOK, FilingOK, FilingStates, Spots, OldPlaces, OldFiling
  <2> QED BY <2>1, OldStays DEF Grows
<1>2. ASSUME filing'.phase = "record"
      PROVE  StillOld(filing'.spot) /\ filing'.spot.folder = Destination[filing'.spot.mail]
  <2>1. filing'.spot = filing.spot /\ filing.phase = "record"
    BY <1>2
  <2>2. PICK spot \in Spots : spot = filing.spot
    BY <2>1 DEF TypeOK, FilingOK, FilingStates
  <2>3. Old(spot) /\ spot.folder = Destination[spot.mail]
    BY <2>1, <2>2 DEF OldPlaces, OldFiling
  <2>4. StillOld(spot)
    BY <2>3, OldStays
  <2> QED BY <2>1, <2>2, <2>3, <2>4
<1>3. ASSUME filing'.phase \in {"search", "record"} PROVE position'[filing'.spot.mail] # Nowhere
  <2>1. PICK m \in Mail : m = filing'.spot.mail /\ m = filing.spot.mail
    BY <1>3 DEF TypeOK, FilingOK, FilingStates, Spots
  <2>2. Known(m)
    BY <1>3, <2>1 DEF OldPlaces, OldFiling
  <2>3. Known(m)'
    BY <2>2 DEF Grows
  <2> QED BY <2>1, <2>3 DEF Known
<1> QED BY <1>1, <1>2, <1>3 DEF OldFiling, Old, StillOld, Known

\* A step that leaves variables alone owes nothing about them.
LEMMA OldFrame ==
    ASSUME TypeOK, Grows, Given, OldPlaces,
           OldPosition' \/ UNCHANGED position, OldFound' \/ UNCHANGED pass,
           OldJobs' \/ UNCHANGED jobs, OldWork' \/ UNCHANGED worker,
           OldFiling' \/ UNCHANGED filing
    PROVE  OldPlaces'
<1>1. OldPosition'
  BY OldPositionStays
<1>2. OldFound'
  BY OldFoundStays
<1>3. OldJobs'
  BY OldJobsStay
<1>4. OldWork'
  BY OldWorkStays
<1>5. OldFiling'
  BY OldFilingStays
<1> QED BY <1>1, <1>2, <1>3, <1>4, <1>5 DEF OldPlaces

\* What a pass may look for next.
Findable(p) ==
    {found \in SUBSET Spots : \/ found \subseteq pass[p].found
                              \/ found \subseteq OnServer
                              \/ found \subseteq {position[m] : m \in Mail} \ {Nowhere}}

LEMMA PassFinds ==
    ASSUME TypeOK, Grows, Given, OldPlaces, NEW p \in Passes, NEW state, SetPass(p, state),
           state.found \in Findable(p)
    PROVE  OldFound'
<1>1. pass'[p] = state /\ \A q \in Passes : q # p => pass'[q] = pass[q]
  BY DEF SetPass, TypeOK, PassOK
<1> QED BY <1>1, OldFoundStays DEF Findable

LEMMA NothingFound ==
    ASSUME TypeOK, Grows, Given, OldPlaces, NEW p \in Passes, NEW state, SetPass(p, state),
           state.found = {}
    PROVE  OldFound'
BY PassFinds DEF Findable

\* The positions an upsert writes, and the row a mark addresses.
LEMMA UpsertWrites ==
    ASSUME TypeOK, NEW spots \in SUBSET Spots, UpsertAll(spots)
    PROVE  \A m \in Mail : position'[m] = position[m] \/ position'[m] \in spots
BY DEF UpsertAll, TypeOK, TableOK

LEMMA OldPassStep ==
    ASSUME TypeOK, Grows, Given, OldPlaces, NEW p \in Passes, PassStep(p)
    PROVE  OldPlaces'
<1>1. ASSUME NEW f \in Folders, SyncSkip(p, f) PROVE OldPlaces'
  BY <1>1, NothingFound, OldFrame DEF SyncSkip, NextFolder, NoPass, emailVars, placeVars
<1>2. ASSUME NEW f \in Folders, SyncList(p, f) PROVE OldPlaces'
  <2>1. PICK last \in NewIn(p, f) :
          SetPass(p, [pass[p] EXCEPT !.phase = "fetch", !.folder = f,
                                     !.found = NewIn(p, f), !.upTo = last.uid])
    BY <1>2 DEF SyncList, Listed
  <2>2. [pass[p] EXCEPT !.phase = "fetch", !.folder = f,
                        !.found = NewIn(p, f), !.upTo = last.uid].found = NewIn(p, f)
    BY DEF TypeOK, PassOK, PassStates
  <2>3. NewIn(p, f) \in Findable(p)
    BY DEF NewIn, Findable, OnServer, TypeOK, ServerOK
  <2>4. OldFound'
    BY <2>1, <2>2, <2>3, PassFinds
  <2> QED BY <1>2, <2>4, OldFrame DEF SyncList, emailVars, placeVars
<1>3. CASE SyncFetch(p)
  <2> DEFINE envelopes == pass[p].found \cap OnServer
  <2>1. ASSUME NextFolder(p, pass[p].folder, pass[p].any) PROVE OldFound'
    <3> DEFINE state == [NoPass EXCEPT !.phase = "list",
                                       !.from = [pass[p].from EXCEPT ![pass[p].folder] = 0],
                                       !.todo = pass[p].todo \ {pass[p].folder}, !.any = pass[p].any]
    <3>1. state.found = {}
      BY DEF NoPass
    <3>2. SetPass(p, state)
      BY <2>1 DEF NextFolder
    <3> HIDE DEF state
    <3> QED BY <3>1, <3>2, NothingFound
  <2>2. ASSUME SetPass(p, [pass[p] EXCEPT !.phase = "upsert", !.found = envelopes])
        PROVE  OldFound'
    <3>1. [pass[p] EXCEPT !.phase = "upsert", !.found = envelopes].found = envelopes
      BY DEF TypeOK, PassOK, PassStates
    <3>2. envelopes \in Findable(p)
      BY DEF Findable, TypeOK, PassOK, PassStates
    <3> QED BY <2>2, <3>1, <3>2, PassFinds
  <2>3. OldFound'
    BY <1>3, <2>1, <2>2 DEF SyncFetch
  <2> QED BY <1>3, <2>3, OldFrame DEF SyncFetch, emailVars, placeVars
<1>4. CASE SyncUpsert(p)
  <2>1. pass[p].found \in SUBSET Spots /\ pass[p].found \subseteq OldSpots
    BY DEF TypeOK, PassOK, PassStates, OldPlaces, OldFound, OldSpots
  <2>2. OldPosition'
    BY <1>4, <2>1, UpsertWrites, OldPositionStays DEF SyncUpsert
  <2>3. OldJobs'
    BY <1>4, <2>1, OldJobsStay DEF SyncUpsert, EnqueueAll, Enqueued, TypeOK, QueueOK
  <2>4. [pass[p] EXCEPT !.phase = "cursor", !.found = {}].found = {}
    BY DEF TypeOK, PassOK, PassStates
  <2>5. OldFound'
    BY <1>4, <2>4, NothingFound DEF SyncUpsert
  <2> QED BY <1>4, <2>2, <2>3, <2>5, OldFrame DEF SyncUpsert
<1>5. CASE SyncRead(p) \/ SyncEnd(p) \/ DrainEnd(p) \/ PassFails(p)
  <2>1. OldFound'
    BY <1>5, NothingFound DEF SyncRead, SyncEnd, DrainEnd, PassFails, NoPass
  <2> QED BY <1>5, <2>1, OldFrame
          DEF SyncRead, SyncEnd, DrainEnd, PassFails, emailVars, placeVars
<1>6. CASE SyncCursor(p)
  <2>1. OldFound'
    BY <1>6, NothingFound DEF SyncCursor, NextFolder, NoPass
  <2> QED BY <1>6, <2>1, OldFrame DEF SyncCursor, emailVars, placeVars
<1>7. CASE Drain(p)
  <2>1. PICK old \in SUBSET Live({"processing"}) :
          jobs' = [s \in Spots |-> IF s \in old THEN [jobs[s] EXCEPT !.status = "failed"] ELSE jobs[s]]
    BY <1>7 DEF Drain, ResetStale
  <2>2. \A s \in Spots : jobs'[s].status # "absent" => jobs[s].status # "absent"
    BY <2>1 DEF Live
  <2>3. OldJobs'
    BY <2>2, OldJobsStay
  <2>4. PICK crew : /\ worker' = [w \in Passes \X Workers |->
                                   IF w \in {p} \X crew THEN Ready ELSE worker[w]]
                    /\ SetPass(p, [NoPass EXCEPT !.phase = "drain", !.crew = crew])
    BY <1>7 DEF Drain, ResetStale
  <2>5. \A w \in Passes \X Workers : worker'[w].job \in {worker[w].job, Nowhere}
    BY <2>4 DEF Ready, NoWork
  <2>6. OldWork'
    BY <2>5, OldWorkStays
  <2>7. OldFound'
    BY <2>4, NothingFound DEF NoPass
  <2> QED BY <1>7, <2>3, <2>6, <2>7, OldFrame DEF Drain, ResetStale, emailVars, placeVars
<1> QED BY <1>1, <1>2, <1>3, <1>4, <1>5, <1>6, <1>7 DEF PassStep

LEMMA OldBodyStep ==
    ASSUME TypeOK, Grows, Given, OldPlaces, BodyBegin \/ BodyStep
    PROVE  OldPlaces'
<1>0. "core" \in Passes /\ pass["core"] \in PassStates
  BY PassAssumption DEF TypeOK, PassOK
<1>1. CASE BodyBegin
  <2>1. OldFound'
    BY <1>0, <1>1, NothingFound DEF BodyBegin, NoPass
  <2> QED BY <1>1, <2>1, OldFrame DEF BodyBegin, emailVars, placeVars
<1>2. ASSUME NEW f \in Folders, BodySelect(f) PROVE OldPlaces'
  <2> DEFINE state == [pass["core"] EXCEPT !.todo = @ \ {f}, !.found = WithoutBody(f),
                         !.phase = IF WithoutBody(f) = {} THEN "select" ELSE "insert"]
  <2>1. SetPass("core", state)
    BY <1>2 DEF BodySelect
  <2>2. state.found = WithoutBody(f)
    BY <1>0 DEF PassStates
  <2>3. WithoutBody(f) \in Findable("core")
    BY DEF WithoutBody, Findable, TypeOK, TableOK
  <2> HIDE DEF state
  <2>4. OldFound'
    BY <1>0, <2>1, <2>2, <2>3, PassFinds
  <2> QED BY <1>2, <2>4, OldFrame DEF BodySelect, emailVars, placeVars
<1>3. CASE BodyInsert
  <2>1. pass["core"].found \subseteq OldSpots
    BY <1>0 DEF PassStates, OldPlaces, OldFound, OldSpots
  <2>2. OldJobs'
    BY <1>3, <2>1, OldJobsStay DEF BodyInsert, EnqueueAll, Enqueued, TypeOK, QueueOK
  <2>3. [pass["core"] EXCEPT !.phase = "select", !.found = {}].found = {}
    BY <1>0 DEF PassStates
  <2>4. OldFound'
    BY <1>0, <1>3, <2>3, NothingFound DEF BodyInsert
  <2> QED BY <1>3, <2>2, <2>4, OldFrame DEF BodyInsert, emailVars, placeVars
<1> QED BY <1>1, <1>2, <1>3 DEF BodyStep

LEMMA OldWorkerStep ==
    ASSUME TypeOK, Grows, Given, OldPlaces, NEW w \in Passes \X Workers, WorkerStep(w)
    PROVE  OldPlaces'
<1>0. ASSUME NEW state, SetWork(w, state),
             state.job \in {worker[w].job, Nowhere}
             \/ (state.job \in Spots /\ jobs[state.job].status # "absent")
      PROVE  OldWork'
  <2>1. worker'[w] = state /\ \A v \in Passes \X Workers : v # w => worker'[v] = worker[v]
    BY <1>0 DEF SetWork, TypeOK, QueueOK
  <2> QED BY <1>0, <2>1, OldWorkStays
<1>a. worker[w] \in WorkStates
  BY DEF TypeOK, QueueOK
<1>b. ASSUME NEW phase PROVE [worker[w] EXCEPT !.phase = phase].job = worker[w].job
  BY <1>a DEF WorkStates
<1>c. NoWork.job = Nowhere /\ Ready.job = Nowhere
  BY DEF NoWork, Ready
<1>d. ASSUME NEW status \in Statuses, worker[w].job \in Spots, SetJob(worker[w].job, status)
      PROVE  OldJobs'
  <2>1. worker[w].job \in OldSpots
    BY <1>d, NowhereAssumption DEF OldPlaces, OldWork, OldSpots
  <2>2. \A s \in Spots : jobs'[s].status # "absent" => jobs[s].status # "absent" \/ s = worker[w].job
    BY <1>d DEF SetJob, TypeOK, QueueOK
  <2> QED BY <2>1, <2>2, OldJobsStay
<1>1. ASSUME NEW s \in Spots, Claim(w, s) PROVE OldPlaces'
  <2>1. PICK attempt : /\ jobs' = [jobs EXCEPT ![s] = [status |-> "processing", attempt |-> attempt]]
                       /\ SetWork(w, [phase |-> "fetch", job |-> s, attempt |-> attempt])
    BY <1>1 DEF Claim
  <2>2. jobs[s].status # "absent"
    BY <1>1 DEF Claim, Live
  <2>3. OldWork'
    BY <1>0, <2>1, <2>2
  <2>4. \A t \in Spots : jobs'[t].status # "absent" => jobs[t].status # "absent"
    BY <2>1, <2>2 DEF TypeOK, QueueOK
  <2>5. OldJobs'
    BY <2>4, OldJobsStay
  <2> QED BY <1>1, <2>3, <2>5, OldFrame DEF Claim, emailVars, placeVars
<1>2. CASE WorkerEnds(w)
  <2>1. OldWork'
    BY <1>0, <1>2, <1>c DEF WorkerEnds
  <2> QED BY <1>2, <2>1, OldFrame DEF WorkerEnds, emailVars, placeVars
<1>3. CASE Fetch(w)
  <2>1. PICK phase : SetWork(w, [worker[w] EXCEPT !.phase = phase])
    BY <1>3 DEF Fetch
  <2>2. OldWork'
    BY <1>0, <1>b, <2>1
  <2> QED BY <1>3, <2>2, OldFrame DEF Fetch, emailVars, placeVars
<1>4. CASE Import(w)
  <2>1. PICK phase : SetWork(w, [worker[w] EXCEPT !.phase = phase])
    BY <1>4 DEF Import, BodyStored
  <2>2. OldWork'
    BY <1>0, <1>b, <2>1
  <2>3. worker[w].job \in Spots /\ worker[w].job \in OldSpots
    BY <1>4, Job, NowhereAssumption DEF Import, BodyStored, TypeOK, OldPlaces, OldWork, OldSpots
  <2>4. OldPosition' \/ UNCHANGED position
    <3>1. CASE UNCHANGED placeVars
      BY <3>1 DEF placeVars
    <3>2. CASE UpsertAll({worker[w].job})
      <4>1. {worker[w].job} \in SUBSET Spots
        BY <2>3
      <4>2. \A m \in Mail : position'[m] = position[m] \/ position'[m] \in {worker[w].job}
        BY <3>2, <4>1, UpsertWrites
      <4> QED BY <2>3, <4>2, OldPositionStays
    <3> QED BY <1>4, <3>1, <3>2 DEF Import, BodyStored
  <2> QED BY <1>4, <2>2, <2>4, OldFrame DEF Import, BodyStored
<1>5. CASE MarkDone(w)
  <2>1. worker[w].job \in Spots
    BY <1>5, Job DEF MarkDone, TypeOK
  <2>2. OldJobs'
    BY <1>5, <1>d, <2>1 DEF MarkDone, Statuses
  <2>3. OldWork'
    BY <1>0, <1>5, <1>c DEF MarkDone
  <2> QED BY <1>5, <2>2, <2>3, OldFrame DEF MarkDone, emailVars, placeVars
<1>6. CASE MarkRetry(w)
  <2>1. worker[w].job \in Spots
    BY <1>6, Job DEF MarkRetry, FailedStatus, TypeOK
  <2>2. OldJobs'
    BY <1>6, <1>d, <2>1 DEF MarkRetry, FailedStatus, Statuses
  <2>3. OldWork'
    BY <1>0, <1>6, <1>c DEF MarkRetry, FailedStatus
  <2> QED BY <1>6, <2>2, <2>3, OldFrame DEF MarkRetry, FailedStatus, emailVars, placeVars
<1>7. CASE WorkerFails(w)
  <2>1. OldWork'
    BY <1>0, <1>7, <1>c DEF WorkerFails
  <2>2. OldFound' \/ UNCHANGED pass
    <3>1. w[1] \in Passes
      OBVIOUS
    <3> QED BY <1>7, <3>1, NothingFound DEF WorkerFails, NoPass
  <2> QED BY <1>7, <2>1, <2>2, OldFrame DEF WorkerFails, emailVars, placeVars
<1> QED BY <1>1, <1>2, <1>3, <1>4, <1>5, <1>6, <1>7 DEF WorkerStep

LEMMA OldFilingStep ==
    ASSUME TypeOK, Grows, Given, OldPlaces, FileList \/ FilingStep
    PROVE  OldPlaces'
<1>1. CASE FileList
  <2>1. filing' = [phase |-> "move", todo |-> Pending, spot |-> Nowhere]
    BY <1>1 DEF FileList
  <2>2. ASSUME NEW spot \in Pending PROVE StillOld(spot) /\ Known(spot.mail)'
    <3>1. PICK m \in Mail : spot = position[m] /\ position[m] # Nowhere
      BY <2>2 DEF Pending, TypeOK, TableOK
    <3>2. spot \in Spots /\ spot.mail = m /\ Old(spot)
      BY <3>1 DEF TypeOK, TableOK, OldPlaces, OldPosition, Known
    <3> QED BY <3>1, <3>2, OldStays DEF Grows, Known
  <2>3. OldFiling'
    BY <2>1, <2>2 DEF OldFiling, Old, StillOld
  <2> QED BY <1>1, <2>3, OldFrame DEF FileList, emailVars, placeVars
<1>2. ASSUME NEW spot \in filing.todo, FileMove(spot) PROVE OldPlaces'
  <2>0. /\ spot \in Spots /\ spot.mail \in Mail /\ Destination[spot.mail] \in Folders
        /\ Known(spot.mail)'
    BY DestinationAssumption DEF TypeOK, FilingOK, FilingStates, Spots, OldPlaces, OldFiling, Grows
  <2>1. \/ /\ at[spot.mail] = spot /\ Arrive(spot.mail, Destination[spot.mail])
           /\ filing' = [phase |-> "record", todo |-> filing.todo \ {spot}, spot |-> at'[spot.mail]]
        \/ filing' = [phase |-> "search", todo |-> filing.todo \ {spot}, spot |-> spot]
        \/ filing' = [phase |-> "move", todo |-> filing.todo \ {spot}, spot |-> Nowhere]
    BY <1>2 DEF FileMove
  <2>2. \A other \in filing.todo : StillOld(other) /\ Known(other.mail)'
    <3> TAKE other \in filing.todo
    <3>1. other \in Spots /\ other.mail \in Mail /\ Old(other) /\ Known(other.mail)
      BY DEF TypeOK, FilingOK, FilingStates, Spots, OldPlaces, OldFiling
    <3> QED BY <3>1, OldStays DEF Grows
  <2>3. CASE filing' = [phase |-> "search", todo |-> filing.todo \ {spot}, spot |-> spot]
    <3>1. OldFiling'
      BY <2>0, <2>2, <2>3 DEF OldFiling, Old, StillOld
    <3> QED BY <1>2, <3>1, OldFrame DEF FileMove, emailVars, placeVars
  <2>4. CASE filing' = [phase |-> "move", todo |-> filing.todo \ {spot}, spot |-> Nowhere]
    <3>1. OldFiling'
      BY <2>2, <2>4 DEF OldFiling, Old, StillOld
    <3> QED BY <1>2, <3>1, OldFrame DEF FileMove, emailVars, placeVars
  <2>5. CASE /\ at[spot.mail] = spot /\ Arrive(spot.mail, Destination[spot.mail])
             /\ filing' = [phase |-> "record", todo |-> filing.todo \ {spot}, spot |-> at'[spot.mail]]
    <3>1. /\ at'[spot.mail] = [mail |-> spot.mail, folder |-> Destination[spot.mail],
                               uid |-> next[Destination[spot.mail]]]
          /\ next[Destination[spot.mail]] < next'[Destination[spot.mail]]
      BY <2>0, <2>5, BoundAssumption DEF Arrive, TypeOK, ServerOK
    <3>2. /\ filing'.spot.mail = spot.mail /\ filing'.spot.folder = Destination[spot.mail]
          /\ StillOld(filing'.spot)
      BY <2>5, <3>1 DEF StillOld
    <3>3. OldFiling'
      BY <2>0, <2>2, <2>5, <3>2 DEF OldFiling, Old, StillOld
    <3> QED BY <1>2, <3>3, OldFrame DEF FileMove, emailVars, placeVars
  <2> QED BY <2>1, <2>3, <2>4, <2>5
<1>3. CASE FileSearch
  <2>0. filing \in FilingStates /\ filing.phase = "search" /\ filing.spot \in Spots
    BY <1>3 DEF FileSearch, TypeOK, FilingOK, FilingStates
  <2>m. PICK m \in Mail : m = filing.spot.mail
    BY <2>0 DEF Spots
  <2>1. Known(m) /\ Known(m)'
    BY <2>0, <2>m DEF OldPlaces, OldFiling, Grows
  <2>2. CASE /\ at[m] # Nowhere /\ at[m].folder = Destination[m]
             /\ filing' = [filing EXCEPT !.phase = "record", !.spot = at[m]]
    <3>1. /\ filing'.phase = "record" /\ filing'.spot = at[m] /\ filing'.todo = filing.todo
      BY <2>0, <2>2 DEF FilingStates
    <3>2. at[m] \in Spots /\ at[m].mail = m /\ Old(at[m])
      BY <2>1, <2>2 DEF TypeOK, ServerOK, Given, Old
    <3>3. StillOld(at[m])
      BY <3>2, OldStays
    <3>4. \A other \in filing.todo : StillOld(other) /\ Known(other.mail)'
      <4> TAKE other \in filing.todo
      <4>1. other \in Spots /\ other.mail \in Mail /\ Old(other) /\ Known(other.mail)
        BY DEF TypeOK, FilingOK, FilingStates, Spots, OldPlaces, OldFiling
      <4> QED BY <4>1, OldStays DEF Grows
    <3>5. OldFiling'
      BY <2>1, <2>2, <3>1, <3>2, <3>3, <3>4 DEF OldFiling, Old, StillOld
    <3> QED BY <1>3, <3>5, OldFrame DEF FileSearch, emailVars, placeVars
  <2>3. CASE FileNext
    <3>1. filing'.phase = "move" /\ filing'.todo = filing.todo
      BY <2>0, <2>3 DEF FileNext, FilingStates
    <3>2. OldFiling'
      BY <3>1, OldFilingStays
    <3> QED BY <1>3, <3>2, OldFrame DEF FileSearch, emailVars, placeVars
  <2> QED BY <1>3, <2>m, <2>2, <2>3 DEF FileSearch
<1>4. CASE FileRecord
  <2>0. filing \in FilingStates /\ filing.phase = "record" /\ filing.spot \in Spots
    BY <1>4 DEF FileRecord, TypeOK, FilingOK, FilingStates
  <2>1. filing'.phase = "move" /\ filing'.todo = filing.todo
    BY <1>4, <2>0 DEF FileRecord, FileNext, FilingStates
  <2>2. OldFiling'
    BY <2>1, OldFilingStays
  <2>3. filing.spot \in OldSpots
    BY <2>0 DEF OldPlaces, OldFiling, OldSpots
  <2>4. \A m \in Mail : position'[m] = position[m] \/ position'[m] = filing.spot
    <3>1. CASE RecordMove(filing.spot)
      BY <3>1 DEF RecordMove, TypeOK, TableOK
    <3>2. CASE UNCHANGED placeVars
      BY <3>2 DEF placeVars
    <3> QED BY <1>4, <3>1, <3>2 DEF FileRecord
  <2>5. OldPosition'
    BY <2>3, <2>4, OldPositionStays
  <2> QED BY <1>4, <2>2, <2>5, OldFrame DEF FileRecord
<1>5. ASSUME NEW spot \in filing.todo, FileSkip(spot) PROVE OldPlaces'
  <2>1. filing'.todo \subseteq filing.todo /\ filing'.phase = "move"
    BY <1>5 DEF FileSkip, TypeOK, FilingOK, FilingStates
  <2>2. OldFiling'
    BY <2>1, OldFilingStays
  <2> QED BY <1>5, <2>2, OldFrame DEF FileSkip, emailVars, placeVars
<1>6. CASE FileEnd
  <2>1. filing'.todo = {} /\ filing'.phase = "idle"
    BY <1>6 DEF FileEnd, NoFiling
  <2>2. OldFiling'
    BY <2>1, OldFilingStays
  <2> QED BY <1>6, <2>2, OldFrame DEF FileEnd, emailVars, placeVars
<1> QED BY <1>1, <1>2, <1>3, <1>4, <1>5, <1>6 DEF FilingStep

LEMMA OldPlacesStep ==
    ASSUME TypeOK, Given, OldPlaces, [Next]_vars
    PROVE  OldPlaces'
<1>0. Grows
  BY StepGrows
<1>1. ASSUME NEW m \in Mail, Deliver(m) \/ Recommend(m) \/ LockExpires(m) PROVE OldPlaces'
  BY <1>0, <1>1, OldFrame DEF Deliver, Recommend, LockExpires, emailVars, placeVars
<1>2. ASSUME NEW m \in Mail, NEW f \in Folders, UserMove(m, f) PROVE OldPlaces'
  BY <1>0, <1>2, OldFrame DEF UserMove, emailVars, placeVars
<1>3. ASSUME NEW p \in Passes, SyncBegin(p) PROVE OldPlaces'
  <2>1. OldFound'
    BY <1>0, <1>3, NothingFound DEF SyncBegin, NoPass
  <2> QED BY <1>0, <1>3, <2>1, OldFrame DEF SyncBegin, emailVars, placeVars
<1>4. ASSUME NEW p \in Passes, PassStep(p) PROVE OldPlaces'
  BY <1>0, <1>4, OldPassStep
<1>5. CASE BodyBegin \/ BodyStep
  BY <1>0, <1>5, OldBodyStep
<1>6. ASSUME NEW w \in Passes \X Workers, WorkerStep(w) PROVE OldPlaces'
  BY <1>0, <1>6, OldWorkerStep
<1>7. CASE FileList \/ FilingStep
  BY <1>0, <1>7, OldFilingStep
<1>8. CASE Crash
  <2>1. OldFound'
    BY <1>8 DEF Crash, OldFound, NoPass
  <2>2. OldWork'
    BY <1>8 DEF Crash, OldWork, NoWork
  <2>3. OldFiling'
    BY <1>8 DEF Crash, OldFiling, NoFiling
  <2> QED BY <1>0, <1>8, <2>1, <2>2, <2>3, OldFrame DEF Crash, emailVars, placeVars
<1>9. CASE UNCHANGED vars
  BY <1>0, <1>9, OldFrame DEF vars, emailVars, placeVars
<1> QED BY <1>1, <1>2, <1>3, <1>4, <1>5, <1>6, <1>7, <1>8, <1>9 DEF Next

\* Core is kept from a message that is where the user has placed it: by the pin, or
\* because the database has it elsewhere, at its destination, or is about to.
Guarded(m) ==
    \/ m \in unrecorded
    \/ pin[m] # NoFolder
    \/ position[m].folder # at[m].folder
    \/ at[m].folder = Destination[m]
    \/ TakesBack(m)

PlacedInv ==
    \A m \in Mail :
        /\ at[m] = Nowhere => placed[m] = NoFolder
        /\ at[m] # Nowhere /\ placed[m] = at[m].folder => Known(m) /\ Guarded(m)

\* What a filing pass has listed and is still there was not placed by the user.
ListedInv ==
    \A spot \in filing.todo :
        at[spot.mail] = spot => placed[spot.mail] # spot.folder \/ spot.mail \in unrecorded

UserInv == PlacedInv /\ ListedInv

LEMMA UserFrame ==
    ASSUME UserInv, UNCHANGED <<at, placed, position, pin>>,
           unrecorded \subseteq unrecorded', filing'.todo \subseteq filing.todo,
           \A m \in Mail : TakesBack(m) => TakesBack(m)' \/ m \in unrecorded'
    PROVE  UserInv'
BY DEF UserInv, PlacedInv, ListedInv, Guarded, Known

LEMMA NoUserStep ==
    ASSUME UserInv, UNCHANGED <<at, placed, unrecorded, position, pin, filing>>
    PROVE  UserInv'
BY UserFrame DEF TakesBack

\* A position that is written guards the message if it differs, and says the same if not.
LEMMA UpsertGuards ==
    ASSUME TypeOK, UserInv, NEW spots \in SUBSET Spots, UpsertAll(spots),
           UNCHANGED <<at, placed, unrecorded, filing>>
    PROVE  UserInv'
<1> SUFFICES ASSUME NEW m \in Mail, at[m] # Nowhere, placed[m] = at[m].folder
             PROVE  Known(m)' /\ Guarded(m)'
  BY DEF UserInv, PlacedInv, ListedInv
<1>0. Known(m) /\ Guarded(m)
  BY DEF UserInv, PlacedInv
<1> DEFINE seen  == {spot.mail : spot \in spots}
           moved == {spot.mail : spot \in {s \in spots : LooksMoved(s)}}
           of    == CHOOSE spot \in spots : spot.mail = m
<1>1. /\ position'[m] = IF m \in seen THEN of ELSE position[m]
      /\ pin'[m] = IF m \in moved THEN of.folder ELSE pin[m]
  BY DEF UpsertAll
<1>2. m \in seen => of \in spots /\ of.mail = m /\ of \in Spots
  OBVIOUS
<1>3. moved \subseteq seen
  OBVIOUS
<1>4. Known(m)'
  BY <1>0, <1>1, <1>2, NowhereAssumption DEF Known
<1>5. CASE m \in moved
  <2>1. pin'[m] # NoFolder
    BY <1>1, <1>2, <1>3, <1>5, FolderAssumption DEF Spots
  <2> QED BY <1>4, <2>1 DEF Guarded
<1>6. CASE m \notin moved
  <2>1. position'[m].folder = position[m].folder
    BY <1>0, <1>1, <1>2, <1>6 DEF LooksMoved, Known
  <2>2. pin'[m] = pin[m]
    BY <1>1, <1>6
  <2> QED BY <1>0, <1>4, <2>1, <2>2 DEF Guarded, TakesBack
<1> QED BY <1>5, <1>6

\* A message that comes to a place, of which nothing was listed: UIDs are not given twice.
LEMMA ComesFresh ==
    ASSUME TypeOK, OldPlaces, NEW m \in Mail, NEW f \in Folders, Arrive(m, f)
    PROVE  /\ at'[m].folder = f /\ at'[m] \in Spots
           /\ \A n \in Mail : n # m => at'[n] = at[n]
           /\ \A spot \in filing.todo : spot.mail = m => at'[m] # spot
<1>1. /\ at'[m] = [mail |-> m, folder |-> f, uid |-> next[f]]
      /\ \A n \in Mail : n # m => at'[n] = at[n]
  BY DEF Arrive, TypeOK, ServerOK
<1>2. at'[m] \in Spots
  BY ServerStep DEF TypeOK
<1>3. \A spot \in filing.todo : spot \in Spots /\ Old(spot)
  BY DEF TypeOK, FilingOK, FilingStates, OldPlaces, OldFiling
<1>4. ~Old(at'[m])
  BY <1>1, BoundAssumption DEF Old, TypeOK, ServerOK
<1> QED BY <1>1, <1>2, <1>3, <1>4

LEMMA DeliverGuards ==
    ASSUME TypeOK, OldPlaces, UserInv, NEW m \in Mail, Deliver(m)
    PROVE  UserInv'
<1>1. /\ at[m] = Nowhere /\ placed[m] = NoFolder
      /\ UNCHANGED <<placed, unrecorded, position, pin, filing>>
  BY DEF Deliver, UserInv, PlacedInv, emailVars, placeVars, historyVars
<1>2. /\ at'[m].folder = Inbox /\ \A n \in Mail : n # m => at'[n] = at[n]
      /\ at'[m] \in Spots
      /\ \A spot \in filing.todo : spot.mail = m => at'[m] # spot
  BY ComesFresh, FolderAssumption DEF Deliver
<1>3. PlacedInv'
  <2> SUFFICES ASSUME NEW n \in Mail
               PROVE  /\ at'[n] = Nowhere => placed'[n] = NoFolder
                      /\ at'[n] # Nowhere /\ placed'[n] = at'[n].folder => Known(n)' /\ Guarded(n)'
    BY DEF PlacedInv
  <2>1. CASE n = m
    BY <1>1, <1>2, <2>1, FolderAssumption, NowhereAssumption
  <2>2. CASE n # m
    BY <1>1, <1>2, <2>2 DEF UserInv, PlacedInv, Known, Guarded, TakesBack
  <2> QED BY <2>1, <2>2
<1>4. ListedInv'
  <2> SUFFICES ASSUME NEW spot \in filing.todo, at'[spot.mail] = spot
               PROVE  placed[spot.mail] # spot.folder \/ spot.mail \in unrecorded
    BY <1>1 DEF ListedInv
  <2>1. spot.mail \in Mail
    BY DEF TypeOK, FilingOK, FilingStates, Spots
  <2> QED BY <1>2, <2>1 DEF UserInv, ListedInv
<1> QED BY <1>3, <1>4 DEF UserInv

LEMMA UserMoveGuards ==
    ASSUME TypeOK, OldPlaces, UserInv, NEW m \in Mail, NEW f \in Folders, UserMove(m, f)
    PROVE  UserInv'
<1>1. /\ UNCHANGED <<unrecorded, position, pin, filing>>
      /\ placed' = [placed EXCEPT ![m] =
           IF position[m] # Nowhere /\ (position[m].folder # f \/ TakesBack(m)) THEN f ELSE NoFolder]
  BY DEF UserMove, emailVars, placeVars
<1>2. /\ at'[m].folder = f /\ \A n \in Mail : n # m => at'[n] = at[n]
      /\ at'[m] \in Spots
      /\ \A spot \in filing.todo : spot.mail = m => at'[m] # spot
  BY ComesFresh DEF UserMove
<1>3. /\ placed'[m] = IF position[m] # Nowhere /\ (position[m].folder # f \/ TakesBack(m))
                      THEN f ELSE NoFolder
      /\ \A n \in Mail : n # m => placed'[n] = placed[n]
  BY <1>1 DEF TypeOK
<1>4. PlacedInv'
  <2> SUFFICES ASSUME NEW n \in Mail
               PROVE  /\ at'[n] = Nowhere => placed'[n] = NoFolder
                      /\ at'[n] # Nowhere /\ placed'[n] = at'[n].folder => Known(n)' /\ Guarded(n)'
    BY DEF PlacedInv
  <2>1. CASE n = m
    BY <1>1, <1>2, <1>3, <2>1, FolderAssumption, NowhereAssumption DEF Known, Guarded, TakesBack
  <2>2. CASE n # m
    BY <1>1, <1>2, <1>3, <2>2 DEF UserInv, PlacedInv, Known, Guarded, TakesBack
  <2> QED BY <2>1, <2>2
<1>5. ListedInv'
  <2> SUFFICES ASSUME NEW spot \in filing.todo, at'[spot.mail] = spot
               PROVE  placed'[spot.mail] # spot.folder \/ spot.mail \in unrecorded
    BY <1>1 DEF ListedInv
  <2>1. spot.mail \in Mail
    BY DEF TypeOK, FilingOK, FilingStates, Spots
  <2> QED BY <1>2, <1>3, <2>1 DEF UserInv, ListedInv
<1> QED BY <1>4, <1>5 DEF UserInv

LEMMA FileListGuards ==
    ASSUME TypeOK, UserInv, FileList
    PROVE  UserInv'
<1>1. /\ UNCHANGED <<at, placed, unrecorded, position, pin>>
      /\ filing.phase = "idle"
      /\ filing' = [phase |-> "move", todo |-> Pending, spot |-> Nowhere]
  BY DEF FileList, CoreIdle, serverVars, emailVars, placeVars, historyVars
<1>2. \A m \in Mail : ~TakesBack(m)
  BY <1>1 DEF TakesBack
<1>3. PlacedInv'
  BY <1>1, <1>2 DEF UserInv, PlacedInv, Known, Guarded
<1>4. ASSUME NEW spot \in Pending, at[spot.mail] = spot
      PROVE  placed[spot.mail] # spot.folder \/ spot.mail \in unrecorded
  <2>1. PICK m \in Mail : /\ spot = position[m] /\ pin[m] = NoFolder
                          /\ position[m] # Nowhere /\ position[m].folder # Destination[m]
    BY <1>4 DEF Pending, TypeOK, TableOK
  <2>2. spot.mail = m
    BY <2>1 DEF TypeOK, TableOK
  <2> QED BY <1>2, <1>4, <2>1, <2>2 DEF UserInv, PlacedInv, Guarded
<1>5. ListedInv'
  BY <1>1, <1>4 DEF ListedInv
<1> QED BY <1>3, <1>5 DEF UserInv

LEMMA FileMoveGuards ==
    ASSUME TypeOK, OldPlaces, UserInv, NEW spot \in filing.todo, FileMove(spot)
    PROVE  UserInv'
<1>0. spot \in Spots /\ spot.mail \in Mail /\ Destination[spot.mail] \in Folders
  BY DestinationAssumption DEF TypeOK, FilingOK, FilingStates, Spots
<1>a. filing.phase = "move" /\ UNCHANGED <<position, pin>>
  BY DEF FileMove, emailVars, placeVars
<1>b. filing'.todo \subseteq filing.todo
  BY DEF FileMove
<1>c. \A m \in Mail : ~TakesBack(m)
  BY <1>a DEF TakesBack
<1>1. CASE UNCHANGED <<serverVars, historyVars>>
  BY <1>1, <1>a, <1>b, <1>c, UserFrame DEF serverVars, historyVars
<1>2. CASE /\ Arrive(spot.mail, Destination[spot.mail])
           /\ placed' = [placed EXCEPT ![spot.mail] = NoFolder]
           /\ unrecorded \subseteq unrecorded'
  <2> DEFINE m == spot.mail
  <2>1. /\ at'[m].folder = Destination[m] /\ \A n \in Mail : n # m => at'[n] = at[n]
        /\ at'[m] \in Spots
        /\ \A s \in filing.todo : s.mail = m => at'[m] # s
    BY <1>0, <1>2, ComesFresh
  <2>2. placed'[m] = NoFolder /\ \A n \in Mail : n # m => placed'[n] = placed[n]
    BY <1>0, <1>2 DEF TypeOK
  <2>3. PlacedInv'
    <3> SUFFICES ASSUME NEW n \in Mail
                 PROVE  /\ at'[n] = Nowhere => placed'[n] = NoFolder
                        /\ at'[n] # Nowhere /\ placed'[n] = at'[n].folder => Known(n)' /\ Guarded(n)'
      BY DEF PlacedInv
    <3>1. CASE n = m
      BY <1>0, <2>1, <2>2, <3>1, FolderAssumption, NowhereAssumption
    <3>2. CASE n # m
      BY <1>2, <1>a, <1>c, <2>1, <2>2, <3>2 DEF UserInv, PlacedInv, Known, Guarded
    <3> QED BY <3>1, <3>2
  <2>4. ListedInv'
    <3> SUFFICES ASSUME NEW s \in filing'.todo, at'[s.mail] = s
                 PROVE  placed'[s.mail] # s.folder \/ s.mail \in unrecorded'
      BY DEF ListedInv
    <3>1. s \in filing.todo /\ s.mail \in Mail
      BY <1>b DEF TypeOK, FilingOK, FilingStates, Spots
    <3> QED BY <1>2, <2>1, <2>2, <3>1 DEF UserInv, ListedInv
  <2> QED BY <2>3, <2>4 DEF UserInv
<1>3. \/ UNCHANGED <<serverVars, historyVars>>
      \/ /\ Arrive(spot.mail, Destination[spot.mail])
         /\ placed' = [placed EXCEPT ![spot.mail] = NoFolder]
         /\ unrecorded \subseteq unrecorded'
  BY DEF FileMove
<1> QED BY <1>1, <1>2, <1>3

LEMMA FileRecordGuards ==
    ASSUME TypeOK, OldPlaces, UserInv, FileRecord
    PROVE  UserInv'
<1> DEFINE m == filing.spot.mail
<1>0. /\ filing.phase = "record" /\ filing.spot \in Spots /\ m \in Mail
      /\ filing.spot.folder = Destination[m]
      /\ filing'.todo = filing.todo
      /\ UNCHANGED <<at, placed>>
  BY DEF FileRecord, FileNext, TypeOK, FilingOK, FilingStates, Spots, OldPlaces, OldFiling, serverVars
<1>1. CASE RecordMove(filing.spot) /\ UNCHANGED unrecorded
  <2>1. /\ position'[m] = filing.spot
        /\ \A n \in Mail : n # m => position'[n] = position[n] /\ pin'[n] = pin[n]
    BY <1>0, <1>1 DEF RecordMove, TypeOK, TableOK
  <2>2. ASSUME NEW n \in Mail, at[n] # Nowhere, placed[n] = at[n].folder
        PROVE  Known(n)' /\ Guarded(n)'
    <3>1. Known(n) /\ Guarded(n)
      BY <2>2 DEF UserInv, PlacedInv
    <3>2. CASE n = m
      BY <1>0, <2>1, <3>2, NowhereAssumption DEF Known, Guarded
    <3>3. CASE n # m
      BY <1>0, <1>1, <2>1, <3>1, <3>3 DEF Known, Guarded, TakesBack
    <3> QED BY <3>2, <3>3
  <2>3. PlacedInv'
    BY <1>0, <2>2 DEF UserInv, PlacedInv
  <2>4. ListedInv'
    BY <1>0, <1>1 DEF UserInv, ListedInv
  <2> QED BY <2>3, <2>4 DEF UserInv
<1>2. CASE unrecorded' = unrecorded \cup {m} /\ UNCHANGED placeVars
  <2>1. \A n \in Mail : TakesBack(n) => n \in unrecorded'
    BY <1>2 DEF TakesBack
  <2> QED BY <1>0, <1>2, <2>1, UserFrame DEF placeVars
<1> QED BY <1>1, <1>2 DEF FileRecord

\* A step of filing that moves a message does not move one the user has placed.
MovesUnplaced ==
    \A m \in Mail :
        at'[m] # at[m] /\ filing' # filing => placed[m] # at[m].folder \/ m \in unrecorded

LEMMA MoveListed ==
    ASSUME TypeOK, UserInv, NEW spot \in filing.todo, FileMove(spot)
    PROVE  MovesUnplaced
<1>0. spot.mail \in Mail
  BY DEF TypeOK, FilingOK, FilingStates, Spots
<1>1. \/ at' = at
      \/ at[spot.mail] = spot /\ Arrive(spot.mail, Destination[spot.mail])
  BY DEF FileMove, serverVars
<1>2. ASSUME at[spot.mail] = spot, Arrive(spot.mail, Destination[spot.mail]) PROVE MovesUnplaced
  <2>1. \A n \in Mail : n # spot.mail => at'[n] = at[n]
    BY <1>2 DEF Arrive, TypeOK, ServerOK
  <2>2. placed[spot.mail] # spot.folder \/ spot.mail \in unrecorded
    BY <1>2 DEF UserInv, ListedInv
  <2> QED BY <1>2, <2>1, <2>2 DEF MovesUnplaced
<1> QED BY <1>1, <1>2 DEF MovesUnplaced

LEMMA UserStep ==
    ASSUME TypeOK, OldPlaces, UserInv, [Next]_vars
    PROVE  UserInv' /\ [MovesUnplaced]_vars
<1>1. ASSUME NEW m \in Mail, Deliver(m) PROVE UserInv' /\ MovesUnplaced
  BY <1>1, DeliverGuards DEF Deliver, MovesUnplaced
<1>2. ASSUME NEW m \in Mail, Recommend(m) \/ LockExpires(m) PROVE UserInv' /\ MovesUnplaced
  BY <1>2, NoUserStep
     DEF Recommend, LockExpires, MovesUnplaced, serverVars, placeVars, historyVars
<1>3. ASSUME NEW m \in Mail, NEW f \in Folders, UserMove(m, f) PROVE UserInv' /\ MovesUnplaced
  BY <1>3, UserMoveGuards DEF UserMove, MovesUnplaced
<1>4. ASSUME NEW p \in Passes, SyncBegin(p) PROVE UserInv' /\ MovesUnplaced
  BY <1>4, NoUserStep DEF SyncBegin, MovesUnplaced, serverVars, emailVars, placeVars, historyVars
<1>5. ASSUME NEW p \in Passes, PassStep(p) PROVE UserInv' /\ MovesUnplaced
  <2>1. ASSUME NEW f \in Folders, SyncSkip(p, f) \/ SyncList(p, f) PROVE UserInv' /\ MovesUnplaced
    BY <2>1, NoUserStep
       DEF SyncSkip, SyncList, MovesUnplaced, serverVars, emailVars, placeVars, historyVars
  <2>2. CASE \/ SyncRead(p) \/ SyncFetch(p) \/ SyncCursor(p) \/ SyncEnd(p)
             \/ Drain(p) \/ DrainEnd(p) \/ PassFails(p)
    BY <2>2, NoUserStep
       DEF SyncRead, SyncFetch, SyncCursor, SyncEnd, Drain, ResetStale, DrainEnd, PassFails, MovesUnplaced,
           serverVars, emailVars, placeVars, historyVars
  <2>3. CASE SyncUpsert(p)
    <3>1. pass[p].found \in SUBSET Spots
      BY DEF TypeOK, PassOK, PassStates
    <3> QED BY <2>3, <3>1, UpsertGuards DEF SyncUpsert, MovesUnplaced, serverVars, historyVars
  <2> QED BY <1>5, <2>1, <2>2, <2>3 DEF PassStep
<1>6. CASE BodyBegin \/ BodyStep
  BY <1>6, NoUserStep DEF BodyBegin, BodyStep, BodyInsert, BodySelect, MovesUnplaced, serverVars,
                          emailVars, placeVars, historyVars
<1>7. ASSUME NEW w \in Passes \X Workers, WorkerStep(w) PROVE UserInv' /\ MovesUnplaced
  <2>1. ASSUME NEW s \in Spots, Claim(w, s) PROVE UserInv' /\ MovesUnplaced
    BY <2>1, NoUserStep DEF Claim, MovesUnplaced, serverVars, emailVars, placeVars, historyVars
  <2>2. CASE WorkerEnds(w) \/ Fetch(w) \/ MarkDone(w) \/ MarkRetry(w) \/ WorkerFails(w)
    BY <2>2, NoUserStep DEF WorkerEnds, Fetch, MarkDone, MarkRetry, FailedStatus, WorkerFails, MovesUnplaced,
                            serverVars, emailVars, placeVars, historyVars
  <2>3. CASE Import(w)
    <3>1. {worker[w].job} \in SUBSET Spots
      BY <2>3, Job DEF Import, BodyStored, TypeOK
    <3>2. CASE UpsertAll({worker[w].job})
      BY <2>3, <3>1, <3>2, UpsertGuards DEF Import, BodyStored, MovesUnplaced, serverVars, historyVars
    <3>3. CASE UNCHANGED placeVars
      BY <2>3, <3>3, NoUserStep DEF Import, BodyStored, MovesUnplaced, serverVars, placeVars, historyVars
    <3> QED BY <2>3, <3>2, <3>3 DEF Import, BodyStored
  <2> QED BY <1>7, <2>1, <2>2, <2>3 DEF WorkerStep
<1>8. CASE FileList
  BY <1>8, FileListGuards DEF FileList, MovesUnplaced, serverVars
<1>9. CASE FilingStep
  <2>1. ASSUME NEW spot \in filing.todo, FileMove(spot) PROVE UserInv' /\ MovesUnplaced
    BY <2>1, FileMoveGuards, MoveListed
  <2>2. CASE FileRecord
    BY <2>2, FileRecordGuards DEF FileRecord, MovesUnplaced, serverVars
  <2>3. CASE FileSearch
    <3>1. filing'.todo = filing.todo /\ filing.phase = "search" /\ unrecorded \subseteq unrecorded'
          /\ UNCHANGED <<at, placed, position, pin>>
      BY <2>3 DEF FileSearch, FileNext, TypeOK, FilingOK, FilingStates, serverVars, emailVars, placeVars
    <3> QED BY <3>1, UserFrame DEF TakesBack, MovesUnplaced
  <2>4. ASSUME NEW spot \in filing.todo, FileSkip(spot) PROVE UserInv' /\ MovesUnplaced
    <3>1. filing'.todo \subseteq filing.todo /\ filing.phase = "move"
          /\ UNCHANGED <<at, placed, position, pin, unrecorded>>
      BY <2>4 DEF FileSkip, TypeOK, FilingOK, FilingStates, serverVars, emailVars, placeVars, historyVars
    <3> QED BY <3>1, UserFrame DEF TakesBack, MovesUnplaced
  <2>5. CASE FileEnd
    <3>1. filing'.todo \subseteq filing.todo /\ filing.phase = "move"
          /\ UNCHANGED <<at, placed, position, pin, unrecorded>>
      BY <2>5 DEF FileEnd, NoFiling, serverVars, emailVars, placeVars, historyVars
    <3> QED BY <3>1, UserFrame DEF TakesBack, MovesUnplaced
  <2> QED BY <1>9, <2>1, <2>2, <2>3, <2>4, <2>5 DEF FilingStep
<1>10. CASE Crash
  <2>1. /\ filing'.todo = {} /\ UNCHANGED <<at, placed, position, pin>>
        /\ unrecorded' = unrecorded \cup
             (IF filing.phase \in {"search", "record"} THEN {filing.spot.mail} ELSE {})
    BY <1>10 DEF Crash, NoFiling, serverVars, emailVars, placeVars
  <2> QED BY <2>1, UserFrame DEF TakesBack, MovesUnplaced
<1>11. CASE UNCHANGED vars
  BY <1>11, NoUserStep DEF vars, serverVars, emailVars, placeVars, historyVars
<1> QED BY <1>1, <1>2, <1>3, <1>4, <1>5, <1>6, <1>7, <1>8, <1>9, <1>10, <1>11 DEF Next

\* Core does not move on what the user has placed (UserPlacementKept), for any
\* folders and destinations, any overlap of the core and the background passes, any
\* number of moves of the user and of faults, as long as core's own moves were recorded.
THEOREM PlacementKept == Spec => UserPlacementKept
<1> DEFINE Inv == Given /\ OldPlaces /\ UserInv
<1>1. Init => Inv
  <2> SUFFICES ASSUME Init PROVE Inv
    OBVIOUS
  <2>1. Given
    BY DEF Init, Given
  <2>2. OldPlaces
    BY DEF Init, OldPlaces, OldPosition, OldFound, OldJobs, OldWork, OldFiling, Known, NoPass,
           NoWork, NoFiling
  <2>3. UserInv
    BY DEF Init, UserInv, PlacedInv, ListedInv, NoFiling
  <2> QED BY <2>1, <2>2, <2>3
<1>2. TypeOK /\ Inv /\ [Next]_vars => Inv' /\ [MovesUnplaced]_vars
  <2> SUFFICES ASSUME TypeOK, Inv, [Next]_vars
               PROVE  Inv' /\ [MovesUnplaced]_vars
    OBVIOUS
  <2>1. Given'
    BY StepGrows, GivenStays
  <2> QED BY <2>1, OldPlacesStep, UserStep
<1> QED BY <1>1, <1>2, Typing, PTL DEF Spec, UserPlacementKept, MovesUnplaced
================================================================================
