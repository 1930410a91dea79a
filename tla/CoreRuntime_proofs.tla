-------------------------- MODULE CoreRuntime_proofs --------------------------
(***************************************************************************)
(* Proofs about CoreRuntime, for any number of runtimes and work items.    *)
(* Typing holds as it stands.  The ownership properties need the lease to  *)
(* be sound (~LeaseMayDrop) and the inductive invariant Owned.             *)
(***************************************************************************)
EXTENDS CoreRuntime, FiniteSetTheorems, TLAPS

(* What a queue statement makes of a row is a row. *)

LEMMA EnqueuedType == ASSUME NEW row \in Row PROVE Enqueued(row) \in Row
BY DEF Enqueued, Row, Status

LEMMA ClaimedType ==
    ASSUME NEW row \in Row, NEW r \in Runtimes PROVE Claimed(row, r) \in Row
<1>1. row.attempt + 1 \in Nat
  BY DEF Row
<1> QED BY <1>1 DEF Claimed, Row, Status

LEMMA CompletedType == ASSUME NEW row \in Row PROVE Completed(row) \in Row
BY DEF Completed, Row, Status

LEMMA AfterFailureType ==
    ASSUME NEW row \in Row, NEW attempt \in Nat PROVE AfterFailure(row, attempt) \in Row
BY AttemptAssumption DEF AfterFailure, Row, Status

LEMMA MadeRetryableType == ASSUME NEW row \in Row PROVE MadeRetryable(row) \in Row
BY DEF MadeRetryable, Row, Status

(* What each statement does to the columns the proofs look at. *)

LEMMA RetryableEffect ==
    ASSUME NEW row \in Row PROVE MadeRetryable(row).status = "failed"
BY DEF MadeRetryable, Row

LEMMA CompletedEffect ==
    ASSUME NEW row \in Row PROVE Completed(row).status = "done"
BY DEF Completed, Row

LEMMA ClaimEffect ==
    ASSUME NEW row \in Row, NEW r \in Runtimes
    PROVE  /\ Claimed(row, r).status = "processing"
           /\ Claimed(row, r).worker = r
           /\ Claimed(row, r).attempt = row.attempt + 1
BY DEF Claimed, Row

LEMMA FailureEffect ==
    ASSUME NEW row \in Row, NEW attempt \in Nat
    PROVE  /\ AfterFailure(row, attempt).status \in {"failed", "dead"}
           /\ AfterFailure(row, attempt).status = "dead" => attempt >= MaxAttempts
BY AttemptAssumption DEF AfterFailure, Row

LEMMA EnqueueEffect ==
    ASSUME NEW row \in Row
    PROVE  /\ Enqueued(row).status \in {"pending", "processing"}
           /\ (row.status = "processing" \/ Enqueued(row).status = "processing")
                => Enqueued(row) = row
BY DEF Enqueued, Row

\* Every reachable state is well typed: no handler, in no order of runtimes,
\* crashes and aborts, writes a status or an owner the schema does not know.
THEOREM Typing == Spec => []TypeOK
<1>1. Init => TypeOK
  BY DEF Init, TypeOK, AbsentRow, Row, Status, Phases, InTask, InLoop
<1>2. TypeOK /\ [Next]_vars => TypeOK'
  <2> SUFFICES ASSUME TypeOK, [Next]_vars PROVE TypeOK'
    OBVIOUS
  <2> USE DEF TypeOK
  <2>1. ASSUME NEW r \in Runtimes, AcquireLease(r) \/ LeaseRefused(r) PROVE TypeOK'
    BY <2>1 DEF AcquireLease, LeaseRefused, GoTo, Phases, InTask, InLoop
  <2>2. ASSUME NEW r \in Runtimes, RecoverOrphans(r) \/ ResetStale(r) PROVE TypeOK'
    <3>1. work' \in [Items -> Row]
      BY <2>2, MadeRetryableType DEF RecoverOrphans, ResetStale
    <3> QED
    BY <2>2, <3>1
    DEF RecoverOrphans, ResetStale, GoTo, Phases, InTask, InLoop
  <2>3. ASSUME NEW r \in Runtimes, Claim(r) \/ ClaimBatch(r) PROVE TypeOK'
    <3>1. PICK S \in SUBSET Items : TakeAll(r, S)
      BY <2>3 DEF Claim, ClaimBatch, NextCandidates, DueIn, Items, Support
    <3>2. work' \in [Items -> Row] /\ seen' \in [Runtimes -> [Items -> Nat]]
      BY <3>1, ClaimedType DEF TakeAll, Row
    <3> QED
      BY <2>3, <3>1, <3>2
      DEF Claim, ClaimBatch, TakeAll, GoTo, Phases, InTask, InLoop
  <2>4. ASSUME NEW r \in Runtimes, NothingDue(r) \/ BatchEnd(r) PROVE TypeOK'
    BY <2>4 DEF NothingDue, BatchEnd, GoTo, Phases, InTask, InLoop
  <2>5. ASSUME NEW r \in Runtimes, NEW i \in Items,
               MarkDone(r, i) \/ MarkRetryOrDead(r, i)
               \/ MarkFails(r, i) \/ FollowUpFails(r, i)
        PROVE  TypeOK'
    <3>1. seen[r][i] \in Nat /\ work[i] \in Row
      OBVIOUS
    <3>2. work' \in [Items -> Row]
      BY <2>5, <3>1, CompletedType, AfterFailureType, ZenonT(40)
      DEF MarkDone, MarkRetryOrDead, MarkFails, FollowUpFails
    <3> QED
      BY <2>5, <3>2
      DEF MarkDone, MarkRetryOrDead, MarkFails, FollowUpFails, Drop
  <2>6. ASSUME NEW r \in Runtimes, Signal(r) \/ ShutdownSeen(r) PROVE TypeOK'
    BY <2>6 DEF Signal, ShutdownSeen, GoTo, Phases, InTask, InLoop
  <2>7. ASSUME NEW r \in Runtimes,
               ReleaseClaims(r) \/ ReleaseFails(r) \/ Cleanup(r)
        PROVE  TypeOK'
    <3>1. work' \in [Items -> Row]
      BY <2>7, MadeRetryableType DEF ReleaseClaims, ReleaseFails, Cleanup, ReleaseRows
    <3> QED
      BY <2>7, <3>1
      DEF ReleaseClaims, ReleaseFails, Cleanup, GoTo, Phases, InTask, InLoop
  <2>8. ASSUME NEW r \in Runtimes,
               DatabaseError(r) \/ TaskReturns(r) \/ Abort(r) \/ Crash(r) \/ LeaseLost(r)
        PROVE  TypeOK'
    BY <2>8
    DEF DatabaseError, TaskReturns, Abort, Crash, LeaseLost, DropTask, GoTo,
        Phases, InTask, InLoop
  <2>9. CASE Environment
    <3>1. ASSUME NEW i \in Items, EnqueueWork(i) PROVE TypeOK'
      BY <3>1, EnqueuedType DEF EnqueueWork
    <3>2. ASSUME NEW i \in Items, BecomesDue(i) \/ BecomesStale(i) PROVE TypeOK'
      <4>1. work[i] \in Row
        OBVIOUS
      <4>2. [work[i] EXCEPT !.due = TRUE] \in Row /\ [work[i] EXCEPT !.stale = TRUE] \in Row
        BY <4>1 DEF Row
      <4>3. work' \in [Items -> Row]
        BY <3>2, <4>2 DEF BecomesDue, BecomesStale
      <4> QED BY <3>2, <4>3 DEF BecomesDue, BecomesStale
    <3> QED BY <2>9, <3>1, <3>2 DEF Environment
  <2>10. CASE UNCHANGED vars
    BY <2>10 DEF vars
  <2> QED
    BY <2>1, <2>2, <2>3, <2>4, <2>5, <2>6, <2>7, <2>8, <2>9, <2>10
    DEF Next, Work, Leave, Fault
<1> QED BY <1>1, <1>2, PTL DEF Spec

------------------------------------------------------------------------------
(* Ownership, while the lease is sound. *)

\* Items in hand of two runtimes would need two holders of the lease.
LEMMA OwnedExcludes == Owned => ExclusiveExecution
BY DEF Owned, HolderOnly, HandsInBatch, ExclusiveExecution, InTask, InLoop

LEMMA OwnedInitially == Init => Owned
BY DEF Init, Owned, HolderOnly, HandsInBatch, ExecutionOwnsRow, NoOrphanInLoop,
       InTask, InLoop

LEMMA OwnedStep ==
    ASSUME ~LeaseMayDrop, TypeOK, TypeOK', Owned, [Next]_vars
    PROVE  Owned'
<1> USE DEF TypeOK
<1>a. \A r1, r2 \in Runtimes : (pc[r1] \in InTask /\ pc[r2] \in InTask) => r1 = r2
  BY DEF Owned, HolderOnly
<1>b. \A r1, r2 \in Runtimes : (running[r1] # {} /\ pc[r2] \in InTask) => r1 = r2
  BY <1>a DEF Owned, HandsInBatch, InTask, InLoop
<1>1. ASSUME NEW r \in Runtimes, AcquireLease(r) \/ LeaseRefused(r) PROVE Owned'
  <2>1. HolderOnly'
    BY <1>1, RuntimeAssumption
    DEF Owned, HolderOnly, AcquireLease, LeaseRefused, GoTo, InTask, InLoop
  <2>2. HandsInBatch' /\ ExecutionOwnsRow'
    BY <1>1
    DEF Owned, HandsInBatch, ExecutionOwnsRow, AcquireLease, LeaseRefused, GoTo
  <2>3. NoOrphanInLoop'
    BY <1>1, RuntimeAssumption
    DEF Owned, HolderOnly, NoOrphanInLoop, AcquireLease, LeaseRefused, GoTo,
        InTask, InLoop
  <2> QED BY <2>1, <2>2, <2>3 DEF Owned
<1>2. ASSUME NEW r \in Runtimes, RecoverOrphans(r) PROVE Owned'
  <2>1. \A i \in Items : work'[i].status # "processing"
    BY <1>2, RetryableEffect DEF RecoverOrphans
  <2>2. \A q \in Runtimes : running[q] = {}
    BY <1>2, <1>b DEF Owned, HandsInBatch, RecoverOrphans, InTask, InLoop
  <2>3. HolderOnly'
    BY <1>2 DEF Owned, HolderOnly, RecoverOrphans, GoTo, InTask, InLoop
  <2>4. running' = running
    BY <1>2 DEF RecoverOrphans
  <2> QED
    BY <2>1, <2>2, <2>3, <2>4 DEF Owned, HandsInBatch, ExecutionOwnsRow, NoOrphanInLoop
<1>3. ASSUME NEW r \in Runtimes, ResetStale(r) PROVE Owned'
  <2>1. \A q \in Runtimes : running[q] = {}
    BY <1>3, <1>b DEF Owned, HandsInBatch, ResetStale, InTask, InLoop
  <2>2. \A i \in Items : work'[i].status = "processing" => work[i].status = "processing"
    BY <1>3, RetryableEffect DEF ResetStale
  <2>3. HolderOnly'
    BY <1>3 DEF Owned, HolderOnly, ResetStale, GoTo, InTask, InLoop
  <2>4. HandsInBatch' /\ ExecutionOwnsRow'
    BY <1>3, <2>1 DEF HandsInBatch, ExecutionOwnsRow, ResetStale
  <2>5. NoOrphanInLoop'
    BY <1>3, <2>2 DEF Owned, NoOrphanInLoop, ResetStale, GoTo, InTask, InLoop
  <2> QED BY <2>3, <2>4, <2>5 DEF Owned
<1>4. ASSUME NEW r \in Runtimes, Claim(r) \/ ClaimBatch(r) PROVE Owned'
  <2>1. PICK S \in SUBSET Items : TakeAll(r, S)
    BY <1>4 DEF Claim, ClaimBatch, NextCandidates, DueIn, Items, Support
  <2>2. /\ pc[r] \in {"claiming", "batching"}
        /\ pc' \in {[pc EXCEPT ![r] = "batching"], [pc EXCEPT ![r] = "working"]}
        /\ lease' = lease /\ failing' = failing
    BY <1>4 DEF Claim, ClaimBatch, GoTo
  <2>3. running' = [running EXCEPT ![r] = @ \cup S]
    BY <2>1 DEF TakeAll
  <2>4. \A i \in Items : i \notin S => work'[i] = work[i] /\ seen'[r][i] = seen[r][i]
    BY <2>1 DEF TakeAll
  <2>5. HolderOnly' /\ HandsInBatch'
    BY <2>2, <2>3 DEF Owned, HolderOnly, HandsInBatch, InTask, InLoop
  <2>6. \A q \in Runtimes : q # r => running[q] = {}
    BY <2>2, <1>b DEF InTask, InLoop
  <2>7. ASSUME NEW i \in S
        PROVE  /\ work'[i].status = "processing"
               /\ work'[i].worker = r
               /\ work'[i].attempt = seen'[r][i]
    <3>1. i \in Items /\ work[i] \in Row
      OBVIOUS
    <3>2. work'[i] = Claimed(work[i], r) /\ seen'[r][i] = work[i].attempt + 1
      BY <2>1, <3>1 DEF TakeAll
    <3> QED BY <3>1, <3>2, ClaimEffect
  <2>8. ExecutionOwnsRow'
    <3> SUFFICES ASSUME NEW q \in Runtimes, NEW i \in running'[q]
                 PROVE  /\ work'[i].status = "processing"
                        /\ work'[i].worker = q
                        /\ work'[i].attempt = seen'[q][i]
      BY DEF ExecutionOwnsRow
    <3>1. q = r /\ i \in Items
      BY <2>3, <2>6
    <3>2. CASE i \in S
      BY <3>1, <3>2, <2>7
    <3>3. CASE i \notin S
      <4>1. i \in running[r]
        BY <3>1, <3>3, <2>3
      <4> QED
        BY <3>1, <3>3, <4>1, <2>4 DEF Owned, ExecutionOwnsRow
    <3> QED BY <3>2, <3>3
  <2>9. NoOrphanInLoop'
    <3> SUFFICES ASSUME NEW q \in Runtimes, pc'[q] \in InLoop, q \notin failing',
                        NEW i \in Items, work'[i].status = "processing", lease' = q
                 PROVE  i \in running'[q]
      BY DEF NoOrphanInLoop
    <3>1. q = r
      BY <2>2, <1>a DEF InTask, InLoop
    <3>2. CASE i \in S
      BY <3>1, <3>2, <2>3
    <3>3. CASE i \notin S
      <4>1. i \in running[r]
        BY <3>1, <3>3, <2>2, <2>4 DEF Owned, NoOrphanInLoop, InLoop
      <4> QED BY <4>1, <3>1, <2>3
    <3> QED BY <3>2, <3>3
  <2> QED BY <2>5, <2>8, <2>9 DEF Owned
<1>5. ASSUME NEW r \in Runtimes,
             NothingDue(r) \/ BatchEnd(r) \/ Signal(r) \/ ShutdownSeen(r)
             \/ ReleaseFails(r)
      PROVE  Owned'
  <2>1. HolderOnly'
    BY <1>5
    DEF Owned, HolderOnly, NothingDue, BatchEnd, Signal, ShutdownSeen,
        ReleaseFails, GoTo, InTask, InLoop
  <2>2. HandsInBatch' /\ ExecutionOwnsRow'
    BY <1>5
    DEF Owned, HandsInBatch, ExecutionOwnsRow, NothingDue, BatchEnd, Signal,
        ShutdownSeen, ReleaseFails, GoTo
  <2>3. NoOrphanInLoop'
    BY <1>5
    DEF Owned, NoOrphanInLoop, NothingDue, BatchEnd, Signal, ShutdownSeen,
        ReleaseFails, GoTo, InLoop
  <2> QED BY <2>1, <2>2, <2>3 DEF Owned
<1>6. ASSUME NEW r \in Runtimes, NEW i \in Items,
             MarkDone(r, i) \/ MarkRetryOrDead(r, i)
             \/ MarkFails(r, i) \/ FollowUpFails(r, i)
      PROVE  Owned'
  <2>1. /\ pc[r] = "working" /\ i \in running[r]
        /\ running' = [running EXCEPT ![r] = @ \ {i}]
        /\ UNCHANGED <<lease, pc, seen>>
    BY <1>6 DEF MarkDone, MarkRetryOrDead, MarkFails, FollowUpFails, Drop
  <2>2. \A j \in Items : j # i => work'[j] = work[j]
    BY <1>6 DEF MarkDone, MarkRetryOrDead, MarkFails, FollowUpFails
  <2>3. HolderOnly' /\ HandsInBatch'
    BY <2>1 DEF Owned, HolderOnly, HandsInBatch
  <2>4. \A q \in Runtimes : q # r => running[q] = {}
    BY <2>1, <1>b DEF InTask, InLoop
  <2>5. ExecutionOwnsRow'
    BY <2>1, <2>2, <2>4 DEF Owned, ExecutionOwnsRow
  <2>6. \/ r \in failing'
        \/ failing' = failing /\ work'[i].status # "processing"
    <3>1. seen[r][i] \in Nat /\ work[i] \in Row
      OBVIOUS
    <3>2. CASE MarkDone(r, i)
      BY <3>1, <3>2, CompletedEffect DEF MarkDone
    <3>3. CASE MarkRetryOrDead(r, i)
      <4>1. AfterFailure(work[i], seen[r][i]).status # "processing"
        BY <3>1, FailureEffect
      <4> QED BY <3>3, <4>1 DEF MarkRetryOrDead
    <3>4. CASE MarkFails(r, i) \/ FollowUpFails(r, i)
      BY <3>4 DEF MarkFails, FollowUpFails
    <3> QED BY <1>6, <3>2, <3>3, <3>4
  <2>7. failing \subseteq failing'
    BY <1>6 DEF MarkDone, MarkRetryOrDead, MarkFails, FollowUpFails
  <2>8. \A q \in Runtimes : q # r => pc[q] \notin InLoop
    BY <2>1, <1>a DEF InTask, InLoop
  <2>9. NoOrphanInLoop'
    BY <2>1, <2>2, <2>6, <2>7, <2>8 DEF Owned, NoOrphanInLoop
  <2> QED BY <2>3, <2>5, <2>9 DEF Owned
<1>7. ASSUME NEW r \in Runtimes, ReleaseClaims(r) \/ Cleanup(r) PROVE Owned'
  <2>1. /\ pc[r] \in {"releasing", "cleanup"}
        /\ pc' \in {[pc EXCEPT ![r] = "closing"], [pc EXCEPT ![r] = "stopped"]}
        /\ pc[r] = "cleanup" => pc' = [pc EXCEPT ![r] = "stopped"]
        /\ UNCHANGED <<lease, running, seen, failing>>
    BY <1>7 DEF ReleaseClaims, Cleanup, GoTo
  <2>2. \A i \in Items : \/ work'[i] = work[i]
                         \/ work[i].worker = r /\ work'[i].status # "processing"
    BY <1>7, RetryableEffect DEF ReleaseClaims, Cleanup, ReleaseRows
  <2>3. running[r] = {}
    BY <2>1 DEF Owned, HandsInBatch
  <2>4. HolderOnly' /\ HandsInBatch'
    BY <2>1, <2>3 DEF Owned, HolderOnly, HandsInBatch, InTask, InLoop
  <2>5. ExecutionOwnsRow'
    BY <2>1, <2>2, <2>3 DEF Owned, ExecutionOwnsRow
  <2>6. NoOrphanInLoop'
    BY <2>1, <2>2 DEF Owned, NoOrphanInLoop, InLoop
  <2> QED BY <2>4, <2>5, <2>6 DEF Owned
<1>8. ASSUME NEW r \in Runtimes, DatabaseError(r) PROVE Owned'
  <2>1. HolderOnly' /\ HandsInBatch'
    BY <1>8 DEF Owned, HolderOnly, HandsInBatch, DatabaseError, GoTo, InTask, InLoop
  <2>2. ExecutionOwnsRow' /\ NoOrphanInLoop'
    BY <1>8
    DEF Owned, ExecutionOwnsRow, NoOrphanInLoop, DatabaseError, GoTo, InLoop
  <2> QED BY <2>1, <2>2 DEF Owned
<1>9. ASSUME NEW r \in Runtimes, TaskReturns(r) \/ Abort(r) \/ Crash(r) PROVE Owned'
  <2>1. /\ DropTask(r) /\ UNCHANGED <<work, seen>>
        /\ pc' \in {[pc EXCEPT ![r] = "stopped"], [pc EXCEPT ![r] = "cleanup"]}
    BY <1>9 DEF TaskReturns, Abort, Crash, GoTo
  <2>2. HolderOnly' /\ HandsInBatch'
    BY <2>1, <1>a DEF Owned, HolderOnly, HandsInBatch, DropTask, InTask, InLoop
  <2>3. ExecutionOwnsRow' /\ NoOrphanInLoop'
    BY <2>1, RuntimeAssumption
    DEF Owned, ExecutionOwnsRow, NoOrphanInLoop, DropTask, InLoop
  <2> QED BY <2>2, <2>3 DEF Owned
<1>10. CASE Environment
  <2>1. PICK i \in Items : EnqueueWork(i) \/ BecomesDue(i) \/ BecomesStale(i)
    BY <1>10 DEF Environment
  <2>2. \A j \in Items : /\ work'[j].status = "processing" <=> work[j].status = "processing"
                         /\ work[j].status = "processing" =>
                              /\ work'[j].worker = work[j].worker
                              /\ work'[j].attempt = work[j].attempt
    BY <2>1 DEF EnqueueWork, BecomesDue, BecomesStale, Enqueued, Row
  <2>3. UNCHANGED <<lease, pc, running, seen, failing>>
    BY <2>1 DEF EnqueueWork, BecomesDue, BecomesStale
  <2> QED
    BY <2>2, <2>3
    DEF Owned, HolderOnly, HandsInBatch, ExecutionOwnsRow, NoOrphanInLoop
<1>11. CASE UNCHANGED vars
  BY <1>11
  DEF vars, Owned, HolderOnly, HandsInBatch, ExecutionOwnsRow, NoOrphanInLoop
<1> QED
  BY <1>1, <1>2, <1>3, <1>4, <1>5, <1>6, <1>7, <1>8, <1>9, <1>10, <1>11
  DEF Next, Work, Leave, Fault, LeaseLost

\* While its session keeps the lease alive, whatever crashes, aborts, failing
\* statements and shutdowns happen: no item is executed twice at a time, every
\* execution still owns its row when it marks it, and no row is orphaned in
\* the loop of a healthy runtime.
THEOREM Ownership ==
    ~LeaseMayDrop =>
        (Spec => [](Owned /\ ExclusiveExecution /\ ExecutionOwnsRow /\ NoOrphanInLoop))
<1> SUFFICES ASSUME ~LeaseMayDrop
             PROVE  Spec => [](Owned /\ ExclusiveExecution /\ ExecutionOwnsRow
                               /\ NoOrphanInLoop)
  OBVIOUS
<1>1. TypeOK /\ TypeOK' /\ Owned /\ [Next]_vars => Owned'
  BY OwnedStep
<1>2. Owned => Owned /\ ExclusiveExecution /\ ExecutionOwnsRow /\ NoOrphanInLoop
  BY OwnedExcludes DEF Owned
<1> QED BY <1>1, <1>2, OwnedInitially, Typing, PTL DEF Spec

\* While an item is executed its row stays the claim that started it, so the two mark
\* statements may find it by its id alone.
THEOREM ExecutionsOwn == ~LeaseMayDrop => (Spec => []ExecutionOwnsRow)
<1>1. Owned => ExecutionOwnsRow
  BY DEF Owned
<1> QED BY <1>1, Ownership, PTL

\* A runtime past its recovery has in hand every row that is processing: nothing an
\* earlier one left behind, and nothing for its stale reset to take away.
THEOREM NothingOrphaned == ~LeaseMayDrop => (Spec => []NoOrphanInLoop)
<1>1. Owned => NoOrphanInLoop
  BY DEF Owned
<1> QED BY <1>1, Ownership, PTL

\* A row dies only as the outcome of the execution that owns it, with the
\* attempts used up: a late answer never kills an item enqueued again.
THEOREM DeathIsEarned == ~LeaseMayDrop => (Spec => OnlyExhaustedWorkDies)
<1> SUFFICES ASSUME ~LeaseMayDrop PROVE Spec => OnlyExhaustedWorkDies
  OBVIOUS
<1> DEFINE Earned == \A i \in Items :
                       (work[i].status # "dead" /\ work'[i].status = "dead") =>
                          /\ work[i].status = "processing"
                          /\ work[i].attempt >= MaxAttempts
<1>1. TypeOK /\ Owned /\ [Next]_vars => [Earned]_vars
  <2> SUFFICES ASSUME TypeOK, Owned, Next,
                      NEW i \in Items,
                      work[i].status # "dead", work'[i].status = "dead"
               PROVE  /\ work[i].status = "processing"
                      /\ work[i].attempt >= MaxAttempts
    OBVIOUS
  <2> USE DEF TypeOK
  <2>1. ASSUME NEW r \in Runtimes, NEW j \in Items, MarkRetryOrDead(r, j)
        PROVE  /\ work[i].status = "processing"
               /\ work[i].attempt >= MaxAttempts
    <3>1. i = j /\ seen[r][i] >= MaxAttempts /\ i \in running[r]
      <4>1. seen[r][j] \in Nat
        OBVIOUS
      <4> QED BY <2>1, <4>1, FailureEffect DEF MarkRetryOrDead
    <3> QED BY <3>1 DEF Owned, ExecutionOwnsRow
  <2>2. ASSUME NEW r \in Runtimes, NEW j \in Items,
               MarkDone(r, j) \/ MarkFails(r, j) \/ FollowUpFails(r, j)
        PROVE  FALSE
    BY <2>2, CompletedEffect DEF MarkDone, MarkFails, FollowUpFails
  <2>3. ASSUME NEW r \in Runtimes, Claim(r) \/ ClaimBatch(r) PROVE FALSE
    <3>1. PICK S \in SUBSET Items : TakeAll(r, S)
      BY <2>3 DEF Claim, ClaimBatch, NextCandidates, DueIn, Items, Support
    <3> QED BY <3>1, ClaimEffect DEF TakeAll
  <2>4. ASSUME NEW r \in Runtimes,
               \/ RecoverOrphans(r) \/ ResetStale(r) \/ ReleaseClaims(r) \/ Cleanup(r)
        PROVE  FALSE
    BY <2>4, RetryableEffect
    DEF RecoverOrphans, ResetStale, ReleaseClaims, Cleanup, ReleaseRows
  <2>5. ASSUME NEW r \in Runtimes,
               \/ AcquireLease(r) \/ LeaseRefused(r) \/ NothingDue(r) \/ BatchEnd(r)
               \/ Signal(r) \/ ShutdownSeen(r) \/ ReleaseFails(r) \/ TaskReturns(r)
               \/ Fault(r)
        PROVE  FALSE
    BY <2>5
    DEF AcquireLease, LeaseRefused, NothingDue, BatchEnd, Signal, ShutdownSeen,
        ReleaseFails, TaskReturns, Fault, DatabaseError, Abort, Crash, LeaseLost
  <2>6. ASSUME Environment PROVE FALSE
    <3>1. PICK j \in Items : EnqueueWork(j) \/ BecomesDue(j) \/ BecomesStale(j)
      BY <2>6 DEF Environment
    <3> QED
      BY <3>1, EnqueueEffect DEF EnqueueWork, BecomesDue, BecomesStale, Row
  <2> QED
    BY <2>1, <2>2, <2>3, <2>4, <2>5, <2>6 DEF Next, Work, Leave
<1> HIDE DEF Earned
<1>2. Spec => [][Earned]_vars
  BY <1>1, Ownership, Typing, PTL DEF Spec
<1> QED BY <1>2 DEF OnlyExhaustedWorkDies, Earned

------------------------------------------------------------------------------
(* Refinement: what a step of the runtime is to ExclusiveWork. *)

\* An item as ExclusiveWork sees it.
Standing(status) ==
    CASE status = "absent" -> "idle"
      [] status \in {"pending", "failed"} -> "ready"
      [] status = "processing" -> "orphaned"
      [] status = "done" -> "finished"
      [] status = "dead" -> "abandoned"
Holder(i) == IF InHand(i) THEN work[i].worker ELSE NoRuntime
Tries(i) == work[i].attempt

LEMMA StandingOf ==
    ASSUME TypeOK, NEW i \in Items
    PROVE  AbstractState(i) = IF InHand(i) THEN "running" ELSE Standing(work[i].status)
<1>1. work[i].status \in Status
  BY DEF TypeOK, Row
<1> QED BY <1>1 DEF AbstractState, Standing, Status

LEMMA StandingNext ==
    ASSUME TypeOK', NEW i \in Items
    PROVE  AbstractState(i)' = IF InHand(i)' THEN "running" ELSE Standing(work'[i].status)
<1>1. work'[i].status \in Status
  BY DEF TypeOK, Row
<1> QED BY <1>1 DEF AbstractState, Standing, Status

LEMMA StandingIs ==
    /\ Standing("absent") = "idle" /\ Standing("pending") = "ready" /\ Standing("failed") = "ready"
    /\ Standing("processing") = "orphaned" /\ Standing("done") = "finished"
    /\ Standing("dead") = "abandoned"
    /\ \A status \in Status : /\ Standing(status) # "running"
                              /\ Standing(status) = "orphaned" => status = "processing"
BY DEF Standing, Status

\* An item whose row and execution are as they were is as it was.
Same(i) == /\ AbstractState(i)' = AbstractState(i)
           /\ Holder(i)' = Holder(i)
           /\ Tries(i)' = Tries(i)

LEMMA SameWhen ==
    ASSUME TypeOK, TypeOK', NEW i \in Items, InHand(i)' <=> InHand(i),
           work'[i].status = work[i].status, work'[i].worker = work[i].worker,
           work'[i].attempt = work[i].attempt
    PROVE  Same(i)
BY StandingOf, StandingNext DEF Same, Holder, Tries

LEMMA Stutter ==
    ASSUME \A i \in Items : Same(i)
    PROVE  UNCHANGED Abstract!abstractVars
BY DEF Same, Holder, Tries, Abstract!abstractVars

LEMMA Starts ==
    ASSUME NEW r \in Runtimes, NEW S \in SUBSET Items,
           \A i \in S : AbstractState(i) = "ready" /\ AbstractState(i)' = "running"
                       /\ Holder(i)' = r /\ Tries(i)' = Tries(i) + 1,
           \A i \in Items : Holder(i) \in {r, NoRuntime},
           \A i \in Items \ S : Same(i)
    PROVE  Abstract!Start(r, S)
BY DEF Same, Holder, Tries, Abstract!Start

LEMMA Ends ==
    ASSUME NEW r \in Runtimes, NEW i \in Items, NEW outcome,
           AbstractState(i) = "running", Holder(i) = r, outcome = "abandoned" => Tries(i) >= MaxAttempts,
           AbstractState(i)' = outcome, Holder(i)' = NoRuntime, Tries(i)' = Tries(i),
           \A j \in Items \ {i} : Same(j)
    PROVE  Abstract!End(r, i, outcome)
BY DEF Same, Holder, Tries, Abstract!End

LEMMA Interrupts ==
    ASSUME NEW r \in Runtimes, NEW S \in SUBSET Items,
           \A i \in S : Holder(i) = r /\ AbstractState(i)' = "orphaned" /\ Holder(i)' = NoRuntime
                       /\ Tries(i)' = Tries(i),
           \A i \in Items \ S : Same(i)
    PROVE  Abstract!Interrupt(r, S)
BY DEF Same, Holder, Tries, Abstract!Interrupt

LEMMA Reclaims ==
    ASSUME NEW S \in SUBSET Items,
           \A i \in S : AbstractState(i) = "orphaned" /\ AbstractState(i)' = "ready"
                       /\ Holder(i)' = Holder(i) /\ Tries(i)' = Tries(i),
           \A i \in Items \ S : Same(i)
    PROVE  Abstract!Reclaim(S)
BY DEF Same, Holder, Tries, Abstract!Reclaim

LEMMA Submits ==
    ASSUME NEW i \in Items, AbstractState(i) \notin {"running", "orphaned"},
           AbstractState(i)' = "ready", Tries(i)' = 0, Holder(i)' = Holder(i),
           \A j \in Items \ {i} : Same(j)
    PROVE  Abstract!Submit(i)
BY DEF Same, Holder, Tries, Abstract!Submit

LEMMA InHands ==
    ASSUME TypeOK, Owned, NEW r \in Runtimes, NEW i \in running[r]
    PROVE  /\ i \in Items /\ AbstractState(i) = "running" /\ Holder(i) = r
           /\ work[i].status = "processing" /\ work[i].attempt = seen[r][i]
           /\ \A q \in Runtimes : i \in running[q] => q = r
<1>1. i \in Items /\ InHand(i)
  BY DEF TypeOK, InHand
<1>2. \A q \in Runtimes : i \in running[q] => work[i].worker = q
  BY DEF Owned, ExecutionOwnsRow
<1> QED BY <1>1, <1>2, StandingOf DEF Owned, ExecutionOwnsRow, Holder

LEMMA NotInHand ==
    ASSUME TypeOK, Owned, NEW i \in Items, work[i].status # "processing" \/ ~InHand(i)
    PROVE  ~InHand(i) /\ AbstractState(i) = Standing(work[i].status) /\ Holder(i) = NoRuntime
<1>1. ~InHand(i)
  BY DEF InHand, Owned, ExecutionOwnsRow
<1> QED BY <1>1, StandingOf DEF Holder

\* Rows that nobody has in hand are made ready.
LEMMA ReclaimStep ==
    ASSUME TypeOK, TypeOK', Owned, running' = running,
           NEW S \in SUBSET Items,
           \A i \in S : work[i].status = "processing" /\ ~InHand(i),
           work' = [i \in Items |-> IF i \in S THEN MadeRetryable(work[i]) ELSE work[i]]
    PROVE  Abstract!AbstractNext
<1>1. \A i \in Items : InHand(i)' <=> InHand(i)
  BY DEF InHand
<1>2. ASSUME NEW i \in S
      PROVE  AbstractState(i) = "orphaned" /\ AbstractState(i)' = "ready"
             /\ Holder(i)' = Holder(i) /\ Tries(i)' = Tries(i)
  <2>1. i \in Items /\ work[i] \in Row /\ work[i].status = "processing" /\ ~InHand(i) /\ ~InHand(i)'
    BY <1>1 DEF TypeOK
  <2>2. work'[i].status = "failed" /\ work'[i].attempt = work[i].attempt
    BY <2>1 DEF MadeRetryable, Row
  <2> QED BY <2>1, <2>2, StandingOf, StandingNext, StandingIs DEF Holder, Tries
<1>3. ASSUME NEW i \in Items \ S
      PROVE  Same(i)
  <2>1. work'[i] = work[i]
    OBVIOUS
  <2> QED BY <1>1, <2>1, SameWhen
<1>4. Abstract!Reclaim(S)
  BY <1>2, <1>3, Reclaims
<1> QED BY <1>4 DEF Abstract!AbstractNext

\* A runtime loses what it has in hand, and the rows stay as they are.
LEMMA InterruptStep ==
    ASSUME TypeOK, TypeOK', Owned, work' = work,
           NEW r \in Runtimes, NEW S \in SUBSET running[r],
           running' = [running EXCEPT ![r] = @ \ S]
    PROVE  Abstract!AbstractNext
<1>1. S \in SUBSET Items
  BY DEF TypeOK
<1>2. ASSUME NEW i \in S
      PROVE  Holder(i) = r /\ AbstractState(i)' = "orphaned" /\ Holder(i)' = NoRuntime
             /\ Tries(i)' = Tries(i)
  <2>1. i \in Items /\ Holder(i) = r /\ work[i].status = "processing"
        /\ \A q \in Runtimes : i \in running[q] => q = r
    BY InHands
  <2>2. ~InHand(i)'
    BY <2>1 DEF InHand, TypeOK
  <2> QED BY <2>1, <2>2, StandingNext, StandingIs DEF Holder, Tries
<1>3. ASSUME NEW i \in Items \ S
      PROVE  Same(i)
  <2>1. InHand(i)' <=> InHand(i)
    BY DEF InHand, TypeOK
  <2> QED BY <2>1, SameWhen
<1>4. Abstract!Interrupt(r, S)
  BY <1>1, <1>2, <1>3, Interrupts
<1> QED BY <1>1, <1>4 DEF Abstract!AbstractNext

LEMMA TakesDue ==
    ASSUME NEW r \in Runtimes, Claim(r) \/ ClaimBatch(r)
    PROVE  \E S \in SUBSET Items : TakeAll(r, S) /\ \A i \in S : Claimable(work[i])
<1>1. \A K \in {Pipeline, Support, Subagent} : \A i \in DueIn(K) : i \in Items /\ Claimable(work[i])
  BY DEF DueIn, Items, Support
<1>2. CASE Claim(r)
  <2>1. PICK i \in NextCandidates : TakeAll(r, {i})
    BY <1>2 DEF Claim
  <2>2. i \in Items /\ Claimable(work[i])
    BY <1>1 DEF NextCandidates
  <2>3. {i} \in SUBSET Items /\ \A j \in {i} : Claimable(work[j])
    BY <2>2
  <2> QED BY <2>1, <2>3
<1>3. CASE ClaimBatch(r)
  <2>1. PICK T \in SUBSET DueIn(Subagent) : TakeAll(r, T)
    BY <1>3 DEF ClaimBatch
  <2>2. T \in SUBSET Items /\ \A j \in T : Claimable(work[j])
    BY <1>1
  <2> QED BY <2>1, <2>2
<1> QED BY <1>2, <1>3

LEMMA StartStep ==
    ASSUME TypeOK, TypeOK', Owned, NEW r \in Runtimes, Claim(r) \/ ClaimBatch(r)
    PROVE  Abstract!AbstractNext
<1>1. PICK S \in SUBSET Items : TakeAll(r, S) /\ \A i \in S : Claimable(work[i])
  BY TakesDue
<1>2. \A q \in Runtimes : q # r => running[q] = {}
  BY DEF Owned, HandsInBatch, HolderOnly, Claim, ClaimBatch, InTask, InLoop
<1>3. running' = [running EXCEPT ![r] = @ \cup S]
      /\ \A i \in Items : work'[i] = IF i \in S THEN Claimed(work[i], r) ELSE work[i]
  BY <1>1 DEF TakeAll
<1>4. ASSUME NEW i \in S
      PROVE  AbstractState(i) = "ready" /\ AbstractState(i)' = "running"
             /\ Holder(i)' = r /\ Tries(i)' = Tries(i) + 1
  <2>1. i \in Items /\ work[i] \in Row /\ work[i].status \in {"pending", "failed"}
    BY <1>1 DEF Claimable, TypeOK
  <2>2. AbstractState(i) = "ready"
    BY <2>1, NotInHand, StandingIs
  <2>3. InHand(i)'
    BY <1>3, <2>1 DEF InHand, TypeOK
  <2> QED BY <1>3, <2>1, <2>2, <2>3, StandingNext, ClaimEffect DEF Holder, Tries
<1>5. \A i \in Items : Holder(i) \in {r, NoRuntime}
  BY <1>2 DEF Holder, InHand, Owned, ExecutionOwnsRow
<1>6. ASSUME NEW i \in Items \ S
      PROVE  Same(i)
  <2>1. InHand(i)' <=> InHand(i)
    BY <1>3 DEF InHand, TypeOK
  <2> QED BY <1>3, <2>1, SameWhen
<1>7. Abstract!Start(r, S)
  BY <1>4, <1>5, <1>6, Starts
<1> QED BY <1>7 DEF Abstract!AbstractNext

\* The outcome of an execution is written.
LEMMA EndStep ==
    ASSUME TypeOK, TypeOK', Owned, NEW r \in Runtimes, NEW i \in running[r],
           running' = [running EXCEPT ![r] = @ \ {i}],
           NEW row \in Row, work' = [work EXCEPT ![i] = row], row.attempt = work[i].attempt,
           row.status \in {"done", "failed"} \/ (row.status = "dead" /\ seen[r][i] >= MaxAttempts)
    PROVE  Abstract!AbstractNext
<1>1. /\ i \in Items /\ AbstractState(i) = "running" /\ Holder(i) = r
      /\ work[i].attempt = seen[r][i] /\ \A q \in Runtimes : i \in running[q] => q = r
  BY InHands
<1>2. ~InHand(i)' /\ work'[i] = row
  BY <1>1 DEF InHand, TypeOK
<1>3. AbstractState(i)' = Standing(row.status) /\ Holder(i)' = NoRuntime /\ Tries(i)' = Tries(i)
  BY <1>1, <1>2, StandingNext DEF Holder, Tries
<1>4. ASSUME NEW j \in Items \ {i}
      PROVE  Same(j)
  <2>1. (InHand(j)' <=> InHand(j)) /\ work'[j] = work[j]
    BY DEF InHand, TypeOK
  <2> QED BY <2>1, SameWhen
<1>5. Standing(row.status) \in {"ready", "finished", "abandoned"}
      /\ (Standing(row.status) = "abandoned" => Tries(i) >= MaxAttempts)
  BY <1>1, StandingIs DEF Tries
<1>6. Abstract!End(r, i, Standing(row.status))
  BY <1>1, <1>3, <1>4, <1>5, Ends
<1> QED BY <1>1, <1>5, <1>6 DEF Abstract!AbstractNext

LEMMA QuietStep ==
    ASSUME TypeOK, TypeOK', UNCHANGED running,
           \A i \in Items : /\ work'[i].status = work[i].status
                            /\ work'[i].worker = work[i].worker
                            /\ work'[i].attempt = work[i].attempt
    PROVE  UNCHANGED Abstract!abstractVars
<1>1. \A i \in Items : InHand(i)' <=> InHand(i)
  BY DEF InHand
<1>2. \A i \in Items : Same(i)
  BY <1>1, SameWhen
<1> QED BY <1>2, Stutter

LEMMA SubmitStep ==
    ASSUME TypeOK, TypeOK', Owned, NEW i \in Items, EnqueueWork(i)
    PROVE  Abstract!AbstractNext \/ UNCHANGED Abstract!abstractVars
<1>1. work[i] \in Row /\ work' = [work EXCEPT ![i] = Enqueued(work[i])] /\ running' = running
  BY DEF TypeOK, EnqueueWork
<1>2. CASE work[i].status = "processing"
  BY <1>1, <1>2, EnqueueEffect, QuietStep DEF TypeOK
<1>3. CASE work[i].status # "processing"
  <2>1. /\ work'[i].status = "pending" /\ work'[i].attempt = 0
        /\ \A j \in Items \ {i} : work'[j] = work[j]
    BY <1>1, <1>3 DEF TypeOK, Enqueued
  <2>2. \A j \in Items : InHand(j)' <=> InHand(j)
    BY <1>1 DEF InHand
  <2>3. ~InHand(i) /\ AbstractState(i) = Standing(work[i].status) /\ work[i].status \in Status
    BY <1>1, <1>3, NotInHand DEF Row
  <2>4. AbstractState(i) \notin {"running", "orphaned"}
    BY <1>3, <2>3, StandingIs
  <2>5. AbstractState(i)' = "ready" /\ Tries(i)' = 0 /\ Holder(i)' = Holder(i)
    BY <2>1, <2>2, <2>3, StandingNext, StandingIs DEF Tries, Holder
  <2>6. \A j \in Items \ {i} : Same(j)
    BY <2>1, <2>2, SameWhen
  <2>7. Abstract!Submit(i)
    BY <2>4, <2>5, <2>6, Submits
  <2> QED BY <2>7 DEF Abstract!AbstractNext
<1> QED BY <1>2, <1>3

LEMMA RefinementStep ==
    ASSUME TypeOK, TypeOK', Owned, [Next]_vars
    PROVE  [Abstract!AbstractNext]_(Abstract!abstractVars)
<1>1. ASSUME UNCHANGED <<work, running>>
      PROVE  UNCHANGED Abstract!abstractVars
  BY <1>1, QuietStep
<1>2. ASSUME NEW r \in Runtimes,
             \/ AcquireLease(r) \/ LeaseRefused(r) \/ NothingDue(r) \/ BatchEnd(r) \/ Signal(r)
             \/ ShutdownSeen(r) \/ ReleaseFails(r) \/ LeaseLost(r)
      PROVE  UNCHANGED <<work, running>>
  BY <1>2 DEF AcquireLease, LeaseRefused, NothingDue, BatchEnd, Signal, ShutdownSeen, ReleaseFails,
              LeaseLost
<1>3. ASSUME NEW r \in Runtimes, RecoverOrphans(r) \/ ResetStale(r)
      PROVE  Abstract!AbstractNext
  <2>1. \A i \in Items : ~InHand(i)
    BY <1>3 DEF Owned, HandsInBatch, HolderOnly, InHand, RecoverOrphans, ResetStale, InTask, InLoop
  <2>2. PICK S \in SUBSET Items :
            /\ \A i \in S : work[i].status = "processing"
            /\ work' = [i \in Items |-> IF i \in S THEN MadeRetryable(work[i]) ELSE work[i]]
    <3> DEFINE All == {i \in Items : work[i].status = "processing"}
               Stale == {i \in All : work[i].stale}
    <3>1. CASE RecoverOrphans(r)
      <4>1. work' = [i \in Items |-> IF i \in All THEN MadeRetryable(work[i]) ELSE work[i]]
        BY <3>1 DEF RecoverOrphans
      <4> QED BY <4>1
    <3>2. CASE ResetStale(r)
      <4>1. work' = [i \in Items |-> IF i \in Stale THEN MadeRetryable(work[i]) ELSE work[i]]
        BY <3>2 DEF ResetStale
      <4> QED BY <4>1
    <3> QED BY <1>3, <3>1, <3>2
  <2>3. running' = running
    BY <1>3 DEF RecoverOrphans, ResetStale
  <2> QED BY <2>1, <2>2, <2>3, ReclaimStep
<1>4. ASSUME NEW r \in Runtimes, ReleaseClaims(r) \/ Cleanup(r)
      PROVE  Abstract!AbstractNext
  <2> DEFINE S == {i \in Items : work[i].status = "processing" /\ work[i].worker = r}
  <2>1. running[r] = {}
    BY <1>4 DEF Owned, HandsInBatch, ReleaseClaims, Cleanup
  <2>2. \A i \in S : work[i].status = "processing" /\ ~InHand(i)
    BY <2>1 DEF InHand, Owned, ExecutionOwnsRow
  <2>3. /\ work' = [i \in Items |-> IF i \in S THEN MadeRetryable(work[i]) ELSE work[i]]
        /\ running' = running
    BY <1>4 DEF ReleaseClaims, Cleanup, ReleaseRows
  <2> QED BY <2>2, <2>3, ReclaimStep
<1>5. ASSUME NEW r \in Runtimes, NEW i \in Items, MarkDone(r, i) \/ FollowUpFails(r, i)
      PROVE  Abstract!AbstractNext
  <2>1. /\ i \in running[r] /\ work[i] \in Row /\ work' = [work EXCEPT ![i] = Completed(work[i])]
        /\ running' = [running EXCEPT ![r] = @ \ {i}]
    BY <1>5 DEF MarkDone, FollowUpFails, Drop, TypeOK
  <2>2. Completed(work[i]).attempt = work[i].attempt
    BY <2>1 DEF Completed, Row
  <2> QED BY <2>1, <2>2, CompletedType, CompletedEffect, EndStep
<1>6. ASSUME NEW r \in Runtimes, NEW i \in Items, MarkRetryOrDead(r, i)
      PROVE  Abstract!AbstractNext
  <2>1. /\ i \in running[r] /\ work[i] \in Row /\ seen[r][i] \in Nat
        /\ work' = [work EXCEPT ![i] = AfterFailure(work[i], seen[r][i])]
        /\ running' = [running EXCEPT ![r] = @ \ {i}]
    BY <1>6 DEF MarkRetryOrDead, Drop, TypeOK
  <2>2. AfterFailure(work[i], seen[r][i]).attempt = work[i].attempt
    BY <2>1 DEF AfterFailure, Row
  <2>3. LET row == AfterFailure(work[i], seen[r][i])
        IN  row.status \in {"done", "failed"} \/ (row.status = "dead" /\ seen[r][i] >= MaxAttempts)
    BY <2>1, FailureEffect
  <2> QED BY <2>1, <2>2, <2>3, AfterFailureType, EndStep
<1>7. ASSUME NEW r \in Runtimes, NEW i \in Items, MarkFails(r, i)
      PROVE  Abstract!AbstractNext
  <2>1. {i} \in SUBSET running[r] /\ work' = work /\ running' = [running EXCEPT ![r] = @ \ {i}]
    BY <1>7 DEF MarkFails, Drop
  <2> QED BY <2>1, InterruptStep
<1>8. ASSUME NEW r \in Runtimes, DatabaseError(r) \/ TaskReturns(r) \/ Abort(r) \/ Crash(r)
      PROVE  Abstract!AbstractNext
  <2>1. work' = work /\ running' = [running EXCEPT ![r] = {}]
    BY <1>8 DEF DatabaseError, TaskReturns, Abort, Crash, DropTask
  <2>2. running[r] \in SUBSET running[r] /\ running' = [running EXCEPT ![r] = @ \ running[r]]
    BY <2>1 DEF TypeOK
  <2> QED BY <2>1, <2>2, InterruptStep
<1>9. ASSUME NEW i \in Items, BecomesDue(i) \/ BecomesStale(i)
      PROVE  UNCHANGED Abstract!abstractVars
  <2>1. /\ running' = running
        /\ \/ work' = [work EXCEPT ![i].due = TRUE]
           \/ work' = [work EXCEPT ![i].stale = TRUE]
    BY <1>9 DEF BecomesDue, BecomesStale
  <2>2. work \in [Items -> Row]
    BY DEF TypeOK
  <2>3. ASSUME NEW j \in Items
        PROVE  /\ work'[j].status = work[j].status
               /\ work'[j].worker = work[j].worker
               /\ work'[j].attempt = work[j].attempt
    <3>1. work[j] \in Row
      BY <2>2
    <3>2. CASE work' = [work EXCEPT ![i].due = TRUE]
      BY <2>2, <3>1, <3>2 DEF Row
    <3>3. CASE work' = [work EXCEPT ![i].stale = TRUE]
      BY <2>2, <3>1, <3>3 DEF Row
    <3> QED BY <2>1, <3>2, <3>3
  <2> QED BY <2>1, <2>3, QuietStep
<1>10. ASSUME UNCHANGED vars
       PROVE  UNCHANGED Abstract!abstractVars
  BY <1>1, <1>10 DEF vars
<1> QED
  BY <1>1, <1>2, <1>3, <1>4, <1>5, <1>6, <1>7, <1>8, <1>9, <1>10, StartStep, SubmitStep
  DEF Next, Work, Leave, Fault, Environment

LEMMA RefinementInitially == Init => Abstract!AbstractInit
<1> SUFFICES ASSUME Init PROVE Abstract!AbstractInit
  OBVIOUS
<1>1. \A i \in Items : ~InHand(i) /\ work[i].status = "absent" /\ work[i].attempt = 0
  BY DEF Init, InHand, AbsentRow
<1>2. \A i \in Items : AbstractState(i) = "idle" /\ Holder(i) = NoRuntime /\ Tries(i) = 0
  BY <1>1 DEF AbstractState, Holder, Tries
<1> QED BY <1>2 DEF Holder, Tries, Abstract!AbstractInit

\* While the lease is sound, the rows, the lease, recovery, the stale reset, releases
\* and aborts together keep the promise of ExclusiveWork: each of their steps is one of
\* its steps, or none.
THEOREM Refinement == ~LeaseMayDrop => (Spec => ImplementsExclusiveWork)
<1> SUFFICES ASSUME ~LeaseMayDrop PROVE Spec => ImplementsExclusiveWork
  OBVIOUS
<1>1. TypeOK /\ TypeOK' /\ Owned /\ [Next]_vars => [Abstract!AbstractNext]_(Abstract!abstractVars)
  BY RefinementStep
<1> QED BY <1>1, RefinementInitially, Ownership, Typing, PTL
        DEF Spec, ImplementsExclusiveWork, Abstract!AbstractSpec

------------------------------------------------------------------------------
(* The bound on attempts. *)

LeftPhases == {"releasing", "closing", "cleanup", "stopped"}
Looping == \E r \in Runtimes : pc[r] \in InLoop
Left == Cardinality(LeftLoop)

\* Only what a runtime still in its loop has claimed may have used up its last
\* attempt without an outcome.
Room(row, looping, left) ==
    /\ row.attempt <= MaxAttempts + left
    /\ row.status \in {"failed", "processing"} =>
         row.attempt < MaxAttempts + left \/ (row.status = "processing" /\ looping)
    /\ row.status \in {"pending", "absent"} => row.attempt = 0

\* A call failed only in the batch at hand, and a runtime in its loop owns every row
\* that is processing, those whose mark failed included.
AttemptsInv ==
    /\ \A r \in failing : pc[r] = "working"
    /\ \A r \in Runtimes : pc[r] \in InLoop =>
         \A i \in Items : work[i].status = "processing" => work[i].worker = r
    /\ \A i \in Items : Room(work[i], Looping, Left)

LEMMA LeftFinite ==
    ASSUME IsFiniteSet(Runtimes)
    PROVE  IsFiniteSet(LeftLoop) /\ Left \in Nat /\ IsFiniteSet(LeftLoop)' /\ Left' \in Nat
<1>1. LeftLoop \in SUBSET Runtimes /\ LeftLoop' \in SUBSET Runtimes
  BY DEF LeftLoop
<1>2. IsFiniteSet(LeftLoop) /\ IsFiniteSet(LeftLoop')
  BY <1>1, FS_Subset
<1> QED BY <1>2, FS_CardinalityType DEF Left

LEMMA Moving ==
    ASSUME IsFiniteSet(Runtimes), TypeOK, NEW r \in Runtimes, NEW phase, GoTo(r, phase),
           pc[r] \in LeftPhases => phase \in LeftPhases
    PROVE  /\ Left \in Nat /\ Left' \in Nat /\ Left' >= Left
           /\ pc[r] \notin LeftPhases /\ phase \in LeftPhases => Left' = Left + 1
<1>1. IsFiniteSet(LeftLoop) /\ Left \in Nat /\ Left' \in Nat
  BY LeftFinite
<1>2. CASE pc[r] \notin LeftPhases /\ phase \in LeftPhases
  <2>1. LeftLoop' = LeftLoop \cup {r} /\ r \notin LeftLoop
    BY <1>2 DEF LeftLoop, LeftPhases, GoTo, TypeOK
  <2>2. Cardinality(LeftLoop \cup {r}) = Cardinality(LeftLoop) + 1
    BY <1>1, <2>1, FS_AddElement
  <2>3. Left' = Left + 1
    BY <2>1, <2>2 DEF Left
  <2> QED BY <1>1, <1>2, <2>3
<1>3. CASE ~(pc[r] \notin LeftPhases /\ phase \in LeftPhases)
  <2>1. LeftLoop' = LeftLoop
    BY <1>3 DEF LeftLoop, LeftPhases, GoTo, TypeOK
  <2> QED BY <1>1, <1>3, <2>1 DEF Left
<1> QED BY <1>2, <1>3

LEMMA Roomier ==
    ASSUME NEW row, row.attempt \in Nat, NEW looping \in BOOLEAN, NEW after \in BOOLEAN,
           NEW left \in Nat, NEW more \in Nat, Room(row, looping, left),
           more >= left, looping /\ ~after => more > left
    PROVE  Room(row, after, more)
<1>1. row.attempt <= MaxAttempts + more /\ (row.attempt < MaxAttempts + left => row.attempt < MaxAttempts + more)
  BY AttemptAssumption DEF Room
<1>2. row.status = "processing" /\ looping => row.attempt < MaxAttempts + more \/ after
  BY AttemptAssumption DEF Room
<1> QED BY <1>1, <1>2 DEF Room

\* A runtime goes on, or out of its loop for good, and the rows stay as they are.
LEMMA PhaseStep ==
    ASSUME IsFiniteSet(Runtimes), TypeOK, AttemptsInv, work' = work, NEW r \in Runtimes, NEW phase, GoTo(r, phase),
           pc[r] \in LeftPhases => phase \in LeftPhases,
           phase \in InLoop => pc[r] \in InLoop,
           pc[r] \in InLoop => phase \in InLoop \cup LeftPhases,
           failing' \in {failing, failing \ {r}}, r \in failing' => phase = "working"
    PROVE  AttemptsInv'
<1>1. /\ Left \in Nat /\ Left' \in Nat /\ Left' >= Left
      /\ pc[r] \notin LeftPhases /\ phase \in LeftPhases => Left' = Left + 1
  BY Moving
<1>2. pc' = [pc EXCEPT ![r] = phase] /\ pc'[r] = phase /\ \A q \in Runtimes \ {r} : pc'[q] = pc[q]
  BY DEF GoTo, TypeOK
<1>3. \A q \in failing' : pc'[q] = "working"
  BY <1>2 DEF AttemptsInv, TypeOK
<1>4. \A q \in Runtimes : pc'[q] \in InLoop => pc[q] \in InLoop
  BY <1>2
<1>5. Looping' => Looping
  BY <1>4 DEF Looping
<1>6. Looping /\ ~Looping' => Left' > Left
  <2>1. ASSUME Looping, ~Looping' PROVE pc[r] \in InLoop /\ phase \in LeftPhases
    BY <1>2, <2>1 DEF Looping
  <2>2. \A p \in InLoop : p \notin LeftPhases
    BY DEF InLoop, LeftPhases
  <2> QED BY <1>1, <2>1, <2>2
<1>7. ASSUME NEW i \in Items
      PROVE  Room(work'[i], Looping', Left')
  <2>1. work[i].attempt \in Nat /\ Room(work[i], Looping, Left)
    BY DEF TypeOK, Row, AttemptsInv
  <2>2. Looping \in BOOLEAN /\ Looping' \in BOOLEAN
    BY DEF Looping
  <2> QED BY <1>1, <1>6, <2>1, <2>2, Roomier
<1> QED BY <1>3, <1>4, <1>7 DEF AttemptsInv

\* No runtime leaves or enters its loop, and a row is as it was or has its room.
Steady == /\ Left' = Left
          /\ Looping' <=> Looping
          /\ \A r \in Runtimes : pc'[r] \in InLoop => pc[r] \in InLoop
Goes(i) == \/ work'[i] = work[i]
           \/ /\ Room(work'[i], Looping, Left)
              /\ \A r \in Runtimes : pc[r] \in InLoop /\ work'[i].status = "processing" => work'[i].worker = r

LEMMA SteadyWhen == pc' = pc => Steady
BY DEF Steady, Left, LeftLoop, Looping

LEMMA RowsStep ==
    ASSUME AttemptsInv, Steady, \A r \in failing' : pc'[r] = "working", \A i \in Items : Goes(i)
    PROVE  AttemptsInv'
<1>1. ASSUME NEW i \in Items
      PROVE  /\ Room(work'[i], Looping', Left')
             /\ \A r \in Runtimes : pc'[r] \in InLoop /\ work'[i].status = "processing" => work'[i].worker = r
  <2>1. Goes(i) /\ Room(work[i], Looping, Left)
    BY DEF AttemptsInv
  <2>2. Room(work'[i], Looping, Left)
    BY <2>1 DEF Goes
  <2>3. Room(work'[i], Looping', Left')
    BY <2>2 DEF Room, Steady
  <2> QED BY <2>1, <2>3 DEF Goes, Steady, AttemptsInv
<1> QED BY <1>1 DEF AttemptsInv

LEMMA AttemptsStep ==
    ASSUME IsFiniteSet(Runtimes), TypeOK, TypeOK', Owned, AttemptsInv, [Next]_vars
    PROVE  AttemptsInv'
<1>1. /\ Left \in Nat /\ MaxAttempts \in Nat \ {0}
      /\ \A i \in Items : work[i] \in Row /\ work[i].attempt \in Nat /\ Room(work[i], Looping, Left)
  BY LeftFinite, AttemptAssumption DEF TypeOK, Row, AttemptsInv
<1>2. \A r \in Runtimes : pc[r] \in InTask => \A q \in Runtimes : pc[q] \in InTask => q = r
  BY DEF Owned, HolderOnly
<1>3. ASSUME NEW r \in Runtimes,
             \/ AcquireLease(r) \/ LeaseRefused(r) \/ NothingDue(r) \/ BatchEnd(r)
             \/ ShutdownSeen(r) \/ ReleaseFails(r) \/ TaskReturns(r) \/ DatabaseError(r) \/ Abort(r) \/ Crash(r)
      PROVE  AttemptsInv'
  <2>1. work' = work /\ failing' \in {failing, failing \ {r}}
    BY <1>3 DEF AcquireLease, LeaseRefused, NothingDue, BatchEnd, ShutdownSeen, ReleaseFails, TaskReturns,
               DatabaseError, Abort, Crash, DropTask
  <2>2. PICK phase : /\ GoTo(r, phase)
                     /\ pc[r] \in LeftPhases => phase \in LeftPhases
                     /\ phase \in InLoop => pc[r] \in InLoop
                     /\ pc[r] \in InLoop => phase \in InLoop \cup LeftPhases
                     /\ r \in failing' => pc[r] # "working" \/ phase = "working"
    BY <1>3 DEF AcquireLease, LeaseRefused, NothingDue, BatchEnd, ShutdownSeen, ReleaseFails, TaskReturns,
               DatabaseError, Abort, Crash, DropTask, LeftPhases, InLoop, InTask
  <2>3. r \in failing' => phase = "working"
    BY <2>1, <2>2 DEF AttemptsInv
  <2> QED BY <2>1, <2>2, <2>3, PhaseStep
<1>4. ASSUME NEW r \in Runtimes, Signal(r) \/ LeaseLost(r)
      PROVE  AttemptsInv'
  <2>1. UNCHANGED <<work, pc, failing>>
    BY <1>4 DEF Signal, LeaseLost
  <2> QED BY <2>1 DEF AttemptsInv, Looping, Left, LeftLoop, Room
<1>5. ASSUME NEW i \in Items, work[i].status = "processing"
      PROVE  /\ ~Looping => Room(MadeRetryable(work[i]), Looping, Left)
             /\ MadeRetryable(work[i]).status = "failed"
             /\ MadeRetryable(work[i]).attempt = work[i].attempt
  BY <1>1, <1>5 DEF Room, MadeRetryable, Row
<1>6. ASSUME NEW r \in Runtimes, RecoverOrphans(r)
      PROVE  AttemptsInv'
  <2>1. ~Looping
    BY <1>2, <1>6 DEF Looping, RecoverOrphans, InTask, InLoop
  <2>2. PICK phase \in {"looping", "closing"} : GoTo(r, phase)
    BY <1>6 DEF RecoverOrphans
  <2>3. Left' \in Nat /\ Left' >= Left
    BY <1>6, <2>2, Moving DEF RecoverOrphans, LeftPhases
  <2>4. ASSUME NEW i \in Items
        PROVE  work'[i].status # "processing" /\ Room(work'[i], Looping', Left')
    <3>1. /\ work'[i].status # "processing" /\ work'[i].attempt \in Nat
          /\ Room(work'[i], FALSE, Left)
      <4>1. CASE work[i].status = "processing"
        <5>1. work'[i] = MadeRetryable(work[i])
          BY <1>6, <4>1 DEF RecoverOrphans
        <5>2. MadeRetryable(work[i]).status = "failed" /\ MadeRetryable(work[i]).attempt = work[i].attempt
          BY <1>5, <4>1
        <5> QED BY <1>1, <2>1, <4>1, <5>1, <5>2 DEF Room
      <4>2. CASE work[i].status # "processing"
        <5>1. work'[i] = work[i]
          BY <1>6, <4>2 DEF RecoverOrphans
        <5> QED BY <1>1, <2>1, <4>2, <5>1 DEF Room
      <4> QED BY <4>1, <4>2
    <3>2. Looping' \in BOOLEAN
      BY DEF Looping
    <3> QED BY <1>1, <2>3, <3>1, <3>2, Roomier
  <2>5. \A q \in failing' : pc'[q] = "working"
    BY <1>6, <2>2 DEF RecoverOrphans, GoTo, AttemptsInv, TypeOK
  <2> QED BY <2>4, <2>5 DEF AttemptsInv
<1>7. ASSUME NEW r \in Runtimes, ResetStale(r)
      PROVE  AttemptsInv'
  <2>1. /\ pc[r] = "looping" /\ running[r] = {} /\ lease = r /\ r \notin failing
    BY <1>7 DEF ResetStale, Owned, HolderOnly, HandsInBatch, AttemptsInv, InTask, InLoop
  <2>2. \A i \in Items : work[i].status # "processing"
    BY <2>1 DEF Owned, NoOrphanInLoop, InLoop
  <2>3. work' = work
    BY <1>7, <2>2 DEF ResetStale, TypeOK
  <2> QED BY <1>7, <2>1, <2>3, PhaseStep DEF ResetStale, InLoop, LeftPhases
<1>8. ASSUME NEW r \in Runtimes, Claim(r) \/ ClaimBatch(r)
      PROVE  AttemptsInv'
  <2>1. PICK S \in SUBSET Items : TakeAll(r, S) /\ \A i \in S : Claimable(work[i])
    BY <1>8, TakesDue
  <2>2. PICK phase \in {"batching", "working"} : GoTo(r, phase)
    BY <1>8 DEF Claim, ClaimBatch
  <2>3. /\ pc[r] \in InLoop /\ pc[r] \in {"claiming", "batching"} /\ failing' = failing
        /\ pc'[r] = phase /\ \A q \in Runtimes \ {r} : pc'[q] = pc[q]
    BY <1>8, <2>2 DEF Claim, ClaimBatch, InLoop, GoTo, TypeOK
  <2>4. /\ Looping /\ Looping' /\ \A q \in Runtimes : pc'[q] \in InLoop => pc[q] \in InLoop
        /\ LeftLoop' = LeftLoop
    BY <2>3 DEF Looping, InLoop, LeftLoop
  <2>5. \A q \in failing' : pc'[q] = "working"
    BY <2>3 DEF AttemptsInv, TypeOK
  <2>6. ASSUME NEW i \in S
        PROVE  Room(work'[i], Looping, Left) /\ work'[i].worker = r
    <3>1. work[i].attempt < MaxAttempts + Left
      BY <1>1, <2>1 DEF Claimable, Room
    <3>2. /\ work'[i].status = "processing" /\ work'[i].worker = r /\ work'[i].attempt = work[i].attempt + 1
      BY <1>1, <2>1, ClaimEffect DEF TakeAll
    <3> QED BY <1>1, <2>4, <3>1, <3>2 DEF Room
  <2>7. \A q \in Runtimes : pc[q] \in InLoop => q = r
    BY <1>2, <2>3 DEF InTask
  <2>8. \A i \in Items \ S : work'[i] = work[i]
    BY <2>1 DEF TakeAll
  <2>9. \A j \in Items : Goes(j)
    BY <2>6, <2>7, <2>8 DEF Goes
  <2>10. Steady
    BY <2>4 DEF Steady, Left
  <2> QED BY <2>4, <2>5, <2>9, <2>10, RowsStep
<1>9. ASSUME NEW r \in Runtimes, NEW i \in Items,
             MarkDone(r, i) \/ FollowUpFails(r, i) \/ MarkRetryOrDead(r, i) \/ MarkFails(r, i)
      PROVE  AttemptsInv'
  <2>1. /\ pc[r] = "working" /\ pc' = pc /\ failing' \in {failing, failing \cup {r}}
        /\ i \in running[r] /\ work[i].attempt = seen[r][i]
        /\ work' \in {work, [work EXCEPT ![i] = Completed(@)], [work EXCEPT ![i] = AfterFailure(@, seen[r][i])]}
    BY <1>9 DEF MarkDone, FollowUpFails, MarkRetryOrDead, MarkFails, Owned, ExecutionOwnsRow
  <2>2. \A q \in failing' : pc'[q] = "working"
    BY <2>1 DEF AttemptsInv
  <2>3. \A j \in Items \ {i} : work'[j] = work[j]
    BY <2>1 DEF TypeOK
  <2>4. work'[i] \in {work[i], Completed(work[i]), AfterFailure(work[i], work[i].attempt)}
    BY <2>1 DEF TypeOK
  <2>5. Room(Completed(work[i]), Looping, Left) /\ Completed(work[i]).status = "done"
    BY <1>1 DEF Completed, Room, Row
  <2>6. Room(AfterFailure(work[i], work[i].attempt), Looping, Left)
        /\ AfterFailure(work[i], work[i].attempt).status # "processing"
    <3> DEFINE row == AfterFailure(work[i], work[i].attempt)
    <3>1. /\ row.attempt = work[i].attempt /\ row.status \in {"failed", "dead"}
          /\ row.status = "failed" => work[i].attempt < MaxAttempts
      BY <1>1 DEF AfterFailure, Row
    <3> HIDE DEF row
    <3>2. Room(row, Looping, Left)
      BY <1>1, <3>1 DEF Room
    <3> QED BY <3>1, <3>2 DEF row
  <2>7. \A j \in Items : Goes(j)
    BY <2>3, <2>4, <2>5, <2>6 DEF Goes
  <2> QED BY <2>1, <2>2, <2>7, RowsStep, SteadyWhen
<1>10. ASSUME NEW r \in Runtimes, ReleaseClaims(r) \/ Cleanup(r)
      PROVE  AttemptsInv'
  <2>1. /\ pc[r] \in {"releasing", "cleanup"} /\ failing' = failing
        /\ \E phase \in {"closing", "stopped"} : GoTo(r, phase)
    BY <1>10 DEF ReleaseClaims, Cleanup
  <2>2. PICK phase \in {"closing", "stopped"} : GoTo(r, phase)
    BY <2>1
  <2>3. /\ pc'[r] = phase /\ \A q \in Runtimes \ {r} : pc'[q] = pc[q]
    BY <2>2 DEF GoTo, TypeOK
  <2>4. /\ LeftLoop' = LeftLoop /\ (Looping' <=> Looping)
        /\ \A q \in Runtimes : pc'[q] \in InLoop <=> pc[q] \in InLoop
    BY <2>1, <2>2, <2>3 DEF LeftLoop, Looping, InLoop
  <2>5. \A q \in failing' : pc'[q] = "working"
    BY <2>1, <2>3 DEF AttemptsInv, TypeOK
  <2>6. ASSUME NEW i \in Items, work[i].status = "processing", work[i].worker = r
        PROVE  ~Looping
    BY <2>1, <2>6 DEF AttemptsInv, Looping, InLoop
  <2>7. ASSUME NEW i \in Items
        PROVE  /\ Room(work'[i], Looping, Left)
               /\ work'[i] = work[i] \/ work'[i].status # "processing"
    <3>1. CASE work[i].status = "processing" /\ work[i].worker = r
      <4>1. work'[i] = MadeRetryable(work[i])
        BY <1>10, <3>1 DEF ReleaseClaims, Cleanup, ReleaseRows
      <4> QED BY <1>5, <2>6, <3>1, <4>1
    <3>2. CASE ~(work[i].status = "processing" /\ work[i].worker = r)
      <4>1. work'[i] = work[i]
        BY <1>10, <3>2 DEF ReleaseClaims, Cleanup, ReleaseRows
      <4> QED BY <1>1, <4>1
    <3> QED BY <3>1, <3>2
  <2>8. \A i \in Items : Room(work'[i], Looping', Left')
    BY <2>4, <2>7 DEF Room, Left
  <2> QED BY <2>4, <2>5, <2>7, <2>8 DEF AttemptsInv
<1>11. ASSUME NEW i \in Items, EnqueueWork(i) \/ BecomesDue(i) \/ BecomesStale(i)
      PROVE  AttemptsInv'
  <2>1. /\ UNCHANGED <<pc, failing>> /\ \A j \in Items \ {i} : work'[j] = work[j]
        /\ work[i] \in Row /\ work[i].status \in Status
    BY <1>11 DEF EnqueueWork, BecomesDue, BecomesStale, TypeOK, Row
  <2>2. \/ work'[i] = work[i]
        \/ work'[i].status = "pending" /\ work'[i].attempt = 0
        \/ /\ work'[i].status = work[i].status /\ work'[i].attempt = work[i].attempt
           /\ work'[i].worker = work[i].worker
    BY <1>11, <2>1 DEF EnqueueWork, BecomesDue, BecomesStale, Enqueued, TypeOK, Row
  <2>3. Room(work'[i], Looping, Left)
    BY <1>1, <2>2 DEF Room
  <2>4. \A q \in Runtimes : pc[q] \in InLoop /\ work'[i].status = "processing" => work'[i].worker = q
    BY <2>2 DEF AttemptsInv
  <2>5. \A q \in failing' : pc'[q] = "working"
    BY <2>1 DEF AttemptsInv
  <2>6. \A j \in Items : Goes(j)
    BY <2>1, <2>3, <2>4 DEF Goes
  <2> QED BY <2>1, <2>5, <2>6, RowsStep, SteadyWhen
<1>12. CASE UNCHANGED vars
  BY <1>12 DEF vars, AttemptsInv, Looping, Left, LeftLoop, Room
<1> QED
  BY <1>3, <1>4, <1>6, <1>7, <1>8, <1>9, <1>10, <1>11, <1>12
  DEF Next, Work, Leave, Fault, Environment

LEMMA AttemptsInitially == ASSUME IsFiniteSet(Runtimes), Init PROVE AttemptsInv
<1>1. Left \in Nat /\ MaxAttempts \in Nat
  BY LeftFinite, AttemptAssumption
<1>2. \A i \in Items : work[i].status = "absent" /\ work[i].attempt = 0
  BY DEF Init, AbsentRow
<1>3. failing = {} /\ \A r \in Runtimes : pc[r] \notin InLoop
  BY DEF Init, InLoop
<1> QED BY <1>1, <1>2, <1>3 DEF AttemptsInv, Room

\* attempt_count stays within max_attempts and one attempt more for each runtime that
\* has left its loop: crashes and aborts cost attempts, nothing else does.
THEOREM AttemptsHold ==
    ~LeaseMayDrop /\ IsFiniteSet(Runtimes) => (Spec => []AttemptsBounded)
<1> SUFFICES ASSUME ~LeaseMayDrop, IsFiniteSet(Runtimes) PROVE Spec => []AttemptsBounded
  OBVIOUS
<1>1. Init => AttemptsInv
  BY AttemptsInitially
<1>2. TypeOK /\ TypeOK' /\ Owned /\ AttemptsInv /\ [Next]_vars => AttemptsInv'
  BY AttemptsStep
<1>3. AttemptsInv => AttemptsBounded
  BY DEF AttemptsInv, AttemptsBounded, Room, Left
<1> QED BY <1>1, <1>2, <1>3, Ownership, Typing, PTL DEF Spec
==============================================================================
