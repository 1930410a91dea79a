------------------------- MODULE CorePipeline_proofs -------------------------
(***************************************************************************)
(* Proofs about CorePipeline: for any mail, any bounds and any number of   *)
(* faults, moves need the opt-in; every variable keeps its type and the    *)
(* row in execution stays claimed; and the planner's check-then-insert     *)
(* keeps one active row of every type that one process alone plans.        *)
(***************************************************************************)
EXTENDS CorePipeline, SequenceTheorems, FiniteSetTheorems, TLAPS

Statuses == {"inactive", "pending", "processing", "failed"}
RowsTyped == rows \in [RowIds -> [status : Statuses, attempt : Nat]]

------------------------------------------------------------------------------
(* The mail. *)

StageTyped == stage \in [Mail -> Stages]

\* What a step may make of the mail: known mail stays known, and only a start
\* with the opt-in settles what waits for its move.
MailMoves ==
    \A m \in Mail :
        /\ stage'[m] \in Stages
        /\ stage[m] # "unknown" => stage'[m] # "unknown"
        /\ stage[m] = "unfiled" /\ stage'[m] # "unfiled" => fileApply

\* A pass changes the mail of some stages; each pass reads its own.
LEMMA Changed ==
    ASSUME StageTyped, NEW S \in SUBSET Mail, StageTyped',
           \A m \in Mail \ S : stage'[m] = stage[m],
           \A m \in S : stage'[m] # "unknown" /\ (stage[m] # "unfiled" \/ fileApply)
    PROVE  MailMoves
BY DEF MailMoves, StageTyped

LEMMA SyncMoves ==
    ASSUME StageTyped, NEW incremental \in BOOLEAN, SyncEffect(incremental)
    PROVE  StageTyped' /\ MailMoves
<1>1. PICK new \in SUBSET MailAt({"unknown"}), fetched \in SUBSET Mail :
        fetched \subseteq new \cup BodyMissing /\
        stage' = [m \in Mail |-> IF m \in fetched THEN "ready"
                                 ELSE IF m \in new THEN "bodyless" ELSE stage[m]]
  BY DEF SyncEffect, MailAt, BodyMissing
<1>2. StageTyped'
  BY <1>1 DEF StageTyped, Stages
<1>3. new \cup fetched \in SUBSET Mail
  BY DEF MailAt, BodyMissing
<1>4. \A m \in new \cup fetched : stage[m] # "unfiled" /\ stage'[m] # "unknown"
  BY <1>1 DEF MailAt, BodyMissing
<1>5. \A m \in Mail \ (new \cup fetched) : stage'[m] = stage[m]
  BY <1>1
<1> QED BY <1>2, <1>3, <1>4, <1>5, Changed

LEMMA PassMoves ==
    ASSUME StageTyped, Execute
    PROVE  StageTyped' /\ MailMoves
<1>1. ASSUME stage' = stage PROVE StageTyped' /\ MailMoves
  BY <1>1 DEF StageTyped, MailMoves
<1>2. CASE RunSync
  BY <1>2, SyncMoves DEF RunSync
<1>3. CASE RunBodySync
  <2>1. PICK fetched \in SUBSET BodyMissing : stage' = Becomes(fetched, "ready")
    BY <1>3 DEF RunBodySync
  <2>2. StageTyped'
    BY <2>1 DEF Becomes, StageTyped, Stages
  <2>3. \A m \in fetched : m \in Mail /\ stage[m] # "unfiled" /\ stage'[m] # "unknown"
    BY <2>1 DEF BodyMissing, MailAt, Becomes
  <2>4. \A m \in Mail \ fetched : stage'[m] = stage[m]
    BY <2>1 DEF Becomes
  <2> QED BY <2>2, <2>3, <2>4, Changed
<1>4. CASE RunAnalyze
  <2>1. ASSUME NEW reached \in SUBSET MailAt({"ready"}),
               NEW failed \in SUBSET reached, NEW toLocate \in SUBSET (reached \ failed),
               NEW never \in SUBSET toLocate,
               stage' = Analyzed(reached, failed, toLocate, never)
        PROVE  StageTyped' /\ MailMoves
    <3>1. \A m : AfterFailedAnalysis(m) \in {"given_up", "backoff"}
      BY DEF AfterFailedAnalysis
    <3>2. StageTyped'
      BY <2>1, <3>1 DEF Analyzed, StageTyped, Stages
    <3>3. \A m \in reached : m \in Mail /\ stage[m] # "unfiled" /\ stage'[m] # "unknown"
      BY <2>1, <3>1 DEF Analyzed, MailAt
    <3>4. \A m \in Mail \ reached : stage'[m] = stage[m]
      BY <2>1 DEF Analyzed
    <3> QED BY <3>2, <3>3, <3>4, Changed
  <2>2. PICK reached \in SUBSET MailAt({"ready"}) : \E failed \in SUBSET reached :
             \E toLocate \in SUBSET (reached \ failed) : \E never \in SUBSET toLocate :
               stage' = Analyzed(reached, failed, toLocate, never)
    BY <1>4 DEF RunAnalyze
  <2> QED BY <2>1, <2>2
<1>5. CASE RunLocate
  <2>1. PICK located \in SUBSET ToLocate : \E inPlace \in SUBSET located :
          stage' = [m \in Mail |-> IF m \in inPlace THEN "settled"
                                   ELSE IF m \in located THEN "unfiled" ELSE stage[m]]
    BY <1>5 DEF RunLocate
  <2>2. StageTyped'
    BY <2>1 DEF StageTyped, Stages
  <2>3. \A m \in located : m \in Mail /\ stage[m] # "unfiled" /\ stage'[m] # "unknown"
    BY <2>1 DEF ToLocate, MailAt
  <2>4. \A m \in Mail \ located : stage'[m] = stage[m]
    BY <2>1
  <2> QED BY <2>2, <2>3, <2>4, Changed
<1>6. CASE RunFileApply
  <2>1. PICK moved \in SUBSET (IF fileApply THEN FilingPending ELSE {}) :
          stage' = Becomes(moved, "settled")
    BY <1>6 DEF RunFileApply
  <2>2. StageTyped'
    BY <2>1 DEF Becomes, StageTyped, Stages
  <2>3. \A m \in moved : m \in Mail /\ fileApply /\ stage'[m] # "unknown"
    BY <2>1 DEF FilingPending, MailAt, Becomes
  <2>4. \A m \in Mail \ moved : stage'[m] = stage[m]
    BY <2>1 DEF Becomes
  <2> QED BY <2>2, <2>3, <2>4, Changed
<1>7. CASE RunEmbed \/ RunFilePreview \/ RunHeartbeat
  BY <1>1, <1>7 DEF RunEmbed, RunFilePreview, RunHeartbeat, mailVars
<1> QED BY <1>2, <1>3, <1>4, <1>5, <1>6, <1>7 DEF Execute

LEMMA MailStep ==
    ASSUME StageTyped, [Next]_vars
    PROVE  StageTyped' /\ MailMoves
<1>1. ASSUME stage' = stage PROVE StageTyped' /\ MailMoves
  BY <1>1 DEF StageTyped, MailMoves
<1>2. CASE Boot \/ BackgroundStart \/ Crash \/ UNCHANGED vars
  BY <1>1, <1>2 DEF Boot, BackgroundStart, Crash, vars, mailVars
<1>3. ASSUME NEW p \in {"core", "background"}, Enqueue(p) PROVE StageTyped' /\ MailMoves
  BY <1>1, <1>3 DEF Enqueue, EnqueueSkips, EnqueueChecked, EnqueueInserts, mailVars
<1>4. CASE Execute
  BY <1>4, PassMoves
<1>5. CASE PlanDone \/ Claim \/ Sleep \/ Wake \/ MarkDone \/ FollowUp \/ MarkRetryOrDead
  BY <1>1, <1>5 DEF PlanDone, Claim, Sleep, Wake, MarkDone, FollowUp, MarkRetryOrDead, mailVars
<1>6. CASE BackgroundRun
  BY <1>6, SyncMoves DEF BackgroundRun
<1>7. CASE BackgroundFollowUp \/ BackgroundDone
  BY <1>1, <1>7 DEF BackgroundFollowUp, BackgroundDone, mailVars
<1>8. ASSUME NEW m \in Mail, BackoffExpires(m) PROVE StageTyped' /\ MailMoves
  <2>1. StageTyped' /\ stage'[m] = "ready" /\ stage[m] = "backoff"
    BY <1>8 DEF BackoffExpires, StageTyped, Stages
  <2>2. \A o \in Mail \ {m} : stage'[o] = stage[o]
    BY <1>8 DEF BackoffExpires, StageTyped
  <2> QED BY <2>1, <2>2, Changed
<1>9. CASE (\E id \in RowIds : RetryDue(id)) \/ HeartbeatAges
  BY <1>1, <1>9 DEF RetryDue, HeartbeatAges, mailVars
<1> QED BY <1>2, <1>3, <1>4, <1>5, <1>6, <1>7, <1>8, <1>9
        DEF Next, Coordinator, BackgroundLoop, Time

\* Core moves mail only in a start with CORE_FILE_APPLY, whatever rows an earlier
\* start has left, with any mail and any crashes, and the background loop beside.
THEOREM NoMoveWithoutOptIn == Spec => MovesNeedOptIn
<1>1. Init => StageTyped
  BY DEF Init, StageTyped, Stages
<1>2. StageTyped /\ [Next]_vars => StageTyped' /\ [MailMoves]_vars
  BY MailStep
<1>3. MailMoves => \A m \in Mail : stage[m] = "unfiled" /\ stage'[m] # "unfiled" => fileApply
  BY DEF MailMoves
<1> QED BY <1>1, <1>2, <1>3, PTL DEF Spec, MovesNeedOptIn

------------------------------------------------------------------------------
(* Typing. *)

\* Removing an element of a sequence without repetitions leaves the others.
LEMMA RemoveFirstProperties ==
    ASSUME NEW S, NEW q \in Seq(S), IsInjective(q), NEW e
    PROVE  /\ RemoveFirst(q, e) \in Seq(S)
           /\ IsInjective(RemoveFirst(q, e))
           /\ ToSet(RemoveFirst(q, e)) = ToSet(q) \ {e}
<1>0. Len(q) \in Nat /\ DOMAIN q = 1 .. Len(q) /\ \A i \in 1 .. Len(q) : q[i] \in S
  BY LenProperties, ElementOfSeq
<1>1. CASE ~\E i \in 1 .. Len(q) : q[i] = e
  BY <1>0, <1>1 DEF RemoveFirst, ToSet
<1>2. CASE \E i \in 1 .. Len(q) : q[i] = e
  <2>1. PICK k \in 1 .. Len(q) : q[k] = e
    BY <1>2
  <2>2. \A i \in 1 .. Len(q) : q[i] = e => i = k
    BY <1>0, <2>1 DEF IsInjective
  <2>3. SelectInSeq(q, LAMBDA v : v = e) = k
    <3>1. {i \in 1 .. Len(q) : q[i] = e} = {k}
      BY <2>1, <2>2
    <3>2. Min({k}) = k
      BY <2>1 DEF Min
    <3> QED BY <3>1, <3>2 DEF SelectInSeq
  <2> DEFINE a == SubSeq(q, 1, k - 1)
             b == SubSeq(q, k + 1, Len(q))
             r == a \o b
  <2>4. RemoveFirst(q, e) = r
    BY <1>2, <2>3 DEF RemoveFirst, RemoveAt
  <2>5. a \in Seq(S) /\ Len(a) = k - 1 /\ \A i \in 1 .. k - 1 : a[i] = q[i]
    <3>1. 1 \in Int /\ k - 1 \in Int /\ \A i \in 1 .. k - 1 : q[i] \in S
      BY <1>0
    <3> QED BY <3>1, SubSeqProperties, <1>0
  <2>6. b \in Seq(S) /\ Len(b) = Len(q) - k /\ \A i \in 1 .. Len(q) - k : b[i] = q[k + i]
    <3>1. k + 1 \in Int /\ Len(q) \in Int /\ \A i \in k + 1 .. Len(q) : q[i] \in S
      BY <1>0
    <3> HIDE DEF b
    <3>2. b \in Seq(S) /\ Len(b) = (IF k + 1 <= Len(q) THEN Len(q) - (k + 1) + 1 ELSE 0)
          /\ \A i \in 1 .. Len(q) - (k + 1) + 1 : b[i] = q[k + 1 + i - 1]
      BY <3>1, SubSeqProperties DEF b
    <3>3. Len(b) = Len(q) - k
      <4>1. Len(q) \in Nat /\ k \in 1 .. Len(q)
            /\ Len(b) = (IF k + 1 <= Len(q) THEN Len(q) - (k + 1) + 1 ELSE 0)
        BY <3>2, <1>0
      <4> QED BY <4>1
    <3>4. Len(q) - (k + 1) + 1 = Len(q) - k /\ \A i \in 1 .. Len(q) - k : k + 1 + i - 1 = k + i
      BY <1>0
    <3> QED BY <3>2, <3>3, <3>4
  <2> HIDE DEF a, b
  <2>7. r \in Seq(S) /\ Len(r) = Len(q) - 1
        /\ \A i \in 1 .. Len(q) - 1 : r[i] = IF i < k THEN q[i] ELSE q[i + 1]
    <3>1. r \in Seq(S) /\ Len(r) = Len(a) + Len(b)
          /\ \A i \in 1 .. Len(a) + Len(b) : r[i] = IF i <= Len(a) THEN a[i] ELSE b[i - Len(a)]
      BY <2>5, <2>6, ConcatProperties
    <3> HIDE DEF r
    <3>2. Len(r) = Len(q) - 1
      BY <3>1, <2>5, <2>6, <1>0
    <3>3. ASSUME NEW i \in 1 .. Len(q) - 1 PROVE r[i] = IF i < k THEN q[i] ELSE q[i + 1]
      <4>1. CASE i < k
        <5>1. i \in 1 .. Len(a) + Len(b) /\ i <= Len(a) /\ i \in 1 .. k - 1
          BY <4>1, <2>5, <2>6, <1>0
        <5>2. r[i] = a[i]
          BY <5>1, <3>1
        <5> QED BY <5>1, <5>2, <4>1, <2>5
      <4>2. CASE ~(i < k)
        <5>1. i - (k - 1) \in 1 .. Len(q) - k /\ k + (i - (k - 1)) = i + 1
          BY <4>2, <1>0
        <5>2. i \in 1 .. Len(a) + Len(b) /\ ~(i <= Len(a)) /\ i - Len(a) = i - (k - 1)
          BY <4>2, <2>5, <2>6, <1>0
        <5>3. r[i] = b[i - (k - 1)]
          BY <5>2, <3>1
        <5> QED BY <5>1, <5>3, <4>2, <2>6
      <4> QED BY <4>1, <4>2
    <3> QED BY <3>1, <3>2, <3>3
  <2> HIDE DEF r
  <2>8. DOMAIN r = 1 .. Len(q) - 1
    BY <2>7, LenProperties
  <2>9. IsInjective(r)
    <3> SUFFICES ASSUME NEW i \in 1 .. Len(q) - 1, NEW j \in 1 .. Len(q) - 1, r[i] = r[j]
                 PROVE  i = j
      BY <2>8 DEF IsInjective
    <3> DEFINE p(n) == IF n < k THEN n ELSE n + 1
    <3>1. p(i) \in DOMAIN q /\ p(j) \in DOMAIN q /\ q[p(i)] = q[p(j)]
      BY <2>7, <1>0
    <3>2. p(i) = p(j)
      BY <3>1 DEF IsInjective
    <3> QED BY <3>2
  <2>10. ToSet(r) \subseteq ToSet(q) \ {e}
    <3> SUFFICES ASSUME NEW i \in 1 .. Len(q) - 1
                 PROVE  \E j \in DOMAIN q : r[i] = q[j] /\ q[j] # e
      BY <2>8 DEF ToSet
    <3>1. CASE i < k
      <4>1. i \in 1 .. Len(q) /\ i # k
        BY <3>1, <1>0
      <4> QED BY <3>1, <4>1, <1>0, <2>2, <2>7
    <3>2. CASE ~(i < k)
      <4>1. i + 1 \in 1 .. Len(q) /\ i + 1 # k
        BY <3>2, <1>0
      <4> QED BY <3>2, <4>1, <1>0, <2>2, <2>7
    <3> QED BY <3>1, <3>2
  <2>11. ToSet(q) \ {e} \subseteq ToSet(r)
    <3> SUFFICES ASSUME NEW j \in 1 .. Len(q), q[j] # e
                 PROVE  \E i \in DOMAIN r : r[i] = q[j]
      BY <1>0 DEF ToSet
    <3>1. CASE j < k
      BY <3>1, <1>0, <2>7, <2>8
    <3>2. CASE j > k
      <4>1. j - 1 \in 1 .. Len(q) - 1 /\ ~(j - 1 < k) /\ j - 1 + 1 = j
        BY <3>2, <1>0
      <4> QED BY <4>1, <2>7, <2>8
    <3> QED BY <3>1, <3>2, <2>1
  <2> QED BY <2>4, <2>7, <2>9, <2>10, <2>11
<1> QED BY <1>1, <1>2

LEMMA RowIdsFinite == IsFiniteSet(RowIds)
<1> DEFINE Types == {"sync_full", "sync_incremental", "sync_body", "analyze", "embed", "locate",
                     "file_preview", "file_apply", "assistant_heartbeat"}
           Keys == {"bootstrap", "periodic", "body-backlog", "pipeline", "agent",
                    "assistant-heartbeat"}
<1>1. IsFiniteSet(Types) /\ IsFiniteSet(Keys)
  <2>1. \A a, b, c : IsFiniteSet({a, b, c})
    <3>1. ASSUME NEW a, NEW b, NEW c PROVE IsFiniteSet({a, b, c})
      <4>1. IsFiniteSet({a} \cup {b})
        BY FS_Singleton, FS_Union
      <4>2. IsFiniteSet(({a} \cup {b}) \cup {c})
        BY <4>1, FS_Singleton, FS_Union
      <4>3. ({a} \cup {b}) \cup {c} = {a, b, c}
        OBVIOUS
      <4> QED BY <4>2, <4>3
    <3> QED BY <3>1
  <2>2. Keys = {"bootstrap", "periodic", "body-backlog"}
               \cup {"pipeline", "agent", "assistant-heartbeat"}
    OBVIOUS
  <2>3. Types = ({"sync_full", "sync_incremental", "sync_body"} \cup {"analyze", "embed", "locate"})
                \cup {"file_preview", "file_apply", "assistant_heartbeat"}
    OBVIOUS
  <2> HIDE DEF Types, Keys
  <2>4. \A A, B : IsFiniteSet(A) /\ IsFiniteSet(B) => IsFiniteSet(A \cup B)
    BY FS_Union
  <2>5. IsFiniteSet(Keys)
    BY <2>1, <2>2, <2>4
  <2>6. IsFiniteSet({"sync_full", "sync_incremental", "sync_body"} \cup {"analyze", "embed", "locate"})
    BY <2>1, <2>4
  <2> QED BY <2>1, <2>3, <2>4, <2>5, <2>6
<1>2. RowIds \subseteq Types \X Keys
  BY DEF RowIds
<1> QED BY <1>1, <1>2, FS_Product, FS_Subset

MailTyped ==
    /\ StageTyped
    /\ tries \in [Mail -> 0 .. MaxAnalysisAttempts]
    /\ unembedded \in SUBSET Mail
QueueTyped ==
    /\ RowsTyped
    /\ queue \in Seq(RowIds) /\ IsInjective(queue)
    /\ \A id \in ToSet(queue) : rows[id].status \in {"pending", "failed"}
PlansTyped ==
    /\ plan \in [Processes -> Seq(RowIds)]
    /\ checked \in [Processes -> BOOLEAN]
ControlTyped ==
    /\ heartbeatRecent \in BOOLEAN
    /\ core \in CorePhases
    /\ doing \in RowIds \cup {NoRow}
    /\ result \in {"none", "ok", "error"}
    /\ background \in {"off", "waiting", "syncing", "synced", "planning"}
    /\ fileApply \in BOOLEAN
    /\ faults \in 0 .. FaultBudget

\* Only a message that is given up has no attempt left.
TriesLeft == \A m \in Mail : stage[m] # "given_up" => tries[m] < MaxAnalysisAttempts

\* The item in execution is a row, claimed until its outcome is written.
DoingHeld ==
    /\ core \in {"executing", "marking", "marked"} => doing \in RowIds
    /\ core \in {"executing", "marking"} => rows[doing].status = "processing"

MailInv == MailTyped /\ TriesLeft
RowsInv == QueueTyped /\ ControlTyped /\ DoingHeld
TypeInv == MailInv /\ RowsInv /\ PlansTyped

LEMMA TypeInvTypes == TypeInv => TypeOK
BY DEF TypeInv, MailInv, RowsInv, MailTyped, StageTyped, QueueTyped, RowsTyped, Statuses,
       PlansTyped, ControlTyped, TypeOK

LEMMA InitTyped == Init => TypeInv
<1> SUFFICES ASSUME Init PROVE TypeInv
  OBVIOUS
<1>1. MailInv
  BY AnalysisAssumption DEF Init, MailInv, MailTyped, StageTyped, Stages, TriesLeft
<1>2. RowsInv
  <2>1. <<>> \in Seq(RowIds) /\ IsInjective(<<>>) /\ ToSet(<<>>) = {}
    BY DEF IsInjective, ToSet
  <2>2. QueueTyped
    BY <2>1 DEF Init, QueueTyped, RowsTyped, Statuses
  <2>3. ControlTyped
    <3>1. fileApply \in BOOLEAN
      BY ApplyAssumption DEF Init
    <3>2. faults \in 0 .. FaultBudget
      BY BudgetAssumption DEF Init
    <3> QED BY <3>1, <3>2, Zenon DEF Init, ControlTyped, CorePhases
  <2> QED BY <2>2, <2>3 DEF Init, RowsInv, DoingHeld
<1>3. PlansTyped
  BY DEF Init, PlansTyped
<1> QED BY <1>1, <1>2, <1>3 DEF TypeInv

------------------------------------------------------------------------------
(* The mail is typed. *)

LEMMA SyncTyped ==
    ASSUME MailInv, NEW incremental, SyncEffect(incremental)
    PROVE  MailInv'
<1>1. PICK new \in SUBSET MailAt({"unknown"}), fetched \in SUBSET Mail :
        /\ fetched \subseteq new \cup BodyMissing
        /\ stage' = [m \in Mail |-> IF m \in fetched THEN "ready"
                                    ELSE IF m \in new THEN "bodyless" ELSE stage[m]]
        /\ unembedded' = unembedded \cup fetched
        /\ tries' = tries
  BY DEF SyncEffect, MailAt, BodyMissing
<1>2. MailTyped'
  BY <1>1 DEF MailInv, MailTyped, StageTyped, Stages
<1>3. \A m \in new \cup fetched : m \in Mail /\ stage[m] # "given_up"
  BY <1>1 DEF MailAt, BodyMissing
<1>4. TriesLeft'
  BY <1>1, <1>3 DEF MailInv, TriesLeft
<1> QED BY <1>2, <1>4 DEF MailInv

\* A step that leaves the attempts alone, and only changes mail that is not given up.
LEMMA TriesKept ==
    ASSUME MailInv, StageTyped', tries' = tries, unembedded' \in SUBSET Mail,
           \A m \in Mail : stage[m] = "given_up" => stage'[m] = "given_up"
    PROVE  MailInv'
BY DEF MailInv, MailTyped, TriesLeft

LEMMA AnalyzeTypes ==
    ASSUME MailInv, RunAnalyze, StageTyped'
    PROVE  MailInv'
<1>1. PICK reached \in SUBSET MailAt({"ready"}), failed \in SUBSET MailAt({"ready"}),
           toLocate \in SUBSET Mail, never \in SUBSET Mail :
        /\ stage' = Analyzed(reached, failed, toLocate, never)
        /\ toLocate \subseteq reached \ failed /\ never \subseteq toLocate
        /\ tries' = [m \in Mail |-> IF m \in failed THEN tries[m] + 1 ELSE tries[m]]
        /\ unembedded' = unembedded
  BY DEF RunAnalyze, MailAt
<1>2. ASSUME NEW m \in Mail
      PROVE  /\ tries'[m] \in 0 .. MaxAnalysisAttempts
             /\ stage'[m] # "given_up" => tries'[m] < MaxAnalysisAttempts
  <2>1. CASE m \in failed
    <3>1. stage[m] = "ready" /\ tries[m] \in Nat /\ tries[m] < MaxAnalysisAttempts
          /\ tries'[m] = tries[m] + 1
          /\ stage'[m] = IF tries[m] + 1 >= MaxAnalysisAttempts THEN "given_up" ELSE "backoff"
      BY <1>1, <2>1 DEF MailAt, MailInv, MailTyped, TriesLeft, Analyzed, AfterFailedAnalysis
    <3> QED BY <3>1, AnalysisAssumption
  <2>2. CASE m \notin failed
    <3>1. tries'[m] = tries[m] /\ tries[m] \in 0 .. MaxAnalysisAttempts
      BY <1>1, <2>2 DEF MailInv, MailTyped
    <3>2. stage[m] = "given_up" => m \notin reached
      BY <1>1 DEF MailAt
    <3>3. m \notin reached => stage'[m] = stage[m]
      BY <1>1, <2>2 DEF Analyzed
    <3> QED BY <3>1, <3>2, <3>3 DEF MailInv, TriesLeft
  <2> QED BY <2>1, <2>2
<1>3. tries' \in [Mail -> 0 .. MaxAnalysisAttempts]
  BY <1>1, <1>2
<1> QED BY <1>1, <1>2, <1>3 DEF MailInv, MailTyped, TriesLeft

LEMMA PassTypes ==
    ASSUME MailInv, Execute
    PROVE  MailInv'
<1>1. StageTyped'
  BY PassMoves DEF MailInv, MailTyped
<1>2. ASSUME UNCHANGED <<stage, tries>>, unembedded' \subseteq unembedded PROVE MailInv'
  BY <1>2 DEF MailInv, MailTyped, StageTyped, TriesLeft
<1>3. CASE RunSync
  BY <1>3, SyncTyped DEF RunSync
<1>4. CASE RunBodySync
  <2>1. PICK fetched \in SUBSET BodyMissing :
          stage' = Becomes(fetched, "ready") /\ unembedded' = unembedded \cup fetched
    BY <1>4 DEF RunBodySync
  <2>2. \A m \in fetched : m \in Mail /\ stage[m] = "bodyless"
    BY DEF BodyMissing, MailAt
  <2>3. tries' = tries
    BY <1>4 DEF RunBodySync
  <2>4. \A m \in Mail : stage[m] = "given_up" => stage'[m] = "given_up"
    BY <2>1, <2>2 DEF Becomes
  <2> QED BY <1>1, <2>1, <2>2, <2>3, <2>4, TriesKept DEF MailInv, MailTyped
<1>5. CASE RunAnalyze
  BY <1>1, <1>5, AnalyzeTypes
<1>6. CASE RunEmbed
  BY <1>2, <1>6 DEF RunEmbed
<1>7. CASE RunLocate
  <2>1. PICK located \in SUBSET ToLocate : \E inPlace \in SUBSET located :
          stage' = [m \in Mail |-> IF m \in inPlace THEN "settled"
                                   ELSE IF m \in located THEN "unfiled" ELSE stage[m]]
    BY <1>7 DEF RunLocate
  <2>2. \A m \in located : stage[m] = "unlocated"
    BY <2>1 DEF ToLocate, MailAt
  <2>3. \A m \in Mail : stage[m] = "given_up" => stage'[m] = "given_up"
    BY <2>1, <2>2
  <2>4. UNCHANGED <<tries, unembedded>>
    BY <1>7 DEF RunLocate
  <2> QED BY <1>1, <2>3, <2>4, TriesKept DEF MailInv, MailTyped
<1>8. CASE RunFileApply
  <2>1. PICK moved \in SUBSET FilingPending : stage' = Becomes(moved, "settled")
    BY <1>8 DEF RunFileApply
  <2>2. \A m \in moved : stage[m] = "unfiled"
    BY <2>1 DEF FilingPending, MailAt
  <2>3. \A m \in Mail : stage[m] = "given_up" => stage'[m] = "given_up"
    BY <2>1, <2>2 DEF Becomes
  <2>4. UNCHANGED <<tries, unembedded>>
    BY <1>8 DEF RunFileApply
  <2> QED BY <1>1, <2>3, <2>4, TriesKept DEF MailInv, MailTyped
<1>9. CASE RunFilePreview \/ RunHeartbeat
  BY <1>2, <1>9 DEF RunFilePreview, RunHeartbeat, mailVars
<1> QED BY <1>3, <1>4, <1>5, <1>6, <1>7, <1>8, <1>9 DEF Execute

LEMMA MailTypedStep ==
    ASSUME MailInv, [Next]_vars
    PROVE  MailInv'
<1>1. ASSUME UNCHANGED mailVars PROVE MailInv'
  BY <1>1 DEF mailVars, MailInv, MailTyped, StageTyped, TriesLeft
<1>2. CASE Boot \/ BackgroundStart \/ Crash \/ UNCHANGED vars
  BY <1>1, <1>2 DEF Boot, BackgroundStart, Crash, vars
<1>3. ASSUME NEW p \in {"core", "background"}, Enqueue(p) PROVE MailInv'
  BY <1>1, <1>3 DEF Enqueue, EnqueueSkips, EnqueueChecked, EnqueueInserts
<1>4. CASE Execute
  BY <1>4, PassTypes
<1>5. CASE PlanDone \/ Claim \/ Sleep \/ Wake \/ MarkDone \/ FollowUp \/ MarkRetryOrDead
  BY <1>1, <1>5 DEF PlanDone, Claim, Sleep, Wake, MarkDone, FollowUp, MarkRetryOrDead
<1>6. CASE BackgroundRun
  BY <1>6, SyncTyped DEF BackgroundRun
<1>7. CASE BackgroundFollowUp \/ BackgroundDone
  BY <1>1, <1>7 DEF BackgroundFollowUp, BackgroundDone
<1>8. ASSUME NEW m \in Mail, BackoffExpires(m) PROVE MailInv'
  <2>1. StageTyped' /\ \A o \in Mail : stage[o] = "given_up" => stage'[o] = "given_up"
    BY <1>8 DEF BackoffExpires, MailInv, MailTyped, StageTyped, Stages
  <2> QED BY <1>8, <2>1, TriesKept DEF BackoffExpires, MailInv, MailTyped
<1>9. CASE (\E id \in RowIds : RetryDue(id)) \/ HeartbeatAges
  BY <1>1, <1>9 DEF RetryDue, HeartbeatAges
<1> QED BY <1>2, <1>3, <1>4, <1>5, <1>6, <1>7, <1>8, <1>9
        DEF Next, Coordinator, BackgroundLoop, Time

------------------------------------------------------------------------------
(* The plans are typed. *)

LEMMA IfTyped ==
    ASSUME NEW S, NEW condition, NEW entry, condition => entry \in S
    PROVE  If(condition, entry) \in Seq(S)
BY DEF If

LEMMA ConcatTyped == \A S : \A s, t \in Seq(S) : s \o t \in Seq(S)
BY ConcatProperties

\* The entries of all plans.
LEMMA PlannedRows ==
    /\ {<<"sync_full", "bootstrap">>, <<"sync_full", "periodic">>,
        <<"sync_incremental", "periodic">>, <<"sync_body", "body-backlog">>,
        <<"sync_body", "periodic">>, <<"analyze", "pipeline">>, <<"analyze", "periodic">>,
        <<"embed", "pipeline">>, <<"locate", "pipeline">>, <<"locate", "periodic">>,
        <<"file_preview", "pipeline">>, <<"file_apply", "pipeline">>,
        <<"file_apply", "periodic">>, HeartbeatRow} \subseteq RowIds
    /\ \A type \in {"sync_full", "sync_body", "analyze", "locate"} : <<type, "agent">> \in RowIds
BY DEF RowIds, HeartbeatRow

LEMMA SeedPlanTyped == \A backfill : SeedPlan(backfill) \in Seq(RowIds)
<1> TAKE backfill
<1>1. <<IF backfill THEN <<"sync_full", "bootstrap">> ELSE <<"sync_incremental", "periodic">>>>
      \in Seq(RowIds)
  BY PlannedRows
<1>2. If(BodyMissing # {}, <<"sync_body", "body-backlog">>) \in Seq(RowIds)
  BY PlannedRows, IfTyped
<1>3. If(HeartbeatEnabled, HeartbeatRow) \in Seq(RowIds)
  BY PlannedRows, IfTyped
<1> QED BY <1>1, <1>2, <1>3, ConcatTyped DEF SeedPlan

LEMMA IdlePlanTyped == \A backfill : IdlePlan(backfill) \in Seq(RowIds)
<1> TAKE backfill
<1>1. <<IF backfill THEN <<"sync_full", "periodic">> ELSE <<"sync_incremental", "periodic">>>>
      \in Seq(RowIds)
  BY PlannedRows
<1>2. If(BodyMissing # {}, <<"sync_body", "periodic">>) \in Seq(RowIds)
  BY PlannedRows, IfTyped
<1>3. If(AnalysisMissing # {}, <<"analyze", "periodic">>) \in Seq(RowIds)
  BY PlannedRows, IfTyped
<1>4. If(LocationMissing # {}, <<"locate", "periodic">>) \in Seq(RowIds)
  BY PlannedRows, IfTyped
<1>5. If(fileApply /\ FilingPending # {}, <<"file_apply", "periodic">>) \in Seq(RowIds)
  BY PlannedRows, IfTyped
<1>6. If(HeartbeatEnabled, HeartbeatRow) \in Seq(RowIds)
  BY PlannedRows, IfTyped
<1> QED BY <1>1, <1>2, <1>3, <1>4, <1>5, <1>6, ConcatTyped DEF IdlePlan

LEMMA NextStagesTyped == \A type : NextStages(type) \in Seq(RowIds)
<1> TAKE type
<1>1. <<>> \in Seq(RowIds) /\ <<<<"embed", "pipeline">>>> \in Seq(RowIds)
  BY PlannedRows
<1>2. If(AnalysisMissing # {}, <<"analyze", "pipeline">>) \in Seq(RowIds)
  BY PlannedRows, IfTyped
<1>3. If(LocationMissing # {}, <<"locate", "pipeline">>) \in Seq(RowIds)
  BY PlannedRows, IfTyped
<1>4. If(FilingPending # {}, <<"file_preview", "pipeline">>) \in Seq(RowIds)
  BY PlannedRows, IfTyped
<1>5. If(fileApply /\ FilingPending # {}, <<"file_apply", "pipeline">>) \in Seq(RowIds)
  BY PlannedRows, IfTyped
<1>6. <<<<"embed", "pipeline">>>> \o If(LocationMissing # {}, <<"locate", "pipeline">>)
      \in Seq(RowIds)
  BY <1>1, <1>3, ConcatTyped
<1> QED BY <1>1, <1>2, <1>3, <1>4, <1>5, <1>6, Zenon DEF NextStages

LEMMA FollowUpPlanTyped == \A type : FollowUpPlan(type) \in Seq(RowIds)
<1> TAKE type
<1> DEFINE next == NextStages(type)
           Unnamed(id) == id \notin ToSet(next)
<1>1. If(AnalysisMissing # {} /\ Unnamed(<<"analyze", "pipeline">>), <<"analyze", "pipeline">>)
      \in Seq(RowIds)
  BY PlannedRows, IfTyped
<1>2. If(LocationMissing # {} /\ Unnamed(<<"locate", "pipeline">>), <<"locate", "pipeline">>)
      \in Seq(RowIds)
  BY PlannedRows, IfTyped
<1> QED BY <1>1, <1>2, NextStagesTyped, ConcatTyped DEF FollowUpPlan

LEMMA TailTyped == \A S : \A s \in Seq(S) : s # <<>> => Tail(s) \in Seq(S) /\ Head(s) \in S
BY HeadTailProperties

LEMMA PlansTypedStep ==
    ASSUME PlansTyped, [Next]_vars
    PROVE  PlansTyped'
<1>1. ASSUME UNCHANGED planVars PROVE PlansTyped'
  BY <1>1 DEF planVars, PlansTyped
<1>2. ASSUME NEW p \in Processes, NEW entries \in Seq(RowIds), SetPlan(p, entries),
             checked' = checked
      PROVE  PlansTyped'
  BY <1>2 DEF SetPlan, PlansTyped
<1>3. ASSUME NEW p \in Processes, Enqueue(p) PROVE PlansTyped'
  <2>1. plan[p] # <<>> /\ plan[p] \in Seq(RowIds)
    BY <1>3 DEF Enqueue, EnqueueSkips, EnqueueChecked, EnqueueInserts, PlansTyped
  <2>2. Tail(plan[p]) \in Seq(RowIds)
    BY <2>1, TailTyped
  <2>3. /\ plan' = plan \/ plan' = [plan EXCEPT ![p] = Tail(@)]
        /\ \/ checked' = checked \/ checked' = [checked EXCEPT ![p] = TRUE]
           \/ checked' = [checked EXCEPT ![p] = FALSE]
    BY <1>3 DEF Enqueue, EnqueueSkips, EnqueueChecked, EnqueueInserts, HeadDone
  <2>4. plan' \in [Processes -> Seq(RowIds)]
    BY <2>2, <2>3 DEF PlansTyped
  <2>5. checked' \in [Processes -> BOOLEAN]
    BY <2>3 DEF PlansTyped
  <2> QED BY <2>4, <2>5 DEF PlansTyped
<1>4. "core" \in Processes /\ "background" \in Processes
  BY DEF Processes
<1>5. CASE Boot
  <2>1. PICK backfill : SetPlan("core", SeedPlan(backfill))
    BY <1>5 DEF Boot
  <2> QED BY <1>2, <1>4, <1>5, <2>1, SeedPlanTyped DEF Boot
<1>6. CASE Wake
  <2>1. PICK backfill : SetPlan("core", IdlePlan(backfill))
    BY <1>6 DEF Wake
  <2> QED BY <1>2, <1>4, <1>6, <2>1, IdlePlanTyped DEF Wake
<1>7. CASE FollowUp
  BY <1>2, <1>4, <1>7, FollowUpPlanTyped DEF FollowUp
<1>8. CASE BackgroundFollowUp
  BY <1>2, <1>4, <1>8, FollowUpPlanTyped DEF BackgroundFollowUp
<1>9. CASE Crash
  BY <1>9 DEF Crash, PlansTyped
<1>10. CASE Execute
  BY <1>1, <1>10 DEF Execute, RunSync, RunBodySync, RunAnalyze, AnalyzeReturns, RunEmbed, RunLocate,
         RunFilePreview, RunFileApply, RunHeartbeat, Returns
<1>11. CASE PlanDone \/ Claim \/ Sleep \/ MarkDone \/ MarkRetryOrDead
  BY <1>1, <1>11 DEF PlanDone, Claim, Sleep, MarkDone, MarkRetryOrDead
<1>12. CASE BackgroundStart \/ BackgroundRun \/ BackgroundDone \/ UNCHANGED vars
  BY <1>1, <1>12 DEF BackgroundStart, BackgroundRun, BackgroundDone, vars
<1>13. CASE Time
  BY <1>1, <1>13 DEF Time, RetryDue, BackoffExpires, HeartbeatAges
<1> QED BY <1>3, <1>4, <1>5, <1>6, <1>7, <1>8, <1>9, <1>10, <1>11, <1>12, <1>13
        DEF Next, Coordinator, BackgroundLoop

------------------------------------------------------------------------------
(* The rows are typed, and the item in execution keeps its row. *)

LEMMA AppendTyped ==
    ASSUME NEW S, NEW q \in Seq(S), IsInjective(q), NEW e \in S, e \notin ToSet(q)
    PROVE  /\ Append(q, e) \in Seq(S) /\ IsInjective(Append(q, e))
           /\ ToSet(Append(q, e)) = ToSet(q) \cup {e}
<1>1. Len(q) \in Nat /\ DOMAIN q = 1 .. Len(q)
  BY LenProperties
<1>2. /\ Append(q, e) \in Seq(S) /\ Len(Append(q, e)) = Len(q) + 1
      /\ \A i \in 1 .. Len(q) : Append(q, e)[i] = q[i]
      /\ Append(q, e)[Len(q) + 1] = e
  BY AppendProperties
<1>3. DOMAIN Append(q, e) = 1 .. Len(q) + 1
  BY <1>2, LenProperties
<1>4. \A i \in 1 .. Len(q) + 1 : i \in 1 .. Len(q) \/ i = Len(q) + 1
  BY <1>1
<1>5. IsInjective(Append(q, e))
  BY <1>1, <1>2, <1>3, <1>4 DEF IsInjective, ToSet
<1>6. ToSet(Append(q, e)) = ToSet(q) \cup {e}
  BY <1>1, <1>2, <1>3, <1>4 DEF ToSet
<1> QED BY <1>2, <1>5, <1>6

LEMMA ConcatRows ==
    ASSUME NEW S, NEW q \in Seq(S), NEW r \in Seq(S), IsInjective(q), IsInjective(r),
           ToSet(q) \cap ToSet(r) = {}
    PROVE  /\ q \o r \in Seq(S) /\ IsInjective(q \o r)
           /\ ToSet(q \o r) \subseteq ToSet(q) \cup ToSet(r)
<1>1. /\ Len(q) \in Nat /\ DOMAIN q = 1 .. Len(q)
      /\ Len(r) \in Nat /\ DOMAIN r = 1 .. Len(r)
  BY LenProperties
<1>2. /\ q \o r \in Seq(S) /\ Len(q \o r) = Len(q) + Len(r)
      /\ \A i \in 1 .. Len(q) + Len(r) : (q \o r)[i] = IF i <= Len(q) THEN q[i] ELSE r[i - Len(q)]
  BY ConcatProperties
<1>3. DOMAIN (q \o r) = 1 .. Len(q) + Len(r)
  BY <1>2, LenProperties
<1> DEFINE c == q \o r
<1> HIDE DEF c
<1>4. \A i \in 1 .. Len(q) + Len(r) :
        \/ i \in 1 .. Len(q) /\ c[i] = q[i]
        \/ i > Len(q) /\ i - Len(q) \in 1 .. Len(r) /\ c[i] = r[i - Len(q)]
  <2> SUFFICES ASSUME NEW i \in 1 .. Len(q) + Len(r)
               PROVE  \/ i \in 1 .. Len(q) /\ c[i] = q[i]
                      \/ i > Len(q) /\ i - Len(q) \in 1 .. Len(r) /\ c[i] = r[i - Len(q)]
    OBVIOUS
  <2>1. CASE i <= Len(q)
    BY <2>1, <1>1, <1>2 DEF c
  <2>2. CASE ~(i <= Len(q))
    <3>1. c[i] = r[i - Len(q)]
      BY <2>2, <1>2 DEF c
    <3>2. i > Len(q) /\ i - Len(q) \in 1 .. Len(r)
      BY <2>2, <1>1
    <3> QED BY <3>1, <3>2
  <2> QED BY <2>1, <2>2
<1>5. IsInjective(c)
  <2> SUFFICES ASSUME NEW i \in 1 .. Len(q) + Len(r), NEW j \in 1 .. Len(q) + Len(r), c[i] = c[j]
               PROVE  i = j
    BY <1>3 DEF IsInjective, c
  <2>1. \A a \in 1 .. Len(q), b \in 1 .. Len(r) : q[a] # r[b]
    BY <1>1 DEF ToSet
  <2>2. CASE i \in 1 .. Len(q) /\ c[i] = q[i] /\ j \in 1 .. Len(q) /\ c[j] = q[j]
    BY <2>2, <1>1 DEF IsInjective
  <2>3. CASE /\ i > Len(q) /\ i - Len(q) \in 1 .. Len(r) /\ c[i] = r[i - Len(q)]
             /\ j > Len(q) /\ j - Len(q) \in 1 .. Len(r) /\ c[j] = r[j - Len(q)]
    <3>1. i - Len(q) = j - Len(q)
      BY <2>3, <1>1 DEF IsInjective
    <3> QED BY <3>1, <1>1
  <2> QED BY <1>4, <2>1, <2>2, <2>3
<1>6. ToSet(c) \subseteq ToSet(q) \cup ToSet(r)
  BY <1>1, <1>3, <1>4 DEF ToSet, c
<1> QED BY <1>2, <1>5, <1>6 DEF c

LEMMA QueueUnchanged ==
    ASSUME QueueTyped, UNCHANGED <<rows, queue>>
    PROVE  QueueTyped'
BY DEF QueueTyped, RowsTyped

LEMMA HeldUnchanged ==
    ASSUME DoingHeld, UNCHANGED <<rows, core, doing>>
    PROVE  DoingHeld'
BY DEF DoingHeld

\* A row that becomes something else without being due.
LEMMA RowChanges ==
    ASSUME QueueTyped, queue' = queue, NEW id \in RowIds, id \notin ToSet(queue),
           NEW row \in [status : Statuses, attempt : Nat],
           rows' = [rows EXCEPT ![id] = row]
    PROVE  QueueTyped'
<1>1. RowsTyped'
  BY DEF QueueTyped, RowsTyped
<1>2. \A other \in ToSet(queue) : rows'[other] = rows[other]
  BY DEF QueueTyped, RowsTyped
<1> QED BY <1>1, <1>2 DEF QueueTyped

\* The upsert, of the planner and of an agent's gate: a row in execution is not touched.
LEMMA UpsertTyped ==
    ASSUME QueueTyped, NEW id \in RowIds, Upsert(id)
    PROVE  /\ QueueTyped'
           /\ \A other \in RowIds : rows[other].status = "processing" => rows'[other] = rows[other]
<1>1. CASE rows[id].status = "processing"
  BY <1>1, QueueUnchanged DEF Upsert
<1>2. CASE rows[id].status # "processing"
  <2>1. /\ rows' = [rows EXCEPT ![id] = [status |-> "pending", attempt |-> 0]]
        /\ queue' = Append(RemoveFirst(queue, id), id)
    BY <1>2 DEF Upsert
  <2>2. RowsTyped'
    BY <2>1 DEF QueueTyped, RowsTyped, Statuses
  <2>3. /\ RemoveFirst(queue, id) \in Seq(RowIds) /\ IsInjective(RemoveFirst(queue, id))
        /\ ToSet(RemoveFirst(queue, id)) = ToSet(queue) \ {id}
    BY RemoveFirstProperties DEF QueueTyped
  <2>4. queue' \in Seq(RowIds) /\ IsInjective(queue') /\ ToSet(queue') = (ToSet(queue) \ {id}) \cup {id}
    BY <2>1, <2>3, AppendTyped
  <2>5. \A other \in RowIds : other # id => rows'[other] = rows[other]
    BY <2>1 DEF QueueTyped, RowsTyped
  <2>6. rows'[id].status = "pending"
    BY <2>1 DEF QueueTyped, RowsTyped
  <2>7. ToSet(queue) \subseteq RowIds
    BY LenProperties DEF QueueTyped, ToSet
  <2>8. \A other \in ToSet(queue') : rows'[other].status \in {"pending", "failed"}
    BY <2>4, <2>5, <2>6, <2>7 DEF QueueTyped
  <2> QED BY <1>2, <2>2, <2>4, <2>5, <2>8 DEF QueueTyped
<1> QED BY <1>1, <1>2

LEMMA BootRows ==
    ASSUME RowsInv, Boot
    PROVE  QueueTyped'
<1> DEFINE orphans == {id \in RowIds : rows[id].status = "processing"}
<1>1. /\ rows' = [id \in RowIds |-> IF id \in orphans
                     THEN [rows[id] EXCEPT !.status = "failed"] ELSE rows[id]]
      /\ \E recovered \in SetToSeqs(orphans) : queue' = queue \o recovered
  BY DEF Boot
<1>2. PICK recovered \in SetToSeqs(orphans) : queue' = queue \o recovered
  BY <1>1
<1>3. IsFiniteSet(orphans) /\ Cardinality(orphans) \in Nat
  BY RowIdsFinite, FS_Subset, FS_CardinalityType
<1> HIDE DEF orphans
<1>4. /\ recovered \in [1 .. Cardinality(orphans) -> orphans]
      /\ \A i, j \in 1 .. Cardinality(orphans) : i # j => recovered[i] # recovered[j]
  BY <1>2 DEF SetToSeqs
<1>5. recovered \in Seq(orphans) /\ IsInjective(recovered) /\ ToSet(recovered) \subseteq orphans
  BY <1>3, <1>4, SeqDef DEF IsInjective, ToSet
<1>6. orphans \subseteq RowIds
  BY DEF orphans
<1>7. recovered \in Seq(RowIds)
  BY <1>5, <1>6, SeqMonotonic
<1>8. ToSet(queue) \cap ToSet(recovered) = {}
  BY <1>5 DEF RowsInv, QueueTyped, orphans
<1>9. /\ queue' \in Seq(RowIds) /\ IsInjective(queue')
      /\ ToSet(queue') \subseteq ToSet(queue) \cup ToSet(recovered)
  BY <1>2, <1>5, <1>7, <1>8, ConcatRows DEF RowsInv, QueueTyped
<1>10. RowsTyped'
  BY <1>1 DEF RowsInv, QueueTyped, RowsTyped, Statuses
<1>11. ToSet(queue) \subseteq RowIds
  BY LenProperties DEF RowsInv, QueueTyped, ToSet
<1>12. \A id \in RowIds : /\ id \in orphans => rows'[id].status = "failed"
                          /\ id \notin orphans => rows'[id] = rows[id]
  BY <1>1 DEF RowsInv, QueueTyped, RowsTyped
<1>13. \A id \in ToSet(queue') : rows'[id].status \in {"pending", "failed"}
  BY <1>5, <1>6, <1>9, <1>11, <1>12 DEF RowsInv, QueueTyped, orphans
<1> QED BY <1>9, <1>10, <1>13 DEF QueueTyped

LEMMA ClaimRows ==
    ASSUME RowsInv, Claim
    PROVE  RowsInv'
<1>1. PICK id \in ToSet(queue) :
        /\ doing' = id
        /\ rows' = [rows EXCEPT ![id] = [status |-> "processing", attempt |-> @.attempt + 1]]
        /\ queue' = RemoveFirst(queue, id)
  BY DEF Claim
<1>2. id \in RowIds /\ ToSet(queue) \subseteq RowIds
  BY LenProperties DEF RowsInv, QueueTyped, ToSet
<1>3. rows[id].attempt + 1 \in Nat
  BY <1>2 DEF RowsInv, QueueTyped, RowsTyped
<1>4. RowsTyped'
  BY <1>1, <1>3 DEF RowsInv, QueueTyped, RowsTyped, Statuses
<1>5. /\ queue' \in Seq(RowIds) /\ IsInjective(queue')
      /\ ToSet(queue') = ToSet(queue) \ {id}
  BY <1>1, RemoveFirstProperties DEF RowsInv, QueueTyped
<1>6. \A other \in ToSet(queue') : rows'[other] = rows[other]
  BY <1>1, <1>2, <1>5 DEF RowsInv, QueueTyped, RowsTyped
<1>7. QueueTyped'
  BY <1>4, <1>5, <1>6 DEF RowsInv, QueueTyped
<1>8. rows'[id].status = "processing"
  BY <1>1, <1>2 DEF RowsInv, QueueTyped, RowsTyped
<1>9. UNCHANGED <<heartbeatRecent, result, background, fileApply, faults>> /\ core' = "executing"
  BY DEF Claim, planVars
<1>10. ControlTyped'
  BY <1>1, <1>2, <1>9 DEF RowsInv, ControlTyped, CorePhases
<1> QED BY <1>1, <1>2, <1>7, <1>8, <1>9, <1>10 DEF RowsInv, DoingHeld

LEMMA OutcomeRows ==
    ASSUME RowsInv, MarkDone \/ MarkRetryOrDead
    PROVE  RowsInv'
<1>1. core = "marking" /\ doing \in RowIds /\ doing \notin ToSet(queue) /\ queue' = queue
  BY DEF MarkDone, MarkRetryOrDead, RowsInv, DoingHeld, QueueTyped
<1>2. PICK row \in [status : Statuses, attempt : Nat] : rows' = [rows EXCEPT ![doing] = row]
  <2>1. CASE MarkDone
    BY <2>1 DEF MarkDone, Statuses
  <2>2. CASE MarkRetryOrDead
    <3>1. rows[doing] \in [status : Statuses, attempt : Nat]
      BY <1>1 DEF RowsInv, QueueTyped, RowsTyped
    <3>2. [rows[doing] EXCEPT !.status = "failed"] \in [status : Statuses, attempt : Nat]
      BY <3>1 DEF Statuses
    <3>3. [status |-> "inactive", attempt |-> 0] \in [status : Statuses, attempt : Nat]
      BY DEF Statuses
    <3>4. \E row \in {[status |-> "inactive", attempt |-> 0], [rows[doing] EXCEPT !.status = "failed"]} :
            rows' = [rows EXCEPT ![doing] = row]
      BY <2>2, <1>1 DEF MarkRetryOrDead, RowsInv, QueueTyped, RowsTyped
    <3> QED BY <3>2, <3>3, <3>4
  <2> QED BY <2>1, <2>2
<1>3. QueueTyped'
  BY <1>1, <1>2, RowChanges DEF RowsInv
<1>4. ControlTyped'
  BY DEF MarkDone, MarkRetryOrDead, RowsInv, ControlTyped, CorePhases
<1>5. DoingHeld'
  BY <1>1 DEF MarkDone, MarkRetryOrDead, DoingHeld
<1> QED BY <1>3, <1>4, <1>5 DEF RowsInv

\* A step that leaves the rows alone and executes what was executed.
LEMMA RowsKept ==
    ASSUME RowsInv, UNCHANGED <<rows, queue>>, ControlTyped',
           \/ core' = core /\ doing' = doing
           \/ core' \notin {"executing", "marking", "marked"}
           \/ core = "executing" /\ core' = "marking" /\ doing' = doing
    PROVE  RowsInv'
BY QueueUnchanged DEF RowsInv, DoingHeld

LEMMA FaultTyped ==
    ASSUME faults \in 0 .. FaultBudget, Fault \/ NoFault
    PROVE  faults' \in 0 .. FaultBudget
BY BudgetAssumption DEF Fault, NoFault

LEMMA EnqueueRows ==
    ASSUME RowsInv, PlansTyped, NEW p \in Processes, Enqueue(p)
    PROVE  RowsInv'
<1>1. CASE EnqueueSkips(p)
  BY <1>1, RowsKept DEF EnqueueSkips, queueVars, coreVars, RowsInv, ControlTyped
<1>2. CASE EnqueueChecked(p)
  BY <1>2, RowsKept DEF EnqueueChecked, queueVars, coreVars, RowsInv, ControlTyped
<1>3. CASE EnqueueInserts(p)
  <2>1. Head(plan[p]) \in RowIds
    BY <1>3, TailTyped DEF EnqueueInserts, PlansTyped
  <2>2. /\ QueueTyped'
        /\ \A id \in RowIds : rows[id].status = "processing" => rows'[id] = rows[id]
    BY <1>3, <2>1, UpsertTyped DEF EnqueueInserts, RowsInv
  <2>3. DoingHeld' /\ UNCHANGED <<core, doing, result, background, fileApply, faults>>
    BY <1>3, <2>2 DEF EnqueueInserts, coreVars, RowsInv, DoingHeld
  <2>4. heartbeatRecent' \in BOOLEAN
    BY <1>3 DEF EnqueueInserts
  <2>5. ControlTyped'
    BY <2>3, <2>4 DEF RowsInv, ControlTyped
  <2> QED BY <2>2, <2>3, <2>5 DEF RowsInv
<1> QED BY <1>1, <1>2, <1>3 DEF Enqueue

LEMMA ExecuteRows ==
    ASSUME RowsInv, Execute
    PROVE  RowsInv'
<1>1. /\ core = "executing" /\ core' = "marking"
      /\ UNCHANGED <<rows, queue, doing, heartbeatRecent, background, fileApply>>
      /\ result' \in {"ok", "error"} /\ (Fault \/ NoFault)
  BY DEF Execute, RunSync, RunBodySync, RunAnalyze, AnalyzeReturns, RunEmbed, RunLocate,
         RunFilePreview, RunFileApply, RunHeartbeat, Running, Returns, queueVars
<1>2. ControlTyped'
  BY <1>1, FaultTyped DEF RowsInv, ControlTyped, CorePhases
<1> QED BY <1>1, <1>2, RowsKept

LEMMA RetryDueRows ==
    ASSUME RowsInv, NEW id \in RowIds, RetryDue(id)
    PROVE  RowsInv'
<1>1. /\ rows[id].status = "failed" /\ id \notin ToSet(queue) /\ queue' = Append(queue, id)
      /\ UNCHANGED <<rows, heartbeatRecent, core, doing, result, background, fileApply, faults>>
  BY DEF RetryDue, coreVars
<1>2. queue' \in Seq(RowIds) /\ IsInjective(queue') /\ ToSet(queue') = ToSet(queue) \cup {id}
  BY <1>1, AppendTyped DEF RowsInv, QueueTyped
<1>3. QueueTyped'
  BY <1>1, <1>2 DEF RowsInv, QueueTyped, RowsTyped
<1> QED BY <1>1, <1>3 DEF RowsInv, ControlTyped, DoingHeld

LEMMA RowsStep ==
    ASSUME RowsInv, PlansTyped, [Next]_vars
    PROVE  RowsInv'
<1>1. CASE Boot
  <2>1. UNCHANGED <<heartbeatRecent, doing, result, background, faults>> /\ core' = "seeding"
        /\ fileApply' \in BOOLEAN
    BY <1>1, ApplyAssumption DEF Boot
  <2>2. ControlTyped' /\ DoingHeld'
    BY <2>1 DEF RowsInv, ControlTyped, CorePhases, DoingHeld
  <2> QED BY <1>1, <2>2, BootRows DEF RowsInv
<1>2. ASSUME NEW p \in {"core", "background"}, Enqueue(p) PROVE RowsInv'
  BY <1>2, EnqueueRows DEF Processes
<1>3. CASE Claim
  BY <1>3, ClaimRows
<1>4. CASE Execute
  BY <1>4, ExecuteRows
<1>5. CASE MarkDone \/ MarkRetryOrDead
  BY <1>5, OutcomeRows
<1>6. CASE PlanDone \/ Sleep \/ Wake \/ FollowUp
  <2>1. UNCHANGED <<rows, queue, heartbeatRecent, result, fileApply, faults>>
        /\ doing' \in {doing, NoRow} /\ core' \in {"looping", "asleep", "planning"}
        /\ background' \in {background, "waiting"}
    BY <1>6 DEF PlanDone, Sleep, Wake, FollowUp, queueVars
  <2>2. ControlTyped'
    BY <2>1 DEF RowsInv, ControlTyped, CorePhases
  <2> QED BY <2>1, <2>2, RowsKept
<1>7. CASE BackgroundStart \/ BackgroundRun \/ BackgroundFollowUp \/ BackgroundDone
  <2>1. UNCHANGED <<rows, queue, heartbeatRecent, core, doing, result, fileApply>>
        /\ background' \in {"waiting", "syncing", "synced", "planning"}
        /\ (Fault \/ NoFault)
    BY <1>7 DEF BackgroundStart, BackgroundRun, BackgroundFollowUp, BackgroundDone, queueVars,
                coreVars, NoFault
  <2>2. ControlTyped'
    BY <2>1, FaultTyped DEF RowsInv, ControlTyped
  <2> QED BY <2>1, <2>2, RowsKept
<1>8. ASSUME NEW id \in RowIds, RetryDue(id) PROVE RowsInv'
  BY <1>8, RetryDueRows
<1>9. CASE (\E m \in Mail : BackoffExpires(m)) \/ HeartbeatAges \/ UNCHANGED vars
  <2>1. UNCHANGED <<rows, queue, core, doing, result, background, fileApply, faults>>
        /\ heartbeatRecent' \in {heartbeatRecent, FALSE}
    BY <1>9 DEF BackoffExpires, HeartbeatAges, vars, queueVars, coreVars
  <2>2. ControlTyped'
    BY <2>1 DEF RowsInv, ControlTyped
  <2> QED BY <2>1, <2>2, RowsKept
<1>10. CASE Crash
  <2>1. UNCHANGED <<rows, queue, heartbeatRecent, fileApply>>
        /\ core' = "down" /\ doing' = NoRow /\ result' = "none" /\ background' = "off" /\ Fault
    BY <1>10 DEF Crash, queueVars
  <2>2. ControlTyped'
    BY <2>1, FaultTyped DEF RowsInv, ControlTyped, CorePhases
  <2> QED BY <2>1, <2>2, RowsKept
<1> QED BY <1>1, <1>2, <1>3, <1>4, <1>5, <1>6, <1>7, <1>8, <1>9, <1>10
        DEF Next, Coordinator, BackgroundLoop, Time

LEMMA TypeStep ==
    ASSUME TypeInv, [Next]_vars
    PROVE  TypeInv'
BY MailTypedStep, RowsStep, PlansTypedStep DEF TypeInv

\* Through any planning, passes, crashes and background syncs every variable keeps its
\* type: the due rows are distinct and waiting, and no message counts more attempts than
\* it has.
THEOREM Typing == Spec => []TypeOK
<1>1. TypeInv /\ [Next]_vars => TypeInv'
  BY TypeStep
<1> QED BY <1>1, InitTyped, TypeInvTypes, PTL DEF Spec

\* Whatever the background loop enqueues meanwhile, the row in execution stays claimed
\* and is not due again before its outcome is written.
THEOREM ExecutionKeepsItsRow == Spec => []ExecutingRowIsProcessing
<1>1. TypeInv /\ [Next]_vars => TypeInv'
  BY TypeStep
<1>2. TypeInv => ExecutingRowIsProcessing
  BY DEF TypeInv, RowsInv, QueueTyped, DoingHeld, ExecutingRowIsProcessing
<1> QED BY <1>1, <1>2, InitTyped, PTL DEF Spec

------------------------------------------------------------------------------
(* Coalescing. *)

\* What the background loop plans, if it runs, is of the shared types.
SharedRows == {id \in RowIds : TypeOf(id) \in SharedTypes}
Apart ==
    /\ ~BackgroundSync => background = "off"
    /\ plan["background"] \in Seq(SharedRows)
    /\ DOMAIN plan = Processes /\ DOMAIN checked = Processes

\* Only a planning coordinator has a plan, and a check that found nothing is still true
\* when its insert comes: of its type nobody else inserts.
CheckHolds ==
    /\ plan["core"] # <<>> => core \in {"seeding", "planning"}
    /\ checked["core"] =>
        /\ plan["core"] # <<>>
        /\ \/ Head(plan["core"]) = HeartbeatRow
           \/ TypeOf(Head(plan["core"])) \in SharedTypes
           \/ ~Active(TypeOf(Head(plan["core"])))

\* The row in execution is active, so failing it activates nothing.
DoingIsActive ==
    core \in {"executing", "marking"} /\ doing \in RowIds => rows[doing].status = "processing"

IInv == RowsTyped /\ Apart /\ CheckHolds /\ DoingIsActive /\ PlannerCoalesces

LEMMA Initially == Init => IInv
<1>1. Init => plan["background"] = <<>> /\ <<>> \in Seq(SharedRows)
  BY DEF Init, Processes
<1> QED
  BY <1>1 DEF Init, IInv, RowsTyped, Statuses, Apart, CheckHolds, DoingIsActive, PlannerCoalesces,
              Processes

\* Steps that leave the rows and the coordinator's plan alone.
LEMMA QuietStep ==
    ASSUME IInv, UNCHANGED <<rows, plan, checked>>, background' = background \/ BackgroundSync,
           \/ core' = core /\ doing' = doing
           \/ plan["core"] = <<>> /\ core' \notin {"executing", "marking"}
           \/ core = "executing" /\ core' = "marking" /\ doing' = doing
    PROVE  IInv'
BY DEF IInv, RowsTyped, Apart, CheckHolds, DoingIsActive, PlannerCoalesces, Active

\* A step that may deactivate rows, activates none and starts no execution.
LEMMA DeactivatingStep ==
    ASSUME IInv, RowsTyped', Apart', ~checked'["core"],
           core' \notin {"executing", "marking"},
           core' \in {"seeding", "planning"} \/ plan'["core"] = <<>>,
           \A id \in RowIds : rows[id].status = "inactive" => rows'[id].status = "inactive"
    PROVE  IInv'
BY DEF IInv, CheckHolds, DoingIsActive, PlannerCoalesces

\* The heartbeat has one row, whatever key it is asked for with.
LEMMA OneHeartbeat ==
    \A id \in RowIds : TypeOf(id) = "assistant_heartbeat" => id = HeartbeatRow
BY DEF RowIds, TypeOf, HeartbeatRow

LEMMA InsertStep ==
    ASSUME IInv, EnqueueInserts("core")
    PROVE  IInv'
<1> DEFINE id == Head(plan["core"])
<1>1. core \notin {"executing", "marking"} /\ core' = core /\ background' = background
      /\ checked' = [checked EXCEPT !["core"] = FALSE]
      /\ plan' = [plan EXCEPT !["core"] = Tail(@)]
  BY DEF EnqueueInserts, HeadDone, IInv, CheckHolds, coreVars
<1>2. RowsTyped'
  BY DEF EnqueueInserts, Upsert, IInv, RowsTyped, Statuses
<1>3. Apart' /\ CheckHolds' /\ DoingIsActive'
  BY <1>1 DEF IInv, Apart, CheckHolds, DoingIsActive, Processes
<1>4. PlannerCoalesces'
  <2>1. CASE rows' = rows
    BY <2>1 DEF IInv, PlannerCoalesces
  <2>2. CASE rows' = [rows EXCEPT ![id] = [status |-> "pending", attempt |-> 0]]
    <3>1. CASE id = HeartbeatRow
      <4>1. TypeOf(id) = "assistant_heartbeat"
        BY <3>1 DEF HeartbeatRow, TypeOf
      <4>2. \A other \in RowIds : other # id => rows'[other] = rows[other]
        BY <2>2 DEF IInv, RowsTyped
      <4>3. \A other \in RowIds : TypeOf(other) = TypeOf(id) => other = id
        BY <3>1, <4>1, OneHeartbeat
      <4> QED BY <4>2, <4>3 DEF IInv, PlannerCoalesces
    <3>2. CASE TypeOf(id) \in SharedTypes
      <4>1. \A other \in RowIds : TypeOf(other) \notin SharedTypes => rows'[other] = rows[other]
        BY <2>2, <3>2 DEF IInv, RowsTyped
      <4> QED BY <4>1 DEF IInv, PlannerCoalesces
    <3>3. CASE id # HeartbeatRow /\ TypeOf(id) \notin SharedTypes
      <4>1. \A other \in RowIds : TypeOf(other) = TypeOf(id) => rows[other].status = "inactive"
        BY <3>3 DEF IInv, CheckHolds, EnqueueInserts, Active, RowsTyped, Statuses
      <4> QED BY <2>2, <4>1 DEF IInv, PlannerCoalesces, RowsTyped
    <3> QED BY <3>1, <3>2, <3>3
  <2> QED BY <2>1, <2>2 DEF EnqueueInserts, Upsert
<1> QED BY <1>2, <1>3, <1>4 DEF IInv

\* The background loop may insert at any time, of the shared types.
LEMMA BackgroundInsertStep ==
    ASSUME IInv, EnqueueInserts("background")
    PROVE  IInv'
<1> DEFINE id == Head(plan["background"])
<1>1. id \in SharedRows /\ Tail(plan["background"]) \in Seq(SharedRows)
  BY TailTyped DEF EnqueueInserts, IInv, Apart
<1>2. /\ UNCHANGED <<core, doing, background>>
      /\ checked' = [checked EXCEPT !["background"] = FALSE]
      /\ plan' = [plan EXCEPT !["background"] = Tail(@)]
  BY DEF EnqueueInserts, HeadDone, coreVars
<1>3. /\ RowsTyped'
      /\ \A other \in RowIds : TypeOf(other) \notin SharedTypes => rows'[other] = rows[other]
      /\ \A other \in RowIds : rows[other].status = "processing" => rows'[other] = rows[other]
  <2>1. TypeOf(id) \in SharedTypes /\ id \in RowIds
    BY <1>1 DEF SharedRows
  <2> HIDE DEF id
  <2>2. CASE rows' = rows
    BY <2>2 DEF IInv, RowsTyped
  <2>3. CASE /\ rows[id].status # "processing"
             /\ rows' = [rows EXCEPT ![id] = [status |-> "pending", attempt |-> 0]]
    BY <2>1, <2>3 DEF IInv, RowsTyped, Statuses
  <2> QED BY <2>2, <2>3 DEF EnqueueInserts, Upsert, id
<1>4. Apart'
  BY <1>1, <1>2 DEF IInv, Apart, Processes
<1>5. CheckHolds'
  <2>1. plan'["core"] = plan["core"] /\ checked'["core"] = checked["core"]
    BY <1>2 DEF IInv, Apart, Processes
  <2>2. \A type : type \notin SharedTypes => (Active(type)' <=> Active(type))
    BY <1>3 DEF Active
  <2> QED BY <1>2, <2>1, <2>2 DEF IInv, CheckHolds
<1>6. DoingIsActive' /\ PlannerCoalesces'
  BY <1>2, <1>3 DEF IInv, DoingIsActive, PlannerCoalesces
<1> QED BY <1>3, <1>4, <1>5, <1>6 DEF IInv

\* What the background loop plans after a sync.
LEMMA BackgroundPlan ==
    ASSUME BackgroundSync
    PROVE  FollowUpPlan("sync_incremental") \in Seq(SharedRows)
<1> DEFINE next == NextStages("sync_incremental")
           Unnamed(id) == id \notin ToSet(next)
<1>1. <<"analyze", "pipeline">> \in SharedRows /\ <<"locate", "pipeline">> \in SharedRows
  BY DEF SharedRows, SharedTypes, TypeOf, RowIds
<1>2. next \in Seq(SharedRows)
  BY <1>1, IfTyped DEF NextStages, SyncTypes
<1>3. If(AnalysisMissing # {} /\ Unnamed(<<"analyze", "pipeline">>), <<"analyze", "pipeline">>)
      \in Seq(SharedRows)
  BY <1>1, IfTyped
<1>4. If(LocationMissing # {} /\ Unnamed(<<"locate", "pipeline">>), <<"locate", "pipeline">>)
      \in Seq(SharedRows)
  BY <1>1, IfTyped
<1> QED BY <1>2, <1>3, <1>4, ConcatTyped DEF FollowUpPlan

\* The background loop's steps that leave the rows alone.
LEMMA BackgroundStep ==
    ASSUME IInv, UNCHANGED <<rows, core, doing>>,
           background' \in {"waiting", "syncing", "synced", "planning", background},
           BackgroundSync \/ background' = background,
           plan' = plan \/ \E entries \in Seq(SharedRows) :
                                plan' = [plan EXCEPT !["background"] = entries],
           checked' = checked \/ checked' = [checked EXCEPT !["background"] = TRUE]
    PROVE  IInv'
<1>1. plan'["core"] = plan["core"] /\ checked'["core"] = checked["core"] /\ Apart'
  BY DEF IInv, Apart, Processes
<1>2. \A type : Active(type)' <=> Active(type)
  BY DEF Active
<1>3. CheckHolds'
  BY <1>1, <1>2 DEF IInv, CheckHolds
<1> QED BY <1>1, <1>3 DEF IInv, RowsTyped, DoingIsActive, PlannerCoalesces

LEMMA ClaimStep ==
    ASSUME IInv, Claim
    PROVE  IInv'
<1>1. PICK id : /\ doing' = id
                /\ rows[id].status \in {"pending", "failed"}
                /\ rows' = [rows EXCEPT ![id] = [status |-> "processing", attempt |-> @.attempt + 1]]
  BY DEF Claim, First
<1>2. ~checked["core"] /\ plan["core"] = <<>> /\ core' = "executing"
      /\ background' = background /\ plan' = plan /\ checked' = checked
  BY DEF Claim, IInv, CheckHolds, planVars
<1>3. RowsTyped'
  <2>1. CASE id \in RowIds
    <3>1. rows[id].attempt + 1 \in Nat
      BY <2>1 DEF IInv, RowsTyped
    <3> QED BY <1>1, <3>1 DEF IInv, RowsTyped, Statuses
  <2>2. CASE id \notin RowIds
    <3>1. rows' = rows
      BY <1>1, <2>2 DEF IInv, RowsTyped
    <3> QED BY <3>1 DEF IInv, RowsTyped
  <2> QED BY <2>1, <2>2
<1>4. Apart' /\ CheckHolds' /\ DoingIsActive'
  BY <1>1, <1>2 DEF IInv, Apart, CheckHolds, DoingIsActive, RowsTyped
<1>5. PlannerCoalesces'
  BY <1>1 DEF IInv, PlannerCoalesces, RowsTyped
<1> QED BY <1>3, <1>4, <1>5 DEF IInv

LEMMA OutcomeStep ==
    ASSUME IInv, MarkDone \/ MarkRetryOrDead
    PROVE  IInv'
<1>1. ~checked["core"] /\ plan["core"] = <<>> /\ core = "marking" /\ core' \notin {"executing", "marking"}
      /\ background' = background /\ plan' = plan /\ checked' = checked
  BY DEF MarkDone, MarkRetryOrDead, IInv, CheckHolds, planVars
<1>2. \A id \in RowIds : \/ rows'[id].status = "inactive"
                         \/ rows'[id] = rows[id]
                         \/ id = doing
  BY DEF MarkDone, MarkRetryOrDead, IInv, RowsTyped
<1>3. RowsTyped'
  BY DEF MarkDone, MarkRetryOrDead, IInv, RowsTyped, Statuses
<1>4. \A id \in RowIds : rows[id].status = "inactive" => rows'[id].status = "inactive"
  BY <1>1, <1>2 DEF IInv, DoingIsActive
<1> QED BY <1>1, <1>3, <1>4, DeactivatingStep DEF IInv, Apart

LEMMA BootStep ==
    ASSUME IInv, Boot
    PROVE  IInv'
<1>1. ~checked["core"] /\ core' = "seeding" /\ background' = background /\ checked' = checked
      /\ \E entries : plan' = [plan EXCEPT !["core"] = entries]
  BY DEF Boot, SetPlan, IInv, CheckHolds
<1>2. rows' = [id \in RowIds |-> IF rows[id].status = "processing"
                  THEN [rows[id] EXCEPT !.status = "failed"] ELSE rows[id]]
  BY DEF Boot
<1>3. RowsTyped' /\ \A id \in RowIds : rows[id].status = "inactive" => rows'[id].status = "inactive"
  BY <1>2 DEF IInv, RowsTyped, Statuses
<1> QED BY <1>1, <1>3, DeactivatingStep DEF IInv, Apart, Processes

LEMMA PassStep ==
    ASSUME IInv, Execute
    PROVE  IInv'
<1>1. Execute => UNCHANGED <<rows, plan, checked, background>>
                 /\ core = "executing" /\ core' = "marking" /\ doing' = doing
  BY DEF Execute, RunSync, RunBodySync, RunAnalyze, AnalyzeReturns, RunEmbed, RunLocate,
         RunFilePreview, RunFileApply, RunHeartbeat, Running, Returns, queueVars, planVars
<1> QED BY <1>1, QuietStep

LEMMA InvariantStep ==
    ASSUME IInv, [Next]_vars
    PROVE  IInv'
<1>1. CASE Boot BY <1>1, BootStep
<1>2. CASE EnqueueSkips("core")
  BY <1>2 DEF EnqueueSkips, HeadDone, IInv, RowsTyped, Apart, CheckHolds, DoingIsActive,
              PlannerCoalesces, Processes, queueVars, coreVars
<1>3. CASE EnqueueChecked("core")
  <2>1. /\ plan["core"] # <<>> /\ ~Skipped(Head(plan["core"]))
        /\ checked' = [checked EXCEPT !["core"] = TRUE]
        /\ UNCHANGED <<rows, core, doing, background, plan>>
    BY <1>3 DEF EnqueueChecked, queueVars, coreVars
  <2>2. CheckHolds'
    BY <2>1 DEF IInv, CheckHolds, Apart, Skipped, Active, Processes
  <2> QED
    BY <2>1, <2>2 DEF IInv, RowsTyped, Apart, DoingIsActive, PlannerCoalesces, Processes
<1>4. CASE EnqueueInserts("core") BY <1>4, InsertStep
<1>5. CASE PlanDone
  <2>1. UNCHANGED <<rows, plan, checked>> /\ doing' = doing /\ plan["core"] = <<>>
        /\ core' = "looping" /\ (background' = background \/ BackgroundSync)
    BY <1>5 DEF PlanDone, planVars, queueVars
  <2> QED BY <2>1, QuietStep
<1>6. CASE Claim BY <1>6, ClaimStep
<1>7. CASE Sleep
  <2>1. UNCHANGED <<rows, plan, checked, background>>
        /\ plan["core"] = <<>> /\ core' = "asleep"
    BY <1>7 DEF Sleep, IInv, CheckHolds, planVars, queueVars
  <2> QED BY <2>1, QuietStep
<1>8. CASE Wake \/ FollowUp
  <2>1. ~checked["core"] /\ core' = "planning" /\ UNCHANGED <<rows, checked, background>>
        /\ \E entries : plan' = [plan EXCEPT !["core"] = entries]
    BY <1>8 DEF Wake, FollowUp, SetPlan, IInv, CheckHolds, queueVars
  <2> QED BY <2>1, DeactivatingStep DEF IInv, Apart, RowsTyped, Processes
<1>9. CASE Execute BY <1>9, PassStep
<1>10. CASE MarkDone \/ MarkRetryOrDead BY <1>10, OutcomeStep
<1>11. CASE BackgroundStart \/ BackgroundRun \/ BackgroundDone
  <2>1. /\ UNCHANGED <<rows, core, doing, plan, checked>> /\ background # "off"
        /\ background' \in {"waiting", "syncing", "synced", "planning"}
    BY <1>11 DEF BackgroundStart, BackgroundRun, BackgroundDone, queueVars, coreVars, planVars
  <2> QED BY <2>1, BackgroundStep DEF IInv, Apart
<1>12. CASE BackgroundFollowUp
  <2>1. /\ UNCHANGED <<rows, core, doing, checked>>
        /\ background # "off" /\ background' = "planning"
        /\ plan' = [plan EXCEPT !["background"] = FollowUpPlan("sync_incremental")]
    BY <1>12 DEF BackgroundFollowUp, SetPlan, queueVars, coreVars
  <2> QED BY <2>1, BackgroundPlan, BackgroundStep DEF IInv, Apart
<1>16. CASE EnqueueSkips("background")
  <2>1. /\ UNCHANGED <<rows, core, doing, background, checked>>
        /\ plan["background"] # <<>> /\ plan' = [plan EXCEPT !["background"] = Tail(@)]
    BY <1>16 DEF EnqueueSkips, HeadDone, queueVars, coreVars
  <2>2. Tail(plan["background"]) \in Seq(SharedRows)
    BY <2>1, TailTyped DEF IInv, Apart
  <2>3. plan' = [plan EXCEPT !["background"] = Tail(plan["background"])]
    BY <2>1
  <2> QED BY <2>1, <2>2, <2>3, BackgroundStep
<1>17. CASE EnqueueChecked("background")
  BY <1>17, BackgroundStep DEF EnqueueChecked, queueVars, coreVars
<1>18. CASE EnqueueInserts("background")
  BY <1>18, BackgroundInsertStep
<1>13. CASE Time
  <2>1. UNCHANGED <<rows, plan, checked, background>> /\ core' = core /\ doing' = doing
    BY <1>13 DEF Time, RetryDue, BackoffExpires, HeartbeatAges, queueVars, coreVars, planVars
  <2> QED BY <2>1, QuietStep
<1>14. CASE Crash
  <2>1. plan' = [p \in Processes |-> <<>>] /\ checked' = [p \in Processes |-> FALSE]
        /\ core' = "down" /\ background' = "off" /\ rows' = rows
    BY <1>14 DEF Crash, queueVars
  <2> QED BY <2>1, DeactivatingStep DEF IInv, Apart, RowsTyped, Processes
<1>15. CASE UNCHANGED vars
  <2>1. UNCHANGED <<rows, plan, checked, background>> /\ core' = core /\ doing' = doing
    BY <1>15 DEF vars, queueVars, coreVars, planVars
  <2> QED BY <2>1, QuietStep
<1> QED
  BY <1>1, <1>2, <1>3, <1>4, <1>5, <1>6, <1>7, <1>8, <1>9, <1>10, <1>11, <1>12, <1>13, <1>14,
     <1>15, <1>16, <1>17, <1>18 DEF Next, Coordinator, BackgroundLoop, Enqueue

\* With the background loop or without, its inserts falling between any check and
\* insert of the coordinator, through any crashes, failures and restarts: of every work
\* type that the coordinator alone plans one row at most is active.
THEOREM Coalescing == Spec => []PlannerCoalesces
<1>1. IInv /\ [Next]_vars => IInv'
  BY InvariantStep
<1>2. IInv => PlannerCoalesces
  BY DEF IInv
<1> QED BY <1>1, <1>2, Initially, PTL DEF Spec
==============================================================================
